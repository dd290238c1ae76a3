----------------------------- MODULE McpSession -----------------------------
(***************************************************************************)
(* The children of one extension run: the plugin, process 0, which         *)
(* NodeProcessRunner runs, and an MCP server behind each McpSession        *)
(* (session.ts), with the requests the plugin sends to the servers through *)
(* the Unix sockets of startMcpUnixBridge.                                 *)
(*                                                                         *)
(* A child that has exited is closed once no descendant holds its pipes.   *)
(* A server may answer a request that it has received at any time, more    *)
(* than once, or never.                                                    *)
(***************************************************************************)
EXTENDS Integers, FiniteSets

CONSTANTS
  Profiles,          \* MCP profiles selected by the lease: servers 1..Profiles
  MaxCalls           \* bound: requests the plugin sends

ASSUME McpSessionAssumption ==
  Profiles \in Nat /\ MaxCalls \in Nat

VARIABLES
  child,             \* the process: "none", "alive", "exited" or "closed"
  told,              \* the strongest signal its group was sent
  capable,           \* sessions whose server was initialized
  bridge,            \* the socket of each session
  calls, nextId      \* requests of the plugin, and #nextRequestId of each session

processVars == <<child, told>>
requestVars == <<calls, nextId>>
sessionVars == <<processVars, capable, bridge, requestVars>>

Plugin == 0
Servers == 1..Profiles
Processes == {Plugin} \cup Servers
Calls == 1..MaxCalls
NoAnswer == 0
Unsent == [to |-> 0, id |-> 0, status |-> "unsent", answer |-> NoAnswer]

SessionTypeOK ==
  /\ child \in [Processes -> {"none", "alive", "exited", "closed"}]
  /\ told \in [Processes -> {"nothing", "SIGTERM", "SIGKILL"}]
  /\ capable \subseteq Servers
  /\ bridge \in [Servers -> {"none", "listening", "stopped"}]
  /\ calls \in [Calls -> [to : 0..Profiles, id : Nat,
                          status : {"unsent", "open", "settled"},
                          answer : Calls \cup {NoAnswer}]]
  /\ nextId \in [Servers -> Nat]

SessionInit ==
  /\ child = [p \in Processes |-> "none"]
  /\ told = [p \in Processes |-> "nothing"]
  /\ capable = {}
  /\ bridge = [s \in Servers |-> "none"]
  /\ calls = [c \in Calls |-> Unsent]
  /\ nextId = [s \in Servers |-> 2]

-----------------------------------------------------------------------------
(* Processes.                                                              *)

Running(p) == child[p] \in {"alive", "exited"}

(* terminateProcessGroup(child, "SIGTERM") for every p in P, by terminate  *)
(* or #stop: each sends it once, and not when the child is closed.         *)
Terminated(P) ==
  [p \in Processes |->
     IF p \in P /\ Running(p) /\ told[p] = "nothing" THEN "SIGTERM" ELSE told[p]]

(* Mutant of Escalates.                                                    *)
EscalatesForPlugin(p) == p = Plugin

(* Which children the 250 ms timer is set for.                             *)
Escalates(p) == p \in Processes

Escalate(p) ==
  /\ told[p] = "SIGTERM" /\ Running(p) /\ Escalates(p)
  /\ told' = [told EXCEPT ![p] = "SIGKILL"]
  /\ UNCHANGED <<child, capable, bridge, requestVars>>

Exit(p) ==
  /\ child[p] = "alive"
  /\ child' = [child EXCEPT ![p] = "exited"]
  /\ UNCHANGED <<told, capable, bridge, requestVars>>

Open(c, s) == calls[c].status = "open" /\ calls[c].to = s

(* #onClose rejects every request that waits.                              *)
RejectedCalls(s) ==
  [c \in Calls |-> IF Open(c, s) THEN [calls[c] EXCEPT !.status = "settled"] ELSE calls[c]]

(* 'close' clears the timer; and #onClose of a session.                    *)
Close(p) ==
  /\ child[p] = "exited"
  /\ child' = [child EXCEPT ![p] = "closed"]
  /\ told' = [told EXCEPT ![p] = "nothing"]
  /\ calls' = IF p \in Servers THEN RejectedCalls(p) ELSE calls
  /\ UNCHANGED <<capable, bridge, nextId>>

(* SIGKILL reaches the whole group: descendants that hold the pipes too.   *)
Dies(p) == told[p] = "SIGKILL" /\ (Exit(p) \/ Close(p))

-----------------------------------------------------------------------------
(* Requests.                                                               *)

(* Mutant of IdFor.                                                        *)
IdForOpen(s) == 2 + Cardinality({c \in Calls : Open(c, s)})

IdFor(s) == nextId[s]

(* forwardBridgeRequest, without a signal, and request.  The plugin lives  *)
(* until the bridge is stopped, or nobody reads the answer.                *)
Request(c, s) ==
  /\ calls[c] = Unsent /\ \A b \in Calls : b < c => calls[b] # Unsent
  /\ Running(Plugin) /\ bridge[s] = "listening"
  /\ IF child[s] = "closed"
       THEN /\ calls' = [calls EXCEPT ![c].to = s, ![c].status = "settled"]
            /\ UNCHANGED nextId
       ELSE /\ calls' = [calls EXCEPT ![c] = [to |-> s, id |-> IdFor(s), status |-> "open",
                                              answer |-> NoAnswer]]
            /\ nextId' = [nextId EXCEPT ![s] = @ + 1]
  /\ UNCHANGED <<processVars, capable, bridge>>

(* The server answers request c, which it was sent, for the first time or  *)
(* again, with a result or an error; #onMessage looks the id up among the  *)
(* requests that wait, and ignores an answer that is not among them.       *)
Reply(c) ==
  LET s == calls[c].to
      waiting == {b \in Calls : Open(b, s) /\ calls[b].id = calls[c].id} IN
  /\ calls[c].id # 0 /\ Running(s) /\ waiting # {}
  /\ calls' = [b \in Calls |->
       IF b \in waiting THEN [calls[b] EXCEPT !.status = "settled", !.answer = c]
                        ELSE calls[b]]
  /\ UNCHANGED <<processVars, capable, bridge, nextId>>

(* requestTimeoutMs: the session goes on.                                  *)
TimeOut(c) ==
  /\ calls[c].status = "open"
  /\ calls' = [calls EXCEPT ![c].status = "settled"]
  /\ UNCHANGED <<processVars, capable, bridge, nextId>>

(* #fail once the session is initialized: a limit is exceeded, or an       *)
(* answer is malformed.  Its requests wait for the close.                  *)
Fail(s) ==
  /\ s \in capable /\ Running(s)
  /\ told' = Terminated({s})
  /\ UNCHANGED <<child, capable, bridge, requestVars>>

SessionStep ==
  \/ \E p \in Processes : Escalate(p) \/ Exit(p) \/ Close(p)
  \/ \E c \in Calls, s \in Servers : Request(c, s)
  \/ \E c \in Calls : Reply(c) \/ TimeOut(c)
  \/ \E s \in Servers : Fail(s)
=============================================================================
