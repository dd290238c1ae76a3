------------------------- MODULE ExtensionRunProofs -------------------------
(***************************************************************************)
(* Theorems about ExtensionRun, for any number of profiles and requests    *)
(* and whatever the plugin prints.                                         *)
(***************************************************************************)
EXTENDS ExtensionRun, WellFoundedInduction, TLAPS

(* Servers are started in order, and stopped in reverse.                   *)
Silent(s) == child[s] \in {"none", "closed"}

ServersInOrder ==
  /\ pc = "resolving" => \A s \in Servers : child[s] = "none" /\ bridge[s] = "none"
  /\ pc \in Setup => \A s \in Servers : s > profile => child[s] = "none" /\ bridge[s] = "none"
  /\ pc \in {"getting", "preparing", "verifying", "verified"} /\ profile \in Servers =>
       child[profile] = "none"
  /\ pc = "bridges" => \A s \in Servers : s > profile => bridge[s] # "listening"
  /\ pc \in {"sessions", "removing"} \cup Ended => \A s \in Servers : bridge[s] # "listening"
  /\ pc = "sessions" => \A s \in Servers : s > profile => Silent(s)
  /\ pc \in {"removing"} \cup Ended => \A s \in Servers : Silent(s)

ProfileInRange ==
  /\ pc \in Setup => profile \in Servers
  /\ pc \in Teardown => profile \in 0..Profiles

(* The plugin runs after the set-up, and is told to stop before anything   *)
(* is cleaned up.                                                          *)
PluginInOrder ==
  /\ pc \in {"resolving", "launching"} \cup Setup => child[Plugin] = "none"
  /\ pc = "saving" => child[Plugin] = "closed"
  /\ pc \in Teardown \cup Ended /\ Running(Plugin) => told[Plugin] # "nothing"

(* The ids of a session's requests are its own, and never used again.      *)
IdsAreOwn ==
  /\ \A c \in Calls : calls[c].id # 0 => calls[c].to \in Servers /\ calls[c].id < nextId[calls[c].to]
  /\ \A c \in Calls : calls[c].status = "open" => calls[c].id # 0
  /\ \A b, c \in Calls :
       calls[b].id # 0 /\ calls[b].id = calls[c].id /\ calls[b].to = calls[c].to => b = c
  /\ \A s \in Servers : nextId[s] > 0

(* The entry cannot change once it was read, and what was verified agrees  *)
(* with it.                                                                *)
EntryIsLeased ==
  /\ pc \in {"preparing", "verifying"} => entry[profile] = Leased
  /\ pc = "verified" => launch = Leased

IInv ==
  /\ TypeOK /\ ProfileInRange
  /\ ServersInOrder /\ PluginInOrder
  /\ IdsAreOwn /\ AnswersAreOwn
  /\ EntryIsLeased

LEMMA InitInv == Init => IInv
<1> SUFFICES ASSUME Init PROVE IInv
  OBVIOUS
<1>1. SessionTypeOK
  BY McpSessionAssumption DEF Init, SessionInit, SessionTypeOK, Unsent, Calls, NoAnswer, Processes
<1>2. /\ pc = "resolving" /\ profile \in 0..Profiles + 1 /\ exitCode \in {0, 1}
      /\ file \in [Processes -> {Leased, "other"}]
      /\ entry \in [Processes -> {Leased, "other", Absent}]
      /\ launch \in {Leased, "other", Absent}
  BY McpSessionAssumption DEF Init
<1>5. /\ aborted \in BOOLEAN /\ failed \in BOOLEAN /\ cleanupFailed \in BOOLEAN
      /\ checkpoint \in BOOLEAN
  BY DEF Init
<1>6. TypeOK
  BY <1>1, <1>2, <1>5, Zenon DEF TypeOK
<1>3. IdsAreOwn /\ AnswersAreOwn
  BY DEF Init, SessionInit, IdsAreOwn, AnswersAreOwn, Unsent, Calls, NoAnswer
<1>4. ProfileInRange /\ ServersInOrder /\ PluginInOrder /\ EntryIsLeased
  BY DEF Init, SessionInit, ProfileInRange, ServersInOrder, PluginInOrder, EntryIsLeased,
     Setup, Teardown, Ended, Processes, Plugin, Servers, Running
<1> QED BY <1>6, <1>3, <1>4 DEF IInv

-----------------------------------------------------------------------------
(* The sessions and their requests.                                        *)

Call == [to : 0..Profiles, id : Nat, status : {"unsent", "open", "settled"},
         answer : Calls \cup {NoAnswer}]

SessionInv == SessionTypeOK /\ IdsAreOwn /\ AnswersAreOwn

LEMMA SettledCall ==
  ASSUME NEW r \in Call, NEW x
  PROVE  /\ [r EXCEPT !.status = "settled"] =
               [to |-> r.to, id |-> r.id, status |-> "settled", answer |-> r.answer]
         /\ [r EXCEPT !.status = "settled", !.answer = x] =
               [to |-> r.to, id |-> r.id, status |-> "settled", answer |-> x]
<1>1. [r EXCEPT !.status = "settled"] =
        [to |-> r.to, id |-> r.id, status |-> "settled", answer |-> r.answer]
  BY DEF Call
<1>2. PICK p : p = [to |-> r.to, id |-> r.id, status |-> "settled", answer |-> r.answer]
  OBVIOUS
<1>3. [r EXCEPT !.status = "settled", !.answer = x] =
        [[r EXCEPT !.status = "settled"] EXCEPT !.answer = x]
  OBVIOUS
<1>4. [p EXCEPT !.answer = x] =
        [to |-> r.to, id |-> r.id, status |-> "settled", answer |-> x]
  BY <1>2
<1> QED BY <1>1, <1>2, <1>3, <1>4

LEMMA CloseInv ==
  ASSUME SessionInv, NEW p \in Processes, Close(p)
  PROVE  SessionInv'
<1> USE DEF SessionInv
<1>1. child' = [child EXCEPT ![p] = "closed"] /\ told' = [told EXCEPT ![p] = "nothing"]
      /\ UNCHANGED <<capable, bridge, nextId>>
  BY DEF Close
<1>2. ASSUME NEW c \in Calls
      PROVE  /\ calls'[c] \in Call
             /\ calls'[c].to = calls[c].to /\ calls'[c].id = calls[c].id
             /\ calls'[c].answer = calls[c].answer
             /\ calls'[c].status = "open" => calls[c].status = "open" /\ calls[c].to # p
  <2>1. calls[c] \in Call
    BY DEF SessionTypeOK, Call
  <2>2. [calls[c] EXCEPT !.status = "settled"] =
          [to |-> calls[c].to, id |-> calls[c].id, status |-> "settled",
           answer |-> calls[c].answer]
    BY <2>1, SettledCall
  <2>3. p \notin Servers /\ calls[c].status = "open" => calls[c].to # p
    BY DEF IdsAreOwn
  <2>4. CASE p \in Servers /\ Open(c, p)
    <3>1. calls'[c] = [calls[c] EXCEPT !.status = "settled"]
      BY <2>4 DEF Close, RejectedCalls
    <3> QED BY <2>1, <2>2, <3>1 DEF Call
  <2>5. CASE ~(p \in Servers /\ Open(c, p))
    <3>1. calls'[c] = calls[c]
      BY <2>5 DEF Close, RejectedCalls
    <3> QED BY <2>1, <2>3, <2>5, <3>1 DEF Open
  <2> QED BY <2>4, <2>5
<1>3. calls' = [c \in Calls |-> calls'[c]]
  BY DEF Close, RejectedCalls, SessionTypeOK
<1>4. SessionTypeOK'
  BY <1>1, <1>2, <1>3 DEF SessionTypeOK, Call
<1>5. IdsAreOwn'
  BY <1>1, <1>2 DEF IdsAreOwn
<1>6. AnswersAreOwn'
  BY <1>1, <1>2 DEF AnswersAreOwn, SessionTypeOK
<1> QED BY <1>4, <1>5, <1>6

LEMMA RequestInv ==
  ASSUME SessionInv, NEW c \in Calls, NEW s \in Servers, Request(c, s)
  PROVE  SessionInv'
<1> USE DEF SessionInv
<1>1. calls[c] = Unsent /\ UNCHANGED <<child, told, capable, bridge>>
  BY DEF Request, processVars
<1>2. s \in 0..Profiles
  BY McpSessionAssumption DEF Servers
<1>3. CASE child[s] = "closed"
  <2>1. calls' = [calls EXCEPT ![c].to = s, ![c].status = "settled"] /\ nextId' = nextId
    BY <1>3 DEF Request
  <2>2. calls' = [calls EXCEPT ![c] = [to |-> s, id |-> 0, status |-> "settled",
                                       answer |-> NoAnswer]]
    BY <1>1, <2>1 DEF Unsent, SessionTypeOK
  <2>3. SessionTypeOK'
    <3>1. [to |-> s, id |-> 0, status |-> "settled", answer |-> NoAnswer] \in Call
      BY <1>2 DEF Call
    <3>2. calls \in [Calls -> Call]
      BY DEF SessionTypeOK, Call
    <3>3. calls' \in [Calls -> Call]
      BY <2>2, <3>1, <3>2
    <3> QED BY <1>1, <2>1, <3>3 DEF SessionTypeOK, Call
  <2>4. IdsAreOwn' /\ AnswersAreOwn'
    BY <1>1, <2>1, <2>2 DEF SessionTypeOK, IdsAreOwn, AnswersAreOwn
  <2> QED BY <2>3, <2>4
<1>4. CASE child[s] # "closed"
  <2>1. /\ calls' = [calls EXCEPT ![c] = [to |-> s, id |-> nextId[s], status |-> "open",
                                          answer |-> NoAnswer]]
        /\ nextId' = [nextId EXCEPT ![s] = nextId[s] + 1]
    BY <1>4 DEF Request, IdFor
  <2>2. SessionTypeOK'
    BY <1>1, <1>2, <2>1 DEF SessionTypeOK
  <2>3. IdsAreOwn'
    BY <1>1, <2>1 DEF SessionTypeOK, IdsAreOwn
  <2>4. AnswersAreOwn'
    BY <1>1, <1>4, <2>1 DEF SessionTypeOK, AnswersAreOwn
  <2> QED BY <2>2, <2>3, <2>4
<1> QED BY <1>3, <1>4

(* No two requests of a session wait under one id: an answer finds its own.*)
LEMMA ReplyInv ==
  ASSUME SessionInv, NEW c \in Calls, Reply(c)
  PROVE  SessionInv'
<1> USE DEF SessionInv
<1> DEFINE waiting == {b \in Calls : Open(b, calls[c].to) /\ calls[b].id = calls[c].id}
<1>1. UNCHANGED <<child, told, capable, bridge, nextId>> /\ calls[c].id # 0
  BY DEF Reply, processVars
<1>2. waiting = {c}
  <2>1. \A b \in waiting : b = c
    BY <1>1 DEF IdsAreOwn, Open
  <2>2. waiting # {}
    BY DEF Reply
  <2> QED BY <2>1, <2>2
<1>3. calls' = [b \in Calls |-> IF b = c THEN [calls[b] EXCEPT !.status = "settled", !.answer = c]
                                         ELSE calls[b]]
  <2>1. calls' = [b \in Calls |-> IF b \in waiting
                     THEN [calls[b] EXCEPT !.status = "settled", !.answer = c] ELSE calls[b]]
    BY DEF Reply
  <2> HIDE DEF waiting
  <2> QED BY <1>2, <2>1
<1>4. calls' = [calls EXCEPT ![c] = [to |-> calls[c].to, id |-> calls[c].id,
                                     status |-> "settled", answer |-> c]]
  <2>1. calls[c] \in Call /\ DOMAIN calls = Calls
    BY DEF SessionTypeOK, Call
  <2> QED BY <1>3, <2>1, SettledCall
<1>5. SessionTypeOK'
  BY <1>1, <1>4 DEF SessionTypeOK
<1>6. IdsAreOwn' /\ AnswersAreOwn'
  BY <1>1, <1>4 DEF SessionTypeOK, IdsAreOwn, AnswersAreOwn
<1> QED BY <1>5, <1>6

LEMMA TimeOutInv ==
  ASSUME SessionInv, NEW c \in Calls, TimeOut(c)
  PROVE  SessionInv'
<1> USE DEF SessionInv
<1>1. UNCHANGED <<child, told, capable, bridge, nextId>>
  BY DEF TimeOut, processVars
<1>2. calls' = [calls EXCEPT ![c] = [to |-> calls[c].to, id |-> calls[c].id,
                                     status |-> "settled", answer |-> calls[c].answer]]
  <2>1. calls[c] \in Call /\ calls' = [calls EXCEPT ![c] = [calls[c] EXCEPT !.status = "settled"]]
    BY DEF SessionTypeOK, Call, TimeOut
  <2> QED BY <2>1, SettledCall
<1> QED BY <1>1, <1>2 DEF SessionTypeOK, IdsAreOwn, AnswersAreOwn

(* What starts, stops or signals children keeps the requests in order.     *)
LEMMA ChildrenInv ==
  ASSUME SessionInv, SessionTypeOK', UNCHANGED requestVars,
         \A s \in Servers : child'[s] = "closed" => child[s] = "closed"
  PROVE  SessionInv'
BY DEF SessionInv, IdsAreOwn, AnswersAreOwn, requestVars

LEMMA TerminatedType ==
  ASSUME SessionTypeOK, NEW P
  PROVE  Terminated(P) \in [Processes -> {"nothing", "SIGTERM", "SIGKILL"}]
BY DEF SessionTypeOK, Terminated

-----------------------------------------------------------------------------
(* What the children do beside the run.                                    *)

(* They only go on to their ends, and a signal that was sent stays sent    *)
(* while they run.                                                         *)
ChildrenGoOn ==
  /\ UNCHANGED <<capable, bridge>>
  /\ \A p \in Processes :
       /\ child[p] \in {"none", "closed"} => child'[p] = child[p]
       /\ child'[p] = "none" => child[p] = "none"
       /\ told[p] # "nothing" /\ child'[p] \in {"alive", "exited"} => told'[p] # "nothing"

LEMMA EscalateInv ==
  ASSUME SessionInv, NEW p \in Processes, Escalate(p) PROVE SessionInv' /\ ChildrenGoOn
<1>1. SessionTypeOK'
  BY DEF SessionInv, SessionTypeOK, Escalate, requestVars
<1> QED BY <1>1, ChildrenInv DEF SessionInv, SessionTypeOK, Escalate, ChildrenGoOn

LEMMA ExitInv ==
  ASSUME SessionInv, NEW p \in Processes, Exit(p) PROVE SessionInv' /\ ChildrenGoOn
<1>1. SessionTypeOK'
  BY DEF SessionInv, SessionTypeOK, Exit, requestVars
<1> QED BY <1>1, ChildrenInv DEF SessionInv, SessionTypeOK, Exit, ChildrenGoOn, Processes

LEMMA FailInv ==
  ASSUME SessionInv, NEW s \in Servers, Fail(s) PROVE SessionInv' /\ ChildrenGoOn
<1>1. SessionTypeOK'
  BY TerminatedType DEF SessionInv, SessionTypeOK, Fail, requestVars
<1> QED BY <1>1, ChildrenInv DEF SessionInv, SessionTypeOK, Fail, ChildrenGoOn, Terminated

LEMMA SessionStepInv ==
  ASSUME SessionInv, SessionStep PROVE SessionInv' /\ ChildrenGoOn
<1>1. ASSUME NEW p \in Processes, Close(p) PROVE SessionInv' /\ ChildrenGoOn
  BY <1>1, CloseInv DEF SessionInv, SessionTypeOK, Close, ChildrenGoOn
<1>2. ASSUME NEW c \in Calls, NEW s \in Servers, Request(c, s)
      PROVE  SessionInv' /\ ChildrenGoOn
  BY <1>2, RequestInv DEF Request, processVars, ChildrenGoOn
<1>3. ASSUME NEW c \in Calls, Reply(c) PROVE SessionInv' /\ ChildrenGoOn
  BY <1>3, ReplyInv DEF Reply, processVars, ChildrenGoOn
<1>4. ASSUME NEW c \in Calls, TimeOut(c) PROVE SessionInv' /\ ChildrenGoOn
  BY <1>4, TimeOutInv DEF TimeOut, processVars, ChildrenGoOn
<1> QED BY <1>1, <1>2, <1>3, <1>4, EscalateInv, ExitInv, FailInv DEF SessionStep

-----------------------------------------------------------------------------
(* The run.                                                                *)

Flags ==
  /\ aborted \in BOOLEAN /\ failed \in BOOLEAN /\ cleanupFailed \in BOOLEAN
  /\ checkpoint \in BOOLEAN

ControlTypes ==
  /\ pc \in {"resolving", "launching", "running", "saving"} \cup Setup \cup Teardown \cup Ended
  /\ profile \in 0..Profiles + 1
  /\ file \in [Processes -> {Leased, "other"}]
  /\ entry \in [Processes -> {Leased, "other", Absent}]
  /\ launch \in {Leased, "other", Absent}
  /\ exitCode \in {0, 1}

ControlInv ==
  ControlTypes /\ ProfileInRange /\ ServersInOrder /\ PluginInOrder /\ EntryIsLeased

LEMMA BesideInv ==
  ASSUME ControlInv, SessionInv, ChildrenGoOn,
         UNCHANGED <<pc, profile, aborted, registryVars, outcomeVars>>
  PROVE  ControlInv'
<1> USE DEF ControlInv
<1>1. Plugin \in Processes /\ Servers \subseteq Processes
  BY DEF Processes
<1>2. ControlTypes' /\ ProfileInRange' /\ EntryIsLeased'
  BY DEF ControlTypes, ProfileInRange, EntryIsLeased, registryVars, outcomeVars
<1>3. ServersInOrder'
  BY <1>1 DEF ServersInOrder, ChildrenGoOn, Silent
<1>4. PluginInOrder'
  BY <1>1 DEF PluginInOrder, ChildrenGoOn, Running, SessionInv, SessionTypeOK
<1> QED BY <1>2, <1>3, <1>4

LEMMA FlagsInv ==
  ASSUME Flags, [Next]_vars PROVE Flags'
<1> USE DEF Flags
<1>1. CASE UNCHANGED <<failed, cleanupFailed, checkpoint>> /\ (aborted' = aborted \/ aborted' = TRUE)
  BY <1>1, Zenon
<1>2. CASE failed' = TRUE /\ UNCHANGED <<cleanupFailed, checkpoint>> /\ (aborted' = aborted \/ aborted' = TRUE)
  BY <1>2, Zenon
<1>3. CASE PluginClosed
  <2>1. failed' = failed \/ failed' = (result' = NoResult \/ result'.status # "completed")
    BY <1>3 DEF PluginClosed
  <2>2. (result' = NoResult \/ result'.status # "completed") \in BOOLEAN
    BY Zenon
  <2>3. UNCHANGED <<aborted, cleanupFailed, checkpoint>>
    BY <1>3 DEF PluginClosed
  <2> QED BY <2>1, <2>2, <2>3, Zenon
<1>4. CASE SaveCheckpoint
  <2>1. failed' = TRUE \/ failed' = (result.status # "completed")
    BY <1>4, Zenon DEF SaveCheckpoint
  <2>2. (result.status # "completed") \in BOOLEAN
    BY Zenon
  <2>3. UNCHANGED <<aborted, cleanupFailed>> /\ checkpoint' = TRUE
    BY <1>4 DEF SaveCheckpoint
  <2> QED BY <2>1, <2>2, <2>3, Zenon
<1>5. CASE StopBridge
  <2>1. \/ cleanupFailed' = cleanupFailed
        \/ cleanupFailed' = (cleanupFailed \/ bridge[profile] = "listening")
    BY <1>5 DEF StopBridge
  <2>2. (cleanupFailed \/ bridge[profile] = "listening") \in BOOLEAN
    BY Zenon
  <2>3. UNCHANGED <<aborted, failed, checkpoint>>
    BY <1>5 DEF StopBridge
  <2> QED BY <2>1, <2>2, <2>3, Zenon
<1>6. CASE RemoveSockets
  <2>1. cleanupFailed' = cleanupFailed \/ cleanupFailed' = (Profiles > 0 \/ cleanupFailed)
    BY <1>6, Zenon DEF RemoveSockets
  <2>2. (Profiles > 0 \/ cleanupFailed) \in BOOLEAN
    BY Zenon
  <2>3. UNCHANGED <<aborted, failed, checkpoint>>
    BY <1>6 DEF RemoveSockets
  <2> QED BY <2>1, <2>2, <2>3, Zenon
<1>7. ASSUME \/ Resolve \/ ResolveFails \/ GetProfile \/ Prepare \/ Verify \/ Spawn \/ SetupFails
             \/ SpawnFails \/ Spawned \/ StoppedBeforeSession \/ ProbeFails \/ Listen
             \/ LaunchPlugin \/ StopSession \/ SessionStopped
             \/ Initialized \/ PluginRejected \/ Abort \/ Children \/ Operator \/ UNCHANGED vars
      PROVE  /\ failed' = TRUE \/ UNCHANGED failed
             /\ UNCHANGED <<cleanupFailed, checkpoint>> /\ (aborted' = aborted \/ aborted' = TRUE)
  BY <1>7 DEF Resolve, ResolveFails, GetProfile, Prepare, Verify, Spawn, SetupFails, SpawnFails, Spawned,
     StoppedBeforeSession, ProbeFails, Listen, LaunchPlugin, StopSession, SessionStopped,
     Initialized, PluginRejected, Abort, Children, Beside, Operator, Throw, vars, outcomeVars
<1> QED BY <1>1, <1>2, <1>3, <1>4, <1>5, <1>6, <1>7 DEF Next, Run

(* What the run and the operator do leaves the requests alone.             *)
LEMMA RunSession ==
  ASSUME SessionInv, ControlInv, Run \/ Initialized \/ PluginRejected \/ Abort \/ Operator
  PROVE  SessionInv'
<1>1. CASE UNCHANGED sessionVars
  BY <1>1 DEF SessionInv, SessionTypeOK, IdsAreOwn, AnswersAreOwn, sessionVars, processVars,
     requestVars
<1>2. CASE /\ UNCHANGED <<child, capable, bridge, requestVars>>
           /\ \E P : told' = Terminated(P)
  <2>1. SessionTypeOK'
    BY <1>2, TerminatedType DEF SessionInv, SessionTypeOK, requestVars
  <2> QED BY <1>2, <2>1, ChildrenInv
<1>3. CASE Spawn \/ SpawnFails \/ LaunchPlugin
  <2>1. profile \in Processes \/ LaunchPlugin
    BY <1>3 DEF ControlInv, ProfileInRange, Spawn, SpawnFails, Setup, Processes, Step
  <2>2. SessionTypeOK'
    BY <1>3, <2>1 DEF SessionInv, SessionTypeOK, Spawn, SpawnFails, LaunchPlugin, requestVars
  <2>3. UNCHANGED requestVars /\ \A s \in Servers : child'[s] = "closed" => child[s] = "closed"
    BY <1>3 DEF SessionInv, SessionTypeOK, Spawn, SpawnFails, LaunchPlugin, Processes
  <2> QED BY <2>2, <2>3, ChildrenInv
<1>4. CASE Initialized
  <2>1. SessionTypeOK' /\ UNCHANGED requestVars /\ UNCHANGED child
    BY <1>4 DEF Initialized, Step, SessionInv, SessionTypeOK, ControlInv, ProfileInRange, Setup,
       processVars, requestVars
  <2> QED BY <2>1, ChildrenInv
<1>5. CASE Listen \/ StopBridge
  <2>1. UNCHANGED <<processVars, capable, requestVars>>
    BY <1>5 DEF Listen, StopBridge
  <2>2. bridge' \in [Servers -> {"none", "listening", "stopped"}]
    BY <1>5 DEF Listen, StopBridge, SessionInv, SessionTypeOK
  <2>3. SessionTypeOK'
    BY <2>1, <2>2 DEF SessionInv, SessionTypeOK, processVars, requestVars
  <2> QED BY <2>1, <2>3, ChildrenInv DEF processVars
<1> QED
  <2>1. CASE Resolve \/ ResolveFails \/ GetProfile \/ Prepare \/ Verify \/ SetupFails \/ Spawned
             \/ StoppedBeforeSession \/ PluginClosed \/ SaveCheckpoint \/ SessionStopped
             \/ RemoveSockets \/ Operator
    BY <1>1, <2>1 DEF Resolve, ResolveFails, GetProfile, Prepare, Verify, SetupFails, Spawned,
       StoppedBeforeSession, PluginClosed, SaveCheckpoint, SessionStopped, RemoveSockets, Operator
  <2>2. CASE ProbeFails \/ StopSession \/ PluginRejected \/ Abort
    BY <1>2, <2>2 DEF ProbeFails, StopSession, PluginRejected, Abort
  <2> QED BY <1>3, <1>4, <1>5, <2>1, <2>2 DEF Run

(* An error begins the clean-up, with every bridge and session to stop.    *)
LEMMA ThrowInv ==
  ASSUME ControlInv, SessionInv, Throw, UNCHANGED registryVars,
         Running(Plugin)' => told'[Plugin] # "nothing"
  PROVE  ControlInv'
<1>1. pc' = "bridges" /\ profile' = Profiles /\ exitCode' = exitCode
  BY DEF Throw, Goto
<1>2. ControlTypes' /\ ProfileInRange'
  BY <1>1, McpSessionAssumption
     DEF ControlInv, ControlTypes, ProfileInRange, registryVars, Setup, Teardown
<1>3. ServersInOrder' /\ EntryIsLeased'
  BY <1>1, McpSessionAssumption DEF ServersInOrder, EntryIsLeased, Servers, Setup, Ended
<1>4. PluginInOrder'
  BY <1>1 DEF PluginInOrder, Setup
<1> QED BY <1>2, <1>3, <1>4 DEF ControlInv

LEMMA SetupThrowInv ==
  ASSUME ControlInv, SessionInv, SetupFails \/ SpawnFails \/ StoppedBeforeSession \/ ProbeFails
  PROVE  ControlInv'
<1>1. Throw /\ UNCHANGED registryVars /\ pc \in Setup
  BY DEF SetupFails, SpawnFails, StoppedBeforeSession, ProbeFails, Setup
<1>2. child[Plugin] = "none"
  BY <1>1 DEF ControlInv, PluginInOrder
<1>3. child' = child \/ child' = [child EXCEPT ![profile] = "none"]
  BY DEF SetupFails, SpawnFails, StoppedBeforeSession, ProbeFails, sessionVars, processVars
<1>4. ~Running(Plugin)'
  BY <1>2, <1>3 DEF Running, SessionInv, SessionTypeOK, Processes
<1> QED BY <1>1, <1>4, ThrowInv

LEMMA AbortInv ==
  ASSUME ControlInv, SessionInv, Abort
  PROVE  ControlInv'
<1>1. told' = Terminated(Processes) /\ UNCHANGED <<child, capable, bridge, registryVars>>
  BY DEF Abort
<1>2. Running(Plugin)' => told'[Plugin] # "nothing"
  BY <1>1 DEF Terminated, Running, Processes
<1>3. CASE pc = "probing"
  BY <1>1, <1>2, <1>3, ThrowInv DEF Abort
<1>4. CASE pc # "probing"
  <2>1. UNCHANGED <<pc, profile, outcomeVars>>
    BY <1>4 DEF Abort
  <2> QED BY <1>1, <1>2, <2>1 DEF ControlInv, ControlTypes, ProfileInRange, ServersInOrder,
          PluginInOrder, EntryIsLeased, Silent, Running, registryVars, outcomeVars
<1> QED BY <1>3, <1>4

LEMMA PluginRejectedInv ==
  ASSUME ControlInv, SessionInv, PluginRejected
  PROVE  ControlInv'
<1>1. Throw /\ UNCHANGED registryVars /\ UNCHANGED child /\ told' = Terminated({Plugin})
  BY DEF PluginRejected
<1>2. Running(Plugin)' => told'[Plugin] # "nothing"
  BY <1>1 DEF Terminated, Running, Processes
<1> QED BY <1>1, <1>2, ThrowInv

LEMMA OperatorInv ==
  ASSUME ControlInv, SessionInv, Operator
  PROVE  ControlInv'
<1>1. UNCHANGED <<sessionVars, pc, profile, aborted, outcomeVars>>
  BY DEF Operator
<1>2. file' \in [Processes -> {Leased, "other"}] /\ entry' \in [Processes -> {Leased, "other", Absent}]
  BY DEF Operator, Replace, Reinstall, ControlInv, ControlTypes
<1>3. launch' = launch /\ (pc \in {"preparing", "verifying"} => entry' = entry)
  BY DEF Operator, Replace, Reinstall
<1> QED BY <1>1, <1>2, <1>3 DEF ControlInv, ControlTypes, ProfileInRange, ServersInOrder,
        PluginInOrder, EntryIsLeased, Silent, Running, sessionVars, processVars, outcomeVars

(* The set-up of one profile after another.                                *)
LEMMA NextProfileInv ==
  ASSUME ControlInv, SessionInv, NEW i \in 1..Profiles + 1, NextProfile(i),
         UNCHANGED <<child, registryVars, exitCode>>,
         child[Plugin] = "none",
         \A s \in Servers : s >= i => child[s] = "none" /\ bridge'[s] = "none"
  PROVE  ControlInv'
<1>1. profile' = i /\ pc' = IF i > Profiles THEN "launching" ELSE "getting"
  BY DEF NextProfile, Goto
<1>2. ControlTypes' /\ ProfileInRange' /\ EntryIsLeased'
  BY <1>1, McpSessionAssumption DEF ControlInv, ControlTypes, ProfileInRange, EntryIsLeased,
     registryVars, Setup, Teardown, Servers
<1>3. ServersInOrder'
  BY <1>1, McpSessionAssumption DEF ServersInOrder, Setup, Ended, Servers
<1>4. PluginInOrder'
  BY <1>1 DEF PluginInOrder, Setup, Teardown, Ended
<1> QED BY <1>2, <1>3, <1>4 DEF ControlInv

LEMMA ResolveInv ==
  ASSUME ControlInv, SessionInv, Resolve PROVE ControlInv'
<1>1. UNCHANGED <<child, bridge, registryVars, exitCode>> /\ NextProfile(1) /\ pc = "resolving"
  BY DEF Resolve, sessionVars, processVars, outcomeVars
<1>2. 1 \in 1..Profiles + 1
  BY McpSessionAssumption
<1> QED BY <1>1, <1>2, NextProfileInv DEF ControlInv, ServersInOrder, PluginInOrder

LEMMA ListenInv ==
  ASSUME ControlInv, SessionInv, Listen PROVE ControlInv'
<1>1. /\ UNCHANGED <<child, registryVars, exitCode>> /\ NextProfile(profile + 1)
      /\ pc \in Setup /\ bridge' = [bridge EXCEPT ![profile] = "listening"]
  BY DEF Listen, processVars, outcomeVars, Setup
<1>2. profile \in Servers /\ child[Plugin] = "none"
  BY <1>1 DEF ControlInv, ProfileInRange, PluginInOrder
<1>3. profile + 1 \in 1..Profiles + 1
  BY <1>2, McpSessionAssumption DEF Servers
<1>4. \A s \in Servers : s >= profile + 1 => child[s] = "none" /\ bridge'[s] = "none"
  BY <1>1, <1>2 DEF ControlInv, ServersInOrder, SessionInv, SessionTypeOK, Servers
<1> QED BY <1>1, <1>2, <1>3, <1>4, NextProfileInv

LEMMA SetupStepInv ==
  ASSUME ControlInv, SessionInv, GetProfile \/ Prepare \/ Spawned \/ Initialized
  PROVE  ControlInv'
<1>1. /\ UNCHANGED <<child, told, bridge, profile, registryVars, exitCode>>
      /\ pc \in {"getting", "preparing", "spawning", "probing"}
      /\ pc' \in {"preparing", "verifying", "probing", "bridging"}
      /\ pc' \in {"preparing", "verifying"} => pc \in {"getting", "preparing"}
      /\ pc = "getting" => entry[profile] = Leased
      /\ pc = "getting" => pc' = "preparing"
  BY DEF GetProfile, Prepare, Spawned, Initialized, sessionVars, processVars, outcomeVars, Step,
     Goto, Matches
<1>2. ControlTypes' /\ ProfileInRange' /\ EntryIsLeased'
  BY <1>1 DEF ControlInv, ControlTypes, ProfileInRange, EntryIsLeased, registryVars, Setup,
     Teardown
<1>3. ServersInOrder'
  BY <1>1 DEF ControlInv, ServersInOrder, Setup, Ended
<1>4. PluginInOrder'
  BY <1>1 DEF ControlInv, PluginInOrder, Setup, Teardown, Ended
<1> QED BY <1>2, <1>3, <1>4 DEF ControlInv

LEMMA VerifyInv ==
  ASSUME ControlInv, SessionInv, Verify PROVE ControlInv'
<1>1. /\ UNCHANGED <<child, told, bridge, profile, file, entry, exitCode>>
      /\ pc = "verifying" /\ pc' = "verified"
      /\ launch' = file[profile] /\ file[profile] = entry[profile]
  BY DEF Verify, sessionVars, processVars, outcomeVars, Step, Goto, IsVerified, IsInstalled
<1>2. launch' = Leased
  BY <1>1 DEF ControlInv, EntryIsLeased
<1>3. ControlTypes' /\ ProfileInRange' /\ EntryIsLeased'
  BY <1>1, <1>2 DEF ControlInv, ControlTypes, ProfileInRange, EntryIsLeased, Setup, Teardown
<1>4. ServersInOrder' /\ PluginInOrder'
  BY <1>1 DEF ControlInv, ServersInOrder, PluginInOrder, Setup, Teardown, Ended
<1> QED BY <1>3, <1>4 DEF ControlInv

LEMMA SpawnInv ==
  ASSUME ControlInv, SessionInv, Spawn PROVE ControlInv'
<1>1. /\ child' = [child EXCEPT ![profile] = "alive"]
      /\ UNCHANGED <<bridge, profile, registryVars, exitCode>>
      /\ pc = "verified" /\ pc' = "spawning"
  BY DEF Spawn, outcomeVars, Step, Goto
<1>2. profile \in Servers /\ profile # Plugin
  BY <1>1 DEF ControlInv, ProfileInRange, Setup, Servers, Plugin
<1>3. ControlTypes' /\ ProfileInRange' /\ EntryIsLeased'
  BY <1>1 DEF ControlInv, ControlTypes, ProfileInRange, EntryIsLeased, registryVars, Setup,
     Teardown
<1>4. ServersInOrder'
  BY <1>1, <1>2 DEF ControlInv, ServersInOrder, Setup, Ended, SessionInv, SessionTypeOK, Servers
<1>5. PluginInOrder'
  BY <1>1, <1>2 DEF ControlInv, PluginInOrder, Setup, Teardown, Ended
<1> QED BY <1>3, <1>4, <1>5 DEF ControlInv

LEMMA ResolveFailsInv ==
  ASSUME ControlInv, SessionInv, ResolveFails PROVE ControlInv'
<1>1. /\ UNCHANGED <<child, told, bridge, profile, registryVars, exitCode>>
      /\ pc = "resolving" /\ pc' = "failed"
  BY DEF ResolveFails, sessionVars, processVars, Step, Goto
<1>2. ControlTypes' /\ ProfileInRange' /\ EntryIsLeased'
  BY <1>1 DEF ControlInv, ControlTypes, ProfileInRange, EntryIsLeased, registryVars, Setup,
     Teardown, Ended
<1>3. ServersInOrder' /\ PluginInOrder'
  BY <1>1 DEF ControlInv, ServersInOrder, PluginInOrder, Silent, Running, Setup, Teardown, Ended
<1> QED BY <1>2, <1>3 DEF ControlInv

(* The plugin's process, from its start to its close.                      *)
LEMMA LaunchPluginInv ==
  ASSUME ControlInv, SessionInv, LaunchPlugin PROVE ControlInv'
<1>1. /\ UNCHANGED <<bridge, profile, registryVars, exitCode>>
      /\ pc = "launching" /\ pc' = "running"
  BY DEF LaunchPlugin, outcomeVars, Step, Goto
<1>2. ControlTypes' /\ ProfileInRange' /\ EntryIsLeased'
  BY <1>1 DEF ControlInv, ControlTypes, ProfileInRange, EntryIsLeased, registryVars, Setup,
     Teardown, Ended
<1>3. ServersInOrder' /\ PluginInOrder'
  BY <1>1 DEF ServersInOrder, PluginInOrder, Setup, Teardown, Ended
<1> QED BY <1>2, <1>3 DEF ControlInv

LEMMA PluginEndInv ==
  ASSUME ControlInv, SessionInv, PluginClosed \/ SaveCheckpoint PROVE ControlInv'
<1>1. /\ UNCHANGED <<child, told, bridge, registryVars>>
      /\ exitCode' \in {0, 1}
      /\ \/ pc' = "saving" /\ profile' = profile
         \/ pc' = "bridges" /\ profile' = Profiles
  BY DEF ControlInv, ControlTypes, PluginClosed, SaveCheckpoint, sessionVars, processVars, Goto
<1>2. child[Plugin] = "closed"
  BY DEF ControlInv, PluginInOrder, PluginClosed, SaveCheckpoint
<1>3. ControlTypes' /\ ProfileInRange' /\ EntryIsLeased'
  BY <1>1, McpSessionAssumption DEF ControlInv, ControlTypes, ProfileInRange, EntryIsLeased,
     registryVars, Setup, Teardown, Ended
<1>4. ServersInOrder'
  BY <1>1, McpSessionAssumption DEF ServersInOrder, Servers, Setup, Ended
<1>5. PluginInOrder'
  BY <1>1, <1>2 DEF PluginInOrder, Running, Setup
<1> QED BY <1>3, <1>4, <1>5 DEF ControlInv

(* The clean-up: a bridge, or a session, at a time.                        *)
LEMMA StopBridgeInv ==
  ASSUME ControlInv, SessionInv, StopBridge PROVE ControlInv'
<1>1. UNCHANGED <<child, told, registryVars, exitCode>> /\ pc = "bridges"
      /\ profile \in 0..Profiles
  BY DEF StopBridge, processVars, ControlInv, ProfileInRange, Teardown
<1>2. Running(Plugin) => told[Plugin] # "nothing"
  BY <1>1 DEF ControlInv, PluginInOrder, Teardown
<1>3. CASE profile = 0
  <2>1. pc' = "sessions" /\ profile' = Profiles /\ UNCHANGED bridge
    BY <1>3 DEF StopBridge, Goto
  <2>2. ControlTypes' /\ ProfileInRange' /\ EntryIsLeased'
    BY <1>1, <2>1, McpSessionAssumption DEF ControlInv, ControlTypes, ProfileInRange,
       EntryIsLeased, registryVars, Setup, Teardown
  <2>3. ServersInOrder'
    BY <1>1, <1>3, <2>1, McpSessionAssumption DEF ControlInv, ServersInOrder, Servers, Setup, Ended
  <2>4. PluginInOrder'
    BY <1>1, <1>2, <2>1 DEF PluginInOrder, Running, Setup
  <2> QED BY <2>2, <2>3, <2>4 DEF ControlInv
<1>4. CASE profile # 0
  <2>1. pc' = "bridges" /\ profile' = profile - 1 /\ profile \in Servers
        /\ bridge' = [bridge EXCEPT ![profile] =
                         IF bridge[profile] = "listening" THEN "stopped" ELSE bridge[profile]]
    BY <1>1, <1>4, McpSessionAssumption DEF StopBridge, Servers
  <2>2. ControlTypes' /\ ProfileInRange' /\ EntryIsLeased'
    BY <1>1, <2>1, McpSessionAssumption DEF ControlInv, ControlTypes, ProfileInRange,
       EntryIsLeased, registryVars, Setup, Teardown, Servers
  <2>3. ServersInOrder'
    <3>1. \A s \in Servers : s > profile - 1 => bridge'[s] # "listening"
      BY <1>1, <2>1 DEF ControlInv, ServersInOrder, Servers, SessionInv, SessionTypeOK
    <3> QED BY <2>1, <3>1 DEF ServersInOrder, Setup, Ended
  <2>4. PluginInOrder'
    BY <1>1, <1>2, <2>1 DEF PluginInOrder, Running, Setup
  <2> QED BY <2>2, <2>3, <2>4 DEF ControlInv
<1> QED BY <1>3, <1>4

LEMMA StopSessionInv ==
  ASSUME ControlInv, SessionInv, StopSession PROVE ControlInv'
<1>1. UNCHANGED <<child, bridge, pc, profile, registryVars, exitCode>>
      /\ told' = Terminated({profile}) /\ pc = "sessions"
  BY DEF StopSession, outcomeVars
<1>2. ControlTypes' /\ ProfileInRange' /\ EntryIsLeased' /\ ServersInOrder'
  BY <1>1 DEF ControlInv, ControlTypes, ProfileInRange, EntryIsLeased, ServersInOrder, Silent,
     registryVars
<1>3. told[Plugin] # "nothing" => told'[Plugin] # "nothing"
  BY <1>1 DEF Terminated, Processes
<1>4. PluginInOrder'
  BY <1>1, <1>3 DEF ControlInv, PluginInOrder, Running, Setup
<1> QED BY <1>2, <1>4 DEF ControlInv

LEMMA SessionStoppedInv ==
  ASSUME ControlInv, SessionInv, SessionStopped PROVE ControlInv'
<1>1. UNCHANGED <<child, told, bridge, registryVars, exitCode>> /\ pc = "sessions"
      /\ profile \in 0..Profiles
  BY DEF SessionStopped, sessionVars, processVars, outcomeVars, ControlInv, ProfileInRange, Teardown
<1>2. \/ profile = 0 /\ pc' = "removing" /\ profile' = profile
      \/ profile # 0 /\ pc' = "sessions" /\ profile' = profile - 1 /\ Silent(profile)
  BY <1>1 DEF SessionStopped, Goto, IsStopped, Silent
<1>3. ControlTypes' /\ ProfileInRange' /\ EntryIsLeased'
  BY <1>1, <1>2, McpSessionAssumption DEF ControlInv, ControlTypes, ProfileInRange,
     EntryIsLeased, registryVars, Setup, Teardown
<1>4. ServersInOrder'
  <2>1. \A s \in Servers : bridge'[s] # "listening"
    BY <1>1 DEF ControlInv, ServersInOrder
  <2>2. \A s \in Servers : s > profile => Silent(s)
    BY <1>1 DEF ControlInv, ServersInOrder
  <2>3. \A s \in Servers : Silent(s)' <=> Silent(s)
    BY <1>1 DEF Silent
  <2>4. CASE profile = 0
    <3>1. \A s \in Servers : Silent(s)'
      BY <2>2, <2>3, <2>4 DEF Servers
    <3> QED BY <1>2, <2>1, <2>4, <3>1 DEF ServersInOrder, Setup, Ended
  <2>5. CASE profile # 0
    <3>1. \A s \in Servers : s > profile - 1 => Silent(s)'
      BY <1>1, <1>2, <2>2, <2>3, <2>5 DEF Servers
    <3> QED BY <1>2, <2>1, <2>5, <3>1 DEF ServersInOrder, Setup, Ended
  <2> QED BY <2>4, <2>5
<1>5. PluginInOrder'
  BY <1>1, <1>2 DEF ControlInv, PluginInOrder, Running, Setup, Teardown
<1> QED BY <1>3, <1>4, <1>5 DEF ControlInv

LEMMA RemoveSocketsInv ==
  ASSUME ControlInv, SessionInv, RemoveSockets PROVE ControlInv'
<1>1. UNCHANGED <<child, told, bridge, profile, registryVars, exitCode>> /\ pc = "removing"
      /\ pc' \in {"completed", "failed"}
  BY DEF RemoveSockets, sessionVars, processVars, Goto
<1>2. ControlTypes' /\ ProfileInRange' /\ EntryIsLeased'
  BY <1>1 DEF ControlInv, ControlTypes, ProfileInRange, EntryIsLeased, registryVars, Setup,
     Teardown, Ended
<1>3. ServersInOrder'
  BY <1>1 DEF ControlInv, ServersInOrder, Silent, Setup, Ended
<1>4. PluginInOrder'
  BY <1>1 DEF ControlInv, PluginInOrder, Running, Setup, Teardown
<1> QED BY <1>2, <1>3, <1>4 DEF ControlInv

LEMMA NextInv == IInv /\ [Next]_vars => IInv'
<1> SUFFICES ASSUME Flags, SessionInv, ControlInv, [Next]_vars
             PROVE  Flags' /\ SessionInv' /\ ControlInv'
  BY DEF IInv, SessionInv, ControlInv, ControlTypes, Flags, TypeOK
<1>1. Flags'
  BY FlagsInv
<1>2. CASE Run \/ Initialized \/ PluginRejected \/ Abort \/ Operator
  <2>1. SessionInv'
    BY <1>2, RunSession
  <2>2. ControlInv'
    BY <1>2, ResolveInv, ResolveFailsInv, SetupStepInv, VerifyInv, SpawnInv, SetupThrowInv, ListenInv,
       LaunchPluginInv, PluginEndInv, StopBridgeInv, StopSessionInv, SessionStoppedInv,
       RemoveSocketsInv, PluginRejectedInv, AbortInv, OperatorInv DEF Run
  <2> QED BY <1>1, <2>1, <2>2
<1>3. CASE Children
  BY <1>1, <1>3, SessionStepInv, BesideInv DEF Children, Beside
<1>4. CASE UNCHANGED vars
  <2>1. SessionInv'
    BY <1>4 DEF SessionInv, SessionTypeOK, IdsAreOwn, AnswersAreOwn, vars, sessionVars,
       processVars, requestVars
  <2>2. ControlInv'
    BY <1>4 DEF ControlInv, ControlTypes, ProfileInRange, ServersInOrder, PluginInOrder,
       EntryIsLeased, Silent, Running, vars, sessionVars, processVars, registryVars, outcomeVars
  <2> QED BY <1>1, <2>1, <2>2
<1> QED BY <1>2, <1>3, <1>4 DEF Next

-----------------------------------------------------------------------------
(* The inductive invariant: servers are started in order and stopped in    *)
(* reverse, the plugin only runs between the two, and the requests of a    *)
(* session have ids of their own.                                          *)
THEOREM Inductive == Spec => []IInv
BY InitInv, NextInv, PTL DEF Spec

(* Processes, sockets, requests and the run's own variables keep their     *)
(* types.                                                                  *)
THEOREM TypeCorrect == Spec => []TypeOK
<1>1. IInv => TypeOK
  BY DEF IInv
<1> QED BY <1>1, Inductive, PTL

(* However a run ends, partial set-ups and aborts at every await included, *)
(* its servers are closed, its sockets gone and its plugin signalled.      *)
THEOREM CleanUp == Spec => []NothingLeftBehind
<1>1. IInv => NothingLeftBehind
  BY DEF IInv, ServersInOrder, PluginInOrder, NothingLeftBehind, Silent
<1> QED BY <1>1, Inductive, PTL

(* Late and repeated answers never settle another request, and no request  *)
(* waits for a server that is closed.                                      *)
THEOREM OwnAnswers == Spec => []AnswersAreOwn
<1>1. IInv => AnswersAreOwn
  BY DEF IInv
<1> QED BY <1>1, Inductive, PTL

(* No server is started unless the last look at its artifact, after its    *)
(* secrets were there, found the leased one.                               *)
THEOREM LeasedOnly == Spec => LeasedServersOnly
<1> DEFINE OnlyLeased == \A s \in Servers : child[s] = "none" /\ child'[s] = "alive" => launch = Leased
<1>1. ASSUME IInv, [Next]_vars, NEW s \in Servers, child[s] = "none", child'[s] = "alive"
      PROVE  launch = Leased
  <2>1. CASE Spawn
    BY <1>1, <2>1 DEF Spawn, Step, IInv, EntryIsLeased
  <2>2. CASE SessionStep
    BY <1>1, <2>2, SessionStepInv DEF IInv, TypeOK, SessionInv, ChildrenGoOn, Processes
  <2>3. CASE SpawnFails \/ LaunchPlugin
    BY <1>1, <2>3 DEF SpawnFails, LaunchPlugin, IInv, TypeOK, SessionTypeOK, Processes, Servers, Plugin
  <2>4. CASE UNCHANGED child
    BY <1>1, <2>4
  <2>5. ASSUME ~Spawn, ~SessionStep, ~SpawnFails, ~LaunchPlugin PROVE UNCHANGED child
    BY <1>1, <2>5 DEF Next, Run, Resolve, ResolveFails, GetProfile, Prepare, Verify, SetupFails, Spawned,
       StoppedBeforeSession, ProbeFails, Listen, PluginClosed, SaveCheckpoint, StopBridge,
       StopSession, SessionStopped, RemoveSockets, Initialized, PluginRejected, Abort, Children,
       Beside, Operator, vars, sessionVars, processVars
  <2> QED BY <2>1, <2>2, <2>3, <2>4, <2>5
<1>2. IInv /\ [Next]_vars => [OnlyLeased]_vars
  BY <1>1
<1> QED BY <1>2, Inductive, PTL DEF Spec, LeasedServersOnly

-----------------------------------------------------------------------------
(* The scan of a transcript, by induction on its lines.                    *)

LEMMA LeastNumber ==
  ASSUME NEW T \in SUBSET Nat, T # {}
  PROVE  \E x \in T : \A y \in T : x <= y
<1> DEFINE R == OpToRel(<, Nat)
<1>1. IsWellFoundedOn(R, Nat)
  BY NatLessThanWellFounded
<1>2. \A x, y \in Nat : x < y => <<x, y>> \in R
  BY DEF OpToRel
<1> HIDE DEF R
<1>3. PICK x \in T : \A y \in T : ~ (<<y, x>> \in R)
  BY <1>1, WFMin
<1>4. ASSUME NEW y \in T PROVE x <= y
  <2>1. x \in Nat /\ y \in Nat /\ ~ (y < x)
    BY <1>2, <1>3
  <2> QED BY <2>1
<1> QED BY <1>4

(* Induction over a set of numbers instead of a predicate.                 *)
LEMMA Induction ==
  ASSUME NEW P \in SUBSET Nat, 0 \in P, \A n \in P : n + 1 \in P
  PROVE  P = Nat
<1> SUFFICES ASSUME P # Nat PROVE FALSE
  OBVIOUS
<1> DEFINE T == Nat \ P
<1>1. PICK x \in T : \A y \in T : x <= y
  <2>1. T \in SUBSET Nat /\ T # {}
    OBVIOUS
  <2> HIDE DEF T
  <2> QED BY <2>1, LeastNumber
<1>2. x # 0 /\ x \in Nat /\ x \notin P
  OBVIOUS
<1>3. x - 1 \in Nat /\ x - 1 < x
  BY <1>2
<1>4. x - 1 \in P
  BY <1>1, <1>3
<1> QED BY <1>2, <1>3, <1>4

Unscanned == [ok |-> TRUE, expected |-> 0, terminal |-> FALSE]

IsScan(f, messages, version, n) ==
  f = [i \in 0..n |-> IF i = 0 THEN Unscanned ELSE ScanLine(f[i - 1], messages[i], version)]

(* The loop of assertValidRunTranscript has a state after every line.      *)
LEMMA ScanExists ==
  ASSUME NEW messages, NEW version, NEW n \in Nat
  PROVE  \E f : IsScan(f, messages, version, n)
<1> DEFINE P == {k \in Nat : \E f : IsScan(f, messages, version, k)}
<1>1. 0 \in P
  <2>1. PICK f : f = [i \in 0..0 |-> Unscanned]
    OBVIOUS
  <2>2. IsScan(f, messages, version, 0)
    BY <2>1 DEF IsScan
  <2> QED BY <2>2
<1>2. ASSUME NEW k \in P PROVE k + 1 \in P
  <2>1. PICK f : IsScan(f, messages, version, k)
    OBVIOUS
  <2>2. PICK g : g = [i \in 0..k + 1 |->
                        IF i <= k THEN f[i] ELSE ScanLine(f[k], messages[k + 1], version)]
    OBVIOUS
  <2>3. \A i \in 0..k + 1 :
          g[i] = IF i = 0 THEN Unscanned ELSE ScanLine(g[i - 1], messages[i], version)
    <3> SUFFICES ASSUME NEW i \in 0..k + 1
                 PROVE  g[i] = IF i = 0 THEN Unscanned ELSE ScanLine(g[i - 1], messages[i], version)
      OBVIOUS
    <3>1. k \in Nat
      OBVIOUS
    <3>2. CASE i <= k
      <4>1. g[i] = f[i] /\ f[i] = IF i = 0 THEN Unscanned ELSE ScanLine(f[i - 1], messages[i], version)
        BY <2>1, <2>2, <3>1, <3>2 DEF IsScan
      <4>2. i # 0 => g[i - 1] = f[i - 1]
        BY <2>2, <3>1, <3>2
      <4> QED BY <4>1, <4>2
    <3>3. CASE i = k + 1
      BY <2>2, <3>1, <3>3
    <3> QED BY <3>1, <3>2, <3>3
  <2>4. IsScan(g, messages, version, k + 1)
    BY <2>2, <2>3 DEF IsScan
  <2> QED BY <2>4
<1> HIDE DEF P
<1>3. P = Nat
  BY <1>1, <1>2, Induction DEF P
<1> QED BY <1>3 DEF P

LEMMA ScanOf ==
  ASSUME NEW messages, NEW version, Len(messages) \in Nat
  PROVE  \E f : /\ IsScan(f, messages, version, Len(messages))
               /\ Scan(messages, version) = f[Len(messages)]
<1> DEFINE f == CHOOSE g : IsScan(g, messages, version, Len(messages))
<1>1. IsScan(f, messages, version, Len(messages))
  BY ScanExists
<1>2. Scan(messages, version) = f[Len(messages)]
  BY DEF Scan, IsScan, Unscanned
<1> QED BY <1>1, <1>2

LEMMA ScanFields ==
  ASSUME NEW scan, NEW m, NEW version
  PROVE  /\ ScanLine(scan, m, version).ok <=>
               (scan.ok /\ m.version = version /\ IsInOrder(scan, m))
         /\ ScanLine(scan, m, version).terminal <=> (scan.terminal \/ m.kind = "run_result")
BY DEF ScanLine

(* What the lines before a position are when all of them were in order.    *)
InOrder(messages, version, n) ==
  /\ \A i \in 1..n : messages[i].version = version
  /\ \A i \in 1..n - 1 : messages[i].kind = "run_event" /\ messages[i].sequence = i - 1

LEMMA ScanMeans ==
  ASSUME NEW messages, NEW version, NEW N \in Nat, NEW f, IsScan(f, messages, version, N),
         \A i \in 1..N : messages[i].kind \in {"run_event", "run_result"},
         f[N].ok, f[N].terminal
  PROVE  /\ InOrder(messages, version, N)
         /\ N > 0 /\ messages[N].kind = "run_result"
<1> DEFINE Ends(n) == n > 0 /\ messages[n].kind = "run_result"
           Holds(n) ==
             f[n].ok =>
               /\ InOrder(messages, version, n)
               /\ f[n].terminal <=> Ends(n)
               /\ ~f[n].terminal =>
                    /\ f[n].expected = n
                    /\ \A i \in 1..n : messages[i].kind = "run_event" /\ messages[i].sequence = i - 1
           P == {n \in Nat : n <= N => Holds(n)}
<1>1. 0 \in P
  BY DEF IsScan, Unscanned, InOrder
<1>2. ASSUME NEW n \in P PROVE n + 1 \in P
  <2> SUFFICES ASSUME n + 1 <= N, f[n + 1].ok
               PROVE  Holds(n + 1)
    OBVIOUS
  <2>1. n \in Nat /\ n + 1 \in 1..N /\ Holds(n)
    OBVIOUS
  <2>2. f[n + 1] = ScanLine(f[n], messages[n + 1], version)
    BY <2>1 DEF IsScan
  <2>3. /\ f[n].ok /\ messages[n + 1].version = version /\ ~f[n].terminal
        /\ messages[n + 1].kind = "run_result" \/ messages[n + 1].sequence = f[n].expected
    <3>1. f[n + 1].ok <=> (f[n].ok /\ messages[n + 1].version = version
                         /\ IsInOrder(f[n], messages[n + 1]))
      BY <2>2, ScanFields
    <3> QED BY <3>1, Zenon DEF IsInOrder
  <2>4. f[n + 1].terminal <=> messages[n + 1].kind = "run_result"
    <3>1. f[n + 1].terminal <=> (f[n].terminal \/ messages[n + 1].kind = "run_result")
      BY <2>2, ScanFields
    <3> QED BY <2>3, <3>1, Zenon
  <2>5. messages[n + 1].kind \in {"run_event", "run_result"}
    BY <2>1
  <2>6. f[n].expected = n
        /\ \A i \in 1..n : messages[i].kind = "run_event" /\ messages[i].sequence = i - 1
    BY <2>1, <2>3
  <2>7. InOrder(messages, version, n)
    BY <2>1, <2>3
  <2>8. InOrder(messages, version, n + 1)
    BY <2>1, <2>3, <2>6, <2>7 DEF InOrder
  <2>9. messages[n + 1].kind = "run_event" => f[n + 1].expected = n + 1
    BY <2>1, <2>2, <2>6 DEF ScanLine
  <2>10. messages[n + 1].kind = "run_event" =>
           \A i \in 1..n + 1 : messages[i].kind = "run_event" /\ messages[i].sequence = i - 1
    BY <2>1, <2>3, <2>6
  <2> QED BY <2>1, <2>4, <2>5, <2>8, <2>9, <2>10
<1> HIDE DEF P
<1>3. P = Nat
  BY <1>1, <1>2, Induction DEF P
<1>4. Holds(N)
  BY <1>3 DEF P
<1> QED BY <1>4

(* Line by line or as a whole: what the host accepts is a handshake,       *)
(* events numbered from 0 and one result, of one version.                  *)
THEOREM ValidIsWhole ==
  ASSUME NEW lines \in Seq(Message \cup {Malformed}), NEW version, IsValidOutput(lines, version)
  PROVE  IsWholeRun(lines, version)
<1> DEFINE messages == Tail(lines)
           N == Len(messages)
<1>1. /\ lines # <<>> /\ Len(lines) \in Nat /\ Len(lines) > 0
      /\ N \in Nat /\ N = Len(lines) - 1 /\ DOMAIN messages = 1..N
      /\ DOMAIN lines = 1..Len(lines)
      /\ \A i \in 1..N : messages[i] = lines[i + 1]
  BY DEF IsValidOutput
<1>2. /\ \A i \in 1..N : messages[i].kind \in {"run_event", "run_result"}
      /\ Scan(messages, version).ok /\ Scan(messages, version).terminal
      /\ Head(lines).kind = "handshake_reply" /\ Head(lines).version = version
      /\ \A i \in 1..Len(lines) : lines[i] # Malformed
  BY <1>1 DEF IsValidOutput, IsRunTranscript, Decodes
<1> HIDE DEF messages, N
<1>3. InOrder(messages, version, N) /\ N > 0 /\ messages[N].kind = "run_result"
  <2>1. N = Len(messages)
    BY DEF N
  <2>2. PICK f : IsScan(f, messages, version, N) /\ Scan(messages, version) = f[N]
    BY <1>1, <2>1, ScanOf
  <2> QED BY <1>1, <1>2, <2>2, ScanMeans
<1>4. Head(lines) = lines[1] /\ Last(lines) = lines[Len(lines)]
  BY <1>1 DEF Last
<1>5. Last(lines).kind = "run_result" /\ Len(lines) >= 2
  BY <1>1, <1>3, <1>4
<1>6. ASSUME NEW i \in 1..Len(lines) PROVE lines[i].version = version
  <2>1. CASE i = 1
    BY <1>2, <1>4, <2>1
  <2>2. CASE i # 1
    <3>1. i - 1 \in 1..N /\ messages[i - 1] = lines[i]
      BY <1>1, <2>2
    <3> QED BY <1>3, <3>1 DEF InOrder
  <2> QED BY <2>1, <2>2
<1>7. ASSUME NEW i \in 2..Len(lines) - 1
      PROVE  lines[i].kind = "run_event" /\ lines[i].sequence = i - 2
  <2>1. i - 1 \in 1..N - 1 /\ messages[i - 1] = lines[i]
    BY <1>1
  <2> QED BY <1>3, <2>1 DEF InOrder
<1> QED BY <1>1, <1>2, <1>5, <1>6, <1>7 DEF IsWholeRun

-----------------------------------------------------------------------------
(* The result of a run is that of its output, and a run that has not       *)
(* failed has connected every profile.                                     *)
ResultOfOutput ==
  result # NoResult =>
    exitCode = 0 /\ IsWholeRun(output, Version) /\ result = Last(output)

Connected ==
  /\ pc \in Setup => 1..profile - 1 \subseteq capable
  /\ pc = "bridging" => profile \in capable
  /\ pc \in {"launching", "running", "saving"} => Servers \subseteq capable
  /\ pc = "saving" => result # NoResult

CompletedResult ==
  Servers \subseteq capable /\ result # NoResult /\ result.status = "completed"

OnlyWholeRuns ==
  /\ pc \in Teardown \cup Ended /\ ~failed => CompletedResult
  /\ pc = "completed" => ~failed /\ ~cleanupFailed

LEMMA ResultStep ==
  ASSUME ResultOfOutput, [Next]_vars PROVE ResultOfOutput'
<1>1. CASE PluginClosed
  <2>1. /\ exitCode' \in {0, 1} /\ output' \in Outputs
        /\ result' = PluginResult(output', exitCode', Version)
    BY <1>1 DEF PluginClosed
  <2>2. output' \in Seq(Message \cup {Malformed})
    BY <2>1, ExtensionAssumption
  <2>3. result' # NoResult => exitCode' = 0 /\ IsValidOutput(output', Version)
                              /\ result' = Last(output')
    BY <2>1 DEF PluginResult
  <2> QED BY <2>2, <2>3, ValidIsWhole DEF ResultOfOutput
<1>2. CASE ~PluginClosed
  <2>1. UNCHANGED <<exitCode, output, result>>
    BY <1>2 DEF Next, Run, Resolve, ResolveFails, GetProfile, Prepare, Verify, Spawn, SetupFails,
       SpawnFails, Spawned, StoppedBeforeSession, ProbeFails, Listen, LaunchPlugin,
       SaveCheckpoint, StopBridge, StopSession, SessionStopped, RemoveSockets, Initialized,
       PluginRejected, Abort, Children, Beside, Operator, Throw, vars, outcomeVars
  <2> QED BY <2>1 DEF ResultOfOutput
<1> QED BY <1>1, <1>2

LEMMA ConnectedStep ==
  ASSUME IInv, Connected, [Next]_vars PROVE Connected'
<1> USE DEF Setup, Teardown, Ended
<1>1. ASSUME NEW i, NextProfile(i), i = 1 \/ i = profile + 1, i # 1 => profile \in capable,
             1..i - 1 \subseteq capable, capable' = capable, i \in Nat, i <= Profiles + 1
      PROVE  Connected'
  BY <1>1, McpSessionAssumption DEF NextProfile, Goto, Connected, Servers
<1>2. CASE Resolve
  <2>1. NextProfile(1) /\ capable' = capable
    BY <1>2 DEF Resolve, sessionVars
  <2> QED BY <1>1, <2>1, McpSessionAssumption
<1>3. CASE Listen
  <2>1. NextProfile(profile + 1) /\ capable' = capable /\ pc = "bridging"
    BY <1>3 DEF Listen
  <2>2. profile \in 1..Profiles /\ profile \in capable /\ 1..profile - 1 \subseteq capable
    BY <2>1 DEF IInv, ProfileInRange, Servers, Connected
  <2>3. 1..profile + 1 - 1 \subseteq capable
    BY <2>2
  <2> QED BY <1>1, <2>1, <2>2, <2>3, McpSessionAssumption
<1>4. CASE GetProfile \/ Prepare \/ Verify \/ Spawn \/ Spawned \/ LaunchPlugin
  <2>1. UNCHANGED <<profile, capable, result>>
    BY <1>4 DEF GetProfile, Prepare, Verify, Spawn, Spawned, LaunchPlugin, sessionVars, outcomeVars
  <2>2. \/ pc \in {"getting", "preparing", "verifying", "verified", "spawning"}
           /\ pc' \in {"preparing", "verifying", "verified", "spawning", "probing"}
        \/ pc = "launching" /\ pc' = "running"
    BY <1>4 DEF GetProfile, Prepare, Verify, Spawn, Spawned, LaunchPlugin, Step, Goto
  <2> QED BY <2>1, <2>2 DEF Connected
<1>5. CASE Initialized
  <2>1. pc = "probing" /\ pc' = "bridging" /\ capable' = capable \cup {profile}
        /\ UNCHANGED <<profile, result>>
    BY <1>5 DEF Initialized, Step, Goto, outcomeVars
  <2> QED BY <2>1 DEF Connected
<1>6. CASE PluginClosed
  <2>1. /\ pc = "running" /\ UNCHANGED capable
        /\ \/ pc' = "bridges"
           \/ pc' = "saving" /\ result' # NoResult
    <3>1. pc = "running" /\ UNCHANGED capable
      BY <1>6 DEF PluginClosed, sessionVars
    <3>2. CASE result' # NoResult /\ result'.checkpoint
      BY <1>6, <3>1, <3>2 DEF PluginClosed, Goto
    <3>3. CASE ~(result' # NoResult /\ result'.checkpoint)
      BY <1>6, <3>1, <3>3 DEF PluginClosed, Goto
    <3> QED BY <3>2, <3>3
  <2> QED BY <2>1 DEF Connected
<1>7. CASE ResolveFails \/ SetupFails \/ SpawnFails \/ StoppedBeforeSession \/ ProbeFails
           \/ SaveCheckpoint \/ StopBridge \/ StopSession \/ SessionStopped \/ RemoveSockets
           \/ PluginRejected
  <2>1. pc' \in {"bridges", "sessions", "removing", "completed", "failed"}
    BY <1>7 DEF ResolveFails, SetupFails, SpawnFails, StoppedBeforeSession, ProbeFails,
       SaveCheckpoint, StopBridge, StopSession, SessionStopped, RemoveSockets, PluginRejected,
       Throw, Step, Goto
  <2> QED BY <2>1 DEF Connected
<1>8. CASE Abort
  <2>1. pc' = "bridges" \/ UNCHANGED <<pc, profile, capable, result>>
    BY <1>8 DEF Abort, Throw, Goto, outcomeVars
  <2> QED BY <2>1, <1>8 DEF Connected, Abort
<1>9. CASE Children \/ Operator \/ UNCHANGED vars
  <2>1. UNCHANGED <<pc, profile, result>>
    BY <1>9 DEF Children, Beside, Operator, vars, outcomeVars
  <2>2. capable' = capable
    <3>1. CASE Children
      BY <3>1, SessionStepInv DEF Children, Beside, ChildrenGoOn, IInv, TypeOK, SessionInv
    <3> QED BY <1>9, <3>1 DEF Operator, vars, sessionVars
  <2> QED BY <2>1, <2>2 DEF Connected
<1> QED BY <1>2, <1>3, <1>4, <1>5, <1>6, <1>7, <1>8, <1>9 DEF Next, Run

LEMMA WholeRunsStep ==
  ASSUME IInv, Connected, OnlyWholeRuns, [Next]_vars PROVE OnlyWholeRuns'
<1> USE DEF Teardown, Ended
<1>1. CASE pc' \notin Teardown \cup Ended
  BY <1>1 DEF OnlyWholeRuns
<1>2. CASE failed' = TRUE /\ pc' # "completed"
  BY <1>2 DEF OnlyWholeRuns
<1>3. CASE PluginClosed
  <2>1. CASE result' # NoResult /\ result'.checkpoint
    BY <1>3, <2>1, <1>1 DEF PluginClosed, Goto
  <2>2. CASE ~(result' # NoResult /\ result'.checkpoint)
    <3>1. /\ failed' = (result' = NoResult \/ result'.status # "completed")
          /\ pc' = "bridges" /\ pc = "running" /\ capable' = capable
      BY <1>3, <2>2 DEF PluginClosed, Goto, sessionVars
    <3>2. ~failed' => result' # NoResult /\ result'.status = "completed"
      BY <3>1, Zenon
    <3> QED BY <3>1, <3>2 DEF OnlyWholeRuns, CompletedResult, Connected
  <2> QED BY <2>1, <2>2
<1>4. CASE SaveCheckpoint
  <2>1. /\ failed' \in {TRUE, result.status # "completed"}
        /\ pc' = "bridges" /\ pc = "saving" /\ capable' = capable /\ result' = result
    BY <1>4 DEF SaveCheckpoint, Goto, sessionVars
  <2>2. ~failed' => result.status = "completed"
    BY <2>1, Zenon
  <2> QED BY <2>1, <2>2 DEF OnlyWholeRuns, CompletedResult, Connected
<1>5. CASE RemoveSockets
  <2>1. /\ pc = "removing" /\ UNCHANGED <<capable, result, failed>>
        /\ pc' = IF ~failed /\ ~cleanupFailed' THEN "completed" ELSE "failed"
    BY <1>5 DEF RemoveSockets, Goto, Succeeded, sessionVars
  <2>2. pc' = "completed" => ~failed /\ ~cleanupFailed'
    BY <2>1
  <2> QED BY <2>1, <2>2 DEF OnlyWholeRuns, CompletedResult
<1>6. CASE StopBridge \/ StopSession \/ SessionStopped
  <2>1. /\ pc \in {"bridges", "sessions"} /\ pc' # "completed"
        /\ UNCHANGED <<capable, result, failed>>
    BY <1>6 DEF StopBridge, StopSession, SessionStopped, Goto, sessionVars, outcomeVars
  <2> QED BY <2>1 DEF OnlyWholeRuns, CompletedResult
<1>7. CASE Resolve \/ GetProfile \/ Prepare \/ Verify \/ Spawn \/ Spawned \/ Listen \/ LaunchPlugin
           \/ Initialized
  BY <1>1, <1>7 DEF Resolve, GetProfile, Prepare, Verify, Spawn, Spawned, Listen, LaunchPlugin,
     Initialized, NextProfile, Step, Goto
<1>8. CASE ResolveFails \/ SetupFails \/ SpawnFails \/ StoppedBeforeSession \/ ProbeFails
           \/ PluginRejected
  BY <1>2, <1>8 DEF ResolveFails, SetupFails, SpawnFails, StoppedBeforeSession, ProbeFails,
     PluginRejected, Throw, Step, Goto
<1>9. CASE UNCHANGED <<pc, capable, result, failed, cleanupFailed>>
  BY <1>9 DEF OnlyWholeRuns, CompletedResult
<1>10. CASE Abort
  <2>1. \/ failed' = TRUE /\ pc' = "bridges"
        \/ UNCHANGED <<pc, capable, result, failed, cleanupFailed>>
    BY <1>10 DEF Abort, Throw, Goto, outcomeVars
  <2> QED BY <1>2, <1>9, <2>1
<1>11. CASE Children \/ Operator \/ UNCHANGED vars
  <2>1. UNCHANGED <<pc, result, failed, cleanupFailed>>
    BY <1>11 DEF Children, Beside, Operator, vars, outcomeVars
  <2>2. capable' = capable
    <3>1. CASE Children
      BY <3>1, SessionStepInv DEF Children, Beside, ChildrenGoOn, IInv, TypeOK, SessionInv
    <3> QED BY <1>11, <3>1 DEF Operator, vars, sessionVars
  <2> QED BY <1>9, <2>1, <2>2
<1> QED BY <1>3, <1>4, <1>5, <1>6, <1>7, <1>8, <1>10, <1>11 DEF Next, Run

(* A run that completes is a whole one: the exit code, the transcript, the *)
(* profiles and the clean-up all say so.                                   *)
THEOREM CompletedAreWhole == Spec => []CompletedRunsAreWhole
<1> DEFINE RunInv == ResultOfOutput /\ Connected /\ OnlyWholeRuns
<1>1. Init => RunInv
  BY DEF Init, ResultOfOutput, Connected, OnlyWholeRuns, Setup, Teardown, Ended
<1>2. IInv /\ RunInv /\ [Next]_vars => RunInv'
  BY ResultStep, ConnectedStep, WholeRunsStep
<1>3. IInv /\ RunInv => CompletedRunsAreWhole
  BY DEF IInv, TypeOK, SessionTypeOK, ResultOfOutput, OnlyWholeRuns, CompletedResult,
     CompletedRunsAreWhole, Ended
<1> HIDE DEF RunInv
<1> QED BY <1>1, <1>2, <1>3, Inductive, PTL DEF Spec
=============================================================================
