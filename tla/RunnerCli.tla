----------------------------- MODULE RunnerCli -----------------------------
(***************************************************************************)
(* The commands of llm-bench-runner (cli-app.ts, cli.ts) in the terminals  *)
(* of one machine, the two files they share (state.ts: credentials.json    *)
(* and runner.pid), the runners they paired on the control plane, and the  *)
(* daemons they spawn (daemon.ts), which take jobs as RunnerWorker says.   *)
(*                                                                         *)
(* A command waits before each of its reads, requests and writes; other    *)
(* terminals, daemons and Ctrl-C come in between.  A process id is not     *)
(* used twice.                                                             *)
(***************************************************************************)
EXTENDS Integers, FiniteSets

CONSTANTS
  Terminals,
  MaxCommands,       \* bound: commands that are typed
  MaxDaemons,        \* bound: process ids of daemons
  MaxRunners         \* bound: runners that are paired

ASSUME RunnerCliAssumption ==
  MaxCommands \in Nat /\ MaxDaemons \in Nat /\ MaxRunners \in Nat

VARIABLES
  command,           \* of each terminal: [name, at, held]
  typed,             \* how many commands were typed
  credentials,       \* credentials.json: the runner it is of, or None
  pidFile,           \* runner.pid: a process id, or None
  paired, revoked,   \* runners the server knows and those it has revoked
  daemon, stopping,  \* what each daemon waits for; whether SIGTERM reached it
  disturbed          \* files that commands have left in disagreement

fileVars == <<credentials, pidFile>>
serverVars == <<paired, revoked>>
daemonVars == <<daemon, stopping>>
vars == <<command, typed, fileVars, serverVars, daemonVars, disturbed>>

None == 0
Pids == 1..MaxDaemons
Runners == 1..MaxRunners
Prompt == [name |-> "none", at |-> "prompt", held |-> None]

(* The file a command is about.                                            *)
FileOf(name) == IF name \in {"login", "logout"} THEN "credentials" ELSE "pid"

TypeOK ==
  /\ command \in [Terminals ->
       [name : {"none", "login", "logout", "start", "stop", "status"},
        at : {"prompt", "begun", "checking", "polling", "approved", "revoking", "signalling",
              "spawning", "saving", "clearing"},
        held : 0..MaxDaemons \cup 0..MaxRunners]]
  /\ typed \in 0..MaxCommands
  /\ credentials \in Runners \cup {None} /\ pidFile \in Pids \cup {None}
  /\ paired \subseteq Runners /\ revoked \subseteq paired
  /\ daemon \in [Pids -> {"none", "booting", "idle", "heartbeat", "working", "exited"}]
  /\ stopping \in [Pids -> BOOLEAN]
  /\ disturbed \subseteq {"credentials", "pid"}

Init ==
  /\ command = [t \in Terminals |-> Prompt] /\ typed = 0
  /\ credentials = None /\ pidFile = None
  /\ paired = {} /\ revoked = {}
  /\ daemon = [p \in Pids |-> "none"] /\ stopping = [p \in Pids |-> FALSE]
  /\ disturbed = {}

-----------------------------------------------------------------------------
(* Commands.                                                               *)

Goto(t, at, held) == command' = [command EXCEPT ![t].at = at, ![t].held = held]
End(t) == command' = [command EXCEPT ![t] = Prompt]
At(t, name, at) == command[t].name = name /\ command[t].at = at
Held(t) == command[t].held

UnderWay(file) ==
  \E t \in Terminals : command[t] # Prompt /\ FileOf(command[t].name) = file

Savers == {"login", "start"}

(* A login or a start that overlaps another command of its file: the other *)
(* may clear what it saves, or save what it has not seen.                  *)
Collides(name) ==
  \E t \in Terminals :
    /\ command[t] # Prompt /\ FileOf(command[t].name) = FileOf(name)
    /\ {name, command[t].name} \cap Savers # {}

Begin(t, name) ==
  /\ command[t] = Prompt /\ typed < MaxCommands
  /\ typed' = typed + 1
  /\ command' = [command EXCEPT ![t] = [name |-> name, at |-> "begun", held |-> None]]
  /\ disturbed' = IF Collides(name) THEN disturbed \cup {FileOf(name)} ELSE disturbed
  /\ UNCHANGED <<fileVars, serverVars, daemonVars>>

(* Its effect is there and the file does not tell it.                      *)
LeavesTrace(t) ==
  At(t, "login", "approved") \/ At(t, "logout", "clearing") \/ At(t, "start", "saving")

(* Ctrl-C, or an error of a file, of a request or of the host's            *)
(* prerequisites: the command ends early.                                  *)
BreakOff(t) ==
  /\ command[t] # Prompt
  /\ End(t)
  /\ disturbed' = IF LeavesTrace(t) THEN disturbed \cup {FileOf(command[t].name)}
                  ELSE disturbed
  /\ UNCHANGED <<typed, fileVars, serverVars, daemonVars>>

(* login: the pairing is started, polled until it is approved or expires,  *)
(* and the token that the poll delivers is saved.                          *)
StartPairing(t) ==
  /\ At(t, "login", "begun")
  /\ Goto(t, "polling", None)
  /\ UNCHANGED <<typed, fileVars, serverVars, daemonVars, disturbed>>

PollApproved(t) ==
  /\ At(t, "login", "polling") /\ Cardinality(paired) < MaxRunners
  /\ LET r == Cardinality(paired) + 1 IN
     paired' = paired \cup {r} /\ Goto(t, "approved", r)
  /\ UNCHANGED <<typed, fileVars, revoked, daemonVars, disturbed>>

PairingExpired(t) ==
  /\ At(t, "login", "polling")
  /\ End(t)
  /\ UNCHANGED <<typed, fileVars, serverVars, daemonVars, disturbed>>

SaveCredentials(t) ==
  /\ At(t, "login", "approved")
  /\ credentials' = Held(t)
  /\ End(t)
  /\ UNCHANGED <<typed, pidFile, serverVars, daemonVars, disturbed>>

(* logout and start: requiredCredentials.                                  *)
RequireCredentials(t) ==
  /\ At(t, "logout", "begun") \/ At(t, "start", "begun")
  /\ IF credentials = None THEN End(t)
     ELSE Goto(t, IF command[t].name = "logout" THEN "revoking" ELSE "checking", credentials)
  /\ UNCHANGED <<typed, fileVars, serverVars, daemonVars, disturbed>>

(* The server refuses the token of a runner it has revoked already.        *)
Revoke(t) ==
  /\ At(t, "logout", "revoking")
  /\ IF Held(t) \in revoked
       THEN End(t) /\ UNCHANGED revoked
       ELSE revoked' = revoked \cup {Held(t)} /\ Goto(t, "clearing", None)
  /\ UNCHANGED <<typed, fileVars, paired, daemonVars, disturbed>>

(* The revocation takes effect, and its answer is lost.                    *)
RevokeUnanswered(t) ==
  /\ At(t, "logout", "revoking")
  /\ revoked' = revoked \cup {Held(t)}
  /\ End(t)
  /\ disturbed' = disturbed \cup {"credentials"}
  /\ UNCHANGED <<typed, fileVars, paired, daemonVars>>

ClearCredentials(t) ==
  /\ At(t, "logout", "clearing")
  /\ credentials' = None
  /\ End(t)
  /\ UNCHANGED <<typed, pidFile, serverVars, daemonVars, disturbed>>

IsRunning(p) == p # None /\ daemon[p] \notin {"none", "exited"}

(* Mutant of MayStart.                                                     *)
MayStartWhenIdle(p) == ~IsRunning(p) \/ daemon[p] = "idle"

MayStart(p) == ~IsRunning(p)

(* start: processId, and isRunning at once.                                *)
CheckRunning(t) ==
  /\ At(t, "start", "checking")
  /\ IF MayStart(pidFile) THEN Goto(t, "spawning", None) ELSE End(t)
  /\ UNCHANGED <<typed, fileVars, serverVars, daemonVars, disturbed>>

SpawnDaemon(t) ==
  /\ At(t, "start", "spawning")
  /\ \E p \in Pids :
       /\ daemon[p] = "none" /\ \A q \in Pids : q < p => daemon[q] # "none"
       /\ daemon' = [daemon EXCEPT ![p] = "booting"]
       /\ Goto(t, "saving", p)
  /\ UNCHANGED <<typed, fileVars, serverVars, stopping, disturbed>>

SaveProcessId(t) ==
  /\ At(t, "start", "saving")
  /\ pidFile' = Held(t)
  /\ End(t)
  /\ UNCHANGED <<typed, credentials, serverVars, daemonVars, disturbed>>

(* stop, and status, which leaves a running daemon alone.                  *)
ReadProcessId(t) ==
  /\ At(t, "stop", "begun") \/ At(t, "status", "begun")
  /\ IF command[t].name = "stop" THEN Goto(t, "signalling", pidFile)
     ELSE IF IsRunning(pidFile) \/ pidFile = None THEN End(t)
     ELSE Goto(t, "clearing", None)
  /\ UNCHANGED <<typed, fileVars, serverVars, daemonVars, disturbed>>

(* SIGTERM ends a daemon at once until it has its handler, and again once  *)
(* the handler, which is for one signal, has run.                          *)
Signal(t) ==
  /\ At(t, "stop", "signalling")
  /\ IF IsRunning(Held(t))
       THEN IF daemon[Held(t)] = "booting" \/ stopping[Held(t)]
              THEN daemon' = [daemon EXCEPT ![Held(t)] = "exited"] /\ UNCHANGED stopping
              ELSE stopping' = [stopping EXCEPT ![Held(t)] = TRUE] /\ UNCHANGED daemon
       ELSE UNCHANGED daemonVars
  /\ Goto(t, "clearing", None)
  /\ UNCHANGED <<typed, fileVars, serverVars, disturbed>>

ClearProcessId(t) ==
  /\ At(t, "stop", "clearing") \/ At(t, "status", "clearing")
  /\ pidFile' = None
  /\ End(t)
  /\ UNCHANGED <<typed, credentials, serverVars, daemonVars, disturbed>>

-----------------------------------------------------------------------------
(* Daemons.                                                                *)

Become(p, at) ==
  /\ daemon' = [daemon EXCEPT ![p] = at]
  /\ UNCHANGED <<command, typed, fileVars, serverVars, stopping, disturbed>>

(* runDaemon: the credentials and the inventory are read once.             *)
Boot(p) ==
  /\ daemon[p] = "booting"
  /\ Become(p, IF credentials = None THEN "exited" ELSE "idle")

(* Mutant of GoesOn.                                                       *)
GoesOnAlways(p) == TRUE

(* The loop's condition, between two turns.                                *)
GoesOn(p) == ~stopping[p]

Wake(p) ==
  /\ daemon[p] = "idle"
  /\ Become(p, IF GoesOn(p) THEN "heartbeat" ELSE "exited")

(* runOnce follows the heartbeat also when SIGTERM has come meanwhile; a   *)
(* heartbeat that fails ends the turn.                                     *)
Heartbeat(p) ==
  /\ daemon[p] = "heartbeat"
  /\ Become(p, "working") \/ Become(p, "idle")

(* runOnce returns: its job has ended, there was none, or it failed.       *)
RunOnce(p) == daemon[p] = "working" /\ Become(p, "idle")

DaemonDies(p) == IsRunning(p) /\ Become(p, "exited")

CommandStep(t) ==
  \/ StartPairing(t) \/ PollApproved(t) \/ PairingExpired(t) \/ SaveCredentials(t)
  \/ RequireCredentials(t) \/ Revoke(t) \/ RevokeUnanswered(t) \/ ClearCredentials(t)
  \/ CheckRunning(t) \/ SpawnDaemon(t) \/ SaveProcessId(t)
  \/ ReadProcessId(t) \/ Signal(t) \/ ClearProcessId(t)

DaemonStep(p) == Boot(p) \/ Wake(p) \/ Heartbeat(p) \/ RunOnce(p)

Next ==
  \/ \E t \in Terminals :
       \/ \E name \in {"login", "logout", "start", "stop", "status"} : Begin(t, name)
       \/ CommandStep(t) \/ BreakOff(t)
  \/ \E p \in Pids : DaemonStep(p) \/ DaemonDies(p)

Spec == Init /\ [][Next]_vars

(* A daemon's process runs, its requests time out and its executions end,  *)
(* as RunnerWorker and Execution show.  Nobody has to type a command.      *)
FairSpec == Spec /\ \A p \in Pids : WF_vars(DaemonStep(p))

-----------------------------------------------------------------------------
(***************************************************************************)
(* Properties.                                                             *)
(***************************************************************************)

AtRest(file) == file \notin disturbed /\ ~UnderWay(file)

(* A daemon that was not told to stop is the one in runner.pid, so that    *)
(* stop reaches it and start does not add another: as long as no start     *)
(* overlaps another command on the file or ends before it has saved.       *)
RunningDaemonIsNamed ==
  AtRest("pid") => \A p \in Pids : IsRunning(p) /\ ~stopping[p] => p = pidFile

(* credentials.json names a runner the server accepts, and a runner that   *)
(* it does not name was logged out or was left behind by a later login: as *)
(* long as no login overlaps another command on the file, and login and    *)
(* logout do not end between the server's change and the file's.           *)
CredentialsStand ==
  AtRest("credentials") =>
    /\ credentials # None => credentials \in paired \ revoked
    /\ \A r \in paired : r = Cardinality(paired) => r \in revoked \/ r = credentials

(* Both files tell the truth when no command on them is under way, however *)
(* stop, status and logout overlap each other and wherever else a command  *)
(* breaks off: the order of check, spawn, revocation and file matters.     *)
StateFilesStand == RunningDaemonIsNamed /\ CredentialsStand

(* A daemon that stop has signalled ends, after at most the turn it is in: *)
(* README "stop the runner".                                               *)
StoppedDaemonEnds == \A p \in Pids : stopping[p] ~> daemon[p] = "exited"
=============================================================================
