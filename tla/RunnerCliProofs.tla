--------------------------- MODULE RunnerCliProofs ---------------------------
(***************************************************************************)
(* Theorems about RunnerCli, for every number of terminals, commands,      *)
(* daemons and runners: the two files tell the truth whenever no command   *)
(* on them is under way, unless a login or a start overlapped another of   *)
(* their commands or one broke off before it told the file what it did.    *)
(***************************************************************************)
EXTENDS RunnerCli, FiniteSetTheorems, TLAPS

(* The daemons that run and that nobody has told to stop.                  *)
Live == {p \in Pids : IsRunning(p) /\ ~stopping[p]}

(* A command that saves a file that is not disturbed is the only one on it. *)
OneAtATime ==
  \A t, u \in Terminals :
    /\ command[t] # Prompt /\ command[u] # Prompt
    /\ FileOf(command[t].name) = FileOf(command[u].name)
    /\ FileOf(command[t].name) \notin disturbed
    /\ command[t].name \in Savers
    => t = u

(* Between the steps of start and stop: no daemon is live when one is to   *)
(* be spawned or the file is to be cleared, and the one that was spawned   *)
(* is the one that will be saved.                                          *)
DaemonOK ==
  "pid" \notin disturbed =>
    /\ (\A t \in Terminals : ~At(t, "start", "saving")) => Live \subseteq {pidFile}
    /\ \A t \in Terminals :
         /\ At(t, "start", "spawning") \/ At(t, "stop", "clearing") \/ At(t, "status", "clearing")
              => Live = {}
         /\ At(t, "start", "saving") => Live \subseteq {Held(t)}
         /\ At(t, "stop", "signalling") => Live \subseteq {Held(t)}

Last == Cardinality(paired)

PairedInOrder == paired = 1..Last /\ Last \in Nat

(* Between the steps of login and logout: the runner that was just paired  *)
(* is the one that will be saved, and the last one is revoked before the   *)
(* file is cleared.                                                        *)
RunnerOK ==
  "credentials" \notin disturbed =>
    /\ (\A t \in Terminals : ~At(t, "logout", "clearing")) =>
         (credentials # None => credentials \in paired \ revoked)
    /\ (\A t \in Terminals : ~At(t, "login", "approved")) =>
         (Last \in paired => Last \in revoked \/ Last = credentials)
    /\ \A t \in Terminals :
         /\ At(t, "login", "approved") => Held(t) = Last /\ Last \in paired \ revoked
         /\ At(t, "logout", "revoking") =>
              (Last \in paired => Last \in revoked \/ Last = Held(t))
         /\ At(t, "logout", "clearing") => (Last \in paired => Last \in revoked)

(* What the commands carry, also when they overlap: a spawned daemon's      *)
(* process id, or a runner that was paired.                                *)
HeldOK ==
  /\ credentials \in paired \cup {None}
  /\ \A t \in Terminals :
       /\ At(t, "start", "saving") => Held(t) \in Pids
       /\ At(t, "login", "approved") \/ At(t, "logout", "revoking") => Held(t) \in paired

IInv == TypeOK /\ OneAtATime /\ DaemonOK /\ PairedInOrder /\ RunnerOK /\ HeldOK

-----------------------------------------------------------------------------
(* What a step does to the commands.                                       *)
Names == {"none", "login", "logout", "start", "stop", "status"}
Places == {"prompt", "begun", "checking", "polling", "approved", "revoking", "signalling",
           "spawning", "saving", "clearing"}
Helds == 0..MaxDaemons \cup 0..MaxRunners
Commands == [name : Names, at : Places, held : Helds]

LEMMA CommandsTyped == TypeOK => command \in [Terminals -> Commands]
BY DEF TypeOK, Commands, Names, Places, Helds

(* The types of everything else.                                           *)
RestTyped ==
  /\ typed \in 0..MaxCommands
  /\ credentials \in Runners \cup {None} /\ pidFile \in Pids \cup {None}
  /\ paired \subseteq Runners /\ revoked \subseteq paired
  /\ daemon \in [Pids -> {"none", "booting", "idle", "heartbeat", "working", "exited"}]
  /\ stopping \in [Pids -> BOOLEAN]
  /\ disturbed \subseteq {"credentials", "pid"}

LEMMA HeldTyped ==
  /\ None \in Helds
  /\ Pids \subseteq Helds /\ Runners \subseteq Helds
BY RunnerCliAssumption DEF Helds, None, Pids, Runners

LEMMA GotoEffect ==
  ASSUME TypeOK, NEW t \in Terminals, NEW at \in Places, NEW held \in Helds, Goto(t, at, held)
  PROVE  /\ command' \in [Terminals -> Commands]
         /\ command'[t] = [name |-> command[t].name, at |-> at, held |-> held]
         /\ \A u \in Terminals \ {t} : command'[u] = command[u]
<1>1. command \in [Terminals -> Commands]
  BY CommandsTyped
<1> DEFINE first == [command EXCEPT ![t].at = at]
<1>2. command' = [first EXCEPT ![t].held = held]
  BY DEF Goto
<1>3. /\ DOMAIN first = Terminals
      /\ first[t] = [command[t] EXCEPT !.at = at]
      /\ \A u \in Terminals \ {t} : first[u] = command[u]
  BY <1>1
<1>4. first[t] = [name |-> command[t].name, at |-> at, held |-> command[t].held]
  BY <1>1, <1>3 DEF Commands
<1> HIDE DEF first
<1>5. /\ DOMAIN command' = Terminals
      /\ command'[t] = [first[t] EXCEPT !.held = held]
      /\ \A u \in Terminals \ {t} : command'[u] = command[u]
  BY <1>2, <1>3
<1>6. command'[t] = [name |-> command[t].name, at |-> at, held |-> held]
  BY <1>4, <1>5
<1>7. \A u \in Terminals : command'[u] \in Commands
  BY <1>1, <1>5, <1>6 DEF Commands
<1>8. command' = [u \in Terminals |-> command'[u]]
  BY <1>1, <1>2 DEF first
<1>9. command' \in [Terminals -> Commands]
  BY <1>7, <1>8
<1> QED BY <1>5, <1>6, <1>9

LEMMA EndEffect ==
  ASSUME TypeOK, NEW t \in Terminals, End(t)
  PROVE  /\ command' \in [Terminals -> Commands]
         /\ command'[t] = Prompt
         /\ \A u \in Terminals \ {t} : command'[u] = command[u]
<1>1. Prompt \in Commands
  BY HeldTyped DEF Prompt, Commands, Names, Places
<1> QED BY <1>1, CommandsTyped DEF End

(* A command goes on or ends: it does not become another one.              *)
Continues ==
  /\ disturbed \subseteq disturbed'
  /\ \A u \in Terminals :
       command'[u] # Prompt => command[u] # Prompt /\ command'[u].name = command[u].name

LEMMA GotoContinues ==
  ASSUME TypeOK, NEW t \in Terminals, NEW at \in Places, NEW held \in Helds, Goto(t, at, held),
         command[t].name # "none", disturbed \subseteq disturbed'
  PROVE  Continues
<1>1. command[t] # Prompt
  BY DEF Prompt
<1>2. /\ command'[t] = [name |-> command[t].name, at |-> at, held |-> held]
      /\ \A u \in Terminals \ {t} : command'[u] = command[u]
  BY GotoEffect
<1>3. command'[t].name = command[t].name
  BY <1>2
<1> QED BY <1>1, <1>2, <1>3 DEF Continues

LEMMA EndContinues ==
  ASSUME TypeOK, NEW t \in Terminals, End(t), disturbed \subseteq disturbed'
  PROVE  Continues
BY EndEffect DEF Continues

LEMMA ContinuesOne ==
  ASSUME OneAtATime, Continues
  PROVE  OneAtATime'
BY DEF OneAtATime, Continues

(* A command that saves an undisturbed file is the only one of that file.  *)
LEMMA Alone ==
  ASSUME OneAtATime, NEW t \in Terminals, NEW u \in Terminals, u # t,
         command[t].name \in Savers, command[t].name # "none", command[u].name # "none",
         FileOf(command[t].name) = FileOf(command[u].name)
  PROVE  FileOf(command[t].name) \in disturbed
BY DEF OneAtATime, Prompt

-----------------------------------------------------------------------------
(* Steps that concern neither the pid file nor the daemons.                *)
OnDaemon(c) ==
  /\ c.name \in {"start", "stop", "status"}
  /\ c.at \in {"spawning", "saving", "signalling", "clearing"}

DaemonApart(u) ==
  command'[u] = command[u] \/ (~OnDaemon(command[u]) /\ ~OnDaemon(command'[u]))

DaemonQuiet ==
  /\ pidFile' = pidFile /\ Live' \subseteq Live /\ disturbed \subseteq disturbed'
  /\ \A u \in Terminals : DaemonApart(u)

LEMMA DaemonQuietKeeps ==
  ASSUME DaemonOK, DaemonQuiet
  PROVE  DaemonOK'
<1> SUFFICES ASSUME "pid" \notin disturbed' PROVE DaemonOK'
  BY DEF DaemonOK
<1>1. "pid" \notin disturbed /\ Live' \subseteq Live /\ pidFile' = pidFile
  BY DEF DaemonQuiet
<1>2. ASSUME NEW t \in Terminals
      PROVE  /\ At(t, "start", "saving")' <=> At(t, "start", "saving")
             /\ At(t, "start", "spawning")' <=> At(t, "start", "spawning")
             /\ At(t, "stop", "clearing")' <=> At(t, "stop", "clearing")
             /\ At(t, "status", "clearing")' <=> At(t, "status", "clearing")
             /\ At(t, "stop", "signalling")' <=> At(t, "stop", "signalling")
             /\ At(t, "start", "saving") \/ At(t, "stop", "signalling") => Held(t)' = Held(t)
  BY DEF DaemonQuiet, DaemonApart, OnDaemon, At, Held
<1> QED BY <1>1, <1>2 DEF DaemonOK

(* Steps that concern neither the credentials nor the server.              *)
OnRunner(c) ==
  c.name \in {"login", "logout"} /\ c.at \in {"approved", "revoking", "clearing"}

RunnerApart(u) ==
  command'[u] = command[u] \/ (~OnRunner(command[u]) /\ ~OnRunner(command'[u]))

RunnerQuiet ==
  /\ UNCHANGED <<credentials, paired, revoked>> /\ disturbed \subseteq disturbed'
  /\ \A u \in Terminals : RunnerApart(u)

LEMMA RunnerQuietKeeps ==
  ASSUME RunnerOK, PairedInOrder, RunnerQuiet
  PROVE  RunnerOK' /\ PairedInOrder'
<1>1. UNCHANGED <<credentials, paired, revoked>> /\ Last' = Last
  BY DEF RunnerQuiet, Last
<1>2. PairedInOrder'
  BY <1>1 DEF PairedInOrder
<1> SUFFICES ASSUME "credentials" \notin disturbed' PROVE RunnerOK'
  BY <1>2 DEF RunnerOK
<1>3. "credentials" \notin disturbed
  BY DEF RunnerQuiet
<1>4. ASSUME NEW t \in Terminals
      PROVE  /\ At(t, "login", "approved")' <=> At(t, "login", "approved")
             /\ At(t, "logout", "revoking")' <=> At(t, "logout", "revoking")
             /\ At(t, "logout", "clearing")' <=> At(t, "logout", "clearing")
             /\ At(t, "login", "approved") \/ At(t, "logout", "revoking") => Held(t)' = Held(t)
  BY DEF RunnerQuiet, RunnerApart, OnRunner, At, Held
<1> QED BY <1>1, <1>3, <1>4 DEF RunnerOK

(* A command goes from one place to another, or ends, where neither place  *)
(* concerns the daemons, or the runner.                                    *)
LEMMA GotoQuiet ==
  ASSUME TypeOK, NEW t \in Terminals, NEW at \in Places, NEW held \in Helds, Goto(t, at, held),
         disturbed \subseteq disturbed'
  PROVE  /\ /\ pidFile' = pidFile /\ Live' \subseteq Live
            /\ ~OnDaemon(command[t])
            /\ command[t].name \in {"login", "logout"} \/ at \in {"checking", "begun"}
            => DaemonQuiet
         /\ /\ UNCHANGED <<credentials, paired, revoked>>
            /\ ~OnRunner(command[t])
            /\ command[t].name \in {"start", "stop", "status"} \/ at \in {"polling", "begun"}
            => RunnerQuiet
<1>1. /\ command'[t] = [name |-> command[t].name, at |-> at, held |-> held]
      /\ \A u \in Terminals \ {t} : command'[u] = command[u]
  BY GotoEffect
<1>2. command'[t].name = command[t].name /\ command'[t].at = at
  BY <1>1
<1>3. /\ command[t].name \in {"login", "logout"} \/ at \in {"checking", "begun"}
           => ~OnDaemon(command'[t])
      /\ command[t].name \in {"start", "stop", "status"} \/ at \in {"polling", "begun"}
           => ~OnRunner(command'[t])
  BY <1>2 DEF OnDaemon, OnRunner
<1>4. ~OnDaemon(command[t]) /\ ~OnDaemon(command'[t]) => \A u \in Terminals : DaemonApart(u)
  BY <1>1 DEF DaemonApart
<1>5. ~OnRunner(command[t]) /\ ~OnRunner(command'[t]) => \A u \in Terminals : RunnerApart(u)
  BY <1>1 DEF RunnerApart
<1> QED BY <1>3, <1>4, <1>5 DEF DaemonQuiet, RunnerQuiet

LEMMA EndQuiet ==
  ASSUME TypeOK, NEW t \in Terminals, End(t), disturbed \subseteq disturbed'
  PROVE  /\ pidFile' = pidFile /\ Live' \subseteq Live /\ ~OnDaemon(command[t]) => DaemonQuiet
         /\ UNCHANGED <<credentials, paired, revoked>> /\ ~OnRunner(command[t]) => RunnerQuiet
<1>1. command'[t] = Prompt /\ \A u \in Terminals \ {t} : command'[u] = command[u]
  BY EndEffect
<1>2. ~OnDaemon(command'[t]) /\ ~OnRunner(command'[t])
  BY <1>1 DEF Prompt, OnDaemon, OnRunner
<1>3. ~OnDaemon(command[t]) => \A u \in Terminals : DaemonApart(u)
  BY <1>1, <1>2 DEF DaemonApart
<1>4. ~OnRunner(command[t]) => \A u \in Terminals : RunnerApart(u)
  BY <1>1, <1>2 DEF RunnerApart
<1> QED BY <1>3, <1>4 DEF DaemonQuiet, RunnerQuiet

LEMMA SameDaemons == UNCHANGED daemonVars => Live' \subseteq Live
BY DEF daemonVars, Live, IsRunning

LEMMA GotoTyped ==
  ASSUME TypeOK, NEW t \in Terminals, NEW at \in Places, NEW held \in Helds, Goto(t, at, held),
         RestTyped'
  PROVE  TypeOK'
BY GotoEffect DEF TypeOK, RestTyped, Commands, Names, Places, Helds

LEMMA EndTyped ==
  ASSUME TypeOK, NEW t \in Terminals, End(t), RestTyped'
  PROVE  TypeOK'
BY EndEffect DEF TypeOK, RestTyped, Commands, Names, Places, Helds

LEMMA HeldKept ==
  ASSUME HeldOK, NEW t \in Terminals, \A u \in Terminals \ {t} : command'[u] = command[u],
         paired \subseteq paired', credentials' \in paired' \cup {None},
         At(t, "start", "saving")' => Held(t)' \in Pids,
         (At(t, "login", "approved") \/ At(t, "logout", "revoking"))' => Held(t)' \in paired'
  PROVE  HeldOK'
<1>1. ASSUME NEW u \in Terminals
      PROVE  /\ At(u, "start", "saving")' => Held(u)' \in Pids
             /\ (At(u, "login", "approved") \/ At(u, "logout", "revoking"))' => Held(u)' \in paired'
  <2>1. CASE u = t
    BY <2>1
  <2>2. CASE u # t
    BY <2>2 DEF HeldOK, At, Held
  <2> QED BY <2>1, <2>2
<1> QED BY <1>1 DEF HeldOK

(* A command goes on, and nothing else changes.                            *)
LEMMA GotoSafe ==
  ASSUME IInv, NEW t \in Terminals, NEW at \in Places, NEW held \in Helds, Goto(t, at, held),
         command[t].name # "none",
         UNCHANGED <<typed, fileVars, serverVars, daemonVars, disturbed>>
  PROVE  /\ TypeOK' /\ OneAtATime'
         /\ /\ ~OnDaemon(command[t])
            /\ command[t].name \in {"login", "logout"} \/ at \in {"checking", "begun"}
            => DaemonOK'
         /\ /\ ~OnRunner(command[t])
            /\ command[t].name \in {"start", "stop", "status"} \/ at \in {"polling", "begun"}
            => RunnerOK' /\ PairedInOrder'
         /\ at \notin {"saving", "approved", "revoking"} => HeldOK'
<1>1. TypeOK /\ OneAtATime /\ DaemonOK /\ RunnerOK /\ PairedInOrder /\ HeldOK
  BY DEF IInv
<1>2. UNCHANGED <<typed, credentials, pidFile, paired, revoked, daemon, stopping, disturbed>>
  BY DEF fileVars, serverVars, daemonVars
<1>3. RestTyped'
  BY <1>1, <1>2 DEF TypeOK, RestTyped
<1>4. TypeOK'
  BY <1>1, <1>3, GotoTyped
<1>5. disturbed \subseteq disturbed' /\ Live' \subseteq Live
  BY <1>2, SameDaemons DEF daemonVars
<1>6. OneAtATime'
  BY <1>1, <1>5, GotoContinues, ContinuesOne
<1>7. ASSUME ~OnDaemon(command[t]),
             command[t].name \in {"login", "logout"} \/ at \in {"checking", "begun"}
      PROVE  DaemonOK'
  <2>1. DaemonQuiet
    BY <1>1, <1>2, <1>5, <1>7, GotoQuiet
  <2> QED BY <1>1, <2>1, DaemonQuietKeeps
<1>8. ASSUME ~OnRunner(command[t]),
             command[t].name \in {"start", "stop", "status"} \/ at \in {"polling", "begun"}
      PROVE  RunnerOK' /\ PairedInOrder'
  <2>1. RunnerQuiet
    BY <1>1, <1>2, <1>5, <1>8, GotoQuiet
  <2> QED BY <1>1, <2>1, RunnerQuietKeeps
<1>9. ASSUME at \notin {"saving", "approved", "revoking"} PROVE HeldOK'
  <2>1. command'[t] = [name |-> command[t].name, at |-> at, held |-> held]
        /\ \A u \in Terminals \ {t} : command'[u] = command[u]
    BY <1>1, GotoEffect
  <2>2. command'[t].at = at
    BY <2>1
  <2>3. ~At(t, "start", "saving")' /\ ~At(t, "login", "approved")' /\ ~At(t, "logout", "revoking")'
    BY <1>9, <2>2 DEF At
  <2>4. paired \subseteq paired' /\ credentials' \in paired' \cup {None}
    BY <1>1, <1>2 DEF HeldOK
  <2> QED BY <1>1, <2>1, <2>3, <2>4, HeldKept
<1> QED BY <1>4, <1>6, <1>7, <1>8, <1>9

LEMMA EndHeld ==
  ASSUME TypeOK, HeldOK, NEW t \in Terminals, End(t), paired' = paired,
         credentials' \in paired \cup {None}
  PROVE  HeldOK'
<1>1. command'[t].name = "none" /\ \A u \in Terminals \ {t} : command'[u] = command[u]
  BY EndEffect DEF Prompt
<1>2. ~At(t, "start", "saving")' /\ ~At(t, "login", "approved")' /\ ~At(t, "logout", "revoking")'
  BY <1>1 DEF At
<1> QED BY <1>1, <1>2, HeldKept

(* A command ends, and at most disturbs its file.                          *)
LEMMA EndSafe ==
  ASSUME IInv, NEW t \in Terminals, End(t), disturbed \subseteq disturbed',
         disturbed' \subseteq {"credentials", "pid"},
         UNCHANGED <<typed, fileVars, serverVars, daemonVars>>
  PROVE  /\ TypeOK' /\ OneAtATime'
         /\ ~OnDaemon(command[t]) \/ "pid" \in disturbed' => DaemonOK'
         /\ ~OnRunner(command[t]) \/ "credentials" \in disturbed' => RunnerOK'
         /\ PairedInOrder' /\ HeldOK'
<1>1. TypeOK /\ OneAtATime /\ DaemonOK /\ RunnerOK /\ PairedInOrder /\ HeldOK
  BY DEF IInv
<1>2. UNCHANGED <<typed, credentials, pidFile, paired, revoked, daemon, stopping>>
  BY DEF fileVars, serverVars, daemonVars
<1>3. RestTyped'
  BY <1>1, <1>2 DEF TypeOK, RestTyped
<1>4. TypeOK'
  BY <1>1, <1>3, EndTyped
<1>5. Live' \subseteq Live
  BY SameDaemons
<1>6. OneAtATime'
  BY <1>1, EndContinues, ContinuesOne
<1>7. ASSUME ~OnDaemon(command[t]) PROVE DaemonOK'
  <2>1. DaemonQuiet
    BY <1>1, <1>2, <1>5, <1>7, EndQuiet
  <2> QED BY <1>1, <2>1, DaemonQuietKeeps
<1>8. ASSUME ~OnRunner(command[t]) PROVE RunnerOK'
  <2>1. RunnerQuiet
    BY <1>1, <1>2, <1>8, EndQuiet
  <2> QED BY <1>1, <2>1, RunnerQuietKeeps
<1>9. PairedInOrder'
  BY <1>1, <1>2 DEF PairedInOrder, Last
<1>10. "pid" \in disturbed' => DaemonOK'
  BY DEF DaemonOK
<1>11. "credentials" \in disturbed' => RunnerOK'
  BY DEF RunnerOK
<1>12. HeldOK'
  BY <1>1, <1>2, EndHeld DEF HeldOK
<1> QED BY <1>4, <1>6, <1>7, <1>8, <1>9, <1>10, <1>11, <1>12

-----------------------------------------------------------------------------
(* Steps that do concern a file.  A command that saves it is the only one  *)
(* of the file, and its new place decides; the other commands only take    *)
(* away what the file need not tell any more.                              *)
OfDaemon == {"start", "stop", "status"}
OfRunner == {"login", "logout"}

LEMMA OnlyCommand ==
  ASSUME OneAtATime, NEW t \in Terminals, NEW u \in Terminals \ {t}
  PROVE  /\ "pid" \notin disturbed =>
              /\ command[t].name = "start" => command[u].name \notin OfDaemon
              /\ command[t].name \in OfDaemon => command[u].name # "start"
         /\ "credentials" \notin disturbed =>
              /\ command[t].name = "login" => command[u].name \notin OfRunner
              /\ command[t].name \in OfRunner => command[u].name # "login"
<1>1. ASSUME NEW v \in Terminals, NEW w \in Terminals, v # w, "pid" \notin disturbed,
             command[v].name = "start"
      PROVE  command[w].name \notin OfDaemon
  BY <1>1, Alone DEF OfDaemon, FileOf, Savers
<1>2. ASSUME NEW v \in Terminals, NEW w \in Terminals, v # w, "credentials" \notin disturbed,
             command[v].name = "login"
      PROVE  command[w].name \notin OfRunner
  BY <1>2, Alone DEF OfRunner, FileOf, Savers
<1> QED BY <1>1, <1>2

LEMMA DaemonDecided ==
  ASSUME NEW t \in Terminals,
         \A u \in Terminals \ {t} : command'[u].name \notin OfDaemon,
         At(t, "start", "saving")' => Live' \subseteq {Held(t)'},
         ~At(t, "start", "saving")' => Live' \subseteq {pidFile'},
         (At(t, "start", "spawning") \/ At(t, "stop", "clearing") \/ At(t, "status", "clearing"))'
           => Live' = {},
         At(t, "stop", "signalling")' => Live' \subseteq {Held(t)'}
  PROVE  DaemonOK'
<1>1. \A u \in Terminals \ {t} :
        /\ ~At(u, "start", "saving")' /\ ~At(u, "start", "spawning")'
        /\ ~At(u, "stop", "clearing")' /\ ~At(u, "status", "clearing")'
        /\ ~At(u, "stop", "signalling")'
  BY DEF At, OfDaemon
<1> QED BY <1>1 DEF DaemonOK

LEMMA RunnerDecided ==
  ASSUME NEW t \in Terminals,
         \A u \in Terminals \ {t} : command'[u].name \notin OfRunner,
         At(t, "login", "approved")' => Held(t)' = Last' /\ Last' \in paired' \ revoked',
         ~At(t, "login", "approved")' =>
            (Last' \in paired' => Last' \in revoked' \/ Last' = credentials'),
         At(t, "logout", "clearing")' => (Last' \in paired' => Last' \in revoked'),
         ~At(t, "logout", "clearing")' =>
            (credentials' # None => credentials' \in paired' \ revoked'),
         At(t, "logout", "revoking")' =>
            (Last' \in paired' => Last' \in revoked' \/ Last' = Held(t)')
  PROVE  RunnerOK'
<1>1. \A u \in Terminals \ {t} :
        /\ ~At(u, "login", "approved")' /\ ~At(u, "logout", "revoking")'
        /\ ~At(u, "logout", "clearing")'
  BY DEF At, OfRunner
<1> QED BY <1>1 DEF RunnerOK

(* stop and status: no daemon becomes live, and the file is cleared only   *)
(* when none is.                                                           *)
LEMMA DaemonForward ==
  ASSUME DaemonOK, NEW t \in Terminals, \A u \in Terminals \ {t} : command'[u] = command[u],
         Live' \subseteq Live, disturbed \subseteq disturbed',
         pidFile' = pidFile \/ Live' = {},
         ~At(t, "start", "saving"), ~At(t, "start", "saving")',
         (At(t, "start", "spawning") \/ At(t, "stop", "clearing") \/ At(t, "status", "clearing"))'
           => Live' = {},
         At(t, "stop", "signalling")' => Live' \subseteq {Held(t)'}
  PROVE  DaemonOK'
<1> SUFFICES ASSUME "pid" \notin disturbed' PROVE DaemonOK'
  BY DEF DaemonOK
<1>1. "pid" \notin disturbed
  OBVIOUS
<1>2. ASSUME NEW u \in Terminals \ {t}
      PROVE  /\ At(u, "start", "saving")' <=> At(u, "start", "saving")
             /\ At(u, "start", "spawning")' <=> At(u, "start", "spawning")
             /\ At(u, "stop", "clearing")' <=> At(u, "stop", "clearing")
             /\ At(u, "status", "clearing")' <=> At(u, "status", "clearing")
             /\ At(u, "stop", "signalling")' <=> At(u, "stop", "signalling")
             /\ Held(u)' = Held(u)
  BY DEF At, Held
<1>3. (\A u \in Terminals : ~At(u, "start", "saving")') => Live' \subseteq {pidFile'}
  BY <1>1, <1>2 DEF DaemonOK
<1>4. ASSUME NEW u \in Terminals
      PROVE  /\ (At(u, "start", "spawning") \/ At(u, "stop", "clearing") \/ At(u, "status", "clearing"))'
                  => Live' = {}
             /\ At(u, "start", "saving")' => Live' \subseteq {Held(u)'}
             /\ At(u, "stop", "signalling")' => Live' \subseteq {Held(u)'}
  <2>1. CASE u = t
    BY <2>1
  <2>2. CASE u # t
    BY <1>1, <1>2, <2>2 DEF DaemonOK
  <2> QED BY <2>1, <2>2
<1> QED BY <1>3, <1>4 DEF DaemonOK

(* logout: no runner is paired, and the file is cleared only when the last *)
(* one is revoked.                                                         *)
LEMMA RunnerForward ==
  ASSUME RunnerOK, NEW t \in Terminals, \A u \in Terminals \ {t} : command'[u] = command[u],
         paired' = paired, revoked \subseteq revoked', disturbed \subseteq disturbed',
         \A u \in Terminals : ~At(u, "login", "approved") /\ ~At(u, "login", "approved")',
         \/ credentials' = credentials
         \/ credentials' = None /\ (Last \in paired => Last \in revoked'),
         \/ At(t, "logout", "clearing")'
         \/ credentials' = None
         \/ revoked' = revoked /\ ~At(t, "logout", "clearing"),
         At(t, "logout", "revoking")' =>
           (Last \in paired => Last \in revoked' \/ Last = Held(t)'),
         At(t, "logout", "clearing")' => (Last \in paired => Last \in revoked')
  PROVE  RunnerOK'
<1> SUFFICES ASSUME "credentials" \notin disturbed' PROVE RunnerOK'
  BY DEF RunnerOK
<1>1. "credentials" \notin disturbed /\ Last' = Last
  BY DEF Last
<1>2. ASSUME NEW u \in Terminals \ {t}
      PROVE  /\ At(u, "logout", "revoking")' <=> At(u, "logout", "revoking")
             /\ At(u, "logout", "clearing")' <=> At(u, "logout", "clearing")
             /\ Held(u)' = Held(u)
  BY DEF At, Held
<1>3. (\A u \in Terminals : ~At(u, "logout", "clearing")') =>
        (credentials' # None => credentials' \in paired' \ revoked')
  BY <1>1, <1>2 DEF RunnerOK
<1>4. Last \in paired => Last \in revoked' \/ Last = credentials'
  BY <1>1 DEF RunnerOK
<1>5. ASSUME NEW u \in Terminals
      PROVE  /\ At(u, "logout", "revoking")' =>
                  (Last \in paired => Last \in revoked' \/ Last = Held(u)')
             /\ At(u, "logout", "clearing")' => (Last \in paired => Last \in revoked')
  <2>1. CASE u = t
    BY <2>1
  <2>2. CASE u # t
    BY <1>1, <1>2, <2>2 DEF RunnerOK
  <2> QED BY <2>1, <2>2
<1> QED BY <1>1, <1>3, <1>4, <1>5 DEF RunnerOK

LEMMA DaemonBefore ==
  ASSUME IInv, NEW t \in Terminals, "pid" \notin disturbed, command[t].name \in OfDaemon
  PROVE  /\ command[t].name = "start" => \A u \in Terminals \ {t} : command[u].name \notin OfDaemon
         /\ ~At(t, "start", "saving") => Live \subseteq {pidFile}
<1>1. \A u \in Terminals \ {t} : command[u].name # "start"
  BY OnlyCommand DEF IInv
<1>2. ~At(t, "start", "saving") => \A u \in Terminals : ~At(u, "start", "saving")
  BY <1>1 DEF At
<1>3. command[t].name = "start" => \A u \in Terminals \ {t} : command[u].name \notin OfDaemon
  BY OnlyCommand DEF IInv
<1> QED BY <1>2, <1>3 DEF IInv, DaemonOK

LEMMA LoginBefore ==
  ASSUME IInv, NEW t \in Terminals, "credentials" \notin disturbed, command[t].name = "login"
  PROVE  /\ \A u \in Terminals \ {t} : command[u].name \notin OfRunner
         /\ credentials # None => credentials \in paired \ revoked
         /\ ~At(t, "login", "approved") =>
              (Last \in paired => Last \in revoked \/ Last = credentials)
<1>1. \A u \in Terminals \ {t} : command[u].name \notin OfRunner
  BY OnlyCommand DEF IInv
<1>2. /\ \A u \in Terminals : ~At(u, "logout", "clearing")
      /\ ~At(t, "login", "approved") => \A u \in Terminals : ~At(u, "login", "approved")
  BY <1>1 DEF At, OfRunner
<1> QED BY <1>1, <1>2 DEF IInv, RunnerOK

LEMMA LogoutBefore ==
  ASSUME IInv, NEW t \in Terminals, "credentials" \notin disturbed, command[t].name = "logout"
  PROVE  /\ \A u \in Terminals : ~At(u, "login", "approved")
         /\ Last \in paired => Last \in revoked \/ Last = credentials
<1>1. \A u \in Terminals \ {t} : command[u].name # "login"
  BY OnlyCommand DEF IInv, OfRunner
<1>2. \A u \in Terminals : ~At(u, "login", "approved")
  BY <1>1 DEF At
<1> QED BY <1>2 DEF IInv, RunnerOK

-----------------------------------------------------------------------------
(* start, stop and status.                                                 *)

LEMMA CheckRunningInv ==
  ASSUME IInv, NEW t \in Terminals, CheckRunning(t)
  PROVE  IInv'
<1>1. /\ command[t].name = "start" /\ command[t].at = "checking"
      /\ UNCHANGED <<typed, fileVars, serverVars, daemonVars, disturbed>>
  BY DEF CheckRunning, At
<1>2. ~OnDaemon(command[t]) /\ ~OnRunner(command[t])
  BY <1>1 DEF OnDaemon, OnRunner
<1>3. CASE ~MayStart(pidFile)
  <2>1. End(t) /\ disturbed \subseteq disturbed' /\ disturbed' \subseteq {"credentials", "pid"}
    BY <1>1, <1>3 DEF CheckRunning, IInv, TypeOK
  <2> QED BY <1>1, <1>2, <2>1, EndSafe DEF IInv
<1>4. CASE MayStart(pidFile)
  <2>1. Goto(t, "spawning", None) /\ "spawning" \in Places /\ None \in Helds
    BY <1>4, HeldTyped DEF CheckRunning, Places
  <2>2. TypeOK' /\ OneAtATime' /\ RunnerOK' /\ PairedInOrder' /\ HeldOK'
    BY <1>1, <1>2, <2>1, GotoSafe
  <2>3. DaemonOK'
    <3> SUFFICES ASSUME "pid" \notin disturbed' PROVE DaemonOK'
      BY DEF DaemonOK
    <3>1. "pid" \notin disturbed /\ command[t].name \in OfDaemon
      BY <1>1 DEF OfDaemon
    <3>2. Live \subseteq {pidFile} /\ ~IsRunning(pidFile)
      BY <1>1, <1>4, <3>1, DaemonBefore DEF MayStart, At
    <3>3. Live' = {}
      <4>1. Live = {}
        BY <3>2 DEF Live
      <4> QED BY <1>1, <4>1, SameDaemons
    <3>4. /\ command'[t] = [name |-> "start", at |-> "spawning", held |-> None]
          /\ \A u \in Terminals \ {t} : command'[u] = command[u]
      BY <1>1, <2>1, GotoEffect DEF IInv
    <3>5. \A u \in Terminals \ {t} : command'[u].name \notin OfDaemon
      BY <1>1, <3>1, <3>4, DaemonBefore
    <3>6. ~At(t, "stop", "signalling")'
      BY <3>4 DEF At
    <3> QED BY <3>3, <3>5, <3>6, DaemonDecided
  <2> QED BY <2>2, <2>3 DEF IInv
<1> QED BY <1>3, <1>4

LEMMA SpawnDaemonInv ==
  ASSUME IInv, NEW t \in Terminals, SpawnDaemon(t)
  PROVE  IInv'
<1>1. /\ command[t].name = "start" /\ command[t].at = "spawning"
      /\ UNCHANGED <<typed, credentials, pidFile, paired, revoked, stopping, disturbed>>
  BY DEF SpawnDaemon, At, fileVars, serverVars
<1>2. PICK p \in Pids : /\ daemon' = [daemon EXCEPT ![p] = "booting"]
                        /\ Goto(t, "saving", p)
  BY DEF SpawnDaemon
<1>3. "saving" \in Places /\ p \in Helds
  BY HeldTyped DEF Places
<1>4. TypeOK /\ RestTyped'
  BY <1>1, <1>2 DEF IInv, TypeOK, RestTyped
<1>5. TypeOK'
  BY <1>2, <1>3, <1>4, GotoTyped
<1>6. OneAtATime'
  BY <1>1, <1>2, <1>3, <1>4, GotoContinues, ContinuesOne DEF IInv
<1>7. RunnerOK' /\ PairedInOrder'
  <2>1. RunnerQuiet
    BY <1>1, <1>2, <1>3, <1>4, GotoQuiet DEF OnRunner
  <2> QED BY <2>1, RunnerQuietKeeps DEF IInv
<1>8. DaemonOK'
  <2> SUFFICES ASSUME "pid" \notin disturbed' PROVE DaemonOK'
    BY DEF DaemonOK
  <2>1. "pid" \notin disturbed /\ command[t].name \in OfDaemon
    BY <1>1 DEF OfDaemon
  <2>2. Live = {}
    BY <1>1, <2>1 DEF IInv, DaemonOK, At
  <2>3. Live' \subseteq {p}
    BY <1>1, <1>2, <1>4, <2>2 DEF TypeOK, Live, IsRunning
  <2>4. /\ command'[t] = [name |-> "start", at |-> "saving", held |-> p]
        /\ \A u \in Terminals \ {t} : command'[u] = command[u]
    BY <1>1, <1>2, <1>3, <1>4, GotoEffect
  <2>5. command'[t].name = "start" /\ command'[t].at = "saving" /\ command'[t].held = p
    BY <2>4
  <2>6. \A u \in Terminals \ {t} : command'[u].name \notin OfDaemon
    BY <1>1, <2>1, <2>4, DaemonBefore
  <2>7. /\ At(t, "start", "saving")' /\ Held(t)' = p
        /\ ~At(t, "start", "spawning")' /\ ~At(t, "stop", "clearing")'
        /\ ~At(t, "status", "clearing")' /\ ~At(t, "stop", "signalling")'
    BY <2>5 DEF At, Held
  <2> QED BY <2>3, <2>6, <2>7, DaemonDecided
<1>9. HeldOK'
  <2>1. /\ command'[t] = [name |-> "start", at |-> "saving", held |-> p]
        /\ \A u \in Terminals \ {t} : command'[u] = command[u]
    BY <1>1, <1>2, <1>3, <1>4, GotoEffect
  <2>2. command'[t].name = "start" /\ command'[t].held = p
    BY <2>1
  <2>3. Held(t)' \in Pids /\ ~At(t, "login", "approved")' /\ ~At(t, "logout", "revoking")'
    BY <2>2 DEF At, Held
  <2>4. HeldOK /\ paired \subseteq paired' /\ credentials' \in paired' \cup {None}
    BY <1>1 DEF IInv, HeldOK
  <2> QED BY <2>1, <2>3, <2>4, HeldKept
<1> QED BY <1>5, <1>6, <1>7, <1>8, <1>9 DEF IInv

(* The command writes or clears the file as its last step.                 *)
LEMMA PidFileWritten ==
  ASSUME IInv, NEW t \in Terminals, command[t].name \in OfDaemon, End(t),
         UNCHANGED <<typed, credentials, serverVars, daemonVars, disturbed>>,
         pidFile' \in Pids \cup {None},
         "pid" \notin disturbed =>
           Live \subseteq {pidFile'} /\ (At(t, "start", "saving") \/ Live = {})
  PROVE  IInv'
<1>1. UNCHANGED <<typed, credentials, paired, revoked, daemon, stopping, disturbed>>
  BY DEF serverVars, daemonVars
<1>2. TypeOK /\ RestTyped'
  BY <1>1 DEF IInv, TypeOK, RestTyped
<1>3. TypeOK'
  BY <1>2, EndTyped
<1>4. OneAtATime'
  BY <1>1, <1>2, EndContinues, ContinuesOne DEF IInv
<1>5. RunnerOK' /\ PairedInOrder'
  <2>1. RunnerQuiet
    BY <1>1, <1>2, EndQuiet DEF OnRunner, OfDaemon
  <2> QED BY <2>1, RunnerQuietKeeps DEF IInv
<1>6. DaemonOK'
  <2> SUFFICES ASSUME "pid" \notin disturbed' PROVE DaemonOK'
    BY DEF DaemonOK
  <2>1. Live' \subseteq {pidFile'} /\ "pid" \notin disturbed
    BY <1>1, SameDaemons
  <2>2. command'[t].name = "none" /\ \A u \in Terminals \ {t} : command'[u] = command[u]
    BY <1>2, EndEffect DEF Prompt
  <2>3. /\ ~At(t, "start", "saving")' /\ ~At(t, "start", "spawning")' /\ ~At(t, "stop", "clearing")'
        /\ ~At(t, "status", "clearing")' /\ ~At(t, "stop", "signalling")'
    BY <2>2 DEF At
  <2>4. CASE At(t, "start", "saving")
    <3>1. \A u \in Terminals \ {t} : command'[u].name \notin OfDaemon
      BY <2>1, <2>2, <2>4, DaemonBefore DEF At
    <3> QED BY <2>1, <2>3, <3>1, DaemonDecided
  <2>5. CASE ~At(t, "start", "saving")
    <3>1. Live' \subseteq Live /\ Live' = {}
      BY <2>1, <2>5, SameDaemons
    <3> QED BY <1>1, <2>2, <2>3, <2>5, <3>1, DaemonForward DEF IInv
  <2> QED BY <2>4, <2>5
<1>7. HeldOK'
  BY <1>1, <1>2, EndHeld DEF IInv, HeldOK
<1> QED BY <1>3, <1>4, <1>5, <1>6, <1>7 DEF IInv

LEMMA SaveProcessIdInv ==
  ASSUME IInv, NEW t \in Terminals, SaveProcessId(t)
  PROVE  IInv'
<1>1. /\ At(t, "start", "saving") /\ command[t].name \in OfDaemon /\ End(t) /\ pidFile' = Held(t)
      /\ UNCHANGED <<typed, credentials, serverVars, daemonVars, disturbed>>
  BY DEF SaveProcessId, At, OfDaemon
<1>2. "pid" \notin disturbed => Live \subseteq {Held(t)}
  BY <1>1 DEF IInv, DaemonOK
<1>3. Held(t) \in Pids
  BY <1>1 DEF IInv, HeldOK
<1> QED BY <1>1, <1>2, <1>3, PidFileWritten

LEMMA ReadProcessIdInv ==
  ASSUME IInv, NEW t \in Terminals, ReadProcessId(t)
  PROVE  IInv'
<1>1. /\ command[t].name \in {"stop", "status"} /\ command[t].at = "begun"
      /\ UNCHANGED <<typed, fileVars, serverVars, daemonVars, disturbed>>
  BY DEF ReadProcessId, At
<1>2. ~OnDaemon(command[t]) /\ ~OnRunner(command[t]) /\ command[t].name \in OfDaemon
  BY <1>1 DEF OnDaemon, OnRunner, OfDaemon
<1>3. "pid" \notin disturbed => Live \subseteq {pidFile}
  BY <1>1, <1>2, DaemonBefore DEF At
<1>4. ASSUME NEW at \in {"signalling", "clearing"}, NEW held \in Helds, Goto(t, at, held),
             at = "signalling" => command[t].name = "stop" /\ held = pidFile,
             at = "clearing" => ~IsRunning(pidFile)
      PROVE  IInv'
  <2>1. at \in Places
    BY DEF Places
  <2>2. TypeOK' /\ OneAtATime' /\ RunnerOK' /\ PairedInOrder' /\ HeldOK'
    BY <1>1, <1>2, <1>4, <2>1, GotoSafe
  <2>3. DaemonOK'
    <3> SUFFICES ASSUME "pid" \notin disturbed' PROVE DaemonOK'
      BY DEF DaemonOK
    <3>1. "pid" \notin disturbed /\ pidFile' = pidFile
      BY <1>1 DEF fileVars
    <3>2. /\ command'[t] = [name |-> command[t].name, at |-> at, held |-> held]
          /\ \A u \in Terminals \ {t} : command'[u] = command[u]
      BY <1>4, <2>1, GotoEffect DEF IInv
    <3>3. command'[t].name = command[t].name /\ command'[t].at = at /\ command'[t].held = held
      BY <3>2
    <3>4. Live' \subseteq {pidFile}
      BY <1>1, <1>3, <3>1, SameDaemons
    <3>5. at = "clearing" => Live' = {}
      <4>1. at = "clearing" => Live = {}
        BY <1>3, <1>4, <3>1 DEF Live
      <4> QED BY <1>1, <4>1, SameDaemons
    <3>6. ~At(t, "start", "saving") /\ ~At(t, "start", "saving")' /\ ~At(t, "start", "spawning")'
      BY <1>1, <3>3 DEF At
    <3>7. At(t, "stop", "signalling")' => Live' \subseteq {Held(t)'}
      BY <1>4, <3>3, <3>4 DEF At, Held
    <3>8. At(t, "stop", "clearing")' \/ At(t, "status", "clearing")' => Live' = {}
      BY <3>3, <3>5 DEF At
    <3>9. Live' \subseteq Live /\ disturbed \subseteq disturbed'
      BY <1>1, SameDaemons
    <3> QED BY <3>1, <3>2, <3>6, <3>7, <3>8, <3>9, DaemonForward DEF IInv
  <2> QED BY <2>2, <2>3 DEF IInv
<1>5. CASE End(t)
  <2>1. disturbed \subseteq disturbed' /\ disturbed' \subseteq {"credentials", "pid"}
    BY <1>1 DEF IInv, TypeOK
  <2> QED BY <1>1, <1>2, <1>5, <2>1, EndSafe DEF IInv
<1>6. None \in Helds /\ pidFile \in Helds
  BY HeldTyped DEF IInv, TypeOK
<1> QED BY <1>1, <1>4, <1>5, <1>6 DEF ReadProcessId

LEMMA SignalInv ==
  ASSUME IInv, NEW t \in Terminals, Signal(t)
  PROVE  IInv'
<1> DEFINE h == Held(t)
<1>1. /\ At(t, "stop", "signalling") /\ Goto(t, "clearing", None)
      /\ UNCHANGED <<typed, credentials, pidFile, paired, revoked, disturbed>>
  BY DEF Signal, fileVars, serverVars
<1>2. command[t].name = "stop" /\ command[t].at = "signalling"
  BY <1>1 DEF At
<1>3. \/ IsRunning(h) /\ daemon' = [daemon EXCEPT ![h] = "exited"] /\ stopping' = stopping
      \/ IsRunning(h) /\ stopping' = [stopping EXCEPT ![h] = TRUE] /\ daemon' = daemon
      \/ ~IsRunning(h) /\ daemon' = daemon /\ stopping' = stopping
  BY DEF Signal, daemonVars
<1>4. "clearing" \in Places /\ None \in Helds
  BY HeldTyped DEF Places
<1>5. TypeOK /\ RestTyped'
  BY <1>1, <1>3 DEF IInv, TypeOK, RestTyped
<1>6. TypeOK'
  BY <1>1, <1>4, <1>5, GotoTyped
<1>7. OneAtATime'
  BY <1>1, <1>2, <1>4, <1>5, GotoContinues, ContinuesOne DEF IInv
<1>8. RunnerOK' /\ PairedInOrder'
  <2>1. RunnerQuiet
    BY <1>1, <1>2, <1>4, <1>5, GotoQuiet DEF OnRunner
  <2> QED BY <2>1, RunnerQuietKeeps DEF IInv
<1>9. /\ command'[t] = [name |-> "stop", at |-> "clearing", held |-> None]
      /\ \A u \in Terminals \ {t} : command'[u] = command[u]
  BY <1>1, <1>2, <1>4, <1>5, GotoEffect
<1>10. command'[t].name = "stop" /\ command'[t].at = "clearing"
  BY <1>9
<1>11. DaemonOK'
  <2> SUFFICES ASSUME "pid" \notin disturbed' PROVE DaemonOK'
    BY DEF DaemonOK
  <2>1. Live \subseteq {h}
    BY <1>1 DEF IInv, DaemonOK
  <2>2. Live' = {}
    BY <1>3, <1>5, <2>1 DEF TypeOK, Live, IsRunning
  <2>3. ~At(t, "start", "saving") /\ ~At(t, "start", "saving")' /\ ~At(t, "stop", "signalling")'
    BY <1>2, <1>10 DEF At
  <2> QED BY <1>1, <1>9, <2>2, <2>3, DaemonForward DEF IInv
<1>12. HeldOK'
  <2>1. ~At(t, "start", "saving")' /\ ~At(t, "login", "approved")' /\ ~At(t, "logout", "revoking")'
    BY <1>10 DEF At
  <2>2. HeldOK /\ paired \subseteq paired' /\ credentials' \in paired' \cup {None}
    BY <1>1 DEF IInv, HeldOK
  <2> QED BY <1>9, <2>1, <2>2, HeldKept
<1> QED BY <1>6, <1>7, <1>8, <1>11, <1>12 DEF IInv

LEMMA ClearProcessIdInv ==
  ASSUME IInv, NEW t \in Terminals, ClearProcessId(t)
  PROVE  IInv'
<1>1. /\ At(t, "stop", "clearing") \/ At(t, "status", "clearing")
      /\ command[t].name \in OfDaemon /\ End(t) /\ pidFile' = None
      /\ UNCHANGED <<typed, credentials, serverVars, daemonVars, disturbed>>
  BY DEF ClearProcessId, At, OfDaemon
<1>2. "pid" \notin disturbed => Live = {}
  BY <1>1 DEF IInv, DaemonOK
<1> QED BY <1>1, <1>2, PidFileWritten

-----------------------------------------------------------------------------
(* login and logout.                                                       *)

LEMMA StartPairingInv ==
  ASSUME IInv, NEW t \in Terminals, StartPairing(t)
  PROVE  IInv'
<1>1. /\ command[t].name = "login" /\ command[t].at = "begun" /\ Goto(t, "polling", None)
      /\ UNCHANGED <<typed, fileVars, serverVars, daemonVars, disturbed>>
  BY DEF StartPairing, At
<1>2. "polling" \in Places /\ None \in Helds /\ ~OnDaemon(command[t]) /\ ~OnRunner(command[t])
  BY <1>1, HeldTyped DEF Places, OnDaemon, OnRunner
<1> QED BY <1>1, <1>2, GotoSafe DEF IInv

LEMMA PairingExpiredInv ==
  ASSUME IInv, NEW t \in Terminals, PairingExpired(t)
  PROVE  IInv'
<1>1. /\ command[t].name = "login" /\ command[t].at = "polling" /\ End(t)
      /\ UNCHANGED <<typed, fileVars, serverVars, daemonVars, disturbed>>
  BY DEF PairingExpired, At
<1>2. ~OnDaemon(command[t]) /\ ~OnRunner(command[t])
  BY <1>1 DEF OnDaemon, OnRunner
<1>3. disturbed \subseteq disturbed' /\ disturbed' \subseteq {"credentials", "pid"}
  BY <1>1 DEF IInv, TypeOK
<1> QED BY <1>1, <1>2, <1>3, EndSafe DEF IInv

LEMMA PairedGrows ==
  ASSUME PairedInOrder
  PROVE  /\ Last + 1 \notin paired /\ Cardinality(paired \cup {Last + 1}) = Last + 1
         /\ paired \cup {Last + 1} = 1..Last + 1
<1>1. Last \in Nat /\ paired = 1..Last
  BY DEF PairedInOrder
<1>2. IsFiniteSet(paired)
  BY <1>1, FS_Interval
<1> HIDE DEF Last
<1>3. Last + 1 \notin paired /\ paired \cup {Last + 1} = 1..Last + 1
  BY <1>1
<1>4. Cardinality(paired \cup {Last + 1}) = Last + 1
  BY <1>2, <1>3, FS_AddElement DEF Last
<1> QED BY <1>3, <1>4

LEMMA PollApprovedInv ==
  ASSUME IInv, NEW t \in Terminals, PollApproved(t)
  PROVE  IInv'
<1> DEFINE r == Last + 1
<1>1. /\ command[t].name = "login" /\ command[t].at = "polling" /\ Last < MaxRunners
      /\ paired' = paired \cup {r} /\ Goto(t, "approved", r)
      /\ UNCHANGED <<typed, credentials, pidFile, revoked, daemon, stopping, disturbed>>
  BY DEF PollApproved, At, Last, fileVars, daemonVars
<1>2. /\ r \notin paired /\ paired' = 1..r /\ Last' = r /\ Last \in Nat
  BY <1>1, PairedGrows DEF IInv, PairedInOrder, Last
<1>3. r \in Runners /\ r \in Helds /\ "approved" \in Places
  BY <1>1, <1>2, HeldTyped, RunnerCliAssumption DEF Runners, Places
<1> HIDE DEF r
<1>4. TypeOK /\ RestTyped'
  BY <1>1, <1>3 DEF IInv, TypeOK, RestTyped
<1>5. TypeOK'
  BY <1>1, <1>3, <1>4, GotoTyped
<1>6. OneAtATime'
  BY <1>1, <1>3, <1>4, GotoContinues, ContinuesOne DEF IInv
<1>7. DaemonOK'
  <2>1. Live' \subseteq Live
    BY <1>1, SameDaemons DEF daemonVars
  <2>2. DaemonQuiet
    BY <1>1, <1>3, <1>4, <2>1, GotoQuiet DEF OnDaemon
  <2> QED BY <2>2, DaemonQuietKeeps DEF IInv
<1>8. PairedInOrder'
  BY <1>2, <1>3 DEF PairedInOrder, r
<1>9. /\ command'[t] = [name |-> "login", at |-> "approved", held |-> r]
      /\ \A u \in Terminals \ {t} : command'[u] = command[u]
  BY <1>1, <1>3, <1>4, GotoEffect
<1>10. command'[t].name = "login" /\ command'[t].at = "approved" /\ command'[t].held = r
  BY <1>9
<1>11. /\ At(t, "login", "approved")' /\ Held(t)' = r /\ ~At(t, "start", "saving")'
       /\ ~At(t, "logout", "clearing")' /\ ~At(t, "logout", "revoking")'
  BY <1>10 DEF At, Held
<1>12. RunnerOK'
  <2> SUFFICES ASSUME "credentials" \notin disturbed' PROVE RunnerOK'
    BY DEF RunnerOK
  <2>1. "credentials" \notin disturbed
    BY <1>1
  <2>2. credentials # None => credentials \in paired \ revoked
    BY <1>1, <2>1, LoginBefore
  <2>3. \A u \in Terminals \ {t} : command'[u].name \notin OfRunner
    BY <1>1, <1>9, <2>1, LoginBefore
  <2>4. r \in paired' \ revoked'
    BY <1>1, <1>2, <1>4 DEF TypeOK
  <2>5. credentials' # None => credentials' \in paired' \ revoked'
    BY <1>1, <2>2
  <2> QED BY <1>2, <1>11, <2>3, <2>4, <2>5, RunnerDecided
<1>13. HeldOK'
  <2>1. HeldOK /\ paired \subseteq paired' /\ credentials' \in paired' \cup {None} /\ r \in paired'
    BY <1>1 DEF IInv, HeldOK
  <2> QED BY <1>9, <1>11, <2>1, HeldKept
<1> QED BY <1>5, <1>6, <1>7, <1>8, <1>12, <1>13 DEF IInv

(* The command writes or clears the credentials, or leaves them, as its    *)
(* last step.                                                              *)
LEMMA CredentialsWritten ==
  ASSUME IInv, NEW t \in Terminals, command[t].name \in OfRunner, End(t),
         UNCHANGED <<typed, pidFile, serverVars, daemonVars, disturbed>>,
         credentials' \in paired \cup {None},
         "credentials" \notin disturbed =>
           \/ /\ command[t].name = "login"
              /\ credentials' # None => credentials' \in paired \ revoked
              /\ Last \in paired => Last \in revoked \/ Last = credentials'
           \/ /\ command[t].name = "logout" /\ credentials' = None
              /\ Last \in paired => Last \in revoked
           \/ /\ command[t].name = "logout" /\ credentials' = credentials
              /\ ~At(t, "logout", "clearing")
  PROVE  IInv'
<1>1. UNCHANGED <<typed, pidFile, paired, revoked, daemon, stopping, disturbed>> /\ Last' = Last
  BY DEF serverVars, daemonVars, Last
<1>2. TypeOK /\ RestTyped'
  BY <1>1 DEF IInv, TypeOK, RestTyped
<1>3. TypeOK'
  BY <1>2, EndTyped
<1>4. OneAtATime'
  BY <1>1, <1>2, EndContinues, ContinuesOne DEF IInv
<1>5. DaemonOK'
  <2>1. Live' \subseteq Live
    BY SameDaemons
  <2>2. DaemonQuiet
    BY <1>1, <1>2, <2>1, EndQuiet DEF OnDaemon, OfRunner
  <2> QED BY <2>2, DaemonQuietKeeps DEF IInv
<1>6. PairedInOrder'
  BY <1>1 DEF IInv, PairedInOrder
<1>7. RunnerOK'
  <2> SUFFICES ASSUME "credentials" \notin disturbed' PROVE RunnerOK'
    BY DEF RunnerOK
  <2>1. "credentials" \notin disturbed
    BY <1>1
  <2>2. command'[t].name = "none" /\ \A u \in Terminals \ {t} : command'[u] = command[u]
    BY <1>2, EndEffect DEF Prompt
  <2>3. /\ ~At(t, "login", "approved")' /\ ~At(t, "logout", "clearing")'
        /\ ~At(t, "logout", "revoking")'
    BY <2>2 DEF At
  <2>4. CASE command[t].name = "login"
    <3>1. \A u \in Terminals \ {t} : command'[u].name \notin OfRunner
      BY <2>1, <2>2, <2>4, LoginBefore
    <3>2. /\ credentials' # None => credentials' \in paired' \ revoked'
          /\ Last' \in paired' => Last' \in revoked' \/ Last' = credentials'
      BY <1>1, <2>1, <2>4
    <3> QED BY <2>3, <3>1, <3>2, RunnerDecided
  <2>5. CASE command[t].name = "logout"
    <3>1. \A u \in Terminals : ~At(u, "login", "approved") /\ ~At(u, "login", "approved")'
      <4>1. \A u \in Terminals : ~At(u, "login", "approved")
        BY <2>1, <2>5, LogoutBefore
      <4>2. \A u \in Terminals \ {t} : ~At(u, "login", "approved")'
        BY <2>2, <4>1 DEF At
      <4> QED BY <2>3, <4>1, <4>2
    <3> QED BY <1>1, <2>1, <2>2, <2>3, <2>5, <3>1, RunnerForward DEF IInv
  <2> QED BY <2>4, <2>5 DEF OfRunner
<1>8. HeldOK'
  BY <1>1, <1>2, EndHeld DEF IInv
<1> QED BY <1>3, <1>4, <1>5, <1>6, <1>7, <1>8 DEF IInv

LEMMA SaveCredentialsInv ==
  ASSUME IInv, NEW t \in Terminals, SaveCredentials(t)
  PROVE  IInv'
<1>1. /\ At(t, "login", "approved") /\ command[t].name \in OfRunner /\ command[t].name = "login"
      /\ End(t) /\ credentials' = Held(t)
      /\ UNCHANGED <<typed, pidFile, serverVars, daemonVars, disturbed>>
  BY DEF SaveCredentials, At, OfRunner
<1>2. "credentials" \notin disturbed => Held(t) = Last /\ Last \in paired \ revoked
  BY <1>1 DEF IInv, RunnerOK
<1>3. Held(t) \in paired
  BY <1>1 DEF IInv, HeldOK
<1> QED BY <1>1, <1>2, <1>3, CredentialsWritten

LEMMA ClearCredentialsInv ==
  ASSUME IInv, NEW t \in Terminals, ClearCredentials(t)
  PROVE  IInv'
<1>1. /\ At(t, "logout", "clearing") /\ command[t].name \in OfRunner /\ command[t].name = "logout"
      /\ End(t) /\ credentials' = None
      /\ UNCHANGED <<typed, pidFile, serverVars, daemonVars, disturbed>>
  BY DEF ClearCredentials, At, OfRunner
<1>2. "credentials" \notin disturbed => (Last \in paired => Last \in revoked)
  BY <1>1 DEF IInv, RunnerOK
<1> QED BY <1>1, <1>2, CredentialsWritten

LEMMA RequireCredentialsInv ==
  ASSUME IInv, NEW t \in Terminals, RequireCredentials(t)
  PROVE  IInv'
<1>1. /\ command[t].name \in {"logout", "start"} /\ command[t].at = "begun"
      /\ UNCHANGED <<typed, fileVars, serverVars, daemonVars, disturbed>>
  BY DEF RequireCredentials, At
<1>2. ~OnDaemon(command[t]) /\ ~OnRunner(command[t])
  BY <1>1 DEF OnDaemon, OnRunner
<1>3. credentials \in Helds /\ "checking" \in Places /\ "revoking" \in Places
  BY HeldTyped DEF IInv, TypeOK, Places
<1>4. CASE End(t)
  <2>1. disturbed \subseteq disturbed' /\ disturbed' \subseteq {"credentials", "pid"}
    BY <1>1 DEF IInv, TypeOK
  <2> QED BY <1>1, <1>2, <1>4, <2>1, EndSafe DEF IInv
<1>5. CASE command[t].name = "start" /\ Goto(t, "checking", credentials)
  BY <1>1, <1>2, <1>3, <1>5, GotoSafe DEF IInv
<1>6. CASE /\ command[t].name = "logout" /\ credentials # None
           /\ Goto(t, "revoking", credentials)
  <2>1. TypeOK' /\ OneAtATime' /\ DaemonOK'
    BY <1>1, <1>2, <1>3, <1>6, GotoSafe
  <2>2. UNCHANGED <<credentials, paired, revoked, disturbed>> /\ Last' = Last
    BY <1>1 DEF fileVars, serverVars, Last
  <2>3. PairedInOrder'
    BY <2>2 DEF IInv, PairedInOrder
  <2>4. /\ command'[t] = [name |-> "logout", at |-> "revoking", held |-> credentials]
        /\ \A u \in Terminals \ {t} : command'[u] = command[u]
    BY <1>3, <1>6, GotoEffect DEF IInv
  <2>5. command'[t].name = "logout" /\ command'[t].at = "revoking" /\ command'[t].held = credentials
    BY <2>4
  <2>6. /\ Held(t)' = credentials /\ ~At(t, "login", "approved")' /\ ~At(t, "logout", "clearing")'
        /\ ~At(t, "start", "saving")'
    BY <2>5 DEF At, Held
  <2>7. RunnerOK'
    <3> SUFFICES ASSUME "credentials" \notin disturbed' PROVE RunnerOK'
      BY DEF RunnerOK
    <3>1. "credentials" \notin disturbed /\ ~At(t, "logout", "clearing")
      BY <1>1, <2>2 DEF At
    <3>2. /\ \A u \in Terminals : ~At(u, "login", "approved")
          /\ Last \in paired => Last \in revoked \/ Last = credentials
      BY <1>6, <3>1, LogoutBefore
    <3>3. \A u \in Terminals : ~At(u, "login", "approved")'
      BY <2>4, <2>6, <3>2 DEF At
    <3> QED BY <2>2, <2>4, <2>6, <3>1, <3>2, <3>3, RunnerForward DEF IInv
  <2>8. HeldOK'
    <3>1. /\ HeldOK /\ paired \subseteq paired' /\ credentials' \in paired' \cup {None}
          /\ credentials \in paired'
      BY <1>6, <2>2 DEF IInv, HeldOK
    <3> QED BY <2>4, <2>6, <3>1, HeldKept
  <2> QED BY <2>1, <2>3, <2>7, <2>8 DEF IInv
<1> QED BY <1>1, <1>4, <1>5, <1>6 DEF RequireCredentials

(* The revocation of the runner that the command holds takes effect.       *)
LEMMA RevokeInv ==
  ASSUME IInv, NEW t \in Terminals, Revoke(t)
  PROVE  IInv'
<1>1. /\ command[t].name = "logout" /\ command[t].at = "revoking" /\ At(t, "logout", "revoking")
      /\ UNCHANGED <<typed, fileVars, paired, daemonVars, disturbed>>
  BY DEF Revoke, At
<1>2. /\ command[t].name \in OfRunner /\ ~At(t, "login", "approved")
      /\ ~At(t, "logout", "clearing")
  BY <1>1 DEF OfRunner, At
<1>3. /\ UNCHANGED <<typed, credentials, pidFile, paired, daemon, stopping, disturbed>>
      /\ Last' = Last /\ credentials \in paired \cup {None} /\ Held(t) \in paired
  BY <1>1 DEF fileVars, daemonVars, Last, IInv, HeldOK
<1>4. CASE End(t) /\ UNCHANGED revoked
  <2>1. UNCHANGED <<typed, pidFile, serverVars, daemonVars, disturbed>>
    BY <1>3, <1>4 DEF serverVars, daemonVars
  <2> QED BY <1>1, <1>2, <1>3, <1>4, <2>1, CredentialsWritten
<1>5. CASE revoked' = revoked \cup {Held(t)} /\ Goto(t, "clearing", None)
  <2>1. "clearing" \in Places /\ None \in Helds
    BY HeldTyped DEF Places
  <2>2. TypeOK /\ RestTyped'
    BY <1>3, <1>5 DEF IInv, TypeOK, RestTyped
  <2>3. TypeOK'
    BY <1>5, <2>1, <2>2, GotoTyped
  <2>4. OneAtATime'
    BY <1>1, <1>3, <1>5, <2>1, <2>2, GotoContinues, ContinuesOne DEF IInv
  <2>5. DaemonOK'
    <3>1. Live' \subseteq Live
      BY <1>1, SameDaemons
    <3>2. DaemonQuiet
      BY <1>1, <1>3, <1>5, <2>1, <2>2, <3>1, GotoQuiet DEF OnDaemon
    <3> QED BY <3>2, DaemonQuietKeeps DEF IInv
  <2>6. PairedInOrder'
    BY <1>3 DEF IInv, PairedInOrder
  <2>7. /\ command'[t] = [name |-> "logout", at |-> "clearing", held |-> None]
        /\ \A u \in Terminals \ {t} : command'[u] = command[u]
    BY <1>1, <1>5, <2>1, <2>2, GotoEffect
  <2>8. command'[t].name = "logout" /\ command'[t].at = "clearing"
    BY <2>7
  <2>9. /\ ~At(t, "login", "approved")' /\ ~At(t, "logout", "revoking")'
        /\ ~At(t, "start", "saving")' /\ At(t, "logout", "clearing")'
    BY <2>8 DEF At
  <2>10. RunnerOK'
    <3> SUFFICES ASSUME "credentials" \notin disturbed' PROVE RunnerOK'
      BY DEF RunnerOK
    <3>1. "credentials" \notin disturbed
      BY <1>3
    <3>2. Last \in paired => Last \in revoked'
      BY <1>1, <1>5, <3>1 DEF IInv, RunnerOK
    <3>3. \A u \in Terminals : ~At(u, "login", "approved")
      BY <1>1, <3>1, LogoutBefore
    <3>4. \A u \in Terminals : ~At(u, "login", "approved")'
      BY <2>7, <2>9, <3>3 DEF At
    <3>5. revoked \subseteq revoked' /\ disturbed \subseteq disturbed'
      BY <1>3, <1>5
    <3> QED BY <1>3, <2>7, <2>9, <3>2, <3>3, <3>4, <3>5, RunnerForward DEF IInv
  <2>11. HeldOK'
    <3>1. HeldOK /\ paired \subseteq paired' /\ credentials' \in paired' \cup {None}
      BY <1>3 DEF IInv
    <3> QED BY <2>7, <2>9, <3>1, HeldKept
  <2> QED BY <2>3, <2>4, <2>5, <2>6, <2>10, <2>11 DEF IInv
<1> QED BY <1>4, <1>5 DEF Revoke

LEMMA RevokeUnansweredInv ==
  ASSUME IInv, NEW t \in Terminals, RevokeUnanswered(t)
  PROVE  IInv'
<1>1. /\ command[t].name = "logout" /\ At(t, "logout", "revoking") /\ End(t)
      /\ revoked' = revoked \cup {Held(t)} /\ disturbed' = disturbed \cup {"credentials"}
      /\ UNCHANGED <<typed, credentials, pidFile, paired, daemon, stopping>> /\ Last' = Last
  BY DEF RevokeUnanswered, At, fileVars, daemonVars, Last
<1>2. Held(t) \in paired /\ credentials \in paired \cup {None}
  BY <1>1 DEF IInv, HeldOK
<1>3. TypeOK /\ RestTyped'
  BY <1>1, <1>2 DEF IInv, TypeOK, RestTyped
<1>4. TypeOK'
  BY <1>1, <1>3, EndTyped
<1>5. OneAtATime'
  BY <1>1, <1>3, EndContinues, ContinuesOne DEF IInv
<1>6. DaemonOK'
  <2>1. Live' \subseteq Live
    BY <1>1, SameDaemons DEF daemonVars
  <2>2. DaemonQuiet
    BY <1>1, <1>3, <2>1, EndQuiet DEF OnDaemon
  <2> QED BY <2>2, DaemonQuietKeeps DEF IInv
<1>7. PairedInOrder' /\ RunnerOK'
  BY <1>1 DEF IInv, PairedInOrder, RunnerOK
<1>8. HeldOK'
  BY <1>1, <1>2, <1>3, EndHeld DEF IInv
<1> QED BY <1>4, <1>5, <1>6, <1>7, <1>8 DEF IInv

-----------------------------------------------------------------------------
(* Any command begins or breaks off, and the daemons go on by themselves.  *)

LEMMA BeginInv ==
  ASSUME IInv, NEW t \in Terminals, NEW name \in Names \ {"none"}, Begin(t, name)
  PROVE  IInv'
<1> DEFINE begun == [name |-> name, at |-> "begun", held |-> None]
<1>1. /\ command[t] = Prompt /\ typed < MaxCommands /\ typed' = typed + 1
      /\ command' = [command EXCEPT ![t] = begun]
      /\ disturbed' = IF Collides(name) THEN disturbed \cup {FileOf(name)} ELSE disturbed
      /\ UNCHANGED <<credentials, pidFile, paired, revoked, daemon, stopping>>
  BY DEF Begin, fileVars, serverVars, daemonVars
<1>2. begun \in Commands /\ begun.name = name /\ begun.at = "begun" /\ command[t].name = "none"
  BY <1>1, HeldTyped DEF Commands, Places, Prompt
<1> HIDE DEF begun
<1>3. FileOf(name) \in {"credentials", "pid"}
  BY DEF FileOf
<1>4. /\ command' \in [Terminals -> Commands] /\ command'[t] = begun
      /\ \A u \in Terminals \ {t} : command'[u] = command[u]
  BY <1>1, <1>2, CommandsTyped DEF IInv
<1>5. TypeOK'
  <2>1. typed' \in 0..MaxCommands
    BY <1>1, RunnerCliAssumption DEF IInv, TypeOK
  <2>2. disturbed' \subseteq {"credentials", "pid"}
    BY <1>1, <1>3 DEF IInv, TypeOK
  <2> QED BY <1>1, <1>4, <2>1, <2>2 DEF IInv, TypeOK, Commands, Names, Places, Helds
<1>6. disturbed \subseteq disturbed'
  BY <1>1
<1>7. OneAtATime'
  <2>1. ASSUME FileOf(name) \notin disturbed', NEW u \in Terminals \ {t}, command[u] # Prompt,
               name \in Savers \/ command[u].name \in Savers
        PROVE  FileOf(command[u].name) # FileOf(name)
    BY <1>1, <2>1 DEF Collides
  <2>2. OneAtATime
    BY DEF IInv
  <2>3. ASSUME NEW v \in Terminals, NEW u \in Terminals, command'[v] # Prompt, command'[u] # Prompt,
               FileOf(command'[v].name) = FileOf(command'[u].name),
               FileOf(command'[v].name) \notin disturbed', command'[v].name \in Savers
        PROVE  v = u
    <3>1. CASE v = t /\ u # t
      BY <1>2, <1>4, <2>1, <2>3, <3>1
    <3>2. CASE v # t /\ u = t
      BY <1>2, <1>4, <2>1, <2>3, <3>2
    <3>3. CASE v # t /\ u # t
      BY <1>4, <1>6, <2>2, <2>3, <3>3 DEF OneAtATime
    <3> QED BY <3>1, <3>2, <3>3
  <2> QED BY <2>3 DEF OneAtATime
<1>8. ~OnDaemon(command[t]) /\ ~OnDaemon(begun) /\ ~OnRunner(command[t]) /\ ~OnRunner(begun)
  BY <1>2 DEF OnDaemon, OnRunner
<1>9. DaemonOK'
  <2>1. Live' \subseteq Live
    BY <1>1, SameDaemons DEF daemonVars
  <2>2. DaemonQuiet
    BY <1>1, <1>4, <1>6, <1>8, <2>1 DEF DaemonQuiet, DaemonApart
  <2> QED BY <2>2, DaemonQuietKeeps DEF IInv
<1>10. RunnerOK' /\ PairedInOrder'
  <2>1. RunnerQuiet
    BY <1>1, <1>4, <1>6, <1>8 DEF RunnerQuiet, RunnerApart
  <2> QED BY <2>1, RunnerQuietKeeps DEF IInv
<1>11. HeldOK'
  <2>1. ~At(t, "start", "saving")' /\ ~At(t, "login", "approved")' /\ ~At(t, "logout", "revoking")'
    BY <1>2, <1>4 DEF At
  <2>2. HeldOK /\ paired \subseteq paired' /\ credentials' \in paired' \cup {None}
    BY <1>1 DEF IInv, HeldOK
  <2> QED BY <1>4, <2>1, <2>2, HeldKept
<1> QED BY <1>5, <1>7, <1>9, <1>10, <1>11 DEF IInv

LEMMA BreakOffInv ==
  ASSUME IInv, NEW t \in Terminals, BreakOff(t)
  PROVE  IInv'
<1>1. /\ End(t) /\ UNCHANGED <<typed, fileVars, serverVars, daemonVars>>
      /\ disturbed' = IF LeavesTrace(t) THEN disturbed \cup {FileOf(command[t].name)}
                      ELSE disturbed
  BY DEF BreakOff
<1>2. FileOf(command[t].name) \in {"credentials", "pid"} /\ disturbed \subseteq {"credentials", "pid"}
  BY DEF FileOf, IInv, TypeOK
<1>3. disturbed \subseteq disturbed' /\ disturbed' \subseteq {"credentials", "pid"}
  BY <1>1, <1>2
<1>4. TypeOK' /\ OneAtATime' /\ PairedInOrder' /\ HeldOK'
  BY <1>1, <1>3, EndSafe
<1>5. /\ ~OnDaemon(command[t]) \/ "pid" \in disturbed' => DaemonOK'
      /\ ~OnRunner(command[t]) \/ "credentials" \in disturbed' => RunnerOK'
  BY <1>1, <1>3, EndSafe
<1>6. command'[t].name = "none" /\ \A u \in Terminals \ {t} : command'[u] = command[u]
  BY <1>1, EndEffect DEF IInv, Prompt
<1>7. DaemonOK'
  <2>1. CASE ~OnDaemon(command[t]) \/ "pid" \in disturbed'
    BY <1>5, <2>1
  <2>2. CASE OnDaemon(command[t]) /\ "pid" \notin disturbed'
    <3>1. ~At(t, "start", "saving")
      BY <1>1, <2>2 DEF LeavesTrace, At, FileOf
    <3>2. Live' \subseteq Live /\ pidFile' = pidFile
      BY <1>1, SameDaemons DEF fileVars
    <3>3. /\ ~At(t, "start", "saving")' /\ ~At(t, "start", "spawning")'
          /\ ~At(t, "stop", "clearing")' /\ ~At(t, "status", "clearing")'
          /\ ~At(t, "stop", "signalling")'
      BY <1>6 DEF At
    <3> QED BY <1>3, <1>6, <3>1, <3>2, <3>3, DaemonForward DEF IInv
  <2> QED BY <2>1, <2>2
<1>8. RunnerOK'
  <2>1. CASE ~OnRunner(command[t]) \/ "credentials" \in disturbed'
    BY <1>5, <2>1
  <2>2. CASE command[t].name = "login" /\ "credentials" \notin disturbed'
    <3>1. ~At(t, "login", "approved")
      BY <1>1, <2>2 DEF LeavesTrace, FileOf
    <3>2. UNCHANGED <<credentials, paired, revoked>> /\ Last' = Last
      BY <1>1 DEF fileVars, serverVars, Last
    <3>3. /\ \A u \in Terminals \ {t} : command'[u].name \notin OfRunner
          /\ credentials' # None => credentials' \in paired' \ revoked'
          /\ Last' \in paired' => Last' \in revoked' \/ Last' = credentials'
      BY <1>3, <1>6, <2>2, <3>1, <3>2, LoginBefore
    <3>4. /\ ~At(t, "login", "approved")' /\ ~At(t, "logout", "clearing")'
          /\ ~At(t, "logout", "revoking")'
      BY <1>6 DEF At
    <3> QED BY <3>3, <3>4, RunnerDecided
  <2>3. CASE command[t].name = "logout" /\ "credentials" \notin disturbed'
    <3>1. ~At(t, "logout", "clearing")
      BY <1>1, <2>3 DEF LeavesTrace, FileOf
    <3>2. \A u \in Terminals : ~At(u, "login", "approved")
      BY <1>3, <2>3, LogoutBefore
    <3>3. \A u \in Terminals : ~At(u, "login", "approved")'
      BY <1>6, <3>2 DEF At
    <3>4. ~At(t, "logout", "clearing")' /\ ~At(t, "logout", "revoking")'
      BY <1>6 DEF At
    <3>5. UNCHANGED <<credentials, paired, revoked>>
      BY <1>1 DEF fileVars, serverVars
    <3> QED BY <1>3, <1>6, <3>1, <3>2, <3>3, <3>4, <3>5, RunnerForward DEF IInv
  <2> QED BY <2>1, <2>2, <2>3 DEF OnRunner
<1> QED BY <1>4, <1>7, <1>8 DEF IInv

LEMMA BecomeInv ==
  ASSUME IInv, NEW p \in Pids, NEW at \in {"idle", "heartbeat", "working", "exited"},
         IsRunning(p), Become(p, at)
  PROVE  IInv'
<1>1. /\ daemon' = [daemon EXCEPT ![p] = at]
      /\ UNCHANGED <<command, typed, credentials, pidFile, paired, revoked, stopping, disturbed>>
  BY DEF Become, fileVars, serverVars
<1>2. TypeOK'
  BY <1>1 DEF IInv, TypeOK
<1>3. Live' \subseteq Live
  BY <1>1 DEF IInv, TypeOK, Live, IsRunning
<1>4. OneAtATime' /\ HeldOK'
  BY <1>1 DEF IInv, OneAtATime, HeldOK, At, Held
<1>5. DaemonOK'
  <2>1. DaemonQuiet
    BY <1>1, <1>3 DEF DaemonQuiet, DaemonApart
  <2> QED BY <2>1, DaemonQuietKeeps DEF IInv
<1>6. RunnerOK' /\ PairedInOrder'
  <2>1. RunnerQuiet
    BY <1>1 DEF RunnerQuiet, RunnerApart
  <2> QED BY <2>1, RunnerQuietKeeps DEF IInv
<1> QED BY <1>2, <1>4, <1>5, <1>6 DEF IInv

LEMMA DaemonInv ==
  ASSUME IInv, NEW p \in Pids, DaemonStep(p) \/ DaemonDies(p)
  PROVE  IInv'
<1>1. p # None
  BY DEF Pids, None
<1>2. IsRunning(p)
  BY <1>1 DEF DaemonStep, Boot, Wake, Heartbeat, RunOnce, DaemonDies, IsRunning
<1>3. PICK at \in {"idle", "heartbeat", "working", "exited"} : Become(p, at)
  BY DEF DaemonStep, Boot, Wake, Heartbeat, RunOnce, DaemonDies
<1> QED BY <1>2, <1>3, BecomeInv

LEMMA CommandInv ==
  ASSUME IInv, NEW t \in Terminals, CommandStep(t)
  PROVE  IInv'
BY StartPairingInv, PollApprovedInv, PairingExpiredInv, SaveCredentialsInv,
   RequireCredentialsInv, RevokeInv, RevokeUnansweredInv, ClearCredentialsInv,
   CheckRunningInv, SpawnDaemonInv, SaveProcessIdInv,
   ReadProcessIdInv, SignalInv, ClearProcessIdInv DEF CommandStep

LEMMA StutterInv == IInv /\ UNCHANGED vars => IInv'
<1> SUFFICES ASSUME IInv, UNCHANGED vars PROVE IInv'
  OBVIOUS
<1>1. UNCHANGED <<command, typed, credentials, pidFile, paired, revoked, daemon, stopping, disturbed>>
  BY DEF vars, fileVars, serverVars, daemonVars
<1>2. TypeOK' /\ OneAtATime' /\ HeldOK'
  BY <1>1 DEF IInv, TypeOK, OneAtATime, HeldOK, At, Held
<1>3. DaemonOK'
  <2>1. DaemonQuiet
    BY <1>1 DEF DaemonQuiet, DaemonApart, Live, IsRunning
  <2> QED BY <2>1, DaemonQuietKeeps DEF IInv
<1>4. RunnerOK' /\ PairedInOrder'
  <2>1. RunnerQuiet
    BY <1>1 DEF RunnerQuiet, RunnerApart
  <2> QED BY <2>1, RunnerQuietKeeps DEF IInv
<1> QED BY <1>2, <1>3, <1>4 DEF IInv

LEMMA InitInv == Init => IInv
<1> SUFFICES ASSUME Init PROVE IInv
  OBVIOUS
<1>1. \A t \in Terminals : command[t] = Prompt /\ command[t].name = "none"
  BY DEF Init, Prompt
<1>2. TypeOK
  <2>1. Prompt \in Commands
    BY HeldTyped DEF Prompt, Commands, Names, Places
  <2>2. command \in [Terminals -> Commands]
    BY <2>1 DEF Init
  <2> QED BY <2>2, RunnerCliAssumption DEF Init, TypeOK, Commands, Names, Places, Helds
<1>3. OneAtATime
  BY <1>1 DEF OneAtATime
<1>4. \A t \in Terminals, name \in OfDaemon \cup OfRunner, at \in Places : ~At(t, name, at)
  BY <1>1 DEF At, OfDaemon, OfRunner
<1>5. Live = {}
  BY DEF Init, Live, IsRunning
<1>6. DaemonOK
  BY <1>4, <1>5 DEF DaemonOK, OfDaemon, Places
<1>7. paired = {} /\ Last = 0
  BY FS_EmptySet DEF Init, Last
<1>8. PairedInOrder
  BY <1>7 DEF PairedInOrder
<1>9. RunnerOK /\ HeldOK
  <2>1. credentials = None
    BY DEF Init
  <2> QED BY <1>4, <1>7, <2>1 DEF RunnerOK, HeldOK, OfDaemon, OfRunner, Places
<1> QED BY <1>2, <1>3, <1>6, <1>8, <1>9 DEF IInv

LEMMA NextInv == IInv /\ [Next]_vars => IInv'
<1> SUFFICES ASSUME IInv, [Next]_vars PROVE IInv'
  OBVIOUS
<1>1. ASSUME NEW t \in Terminals, NEW name \in Names \ {"none"}, Begin(t, name) PROVE IInv'
  BY <1>1, BeginInv
<1>2. ASSUME NEW t \in Terminals, CommandStep(t) \/ BreakOff(t) PROVE IInv'
  BY <1>2, CommandInv, BreakOffInv
<1>3. ASSUME NEW p \in Pids, DaemonStep(p) \/ DaemonDies(p) PROVE IInv'
  BY <1>3, DaemonInv
<1>4. CASE UNCHANGED vars
  BY <1>4, StutterInv
<1> QED BY <1>1, <1>2, <1>3, <1>4 DEF Next, Names

-----------------------------------------------------------------------------
(* The theorems.                                                           *)

(* The conjunction above is inductive: it holds at the start and every     *)
(* step of a command, of a daemon and of Ctrl-C preserves it.              *)
THEOREM Inductive == Spec => []IInv
BY InitInv, NextInv, PTL DEF Spec

(* The variables keep their types: what the commands carry, the files and  *)
(* the states of the daemons.                                              *)
THEOREM TypeCorrect == Spec => []TypeOK
<1>1. IInv => TypeOK
  BY DEF IInv
<1> QED BY <1>1, Inductive, PTL

LEMMA Named == IInv => RunningDaemonIsNamed
<1> SUFFICES ASSUME IInv, AtRest("pid") PROVE \A p \in Pids : IsRunning(p) /\ ~stopping[p] => p = pidFile
  BY DEF RunningDaemonIsNamed
<1>1. "pid" \notin disturbed
  BY DEF AtRest
<1>2. \A t \in Terminals : ~At(t, "start", "saving")
  <2> SUFFICES ASSUME NEW t \in Terminals, At(t, "start", "saving") PROVE FALSE
    OBVIOUS
  <2>1. command[t] # Prompt /\ FileOf(command[t].name) = "pid"
    BY DEF At, Prompt, FileOf
  <2> QED BY <2>1 DEF AtRest, UnderWay
<1>3. Live \subseteq {pidFile}
  BY <1>1, <1>2 DEF IInv, DaemonOK
<1> QED BY <1>3 DEF Live

LEMMA Stand == IInv => CredentialsStand
<1> SUFFICES ASSUME IInv, AtRest("credentials")
             PROVE  /\ credentials # None => credentials \in paired \ revoked
                    /\ Last \in paired => Last \in revoked \/ Last = credentials
  BY DEF CredentialsStand, Last
<1>1. "credentials" \notin disturbed
  BY DEF AtRest
<1>2. \A t \in Terminals : ~At(t, "login", "approved") /\ ~At(t, "logout", "clearing")
  <2> SUFFICES ASSUME NEW t \in Terminals, At(t, "login", "approved") \/ At(t, "logout", "clearing")
               PROVE  FALSE
    OBVIOUS
  <2>1. command[t] # Prompt /\ FileOf(command[t].name) = "credentials"
    BY DEF At, Prompt, FileOf
  <2> QED BY <2>1 DEF AtRest, UnderWay
<1> QED BY <1>1, <1>2 DEF IInv, RunnerOK

(* Whenever no command on a file is under way, runner.pid names the daemon *)
(* that runs and credentials.json a runner the server accepts: cli-app.ts. *)
(* Only a login or a start that overlaps another command of its file, and  *)
(* a command that ends before the file tells what it did, can change that. *)
THEOREM FilesStand == Spec => []StateFilesStand
<1>1. IInv => StateFilesStand
  BY Named, Stand DEF StateFilesStand
<1> QED BY <1>1, Inductive, PTL
=============================================================================
