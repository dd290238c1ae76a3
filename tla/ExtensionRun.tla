---------------------------- MODULE ExtensionRun ----------------------------
(***************************************************************************)
(* An agentic task under an installed plugin with MCP profiles: what       *)
(* harnessFor and the repair of withMcpProfiles (tracer-executor.ts) do,   *)
(* over the plugin registry, the profile registry and the children of      *)
(* McpSession, while the operator of the runner changes extensions and the *)
(* engine's signal can be aborted at every await.                          *)
(***************************************************************************)
EXTENDS McpSession, Transcript

CONSTANTS
  Version,               \* the protocol version of the lease
  Outputs,               \* what a plugin may print
  Changeable             \* bound: the extensions that the operator changes

ASSUME ExtensionAssumption ==
  /\ Version \in Nat \X Nat /\ Version[1] = 1
  /\ Outputs \subseteq Seq(Message \cup {Malformed})

VARIABLES
  pc,
  profile,           \* the profile that is set up, or torn down
  aborted,           \* request.signal
  file, entry,       \* hashes: of an extension's artifact, and of its registry entry
  launch,            \* the artifact that the last verification of a server found
  exitCode, output,  \* of the plugin, once it is closed
  result,            \* the plugin's terminal result
  failed,            \* primaryError, or the plugin's rejection
  cleanupFailed,
  checkpoint         \* saveCheckpoint was called

registryVars == <<file, entry, launch>>
outcomeVars == <<exitCode, output, result, failed, cleanupFailed, checkpoint>>
vars == <<sessionVars, pc, profile, aborted, registryVars, outcomeVars>>

Ended == {"completed", "failed"}
Setup == {"getting", "preparing", "verifying", "verified", "spawning", "probing", "bridging"}
Teardown == {"bridges", "sessions", "removing"}
Leased == "leased"
Absent == "absent"

Init ==
  /\ SessionInit
  /\ pc = "resolving" /\ profile = 1
  /\ aborted = FALSE
  /\ file = [p \in Processes |-> Leased] /\ entry = [p \in Processes |-> Leased]
  /\ launch = Absent
  /\ exitCode = 0 /\ output = <<>> /\ result = NoResult
  /\ failed = FALSE /\ cleanupFailed = FALSE /\ checkpoint = FALSE

-----------------------------------------------------------------------------
(* The operator, through another process of the CLI or beside it, puts     *)
(* another artifact in place, or installs or removes it, until the server  *)
(* is spawned, which is after the last look at its artifact.  Of the       *)
(* plugin only a change before its hash is compared, which is before the   *)
(* set-up, makes a difference to the run.                                  *)

Replace(p) ==
  /\ \E hash \in {Leased, "other"} : file' = [file EXCEPT ![p] = hash]
  /\ UNCHANGED <<entry, launch>>

Reinstall(p) ==
  /\ pc \in {"resolving", "getting"}
  /\ \E hash \in {Absent, file[p]} : entry' = [entry EXCEPT ![p] = hash]
  /\ UNCHANGED <<file, launch>>

Operator ==
  /\ \E p \in Changeable :
       /\ \/ pc = "resolving" /\ p = Plugin
          \/ pc \in {"getting", "preparing", "verifying", "verified"} /\ p = profile
       /\ Replace(p) \/ Reinstall(p)
  /\ UNCHANGED <<sessionVars, pc, profile, aborted, outcomeVars>>

IsInstalled(p) == file[p] = entry[p]

(* resolveExecution, or get, and the comparison with the lease: the entry  *)
(* is the leased one, and its artifact what was installed.                 *)
Matches(p) == entry[p] = Leased /\ IsInstalled(p)

-----------------------------------------------------------------------------
(* The run's own steps.                                                    *)

Goto(label) == pc' = label
Step(from, to) == pc = from /\ Goto(to)

(* The first error of repair: the clean-up begins.                         *)
Throw ==
  /\ failed' = TRUE /\ Goto("bridges") /\ profile' = Profiles
  /\ UNCHANGED <<exitCode, output, result, cleanupFailed, checkpoint>>

NextProfile(i) ==
  /\ profile' = i
  /\ Goto(IF i > Profiles THEN "launching" ELSE "getting")

(* pluginHarness: the hash, the version and the credentials.               *)
Resolve ==
  /\ pc = "resolving" /\ Matches(Plugin)
  /\ NextProfile(1)
  /\ UNCHANGED <<sessionVars, aborted, registryVars, outcomeVars>>

ResolveFails ==
  /\ Step("resolving", "failed") /\ failed' = TRUE
  /\ UNCHANGED <<sessionVars, profile, aborted, registryVars, exitCode, output,
                 result, cleanupFailed, checkpoint>>

GetProfile ==
  /\ Step("getting", "preparing") /\ Matches(profile)
  /\ UNCHANGED <<sessionVars, profile, aborted, registryVars, outcomeVars>>

(* startMcpSession, up to the secrets.                                     *)
Prepare ==
  /\ Step("preparing", "verifying") /\ ~aborted /\ IsInstalled(profile)
  /\ UNCHANGED <<sessionVars, profile, aborted, registryVars, outcomeVars>>

(* Mutant of IsVerified.                                                   *)
IsVerifiedBefore(p) == TRUE

(* The artifacts are hashed once more after the secrets were waited for.   *)
IsVerified(p) == IsInstalled(p)

Verify ==
  /\ Step("verifying", "verified") /\ ~aborted /\ IsVerified(profile)
  /\ launch' = file[profile]
  /\ UNCHANGED <<sessionVars, file, entry, profile, aborted, outcomeVars>>

(* The hashing was waited for: the artifact and the signal may be others.  *)
Spawn ==
  /\ Step("verified", "spawning") /\ ~aborted
  /\ child' = [child EXCEPT ![profile] = "alive"]
  /\ UNCHANGED <<told, capable, bridge, requestVars, profile, aborted, registryVars,
                 outcomeVars>>

(* A step of the set-up fails: the entry, an artifact or a secret is not   *)
(* what it was, the signal was aborted, or the socket cannot be made.      *)
SetupFails ==
  /\ pc \in {"getting", "preparing", "verifying", "verified", "bridging"}
  /\ Throw
  /\ UNCHANGED <<sessionVars, aborted, registryVars>>

(* 'error' instead of 'spawn'.                                             *)
SpawnFails ==
  /\ pc = "spawning" /\ told[profile] = "nothing" /\ child[profile] = "alive"
  /\ child' = [child EXCEPT ![profile] = "none"]
  /\ Throw
  /\ UNCHANGED <<told, capable, bridge, requestVars, aborted, registryVars>>

(* 'spawn': the session exists, and its probe is written.                  *)
Spawned ==
  /\ Step("spawning", "probing") /\ ~aborted
  /\ UNCHANGED <<sessionVars, profile, aborted, registryVars, outcomeVars>>

(* stopBeforeSession is waited for.                                        *)
StoppedBeforeSession ==
  /\ pc = "spawning" /\ aborted /\ child[profile] = "closed"
  /\ Throw
  /\ UNCHANGED <<sessionVars, aborted, registryVars>>

(* onMessage, of the answer to initialize.                                 *)
Initialized ==
  /\ Step("probing", "bridging") /\ Running(profile)
  /\ capable' = capable \cup {profile}
  /\ UNCHANGED <<processVars, bridge, requestVars, profile, aborted, registryVars,
                 outcomeVars>>

(* The start-up timeout, or #fail, rejects the probe and stops the child;  *)
(* or the child closed.                                                    *)
ProbeFails ==
  /\ pc = "probing"
  /\ told' = Terminated({profile})
  /\ Throw
  /\ UNCHANGED <<child, capable, bridge, requestVars, aborted, registryVars>>

Listen ==
  /\ pc = "bridging"
  /\ bridge' = [bridge EXCEPT ![profile] = "listening"]
  /\ NextProfile(profile + 1)
  /\ UNCHANGED <<processVars, capable, requestVars, aborted, registryVars,
                 outcomeVars>>

-----------------------------------------------------------------------------
(* ExecutablePluginHarness.run, by NodeProcessRunner.                      *)

LaunchPlugin ==
  /\ Step("launching", "running")
  /\ child' = [child EXCEPT ![Plugin] = "alive"]
  /\ told' = [told EXCEPT ![Plugin] = IF aborted THEN "SIGTERM" ELSE "nothing"]
  /\ UNCHANGED <<capable, bridge, requestVars, profile, aborted, registryVars, outcomeVars>>

(* The run was rejected: the request cannot be encoded, the process cannot *)
(* be spawned, or its output exceeds the limit.                            *)
PluginRejected ==
  /\ pc \in {"launching", "running"}
  /\ told' = Terminated({Plugin})
  /\ Throw
  /\ UNCHANGED <<child, capable, bridge, requestVars, aborted, registryVars>>

(* 'close' settles the run; a plugin may also end well after SIGTERM.      *)
PluginClosed ==
  /\ pc = "running" /\ child[Plugin] = "closed"
  /\ exitCode' \in {0, 1} /\ output' \in Outputs
  /\ result' = PluginResult(output', exitCode', Version)
  /\ IF result' # NoResult /\ result'.checkpoint
       THEN Goto("saving") /\ UNCHANGED <<profile, failed>>
       ELSE /\ failed' = (result' = NoResult \/ result'.status # "completed")
            /\ Goto("bridges") /\ profile' = Profiles
  /\ UNCHANGED <<sessionVars, aborted, registryVars, cleanupFailed, checkpoint>>

(* The checkpoint of the terminal result, whatever its status, is saved;   *)
(* the call may fail.                                                      *)
SaveCheckpoint ==
  /\ pc = "saving"
  /\ checkpoint' = TRUE
  /\ failed' \in {TRUE, result.status # "completed"}
  /\ Goto("bridges") /\ profile' = Profiles
  /\ UNCHANGED <<sessionVars, aborted, registryVars, exitCode, output, result,
                 cleanupFailed>>

-----------------------------------------------------------------------------
(* The clean-up, in reverse order.                                         *)

StopBridge ==
  /\ pc = "bridges"
  /\ IF profile = 0
       THEN Goto("sessions") /\ profile' = Profiles /\ UNCHANGED <<bridge, cleanupFailed>>
       ELSE /\ profile' = profile - 1 /\ UNCHANGED pc
            /\ bridge' = [bridge EXCEPT ![profile] = IF @ = "listening" THEN "stopped" ELSE @]
            /\ cleanupFailed' \in {cleanupFailed, cleanupFailed \/ bridge[profile] = "listening"}
  /\ UNCHANGED <<processVars, capable, requestVars, aborted, registryVars, exitCode,
                 output, result, failed, checkpoint>>

(* session.stop: the signal, and the wait for the close.                   *)
StopSession ==
  /\ pc = "sessions" /\ profile # 0
  /\ Running(profile) /\ told[profile] = "nothing"
  /\ told' = Terminated({profile})
  /\ UNCHANGED <<child, capable, bridge, requestVars, pc, profile, aborted, registryVars,
                 outcomeVars>>

(* Mutant of IsStopped.                                                    *)
IsStoppedOnceTold(s) == child[s] \in {"none", "closed"} \/ told[s] # "nothing"

IsStopped(s) == child[s] \in {"none", "closed"}

SessionStopped ==
  /\ pc = "sessions"
  /\ IF profile = 0 THEN Goto("removing") /\ UNCHANGED profile
     ELSE IsStopped(profile) /\ profile' = profile - 1 /\ UNCHANGED pc
  /\ UNCHANGED <<sessionVars, aborted, registryVars, outcomeVars>>

(* Mutant of Succeeded.                                                    *)
SucceededUnlessFailed(cleanup) == ~failed

Succeeded(cleanup) == ~failed /\ ~cleanup

(* The directory of the sockets is removed, or is not.  Without profiles   *)
(* there is nothing to be cleaned up.                                      *)
RemoveSockets ==
  /\ pc = "removing"
  /\ cleanupFailed' \in {cleanupFailed, Profiles > 0 \/ cleanupFailed}
  /\ Goto(IF Succeeded(cleanupFailed') THEN "completed" ELSE "failed")
  /\ UNCHANGED <<sessionVars, profile, aborted, registryVars, exitCode, output,
                 result, failed, checkpoint>>

-----------------------------------------------------------------------------
(* The signal: every listener runs at once, those of the sessions, of a    *)
(* start under way, of a probe and of the plugin's process.                *)
Abort ==
  /\ pc \notin Ended /\ ~aborted
  /\ aborted' = TRUE
  /\ told' = Terminated(Processes)
  /\ IF pc = "probing" THEN Throw ELSE UNCHANGED <<pc, profile, outcomeVars>>
  /\ UNCHANGED <<child, capable, bridge, requestVars, registryVars>>

Beside(A) == A /\ UNCHANGED <<pc, profile, aborted, registryVars, outcomeVars>>

Children == Beside(SessionStep)

(* What the runner does itself, or a timer of it.                          *)
Run ==
  \/ Resolve \/ ResolveFails \/ GetProfile \/ Prepare \/ Verify \/ Spawn
  \/ SetupFails \/ SpawnFails \/ Spawned \/ StoppedBeforeSession \/ ProbeFails \/ Listen
  \/ LaunchPlugin \/ PluginClosed \/ SaveCheckpoint
  \/ StopBridge \/ StopSession \/ SessionStopped \/ RemoveSockets

Next == Run \/ Initialized \/ PluginRejected \/ Abort \/ Children \/ Operator

Spec == Init /\ [][Next]_vars

(* The children owe nothing until they are killed; what the runner does    *)
(* itself goes on, and its timers fire, the engine's deadline among them.  *)
Fairness ==
  /\ WF_vars(Run) /\ WF_vars(Abort)
  /\ \A p \in Processes : WF_vars(Beside(Escalate(p))) /\ WF_vars(Beside(Dies(p)))

FairSpec == Spec /\ Fairness

-----------------------------------------------------------------------------
(***************************************************************************)
(* Properties.                                                             *)
(***************************************************************************)

TypeOK ==
  /\ SessionTypeOK
  /\ pc \in {"resolving", "launching", "running", "saving"} \cup Setup \cup Teardown \cup Ended
  /\ profile \in 0..Profiles + 1
  /\ aborted \in BOOLEAN /\ failed \in BOOLEAN /\ cleanupFailed \in BOOLEAN
  /\ checkpoint \in BOOLEAN
  /\ file \in [Processes -> {Leased, "other"}]
  /\ entry \in [Processes -> {Leased, "other", Absent}]
  /\ launch \in {Leased, "other", Absent}
  /\ exitCode \in {0, 1}

(* packages/runner/README.md: MCP processes are "always stopped after      *)
(* completion, failure, cancellation, or partial startup", the sockets are *)
(* removed, and a plugin that outlives its run was at least signalled.     *)
NothingLeftBehind ==
  pc \in Ended =>
    /\ \A s \in Servers : child[s] \in {"none", "closed"} /\ bridge[s] # "listening"
    /\ Running(Plugin) => told[Plugin] # "nothing"

(* "Reverified immediately before every launch": whatever the operator     *)
(* does while secrets are waited for, a server is started after a look     *)
(* that found the leased artifact in its place.  What replaces it between  *)
(* that look and the start is not seen.                                    *)
LeasedServersOnly ==
  [][\A s \in Servers : child[s] = "none" /\ child'[s] = "alive" => launch = Leased]_vars

(* A request is answered by its own answer, also when answers of requests  *)
(* that timed out come late or twice, and none waits for a closed server.  *)
AnswersAreOwn ==
  \A c \in Calls :
    /\ calls[c].answer \in {NoAnswer, c}
    /\ calls[c].status = "open" => child[calls[c].to] # "closed"

(* A run that is reported as completed is a whole one: the plugin exited   *)
(* with 0 after a transcript of one handshake, ordered events and one      *)
(* completed result, every profile was connected, and the clean-up, too,   *)
(* succeeded.                                                              *)
CompletedRunsAreWhole ==
  pc = "completed" =>
    /\ exitCode = 0 /\ IsWholeRun(output, Version) /\ Last(output).status = "completed"
    /\ capable = Servers
    /\ ~cleanupFailed

(* A run ends: no server and no plugin can hold it by not answering, by    *)
(* ignoring SIGTERM or by leaving its pipes to a descendant.               *)
ExtensionRunEnds == <>(pc \in Ended)
=============================================================================
