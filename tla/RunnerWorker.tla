---------------------------- MODULE RunnerWorker ----------------------------
(***************************************************************************)
(* The runner's worker (RunnerWorker.runOnce and deliver, worker.ts), its  *)
(* active-job.json (state.ts) and the daemon loop that calls it, against   *)
(* the attempts the control plane has for this runner (RunnerJobs), with a *)
(* network that loses and delays requests and answers, and crashes of the  *)
(* runner process.                                                         *)
(*                                                                         *)
(* pc is what runOnce waits for.  A request that is answered takes effect  *)
(* and is answered in one step.  One that fails for the worker (time-out,  *)
(* lost answer, crash) joins delayed, where it takes effect once, later or *)
(* at once, or never.                                                      *)
(***************************************************************************)
EXTENDS Integers, FiniteSets

CONSTANTS
  MaxAttempts,        \* bound: attempts the control plane can lease
  CheckpointCount,    \* bound: attempt a saves checkpoints 0..CheckpointCount[a] - 1
  MaxCrashes          \* bound: crashes of the runner process

ASSUME RunnerWorkerAssumption ==
  /\ MaxAttempts \in Nat \ {0} /\ MaxCrashes \in Nat
  /\ CheckpointCount \in [1..MaxAttempts -> Nat]

Attempts == 1..MaxAttempts
NoAttempt == 0
NoCheckpoint == -1
Checkpoints == UNION {NoCheckpoint..CheckpointCount[a] - 1 : a \in Attempts}
Verdicts == {"executed", "cancelled", "interrupted"}
NoVerdict == "none"

(* active-job.json.                                                        *)
ActiveJob == [attempt : Attempts, started : BOOLEAN, checkpoint : Checkpoints,
              terminal : Verdicts \cup {NoVerdict}, uploaded : BOOLEAN]
NoActiveJob == [attempt |-> NoAttempt]

Request ==
  [kind : {"lease"}] \cup [kind : {"checkpoint"}, attempt : Attempts, sequence : Checkpoints]
    \cup [kind : {"complete"}, attempt : Attempts, verdict : Verdicts]

VARIABLES
  status, flagged, saved, verdict,    \* the attempts on the server
  delayed,                            \* requests the worker gave up on
  active, unsent,                     \* on disk: the active job, events to send
  pc, claimed, aborted,               \* in memory: runOnce
  live, queued, delivered,            \* in memory: LiveCheckpointDelivery
  runs,                               \* executions that began from the start
  crashes

serverVars == <<status, flagged, saved, verdict>>
diskVars == <<active, unsent>>
liveVars == <<live, queued, delivered>>
memoryVars == <<pc, claimed, aborted, liveVars>>
vars == <<serverVars, delayed, diskVars, memoryVars, runs, crashes>>

TypeOK ==
  /\ status \in [Attempts -> {"queued", "active", "terminal"}]
  /\ flagged \in [Attempts -> BOOLEAN]
  /\ saved \in [Attempts -> Checkpoints]
  /\ verdict \in [Attempts -> Verdicts \cup {NoVerdict}]
  /\ delayed \subseteq Request
  /\ active \in ActiveJob \cup {NoActiveJob}
  /\ unsent \in [Attempts -> BOOLEAN]
  /\ pc \in {"idle", "leasing", "claimed", "checking", "starting", "executing", "ready",
             "checkpointing", "uploading", "flushing", "completing", "clearing"}
  /\ claimed \in Attempts \cup {NoAttempt} /\ aborted \in BOOLEAN
  /\ live \in Checkpoints /\ queued \in Checkpoints /\ delivered \in Checkpoints
  /\ runs \in [Attempts -> 0..MaxCrashes + 1]
  /\ crashes \in 0..MaxCrashes

Init ==
  /\ status = [a \in Attempts |-> "queued"]
  /\ flagged = [a \in Attempts |-> FALSE]
  /\ saved = [a \in Attempts |-> NoCheckpoint]
  /\ verdict = [a \in Attempts |-> NoVerdict]
  /\ delayed = {}
  /\ active = NoActiveJob /\ unsent = [a \in Attempts |-> FALSE]
  /\ pc = "idle" /\ claimed = NoAttempt /\ aborted = FALSE
  /\ live = NoCheckpoint /\ queued = NoCheckpoint /\ delivered = NoCheckpoint
  /\ runs = [a \in Attempts |-> 0]
  /\ crashes = 0

-----------------------------------------------------------------------------
(* The control plane, as RunnerJobs has it.                                *)

(* claimNext: the queue in order, nothing while an attempt is active.      *)
Leasable ==
  {a \in Attempts :
     /\ status[a] = "queued" /\ \A b \in Attempts : status[b] # "active"
     /\ \A b \in Attempts : b < a => status[b] # "queued"}

GrantLease(a) ==
  /\ a \in Leasable
  /\ status' = [status EXCEPT ![a] = "active"]
  /\ UNCHANGED <<flagged, saved, verdict>>

Advances(a, n) == status[a] = "active" /\ saved[a] < n

SaveCheckpoint(a, n) ==
  /\ saved' = [saved EXCEPT ![a] = IF Advances(a, n) THEN n ELSE @]
  /\ UNCHANGED <<status, flagged, verdict>>

CheckpointReply(a, n) == IF Advances(a, n) THEN "saved" ELSE "must advance"

CompleteAttempt(a, v) ==
  /\ status' = [status EXCEPT ![a] = "terminal"]
  /\ verdict' = [verdict EXCEPT ![a] = IF status[a] = "active" THEN v ELSE @]
  /\ UNCHANGED <<flagged, saved>>

RequestCancellation(a) ==
  /\ status[a] = "active" /\ ~flagged[a]
  /\ flagged' = [flagged EXCEPT ![a] = TRUE]
  /\ UNCHANGED <<status, saved, verdict, delayed, diskVars, memoryVars, runs, crashes>>

(* A request the worker gave up on takes effect, or is lost.               *)
Late(q) ==
  /\ delayed' = delayed \ {q}
  /\ \/ q.kind = "lease" /\ \E a \in Leasable : GrantLease(a)
     \/ q.kind = "checkpoint" /\ SaveCheckpoint(q.attempt, q.sequence)
     \/ q.kind = "complete" /\ CompleteAttempt(q.attempt, q.verdict)
     \/ UNCHANGED serverVars
  /\ UNCHANGED <<diskVars, memoryVars, runs, crashes>>

-----------------------------------------------------------------------------
(* runOnce, from the state on disk to execution.                           *)

Goto(label) == pc' = label /\ UNCHANGED <<claimed, aborted, liveVars>>
Job == active.attempt

\* Mutant of Ended.
EndedNever == FALSE

Ended == active.terminal # NoVerdict

\* Mutant of MustInterrupt.
MustInterruptNever == FALSE

(* An execution that had started resumes from a checkpoint only.           *)
MustInterrupt == active.started /\ active.checkpoint = NoCheckpoint

(* What the runner finds when it looks at active-job.json.                 *)
Poll ==
  /\ pc = "idle" /\ active = NoActiveJob
  /\ Goto("leasing")
  /\ UNCHANGED <<serverVars, delayed, diskVars, runs, crashes>>

Redeliver ==
  /\ pc = "idle" /\ active # NoActiveJob /\ Ended
  /\ Goto("ready")
  /\ UNCHANGED <<serverVars, delayed, diskVars, runs, crashes>>

Recover ==
  /\ pc = "idle" /\ active # NoActiveJob /\ ~Ended /\ ~MustInterrupt
  /\ Goto("checking")
  /\ UNCHANGED <<serverVars, delayed, diskVars, runs, crashes>>

(* There is no checkpoint, or the harness cannot resume from it.           *)
Interrupt ==
  /\ pc = "idle" /\ active # NoActiveJob /\ ~Ended /\ active.started
  /\ active' = [active EXCEPT !.terminal = "interrupted"]
  /\ Goto("ready")
  /\ UNCHANGED <<serverVars, delayed, unsent, runs, crashes>>

LeaseAnswered ==
  /\ pc = "leasing"
  /\ IF Leasable = {}
       THEN Goto("idle") /\ UNCHANGED serverVars
       ELSE \E a \in Leasable :
              /\ GrantLease(a)
              /\ pc' = "claimed" /\ claimed' = a /\ UNCHANGED <<aborted, liveVars>>
  /\ UNCHANGED <<delayed, diskVars, runs, crashes>>

SaveClaim ==
  /\ pc = "claimed"
  /\ active' = [attempt |-> claimed, started |-> FALSE, checkpoint |-> NoCheckpoint,
                terminal |-> NoVerdict, uploaded |-> FALSE]
  /\ pc' = "checking" /\ claimed' = NoAttempt
  /\ UNCHANGED <<serverVars, delayed, unsent, aborted, liveVars, runs, crashes>>

\* Mutant of Started: the other fields are not written.
StartedAlone == [attempt |-> Job, started |-> TRUE]

Started == [active EXCEPT !.started = TRUE]

(* cancellationStatus is answered: the job is over, or its start is saved. *)
CheckAnswered ==
  /\ pc = "checking"
  /\ IF flagged[Job]
       THEN active' = [active EXCEPT !.terminal = "cancelled"] /\ Goto("ready")
       ELSE active' = Started /\ Goto("starting")
  /\ UNCHANGED <<serverVars, delayed, unsent, runs, crashes>>

-----------------------------------------------------------------------------
(* execute().                                                              *)

Execute ==
  /\ pc = "starting"
  /\ pc' = "executing" /\ aborted' = FALSE /\ UNCHANGED <<claimed, liveVars>>
  /\ runs' = [runs EXCEPT ![Job] = IF active.checkpoint = NoCheckpoint THEN @ + 1 ELSE @]
  /\ UNCHANGED <<serverVars, delayed, diskVars, crashes>>

Emit ==
  /\ pc = "executing"
  /\ unsent' = [unsent EXCEPT ![Job] = TRUE]
  /\ UNCHANGED <<serverVars, delayed, active, memoryVars, runs, crashes>>

(* saveCheckpoint: on disk, then to the live delivery, which keeps only    *)
(* the newest checkpoint while one is in flight.                           *)
Checkpoint(n) ==
  /\ pc = "executing" /\ n > active.checkpoint /\ n < CheckpointCount[Job]
  /\ active' = [active EXCEPT !.checkpoint = n]
  /\ IF n <= delivered
       THEN UNCHANGED <<live, queued>>
       ELSE IF live = NoCheckpoint THEN live' = n /\ UNCHANGED queued
                                   ELSE queued' = n /\ UNCHANGED live
  /\ UNCHANGED <<serverVars, delayed, unsent, pc, claimed, aborted, delivered, runs,
                 crashes>>

(* The cancellation monitor, or the poll after an event, was answered.     *)
Abort ==
  /\ pc = "executing" /\ flagged[Job]
  /\ aborted' = TRUE
  /\ UNCHANGED <<serverVars, delayed, diskVars, pc, claimed, liveVars, runs, crashes>>

(* The executor decides; it says cancelled when it was aborted.            *)
Finish ==
  /\ pc = "executing"
  /\ \E v \in {"executed"} \cup IF aborted THEN {"cancelled"} ELSE {} :
       active' = [active EXCEPT !.terminal = v]
  /\ Goto("ready")
  /\ UNCHANGED <<serverVars, delayed, unsent, runs, crashes>>

\* Mutant of IsDelivered.
IsDeliveredOnce(reply) == reply = "saved"

(* RunnerHttpTransport.saveCheckpoint: the refusal of a checkpoint that is *)
(* not newer means that an answer was lost, so it is success.              *)
IsDelivered(reply) == reply \in {"saved", "must advance"}

LiveAnswered ==
  /\ live # NoCheckpoint /\ IsDelivered(CheckpointReply(Job, live))
  /\ SaveCheckpoint(Job, live)
  /\ delivered' = IF live > delivered THEN live ELSE delivered
  /\ live' = queued /\ queued' = NoCheckpoint
  /\ UNCHANGED <<delayed, diskVars, pc, claimed, aborted, runs, crashes>>

LiveFails ==
  /\ live # NoCheckpoint
  /\ delayed' = delayed \cup {[kind |-> "checkpoint", attempt |-> Job, sequence |-> live]}
  /\ live' = queued /\ queued' = NoCheckpoint
  /\ UNCHANGED <<serverVars, diskVars, pc, claimed, aborted, delivered, runs, crashes>>

-----------------------------------------------------------------------------
(* deliver.                                                                *)

(* readyForTerminal: no live checkpoint is in flight.                      *)
Ready ==
  /\ pc = "ready"
  /\ Goto(IF live = NoCheckpoint THEN "checkpointing" ELSE "idle")
  /\ UNCHANGED <<serverVars, delayed, diskVars, runs, crashes>>

\* Mutant of NothingToFlush.
NothingToFlushEver == TRUE

(* The last checkpoint is known to be on the server.                       *)
NothingToFlush == active.checkpoint <= delivered

FlushCheckpoint ==
  /\ pc = "checkpointing" /\ pc' = "uploading"
  /\ IF NothingToFlush
       THEN UNCHANGED <<saved, delivered, status, flagged, verdict>>
       ELSE /\ IsDelivered(CheckpointReply(Job, active.checkpoint))
            /\ SaveCheckpoint(Job, active.checkpoint)
            /\ delivered' = active.checkpoint
  /\ UNCHANGED <<delayed, diskVars, claimed, aborted, live, queued, runs, crashes>>

(* Uploads are refused when the attempt is terminal.                       *)
Upload ==
  /\ pc = "uploading" /\ (active.uploaded \/ status[Job] = "active")
  /\ active' = [active EXCEPT !.uploaded = TRUE]
  /\ Goto("flushing")
  /\ UNCHANGED <<serverVars, delayed, unsent, runs, crashes>>

(* So are events.                                                          *)
FlushEvents ==
  /\ pc = "flushing" /\ (unsent[Job] => status[Job] = "active")
  /\ unsent' = [unsent EXCEPT ![Job] = FALSE]
  /\ Goto("completing")
  /\ UNCHANGED <<serverVars, delayed, active, runs, crashes>>

Complete ==
  /\ pc = "completing"
  /\ CompleteAttempt(Job, active.terminal)
  /\ Goto("clearing")
  /\ UNCHANGED <<delayed, diskVars, runs, crashes>>

ClearActiveJob ==
  /\ pc = "clearing"
  /\ active' = NoActiveJob
  /\ pc' = "idle" /\ live' = NoCheckpoint /\ queued' = NoCheckpoint
  /\ delivered' = NoCheckpoint
  /\ UNCHANGED <<serverVars, delayed, unsent, claimed, aborted, runs, crashes>>

-----------------------------------------------------------------------------
(* Failures.                                                               *)

(* The requests under way that change the server.                          *)
InFlight ==
  {q \in Request :
     \/ pc = "leasing" /\ q.kind = "lease"
     \/ pc = "checkpointing" /\ ~NothingToFlush
          /\ q = [kind |-> "checkpoint", attempt |-> Job, sequence |-> active.checkpoint]
     \/ pc = "completing"
          /\ q = [kind |-> "complete", attempt |-> Job, verdict |-> active.terminal]}

(* A request fails or times out: runOnce returns "buffered" or rejects,    *)
(* and the daemon loop calls it again.                                     *)
Fail ==
  /\ pc \in {"leasing", "checking", "checkpointing", "uploading", "flushing", "completing"}
  /\ delayed' = delayed \cup InFlight
  /\ Goto("idle")
  /\ UNCHANGED <<serverVars, diskVars, runs, crashes>>

Crash ==
  /\ crashes < MaxCrashes
  /\ crashes' = crashes + 1
  /\ delayed' = delayed \cup InFlight \cup
       {q \in Request : live # NoCheckpoint
          /\ q = [kind |-> "checkpoint", attempt |-> Job, sequence |-> live]}
  /\ pc' = "idle" /\ claimed' = NoAttempt /\ aborted' = FALSE
  /\ live' = NoCheckpoint /\ queued' = NoCheckpoint /\ delivered' = NoCheckpoint
  /\ UNCHANGED <<serverVars, diskVars, runs>>

Next ==
  \/ \E a \in Attempts : RequestCancellation(a)
  \/ \E q \in delayed : Late(q)
  \/ Poll \/ Redeliver \/ Recover \/ Interrupt
  \/ LeaseAnswered \/ SaveClaim \/ CheckAnswered
  \/ Execute \/ Emit \/ \E n \in Checkpoints : Checkpoint(n)
  \/ Abort \/ Finish \/ LiveAnswered \/ LiveFails
  \/ Ready \/ FlushCheckpoint \/ Upload \/ FlushEvents \/ Complete \/ ClearActiveJob
  \/ Fail \/ Crash

Spec == Init /\ [][Next]_vars

(* The daemon loop calls runOnce again and again and its local steps run;  *)
(* executions end (their limits see to it); a request that is made again   *)
(* and again is answered in the end.                                       *)
Fairness ==
  /\ WF_vars(Poll) /\ WF_vars(Redeliver) /\ WF_vars(Recover \/ Interrupt)
  /\ WF_vars(SaveClaim) /\ WF_vars(Execute) /\ WF_vars(Finish)
  /\ WF_vars(Ready) /\ WF_vars(ClearActiveJob)
  /\ WF_vars(LiveAnswered \/ LiveFails)
  /\ SF_vars(LeaseAnswered) /\ SF_vars(CheckAnswered) /\ SF_vars(FlushCheckpoint)
  /\ SF_vars(Upload) /\ SF_vars(FlushEvents) /\ SF_vars(Complete)

FairSpec == Spec /\ Fairness

-----------------------------------------------------------------------------
(***************************************************************************)
(* Properties.                                                             *)
(***************************************************************************)

Leased == INSTANCE LeasedJob WITH
  Attempts <- Attempts, Verdicts <- Verdicts,
  status <- status, flagged <- flagged, runs <- runs, verdict <- verdict

(* The runner and the control plane keep the contract of LeasedJob:        *)
(* README "never spends again silently", with any crash and any message    *)
(* loss.                                                                   *)
Contract == Leased!Spec

(* Every completion request there is for an attempt, the one that decided  *)
(* it, the one the runner will make and those that are late, has the same  *)
(* verdict: the server may take any of them.                               *)
OneVerdict ==
  \A q \in delayed :
    q.kind = "complete" =>
      /\ verdict[q.attempt] \in {NoVerdict, q.verdict}
      /\ Job = q.attempt => active.terminal = q.verdict
      /\ Job # q.attempt => status[q.attempt] = "terminal"

(* The checkpoint of a terminal attempt is the last one its execution      *)
(* saved, also when live deliveries failed or were superseded.             *)
CheckpointBeforeTerminal ==
  active # NoActiveJob /\ status[Job] = "terminal" => saved[Job] = active.checkpoint

(* A job the runner has taken to disk becomes terminal on the server, in   *)
(* spite of crashes, lost answers and late requests.                       *)
TakenJobEnds == \A a \in Attempts : Job = a ~> status[a] = "terminal"

(* runner/README.md:4: the runner "leases one job at a time ... and        *)
(* reports terminal state".                                                *)
LeasedJobEnds == \A a \in Attempts : status[a] = "active" ~> status[a] = "terminal"
=============================================================================
