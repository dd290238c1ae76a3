------------------------- MODULE RunnerWorkerProofs -------------------------
(***************************************************************************)
(* Theorems about RunnerWorker, for any number of attempts, checkpoints    *)
(* and crashes.                                                            *)
(***************************************************************************)
EXTENDS RunnerWorker, TLAPS

InHand == active # NoActiveJob
Delivering == {"checkpointing", "uploading", "flushing", "completing", "clearing"}

(* What the worker did not take to disk was never executed, and no request *)
(* about it is left in the network.                                        *)
Untouched(a) ==
  /\ runs[a] = 0 /\ saved[a] = NoCheckpoint /\ verdict[a] = NoVerdict
  /\ \A q \in delayed : q.kind # "lease" => q.attempt # a

OthersUntouched ==
  \A a \in Attempts :
    status[a] = "queued" \/ (status[a] = "active" /\ a # Job) => Untouched(a)

(* What active-job.json says agrees with the server and with what happened.*)
HandOK ==
  InHand =>
    /\ status[Job] # "queued"
    /\ ~Ended => status[Job] = "active"
    /\ status[Job] = "active" => verdict[Job] = NoVerdict
    /\ status[Job] = "terminal" =>
         saved[Job] = active.checkpoint /\ verdict[Job] = active.terminal
    /\ ~active.started => runs[Job] = 0
    /\ active.checkpoint # NoCheckpoint => runs[Job] = 1
    /\ active.terminal = "executed" => runs[Job] = 1
    /\ active.terminal = "cancelled" => flagged[Job]

(* Live checkpoints belong to an execution the server has not ended.       *)
DeliveryOK ==
  /\ live = NoCheckpoint => queued = NoCheckpoint
  /\ ~InHand => live = NoCheckpoint /\ delivered = NoCheckpoint
  /\ live # NoCheckpoint => status[Job] = "active"
  /\ InHand =>
       /\ live <= active.checkpoint /\ queued <= active.checkpoint
       /\ saved[Job] <= active.checkpoint /\ delivered <= saved[Job]

(* A late request says nothing the job on disk does not say.               *)
RequestsOK ==
  \A q \in delayed :
    /\ q.kind = "checkpoint" /\ q.attempt = Job => q.sequence <= active.checkpoint
    /\ q.kind = "complete" /\ q.attempt = Job =>
         live = NoCheckpoint /\ saved[Job] = active.checkpoint

(* What runOnce may rely on at each of its steps.                          *)
StepOK ==
  /\ pc \in {"leasing", "claimed"} => ~InHand
  /\ pc = "claimed" => claimed \in Attempts /\ status[claimed] = "active"
  /\ pc \notin {"idle", "leasing", "claimed"} => InHand
  /\ pc \in {"checking", "starting", "executing"} => ~Ended
  /\ pc = "checking" => ~MustInterrupt
  /\ pc = "starting" =>
       active.started /\ (active.checkpoint = NoCheckpoint => runs[Job] = 0)
  /\ pc = "executing" => active.started /\ runs[Job] = 1 /\ (aborted => flagged[Job])
  /\ pc \in {"ready"} \cup Delivering => Ended
  /\ pc \in Delivering => live = NoCheckpoint
  /\ pc \in Delivering \ {"checkpointing"} => saved[Job] = active.checkpoint
  /\ pc = "clearing" => status[Job] = "terminal"

IInv ==
  /\ TypeOK /\ StepOK
  /\ OthersUntouched /\ HandOK /\ DeliveryOK
  /\ RequestsOK /\ OneVerdict

LEMMA Bounds ==
  /\ NoCheckpoint \in Checkpoints /\ Checkpoints \subseteq Int
  /\ \A n \in Checkpoints : NoCheckpoint <= n
  /\ {0, 1} \subseteq 0..MaxCrashes + 1
  /\ NoAttempt \notin Attempts /\ NoVerdict \notin Verdicts
<1>1. 1 \in Attempts /\ Attempts \subseteq Nat
  BY RunnerWorkerAssumption DEF Attempts
<1>2. \A a \in Attempts : CheckpointCount[a] \in Nat
  BY RunnerWorkerAssumption DEF Attempts
<1>3. NoCheckpoint \in NoCheckpoint..CheckpointCount[1] - 1
  BY <1>1, <1>2 DEF NoCheckpoint
<1> QED BY <1>1, <1>2, <1>3, RunnerWorkerAssumption DEF Checkpoints, NoCheckpoint, Attempts, NoAttempt, NoVerdict, Verdicts

LEMMA InHandJob ==
  ASSUME active \in ActiveJob \cup {NoActiveJob}
  PROVE  InHand <=> active \in ActiveJob
BY Bounds DEF InHand, NoActiveJob, ActiveJob

LEMMA InitInv == Init => IInv
<1> SUFFICES ASSUME Init PROVE IInv
  OBVIOUS
<1>1. TypeOK
  <2>1. /\ status \in [Attempts -> {"queued", "active", "terminal"}]
        /\ flagged \in [Attempts -> BOOLEAN] /\ unsent \in [Attempts -> BOOLEAN]
        /\ saved \in [Attempts -> Checkpoints] /\ runs \in [Attempts -> 0..MaxCrashes + 1]
        /\ verdict \in [Attempts -> Verdicts \cup {NoVerdict}]
    BY Bounds DEF Init
  <2>2. crashes \in 0..MaxCrashes
    BY RunnerWorkerAssumption DEF Init
  <2> QED BY <2>1, <2>2, Bounds DEF Init, TypeOK
<1>2. ~InHand /\ pc = "idle" /\ delayed = {}
  BY DEF Init, InHand
<1> QED
  BY <1>1, <1>2 DEF Init, IInv, StepOK, OthersUntouched, Untouched, HandOK, DeliveryOK, RequestsOK,
     OneVerdict, Delivering

LEMMA InHandFacts ==
  ASSUME IInv, InHand
  PROVE  active \in ActiveJob /\ Job \in Attempts
BY InHandJob DEF IInv, TypeOK, Job, ActiveJob

(* The job on disk, with one field replaced.                               *)
LEMMA TerminalSet ==
  ASSUME NEW r \in ActiveJob, NEW v \in Verdicts, NEW s, s = [r EXCEPT !.terminal = v]
  PROVE  /\ s \in ActiveJob /\ s.attempt = r.attempt /\ s.checkpoint = r.checkpoint
         /\ s.started <=> r.started
         /\ s.terminal = v
BY DEF ActiveJob

LEMMA StartedSet ==
  ASSUME NEW r \in ActiveJob, NEW s, s = [r EXCEPT !.started = TRUE]
  PROVE  /\ s \in ActiveJob /\ s.attempt = r.attempt /\ s.checkpoint = r.checkpoint
         /\ s.started
         /\ s.terminal = r.terminal
BY DEF ActiveJob

LEMMA CheckpointSet ==
  ASSUME NEW r \in ActiveJob, NEW n \in Checkpoints, NEW s, s = [r EXCEPT !.checkpoint = n]
  PROVE  /\ s \in ActiveJob /\ s.attempt = r.attempt /\ s.checkpoint = n
         /\ s.started <=> r.started
         /\ s.terminal = r.terminal
BY DEF ActiveJob

LEMMA UploadedSet ==
  ASSUME NEW r \in ActiveJob, NEW s, s = [r EXCEPT !.uploaded = TRUE]
  PROVE  /\ s \in ActiveJob /\ s.attempt = r.attempt /\ s.checkpoint = r.checkpoint
         /\ s.started <=> r.started
         /\ s.terminal = r.terminal
BY DEF ActiveJob

-----------------------------------------------------------------------------
(* Steps that move the worker only, or write events.                       *)

LEMMA MoveInv ==
  ASSUME IInv, StepOK', UNCHANGED <<serverVars, delayed, active, liveVars, runs, crashes>>,
         unsent' \in [Attempts -> BOOLEAN], aborted' \in BOOLEAN,
         claimed' \in Attempts \cup {NoAttempt},
         pc' \in {"idle", "leasing", "claimed", "checking", "starting", "executing", "ready",
                  "checkpointing", "uploading", "flushing", "completing", "clearing"}
  PROVE  IInv'
<1>1. TypeOK'
  BY DEF IInv, TypeOK, serverVars, liveVars
<1>2. OthersUntouched' /\ OneVerdict'
  BY DEF IInv, OthersUntouched, Untouched, OneVerdict, Job, serverVars
<1>3. HandOK'
  BY DEF IInv, HandOK, InHand, Ended, Job, serverVars
<1>4. DeliveryOK' /\ RequestsOK'
  BY DEF IInv, DeliveryOK, RequestsOK, InHand, Job, serverVars, liveVars
<1> QED BY <1>1, <1>2, <1>3, <1>4 DEF IInv

LEMMA StutterInv == ASSUME IInv, UNCHANGED vars PROVE IInv'
BY MoveInv DEF IInv, TypeOK, StepOK, InHand, Ended, MustInterrupt, Job, vars, serverVars, diskVars,
   memoryVars, liveVars

LEMMA PollsInv ==
  ASSUME IInv, Poll \/ Redeliver \/ Recover \/ Ready
  PROVE  IInv'
<1>1. UNCHANGED <<serverVars, delayed, active, unsent, claimed, aborted, liveVars, runs, crashes>>
  BY DEF Poll, Redeliver, Recover, Ready, Goto, diskVars
<1>2. StepOK'
  BY <1>1 DEF IInv, StepOK, Poll, Redeliver, Recover, Ready, Goto, InHand, Ended, MustInterrupt,
     Job, Delivering, serverVars, liveVars
<1>3. pc' \in {"leasing", "ready", "checking", "checkpointing", "idle"}
  BY DEF Poll, Redeliver, Recover, Ready, Goto
<1> QED BY <1>1, <1>2, <1>3, MoveInv DEF IInv, TypeOK

LEMMA ExecutingInv ==
  ASSUME IInv, Emit \/ Abort \/ FlushEvents
  PROVE  IInv'
<1>1. UNCHANGED <<serverVars, delayed, active, claimed, liveVars, runs, crashes>>
  BY DEF Emit, Abort, FlushEvents, Goto, diskVars, memoryVars
<1>2. StepOK'
  BY <1>1 DEF IInv, StepOK, Emit, Abort, FlushEvents, Goto, InHand, Ended, MustInterrupt, Job,
     Delivering, serverVars, liveVars, memoryVars
<1>3. /\ unsent' \in [Attempts -> BOOLEAN] /\ aborted' \in BOOLEAN
      /\ pc' \in {"executing", "completing"}
  BY DEF IInv, TypeOK, Emit, Abort, FlushEvents, Goto, diskVars, memoryVars
<1> QED BY <1>1, <1>2, <1>3, MoveInv DEF IInv, TypeOK

-----------------------------------------------------------------------------
(* Steps that write the job on disk.                                       *)

(* Leasing.                                                                *)
LEMMA LeaseKeeps ==
  ASSUME IInv, NEW a \in Attempts, GrantLease(a)
  PROVE  /\ status' = [status EXCEPT ![a] = "active"] /\ UNCHANGED <<flagged, saved, verdict>>
         /\ status' \in [Attempts -> {"queued", "active", "terminal"}]
         /\ status[a] = "queued" /\ Untouched(a) /\ a # Job
         /\ \A b \in Attempts : status[b] # "active"
         /\ InHand => Ended /\ live = NoCheckpoint /\ status[Job] = "terminal"
<1>1. status' \in [Attempts -> {"queued", "active", "terminal"}]
  BY DEF GrantLease, IInv, TypeOK
<1>2. status[a] = "queued" /\ \A b \in Attempts : status[b] # "active"
  BY DEF GrantLease, Leasable
<1>3. Untouched(a)
  BY <1>2 DEF IInv, OthersUntouched
<1>4. CASE ~InHand
  BY <1>1, <1>2, <1>3, <1>4, Bounds DEF GrantLease, InHand, Job, NoActiveJob
<1>5. CASE InHand
  <2>1. Job \in Attempts
    BY <1>5, InHandFacts
  <2>2. status[Job] \notin {"queued", "active"}
    BY <1>2, <1>5, <2>1 DEF IInv, HandOK
  <2> QED
    BY <1>1, <1>2, <1>3, <1>5, <2>1, <2>2 DEF GrantLease, IInv, TypeOK, HandOK, DeliveryOK
<1> QED BY <1>4, <1>5

(* What does not depend on who has the lease.                              *)
LEMMA LeaseInv ==
  ASSUME IInv, NEW a \in Attempts, GrantLease(a), delayed' \subseteq delayed,
         UNCHANGED <<active, liveVars, runs>>
  PROVE  OthersUntouched' /\ HandOK' /\ DeliveryOK' /\ RequestsOK' /\ OneVerdict'
<1>1. /\ status' = [status EXCEPT ![a] = "active"] /\ UNCHANGED <<flagged, saved, verdict>>
      /\ status[a] = "queued" /\ Untouched(a) /\ a # Job
      /\ InHand => Ended /\ live = NoCheckpoint /\ status[Job] = "terminal"
  BY LeaseKeeps
<1>2. (InHand => InHand' /\ Job \in Attempts) /\ Job' = Job
  BY InHandFacts DEF InHand, Job
<1>3. status \in [Attempts -> {"queued", "active", "terminal"}] /\ delayed \subseteq Request
  BY DEF IInv, TypeOK
<1>4. OthersUntouched'
  BY <1>1, <1>2, <1>3 DEF IInv, OthersUntouched, Untouched
<1>5. HandOK'
  BY <1>1, <1>2, <1>3 DEF IInv, HandOK, InHand, Ended, Job
<1>6. DeliveryOK'
  BY <1>1, <1>2, <1>3 DEF IInv, DeliveryOK, InHand, Job, liveVars
<1>7. RequestsOK'
  BY <1>1, <1>2 DEF IInv, RequestsOK, Job, liveVars
<1>8. OneVerdict'
  <2> SUFFICES ASSUME NEW q \in delayed', q.kind = "complete"
               PROVE  /\ verdict'[q.attempt] \in {NoVerdict, q.verdict}
                      /\ Job' = q.attempt => active'.terminal = q.verdict
                      /\ Job' # q.attempt => status'[q.attempt] = "terminal"
    BY DEF OneVerdict
  <2>1. q \in delayed /\ q.attempt \in Attempts
    BY <1>3 DEF Request
  <2>2. q.attempt # a
    BY <1>1, <2>1 DEF Untouched
  <2> QED BY <1>1, <1>2, <1>3, <2>1, <2>2 DEF IInv, OneVerdict
<1> QED BY <1>4, <1>5, <1>6, <1>7, <1>8

LEMMA LeaseAnsweredInv == ASSUME IInv, LeaseAnswered PROVE IInv'
<1>1. CASE Leasable = {}
  <2>1. StepOK'
    BY <1>1 DEF LeaseAnswered, Goto, StepOK, Delivering
  <2> QED BY <1>1, <2>1, MoveInv DEF LeaseAnswered, Goto, IInv, TypeOK, diskVars
<1>2. CASE Leasable # {}
  <2>1. PICK a \in Leasable :
          /\ GrantLease(a)
          /\ pc' = "claimed" /\ claimed' = a /\ UNCHANGED <<aborted, liveVars>>
    BY <1>2 DEF LeaseAnswered
  <2>2. a \in Attempts
    BY DEF Leasable
  <2>3. UNCHANGED <<delayed, active, unsent, runs, crashes>>
    BY DEF LeaseAnswered, diskVars
  <2>4. OthersUntouched' /\ HandOK' /\ DeliveryOK' /\ RequestsOK' /\ OneVerdict'
    BY <2>1, <2>2, <2>3, LeaseInv
  <2>5. TypeOK'
    BY <2>1, <2>2, <2>3, LeaseKeeps DEF IInv, TypeOK, liveVars
  <2>6. StepOK'
    BY <2>1, <2>2, <2>3, LeaseKeeps
    DEF LeaseAnswered, IInv, StepOK, TypeOK, InHand, Delivering
  <2> QED BY <2>4, <2>5, <2>6 DEF IInv
<1> QED BY <1>1, <1>2

LEMMA SaveClaimInv == ASSUME IInv, SaveClaim PROVE IInv'
<1>1. /\ ~InHand /\ claimed \in Attempts /\ status[claimed] = "active" /\ Job = NoAttempt
      /\ live = NoCheckpoint /\ queued = NoCheckpoint /\ delivered = NoCheckpoint
  BY DEF SaveClaim, IInv, StepOK, DeliveryOK, InHand, Job, NoActiveJob
<1>2. Untouched(claimed)
  BY <1>1, Bounds DEF IInv, OthersUntouched
<1>3. /\ active' \in ActiveJob /\ Job' = claimed /\ InHand'
      /\ ~active'.started /\ active'.checkpoint = NoCheckpoint /\ active'.terminal = NoVerdict
  BY <1>1, Bounds DEF SaveClaim, ActiveJob, InHand, Job, NoActiveJob
<1>4. /\ UNCHANGED <<status, flagged, saved, verdict, delayed, live, queued, delivered, runs>>
      /\ pc' = "checking"
  BY DEF SaveClaim, serverVars, liveVars
<1>5. TypeOK'
  BY <1>3, <1>4 DEF SaveClaim, IInv, TypeOK
<1>6. StepOK'
  BY <1>3, <1>4 DEF StepOK, Ended, MustInterrupt, Delivering
<1>7. OthersUntouched'
  BY <1>1, <1>3, <1>4, Bounds DEF IInv, OthersUntouched, Untouched
<1>8. HandOK' /\ DeliveryOK'
  <2>1. HandOK'
    BY <1>1, <1>2, <1>3, <1>4 DEF HandOK, Ended, Untouched, NoVerdict
  <2>2. DeliveryOK'
    BY <1>1, <1>2, <1>3, <1>4, Bounds DEF DeliveryOK, Untouched
  <2> QED BY <2>1, <2>2
<1>9. RequestsOK'
  BY <1>2, <1>3, <1>4 DEF RequestsOK, Untouched
<1>10. OneVerdict'
  <2> SUFFICES ASSUME NEW q \in delayed, q.kind = "complete"
               PROVE  /\ verdict[q.attempt] \in {NoVerdict, q.verdict}
                      /\ claimed # q.attempt
                      /\ status[q.attempt] = "terminal"
    BY <1>3, <1>4 DEF OneVerdict
  <2>1. q \in Request
    BY DEF IInv, TypeOK
  <2>2. q.attempt \in Attempts
    BY <2>1 DEF Request
  <2> QED BY <1>1, <1>2, <2>2, Bounds DEF IInv, OneVerdict, Untouched
<1> QED BY <1>5, <1>6, <1>7, <1>8, <1>9, <1>10 DEF IInv

(* Whatever writes no more than the state of the job on disk.              *)
LEMMA RewriteInv ==
  ASSUME IInv, InHand, active' \in ActiveJob, active'.attempt = Job,
         active'.checkpoint = active.checkpoint,
         active.started => active'.started,
         ~active'.started => runs'[Job] = 0,
         Ended => active'.terminal = active.terminal,
         active'.terminal = "executed" => runs'[Job] = 1,
         active'.terminal = "cancelled" => flagged[Job],
         active.checkpoint # NoCheckpoint => runs'[Job] = 1,
         runs' \in [Attempts -> 0..MaxCrashes + 1],
         \A a \in Attempts : a # Job => runs'[a] = runs[a],
         UNCHANGED <<serverVars, delayed, liveVars>>
  PROVE  OthersUntouched' /\ HandOK' /\ DeliveryOK' /\ RequestsOK' /\ OneVerdict'
<1>1. active \in ActiveJob /\ Job \in Attempts /\ Job' = Job /\ InHand'
  BY InHandFacts, InHandJob DEF InHand, Job, NoActiveJob, ActiveJob
<1>2. OthersUntouched'
  <2> SUFFICES ASSUME NEW a \in Attempts,
                      status[a] = "queued" \/ (status[a] = "active" /\ a # Job)
               PROVE  Untouched(a)'
    BY <1>1 DEF OthersUntouched, serverVars
  <2>1. Untouched(a) /\ a # Job
    BY DEF IInv, OthersUntouched, HandOK
  <2> QED BY <2>1 DEF Untouched, serverVars
<1>3. HandOK'
  BY <1>1 DEF IInv, HandOK, Ended, serverVars
<1>4. DeliveryOK'
  BY <1>1 DEF IInv, DeliveryOK, serverVars, liveVars
<1>5. RequestsOK'
  BY <1>1 DEF IInv, RequestsOK, serverVars, liveVars
<1>6. OneVerdict'
  <2> SUFFICES ASSUME NEW q \in delayed, q.kind = "complete"
               PROVE  Job = q.attempt => active'.terminal = q.verdict
    BY <1>1 DEF IInv, OneVerdict, serverVars
  <2>1. q.verdict # NoVerdict
    BY Bounds DEF IInv, TypeOK, Request
  <2> QED BY <2>1 DEF IInv, OneVerdict, Ended
<1> QED BY <1>2, <1>3, <1>4, <1>5, <1>6

(* The terminal request is saved: nothing ends a job twice.                *)
LEMMA EndsInv ==
  ASSUME IInv, InHand, ~Ended, NEW v \in Verdicts, active' = [active EXCEPT !.terminal = v],
         v = "executed" => runs[Job] = 1, v = "cancelled" => flagged[Job],
         Goto("ready"), UNCHANGED <<serverVars, delayed, unsent, runs, crashes>>
  PROVE  IInv'
<1>1. active \in ActiveJob /\ Job \in Attempts
  BY InHandFacts
<1>2. /\ active' \in ActiveJob /\ active'.attempt = Job
      /\ active'.checkpoint = active.checkpoint /\ active'.terminal = v
      /\ active'.started <=> active.started
  BY <1>1, TerminalSet DEF Job
<1>3. InHand' /\ Ended'
  BY <1>2, InHandJob, Bounds DEF InHand, Ended, NoActiveJob, ActiveJob
<1>4. OthersUntouched' /\ HandOK' /\ DeliveryOK' /\ RequestsOK' /\ OneVerdict'
  <2>1. runs \in [Attempts -> 0..MaxCrashes + 1]
    BY DEF IInv, TypeOK
  <2>2. /\ ~active.started => runs[Job] = 0
        /\ active.checkpoint # NoCheckpoint => runs[Job] = 1
    BY DEF IInv, HandOK
  <2> QED BY <1>2, <2>1, <2>2, RewriteInv DEF Goto
<1>5. TypeOK'
  BY <1>2 DEF IInv, TypeOK, Goto, serverVars, liveVars
<1>6. StepOK'
  BY <1>3 DEF StepOK, Goto, Delivering
<1> QED BY <1>4, <1>5, <1>6 DEF IInv

LEMMA InterruptInv == ASSUME IInv, Interrupt PROVE IInv'
<1>1. "interrupted" \in Verdicts
  BY DEF Verdicts
<1> QED BY <1>1, EndsInv DEF Interrupt, InHand

LEMMA FinishInv == ASSUME IInv, Finish PROVE IInv'
<1>1. InHand /\ ~Ended /\ runs[Job] = 1
  BY DEF Finish, IInv, StepOK
<1>5. aborted => flagged[Job]
  BY DEF Finish, IInv, StepOK
<1>2. PICK v \in {"executed"} \cup IF aborted THEN {"cancelled"} ELSE {} :
        active' = [active EXCEPT !.terminal = v]
  BY DEF Finish
<1>3. v \in Verdicts
  BY DEF Verdicts
<1>4. v = "cancelled" => flagged[Job]
  BY <1>2, <1>5
<1> QED BY <1>1, <1>2, <1>3, <1>4, EndsInv DEF Finish

LEMMA CheckAnsweredInv == ASSUME IInv, CheckAnswered PROVE IInv'
<1>1. InHand /\ ~Ended /\ ~MustInterrupt
  BY DEF CheckAnswered, IInv, StepOK
<1>2. CASE flagged[Job]
  <2>1. "cancelled" \in Verdicts
    BY DEF Verdicts
  <2> QED BY <1>1, <1>2, <2>1, EndsInv DEF CheckAnswered
<1>3. CASE ~flagged[Job]
  <2>1. active' = [active EXCEPT !.started = TRUE] /\ Goto("starting")
    BY <1>3 DEF CheckAnswered, Started
  <2>2. UNCHANGED <<serverVars, delayed, unsent, runs, crashes>>
    BY DEF CheckAnswered
  <2>3. active \in ActiveJob /\ Job \in Attempts
    BY <1>1, InHandFacts
  <2>4. /\ active' \in ActiveJob /\ active'.attempt = Job
        /\ active'.checkpoint = active.checkpoint /\ active'.terminal = active.terminal
        /\ active'.started
    BY <2>1, <2>3, StartedSet DEF Job
  <2>5. InHand' /\ ~Ended' /\ Job' = Job
    BY <1>1, <2>4, InHandJob, Bounds DEF InHand, Ended, NoActiveJob, ActiveJob, Job
  <2>6. OthersUntouched' /\ HandOK' /\ DeliveryOK' /\ RequestsOK' /\ OneVerdict'
    <3>1. /\ runs \in [Attempts -> 0..MaxCrashes + 1]
          /\ active.checkpoint # NoCheckpoint => runs[Job] = 1
      BY <1>1 DEF IInv, TypeOK, HandOK
    <3>2. active.terminal = NoVerdict
      BY <1>1 DEF Ended
    <3> QED BY <1>1, <2>1, <2>2, <2>4, <3>1, <3>2, RewriteInv DEF Goto, NoVerdict
  <2>7. TypeOK'
    BY <2>1, <2>2, <2>4 DEF IInv, TypeOK, Goto, serverVars, liveVars
  <2>8. StepOK'
    <3>1. active.checkpoint = NoCheckpoint => runs[Job] = 0
      BY <1>1 DEF IInv, HandOK, MustInterrupt
    <3> QED BY <2>1, <2>2, <2>4, <2>5, <3>1 DEF StepOK, Goto, Delivering
  <2> QED BY <2>6, <2>7, <2>8 DEF IInv
<1> QED BY <1>2, <1>3

LEMMA ExecuteInv == ASSUME IInv, Execute PROVE IInv'
<1>1. /\ InHand /\ ~Ended /\ active.started
      /\ active.checkpoint = NoCheckpoint => runs[Job] = 0
      /\ active.checkpoint # NoCheckpoint => runs[Job] = 1
  BY DEF Execute, IInv, StepOK, HandOK
<1>2. active \in ActiveJob /\ Job \in Attempts
  BY <1>1, InHandFacts
<1>3. /\ UNCHANGED <<serverVars, delayed, active, unsent, claimed, liveVars, crashes>>
      /\ pc' = "executing" /\ aborted' = FALSE
  BY DEF Execute, diskVars
<1>4. /\ runs' \in [Attempts -> 0..MaxCrashes + 1] /\ runs'[Job] = 1
      /\ \A a \in Attempts : a # Job => runs'[a] = runs[a]
  <2>1. runs \in [Attempts -> 0..MaxCrashes + 1]
    BY DEF IInv, TypeOK
  <2> QED BY <1>1, <1>2, <2>1, Bounds DEF Execute
<1>5. OthersUntouched' /\ HandOK' /\ DeliveryOK' /\ RequestsOK' /\ OneVerdict'
  <2>1. active.terminal = NoVerdict
    BY <1>1 DEF Ended
  <2> QED BY <1>1, <1>2, <1>3, <1>4, <2>1, RewriteInv DEF Job, NoVerdict
<1>6. TypeOK'
  BY <1>3, <1>4 DEF IInv, TypeOK, serverVars, liveVars
<1>7. StepOK'
  BY <1>1, <1>3, <1>4 DEF StepOK, InHand, Ended, Job, Delivering
<1> QED BY <1>5, <1>6, <1>7 DEF IInv

LEMMA UploadInv == ASSUME IInv, Upload PROVE IInv'
<1>1. InHand /\ Ended /\ live = NoCheckpoint /\ saved[Job] = active.checkpoint
  BY DEF Upload, IInv, StepOK, Delivering
<1>2. active \in ActiveJob /\ Job \in Attempts
  BY <1>1, InHandFacts
<1>3. /\ active' = [active EXCEPT !.uploaded = TRUE] /\ Goto("flushing")
      /\ UNCHANGED <<serverVars, delayed, unsent, runs, crashes>>
  BY DEF Upload
<1>4. /\ active' \in ActiveJob /\ active'.attempt = Job
      /\ active'.checkpoint = active.checkpoint /\ active'.terminal = active.terminal
      /\ active'.started <=> active.started
  BY <1>2, <1>3, UploadedSet DEF Job
<1>5. InHand' /\ Ended' /\ Job' = Job
  BY <1>1, <1>4, InHandJob, Bounds DEF InHand, Ended, NoActiveJob, ActiveJob, Job
<1>6. OthersUntouched' /\ HandOK' /\ DeliveryOK' /\ RequestsOK' /\ OneVerdict'
  <2>1. runs \in [Attempts -> 0..MaxCrashes + 1]
    BY DEF IInv, TypeOK
  <2>2. /\ ~active.started => runs[Job] = 0
        /\ active.checkpoint # NoCheckpoint => runs[Job] = 1
        /\ active.terminal = "executed" => runs[Job] = 1
        /\ active.terminal = "cancelled" => flagged[Job]
    BY <1>1 DEF IInv, HandOK
  <2> QED BY <1>1, <1>3, <1>4, <2>1, <2>2, RewriteInv DEF Goto
<1>7. TypeOK'
  BY <1>3, <1>4 DEF IInv, TypeOK, Goto, serverVars, liveVars
<1>8. StepOK'
  BY <1>1, <1>3, <1>4, <1>5 DEF StepOK, Goto, Delivering, serverVars, liveVars
<1> QED BY <1>6, <1>7, <1>8 DEF IInv

LEMMA CheckpointInv ==
  ASSUME IInv, NEW n \in Checkpoints, Checkpoint(n)
  PROVE  IInv'
<1>1. InHand /\ ~Ended /\ active.started /\ runs[Job] = 1 /\ status[Job] = "active"
  BY DEF Checkpoint, IInv, StepOK, HandOK
<1>2. active \in ActiveJob /\ Job \in Attempts /\ active.checkpoint \in Checkpoints
  BY <1>1, InHandFacts DEF ActiveJob
<1>3. /\ active' \in ActiveJob /\ active'.attempt = Job /\ active'.checkpoint = n
      /\ active'.terminal = active.terminal
      /\ active'.started
  BY <1>1, <1>2, CheckpointSet DEF Checkpoint, Job
<1>4. InHand' /\ ~Ended' /\ Job' = Job
  BY <1>1, <1>3, InHandJob, Bounds DEF InHand, Ended, NoActiveJob, ActiveJob, Job
<1>5. /\ UNCHANGED <<status, flagged, saved, verdict, delayed, unsent, pc, claimed, aborted,
                     delivered, runs, crashes>>
      /\ n > active.checkpoint
      /\ live' \in {live, n} /\ queued' \in {queued, n}
      /\ live' = NoCheckpoint => live = NoCheckpoint /\ queued' = queued
  <2>1. n # NoCheckpoint
    BY <1>2, Bounds DEF Checkpoint
  <2> QED BY <2>1 DEF Checkpoint, serverVars
<1>6. TypeOK'
  BY <1>3, <1>5 DEF IInv, TypeOK
<1>7. StepOK'
  BY <1>1, <1>3, <1>4, <1>5 DEF Checkpoint, IInv, StepOK, Delivering
<1>8. OthersUntouched'
  BY <1>4, <1>5 DEF IInv, OthersUntouched, Untouched
<1>9. HandOK'
  BY <1>1, <1>3, <1>4, <1>5 DEF IInv, HandOK, Ended
<1>10. DeliveryOK'
  <2>1. live \in Checkpoints /\ queued \in Checkpoints /\ saved[Job] \in Checkpoints
    BY <1>2 DEF IInv, TypeOK
  <2>2. live' <= n /\ queued' <= n /\ saved[Job] <= n
    BY <1>1, <1>2, <1>5, <2>1, Bounds DEF IInv, DeliveryOK
  <2> QED BY <1>1, <1>3, <1>4, <1>5, <2>2 DEF IInv, DeliveryOK
<1>11. RequestsOK'
  <2> SUFFICES ASSUME NEW q \in delayed, q.attempt = Job
               PROVE  q.kind # "complete" /\ (q.kind = "checkpoint" => q.sequence <= n)
    BY <1>3, <1>4, <1>5 DEF RequestsOK
  <2>1. q.kind # "complete"
    BY <1>1, Bounds DEF IInv, TypeOK, OneVerdict, Ended, Request
  <2>2. ASSUME q.kind = "checkpoint" PROVE q.sequence <= n
    <3>1. q.sequence \in Checkpoints /\ q.sequence <= active.checkpoint
      BY <2>2 DEF IInv, TypeOK, RequestsOK, Request
    <3>2. active.checkpoint \in Int /\ n \in Int /\ q.sequence \in Int
      BY <1>2, <3>1, Bounds
    <3>3. n > active.checkpoint
      BY <1>5
    <3> QED BY <3>1, <3>2, <3>3
  <2> QED BY <2>1, <2>2
<1>12. OneVerdict'
  BY <1>3, <1>4, <1>5 DEF IInv, OneVerdict
<1> QED BY <1>6, <1>7, <1>8, <1>9, <1>10, <1>11, <1>12 DEF IInv

LEMMA ClearActiveJobInv == ASSUME IInv, ClearActiveJob PROVE IInv'
<1>1. InHand /\ status[Job] = "terminal"
  BY DEF ClearActiveJob, IInv, StepOK
<1>2. /\ ~InHand' /\ Job' = NoAttempt /\ active' = NoActiveJob
      /\ pc' = "idle" /\ live' = NoCheckpoint /\ queued' = NoCheckpoint
      /\ delivered' = NoCheckpoint
      /\ UNCHANGED <<status, flagged, saved, verdict, delayed, unsent, claimed, aborted, runs,
                     crashes>>
  BY DEF ClearActiveJob, InHand, Job, NoActiveJob, serverVars
<1>3. TypeOK'
  BY <1>2, Bounds DEF IInv, TypeOK
<1>4. StepOK'
  BY <1>2 DEF StepOK, Delivering
<1>5. OthersUntouched'
  BY <1>1, <1>2 DEF IInv, OthersUntouched, Untouched
<1>6. HandOK' /\ DeliveryOK'
  BY <1>2 DEF HandOK, DeliveryOK
<1>7. RequestsOK' /\ OneVerdict'
  <2> SUFFICES ASSUME NEW q \in delayed, q.kind \in {"checkpoint", "complete"}
               PROVE  /\ q.attempt # NoAttempt
                      /\ q.kind = "complete" =>
                           /\ verdict[q.attempt] \in {NoVerdict, q.verdict}
                           /\ status[q.attempt] = "terminal"
    BY <1>2 DEF RequestsOK, OneVerdict
  <2>1. q.attempt \in Attempts
    BY DEF IInv, TypeOK, Request
  <2> QED BY <1>1, <2>1, Bounds DEF IInv, OneVerdict
<1> QED BY <1>3, <1>4, <1>5, <1>6, <1>7 DEF IInv

-----------------------------------------------------------------------------
(* Requests that take effect.                                              *)

LEMMA LiveAnsweredInv == ASSUME IInv, LiveAnswered PROVE IInv'
<1>1. live # NoCheckpoint /\ InHand /\ status[Job] = "active"
  BY DEF LiveAnswered, IInv, DeliveryOK
<1>2. active \in ActiveJob /\ Job \in Attempts /\ active.checkpoint \in Checkpoints
  BY <1>1, InHandFacts DEF ActiveJob
<1>3. /\ live \in Checkpoints /\ queued \in Checkpoints /\ delivered \in Checkpoints
      /\ saved \in [Attempts -> Checkpoints] /\ saved[Job] \in Checkpoints
      /\ live <= active.checkpoint /\ queued <= active.checkpoint
      /\ saved[Job] <= active.checkpoint /\ delivered <= saved[Job]
  BY <1>1, <1>2 DEF IInv, TypeOK, DeliveryOK
<1>4. /\ UNCHANGED <<status, flagged, verdict, delayed, active, unsent, pc, claimed, aborted, runs,
                     crashes>>
      /\ live' = queued /\ queued' = NoCheckpoint
      /\ delivered' = IF live > delivered THEN live ELSE delivered
      /\ saved' = [saved EXCEPT ![Job] = IF Advances(Job, live) THEN live ELSE @]
  BY DEF LiveAnswered, SaveCheckpoint, diskVars
<1>5. /\ saved' \in [Attempts -> Checkpoints]
      /\ saved'[Job] = IF saved[Job] < live THEN live ELSE saved[Job]
      /\ \A a \in Attempts : a # Job => saved'[a] = saved[a]
  BY <1>1, <1>2, <1>3, <1>4 DEF Advances
<1>6. pc \notin Delivering
  BY <1>1 DEF IInv, StepOK
<1>7. InHand' /\ Job' = Job
  BY <1>1, <1>4 DEF InHand, Job
<1>8. TypeOK'
  BY <1>3, <1>4, <1>5, Bounds DEF IInv, TypeOK
<1>9. StepOK'
  BY <1>4, <1>6 DEF IInv, StepOK, InHand, Ended, MustInterrupt, Job
<1>10. OthersUntouched'
  BY <1>1, <1>4, <1>5, <1>7 DEF IInv, OthersUntouched, Untouched
<1>11. HandOK'
  BY <1>1, <1>4, <1>7 DEF IInv, HandOK, Ended
<1>12. DeliveryOK'
  <2>1. /\ live \in Int /\ queued \in Int /\ delivered \in Int /\ saved[Job] \in Int
        /\ active.checkpoint \in Int /\ NoCheckpoint <= active.checkpoint
    BY <1>2, <1>3, Bounds
  <2>2. /\ saved'[Job] <= active.checkpoint /\ delivered' <= saved'[Job]
    BY <1>3, <1>4, <1>5, <2>1
  <2>3. live' <= active.checkpoint /\ queued' <= active.checkpoint
    BY <1>3, <1>4, <2>1
  <2> QED BY <1>1, <1>4, <1>7, <2>2, <2>3 DEF DeliveryOK
<1>13. RequestsOK'
  BY <1>1, <1>4, <1>7 DEF IInv, RequestsOK
<1>14. OneVerdict'
  BY <1>4, <1>7 DEF IInv, OneVerdict
<1> QED BY <1>8, <1>9, <1>10, <1>11, <1>12, <1>13, <1>14 DEF IInv

(* Requests that the worker gives up on.                                   *)
LEMMA DelayedInv ==
  ASSUME IInv, NEW lost \in SUBSET Request, delayed' = delayed \cup lost,
         \A q \in lost :
           /\ q.kind # "lease" => InHand /\ q.attempt = Job
           /\ q.kind = "checkpoint" => q.sequence <= active.checkpoint
           /\ q.kind = "complete" =>
                live = NoCheckpoint /\ saved[Job] = active.checkpoint
                  /\ q.verdict = active.terminal,
         live' \in Checkpoints, queued' \in Checkpoints, delivered' \in Checkpoints,
         live' = NoCheckpoint => queued' = NoCheckpoint,
         live' # NoCheckpoint => live # NoCheckpoint,
         live' <= active.checkpoint \/ ~InHand,
         queued' <= active.checkpoint \/ ~InHand, delivered' \in {delivered, NoCheckpoint},
         StepOK',
         claimed' \in Attempts \cup {NoAttempt}, aborted' \in BOOLEAN, crashes' \in 0..MaxCrashes,
         pc' \in {"idle", pc},
         UNCHANGED <<serverVars, diskVars, runs>>
  PROVE  IInv'
<1>1. InHand' <=> InHand
  BY DEF InHand, diskVars
<1>2. Job' = Job /\ (InHand => active \in ActiveJob /\ Job \in Attempts)
  BY InHandFacts DEF Job, diskVars
<1>3. UNCHANGED <<status, flagged, saved, verdict, active, unsent, runs>>
  BY DEF serverVars, diskVars
<1>4. TypeOK'
  BY <1>3 DEF IInv, TypeOK
<1>5. OthersUntouched'
  <2> SUFFICES ASSUME NEW a \in Attempts,
                      status[a] = "queued" \/ (status[a] = "active" /\ a # Job)
               PROVE  Untouched(a)'
    BY <1>2, <1>3 DEF OthersUntouched
  <2>1. Untouched(a)
    BY DEF IInv, OthersUntouched
  <2>2. ASSUME NEW q \in lost, q.kind # "lease" PROVE q.attempt # a
    BY <2>2 DEF IInv, HandOK
  <2> QED BY <1>3, <2>1, <2>2 DEF Untouched
<1>6. HandOK'
  BY <1>1, <1>2, <1>3 DEF IInv, HandOK, Ended
<1>7. DeliveryOK'
  <2>1. InHand => saved[Job] \in Checkpoints /\ active.checkpoint \in Checkpoints
    BY <1>2 DEF IInv, TypeOK, ActiveJob
  <2> QED BY <1>1, <1>2, <1>3, <2>1, Bounds DEF IInv, DeliveryOK
<1>8. RequestsOK'
  BY <1>1, <1>2, <1>3 DEF IInv, RequestsOK
<1>9. OneVerdict'
  <2> SUFFICES ASSUME NEW q \in lost, q.kind = "complete"
               PROVE  /\ verdict[q.attempt] \in {NoVerdict, q.verdict}
                      /\ q.attempt = Job /\ active.terminal = q.verdict
    BY <1>2, <1>3 DEF IInv, OneVerdict
  <2>1. q.attempt = Job /\ active.terminal = q.verdict /\ InHand /\ Job \in Attempts
    BY <1>2
  <2> QED BY <2>1 DEF IInv, HandOK, TypeOK
<1> QED BY <1>4, <1>5, <1>6, <1>7, <1>8, <1>9 DEF IInv

LEMMA LiveLost ==
  ASSUME IInv, live # NoCheckpoint
  PROVE  LET q == [kind |-> "checkpoint", attempt |-> Job, sequence |-> live]
         IN  q \in Request /\ InHand /\ live <= active.checkpoint
<1>1. InHand /\ Job \in Attempts /\ live \in Checkpoints
  BY InHandFacts DEF IInv, TypeOK, DeliveryOK
<1> QED BY <1>1 DEF IInv, DeliveryOK, Request

LEMMA InFlightFacts ==
  ASSUME IInv, NEW q \in InFlight
  PROVE  /\ q \in Request
         /\ q.kind # "lease" => InHand /\ q.attempt = Job
         /\ q.kind = "checkpoint" => q.sequence <= active.checkpoint
         /\ q.kind = "complete" =>
              live = NoCheckpoint /\ saved[Job] = active.checkpoint
                /\ q.verdict = active.terminal
<1>1. q \in Request
  BY DEF InFlight
<1>2. CASE q.kind = "lease"
  BY <1>1, <1>2
<1>3. CASE pc = "checkpointing"
           /\ q = [kind |-> "checkpoint", attempt |-> Job, sequence |-> active.checkpoint]
  <2>1. InHand
    BY <1>3 DEF IInv, StepOK
  <2>2. active.checkpoint \in Int
    BY <2>1, InHandFacts, Bounds DEF ActiveJob
  <2> QED BY <1>1, <1>3, <2>1, <2>2
<1>4. CASE pc = "completing"
           /\ q = [kind |-> "complete", attempt |-> Job, verdict |-> active.terminal]
  BY <1>1, <1>4 DEF IInv, StepOK, Delivering
<1> QED BY <1>2, <1>3, <1>4 DEF InFlight

LEMMA LiveFailsInv == ASSUME IInv, LiveFails PROVE IInv'
<1> DEFINE q == [kind |-> "checkpoint", attempt |-> Job, sequence |-> live]
<1>1. /\ live # NoCheckpoint /\ delayed' = delayed \cup {q}
      /\ live' = queued /\ queued' = NoCheckpoint
      /\ UNCHANGED <<serverVars, diskVars, pc, claimed, aborted, delivered, runs, crashes>>
  BY DEF LiveFails
<1>2. q \in Request /\ InHand /\ live <= active.checkpoint
  BY <1>1, LiveLost
<1>3. {q} \in SUBSET Request
  BY <1>2
<1>4. StepOK'
  BY <1>1 DEF IInv, StepOK, InHand, Ended, MustInterrupt, Job, Delivering, serverVars, diskVars
<1>5. queued <= active.checkpoint /\ NoCheckpoint <= active.checkpoint
  BY <1>2, InHandFacts, Bounds DEF IInv, DeliveryOK, ActiveJob
<1>6. TypeOK
  BY DEF IInv
<1> HIDE DEF q
<1>7. /\ q.kind # "lease" => InHand /\ q.attempt = Job
      /\ q.kind = "checkpoint" => q.sequence <= active.checkpoint
      /\ q.kind # "complete"
  BY <1>2 DEF q
<1> QED BY <1>1, <1>3, <1>4, <1>5, <1>6, <1>7, DelayedInv, Bounds DEF TypeOK

LEMMA FailInv == ASSUME IInv, Fail PROVE IInv'
<1>1. /\ delayed' = delayed \cup InFlight /\ Goto("idle")
      /\ UNCHANGED <<serverVars, diskVars, runs, crashes>>
  BY DEF Fail
<1>2. InFlight \in SUBSET Request
  BY DEF InFlight
<1>3. StepOK'
  BY <1>1 DEF Goto, StepOK, Delivering
<1>4. TypeOK /\ DeliveryOK
  BY DEF IInv
<1> QED BY <1>1, <1>2, <1>3, <1>4, DelayedInv, InFlightFacts DEF Goto, TypeOK, DeliveryOK, liveVars

LEMMA CrashInv == ASSUME IInv, Crash PROVE IInv'
<1> DEFINE cut == {q \in Request : live # NoCheckpoint
                     /\ q = [kind |-> "checkpoint", attempt |-> Job, sequence |-> live]}
           lost == InFlight \cup cut
<1>1. /\ delayed' = delayed \cup lost
      /\ pc' = "idle" /\ claimed' = NoAttempt /\ aborted' = FALSE
      /\ live' = NoCheckpoint /\ queued' = NoCheckpoint /\ delivered' = NoCheckpoint
      /\ UNCHANGED <<serverVars, diskVars, runs>>
  BY DEF Crash
<1>2. lost \in SUBSET Request
  BY DEF InFlight
<1>3. crashes' \in 0..MaxCrashes
  BY RunnerWorkerAssumption DEF Crash, IInv, TypeOK
<1>4. StepOK'
  BY <1>1 DEF StepOK, Delivering
<1>5. ASSUME NEW q \in lost
      PROVE  /\ q.kind # "lease" => InHand /\ q.attempt = Job
             /\ q.kind = "checkpoint" => q.sequence <= active.checkpoint
             /\ q.kind = "complete" =>
                  live = NoCheckpoint /\ saved[Job] = active.checkpoint
                    /\ q.verdict = active.terminal
  <2>1. CASE q \in InFlight
    BY <2>1, InFlightFacts
  <2>2. CASE q \in cut
    BY <2>2, LiveLost
  <2> QED BY <2>1, <2>2
<1>6. InHand => NoCheckpoint <= active.checkpoint
  BY InHandFacts, Bounds DEF ActiveJob
<1> HIDE DEF lost
<1> QED BY <1>1, <1>2, <1>3, <1>4, <1>5, <1>6, DelayedInv, Bounds

LEMMA FlushCheckpointInv == ASSUME IInv, FlushCheckpoint PROVE IInv'
<1>1. InHand /\ Ended /\ live = NoCheckpoint /\ queued = NoCheckpoint
  BY DEF FlushCheckpoint, IInv, StepOK, DeliveryOK, Delivering
<1>2. active \in ActiveJob /\ Job \in Attempts /\ active.checkpoint \in Checkpoints
  BY <1>1, InHandFacts DEF ActiveJob
<1>3. /\ saved \in [Attempts -> Checkpoints] /\ saved[Job] \in Int /\ delivered \in Int
      /\ active.checkpoint \in Int
      /\ saved[Job] <= active.checkpoint /\ delivered <= saved[Job]
      /\ status[Job] \in {"active", "terminal"}
      /\ status[Job] = "terminal" => saved[Job] = active.checkpoint
  BY <1>1, <1>2, Bounds DEF IInv, TypeOK, DeliveryOK, HandOK
<1>4. /\ UNCHANGED <<status, flagged, verdict, delayed, active, unsent, claimed, aborted, live,
                     queued, runs, crashes>>
      /\ pc' = "uploading"
  BY DEF FlushCheckpoint, SaveCheckpoint, diskVars
<1>5. /\ saved' \in [Attempts -> Checkpoints] /\ saved'[Job] = active.checkpoint
      /\ \A a \in Attempts : a # Job => saved'[a] = saved[a]
      /\ delivered' \in {delivered, active.checkpoint}
  <2>1. CASE NothingToFlush
    BY <1>2, <1>3, <2>1 DEF FlushCheckpoint, NothingToFlush
  <2>2. CASE ~NothingToFlush
    BY <1>2, <1>3, <2>2 DEF FlushCheckpoint, SaveCheckpoint, Advances
  <2> QED BY <2>1, <2>2
<1>6. InHand' /\ Job' = Job /\ Ended'
  BY <1>1, <1>4 DEF InHand, Job, Ended
<1>7. TypeOK'
  BY <1>2, <1>4, <1>5 DEF IInv, TypeOK
<1>8. StepOK'
  BY <1>1, <1>4, <1>5, <1>6 DEF StepOK, Delivering
<1>9. OthersUntouched'
  <2> SUFFICES ASSUME NEW a \in Attempts,
                      status[a] = "queued" \/ (status[a] = "active" /\ a # Job)
               PROVE  Untouched(a)'
    BY <1>4, <1>6 DEF OthersUntouched
  <2>1. Untouched(a) /\ a # Job
    BY <1>3 DEF IInv, OthersUntouched
  <2> QED BY <1>4, <1>5, <2>1 DEF Untouched
<1>10. HandOK'
  BY <1>1, <1>4, <1>5, <1>6 DEF IInv, HandOK, Ended
<1>11. DeliveryOK'
  BY <1>1, <1>2, <1>3, <1>4, <1>5, <1>6, Bounds DEF DeliveryOK
<1>12. RequestsOK'
  BY <1>1, <1>4, <1>5, <1>6 DEF IInv, RequestsOK
<1>13. OneVerdict'
  BY <1>4, <1>6 DEF IInv, OneVerdict
<1> QED BY <1>7, <1>8, <1>9, <1>10, <1>11, <1>12, <1>13 DEF IInv

(* The server takes a verdict on an attempt: the one on disk.              *)
LEMMA TakesVerdict ==
  ASSUME IInv, InHand, live = NoCheckpoint, saved[Job] = active.checkpoint, Ended,
         CompleteAttempt(Job, active.terminal), delayed' \subseteq delayed,
         UNCHANGED <<active, unsent, liveVars, runs>>
  PROVE  /\ status' \in [Attempts -> {"queued", "active", "terminal"}]
         /\ verdict' \in [Attempts -> Verdicts \cup {NoVerdict}]
         /\ status'[Job] = "terminal"
         /\ OthersUntouched' /\ HandOK' /\ DeliveryOK' /\ RequestsOK' /\ OneVerdict'
<1>1. active \in ActiveJob /\ Job \in Attempts /\ active.terminal \in Verdicts
  BY InHandFacts, Bounds DEF ActiveJob, Ended
<1>2. /\ status' = [status EXCEPT ![Job] = "terminal"]
      /\ verdict' = [verdict EXCEPT ![Job] = IF status[Job] = "active" THEN active.terminal ELSE @]
      /\ UNCHANGED <<flagged, saved>>
  BY DEF CompleteAttempt
<1>3. /\ status' \in [Attempts -> {"queued", "active", "terminal"}]
      /\ status'[Job] = "terminal" /\ \A a \in Attempts : a # Job => status'[a] = status[a]
  BY <1>1, <1>2 DEF IInv, TypeOK
<1>4. /\ verdict' \in [Attempts -> Verdicts \cup {NoVerdict}]
      /\ verdict'[Job] = active.terminal /\ \A a \in Attempts : a # Job => verdict'[a] = verdict[a]
  BY <1>1, <1>2 DEF IInv, TypeOK, HandOK
<1>5. InHand' /\ Job' = Job /\ Ended'
  BY DEF InHand, Job, Ended
<1>6. OthersUntouched'
  BY <1>2, <1>3, <1>4, <1>5 DEF IInv, OthersUntouched, Untouched
<1>7. HandOK'
  BY <1>2, <1>3, <1>4, <1>5 DEF IInv, HandOK, Ended
<1>8. DeliveryOK'
  BY <1>2, <1>3, <1>5 DEF IInv, DeliveryOK, liveVars
<1>9. RequestsOK'
  BY <1>2, <1>5 DEF IInv, RequestsOK, liveVars
<1>10. OneVerdict'
  <2> SUFFICES ASSUME NEW q \in delayed, q.kind = "complete"
               PROVE  /\ verdict'[q.attempt] \in {NoVerdict, q.verdict}
                      /\ Job = q.attempt => active.terminal = q.verdict
                      /\ Job # q.attempt => status'[q.attempt] = "terminal"
    BY <1>5 DEF OneVerdict
  <2>1. q.attempt \in Attempts
    BY DEF IInv, TypeOK, Request
  <2> QED BY <1>3, <1>4, <2>1 DEF IInv, OneVerdict
<1> QED BY <1>3, <1>4, <1>6, <1>7, <1>8, <1>9, <1>10

LEMMA CompleteInv == ASSUME IInv, Complete PROVE IInv'
<1>1. /\ InHand /\ Ended /\ live = NoCheckpoint /\ saved[Job] = active.checkpoint
  BY DEF Complete, IInv, StepOK, Delivering
<1>2. /\ CompleteAttempt(Job, active.terminal) /\ Goto("clearing")
      /\ UNCHANGED <<delayed, diskVars, runs, crashes>>
  BY DEF Complete
<1>3. /\ status' \in [Attempts -> {"queued", "active", "terminal"}]
      /\ verdict' \in [Attempts -> Verdicts \cup {NoVerdict}]
      /\ status'[Job] = "terminal"
      /\ OthersUntouched' /\ HandOK' /\ DeliveryOK' /\ RequestsOK' /\ OneVerdict'
  BY <1>1, <1>2, TakesVerdict DEF Goto, diskVars
<1>4. TypeOK'
  BY <1>2, <1>3 DEF CompleteAttempt, IInv, TypeOK, Goto, diskVars, liveVars
<1>5. StepOK'
  BY <1>1, <1>2, <1>3 DEF CompleteAttempt, StepOK, Goto, InHand, Ended, Job, Delivering, diskVars,
     liveVars
<1> QED BY <1>3, <1>4, <1>5 DEF IInv

LEMMA RequestCancellationInv ==
  ASSUME IInv, NEW a \in Attempts, RequestCancellation(a)
  PROVE  IInv'
<1>1. /\ flagged' = [flagged EXCEPT ![a] = TRUE]
      /\ UNCHANGED <<status, saved, verdict, delayed, active, unsent, pc, claimed, aborted, live,
                     queued, delivered, runs, crashes>>
  BY DEF RequestCancellation, diskVars, memoryVars, liveVars
<1>2. flagged' \in [Attempts -> BOOLEAN] /\ \A b \in Attempts : flagged[b] => flagged'[b]
  BY <1>1 DEF IInv, TypeOK
<1>3. (InHand => Job \in Attempts) /\ InHand' = InHand /\ Job' = Job
  BY <1>1, InHandFacts DEF InHand, Job
<1>4. TypeOK'
  BY <1>1, <1>2 DEF IInv, TypeOK
<1>5. StepOK'
  BY <1>1, <1>2, <1>3 DEF IInv, StepOK, Ended, MustInterrupt, Delivering
<1>6. HandOK'
  BY <1>1, <1>2, <1>3 DEF IInv, HandOK, Ended
<1>7. OthersUntouched' /\ DeliveryOK' /\ RequestsOK' /\ OneVerdict'
  BY <1>1, <1>3 DEF IInv, OthersUntouched, Untouched, DeliveryOK, RequestsOK, OneVerdict
<1> QED BY <1>4, <1>5, <1>6, <1>7 DEF IInv

(* A late checkpoint is not newer than the one on disk, and changes        *)
(* nothing when its attempt has ended.                                     *)
LEMMA LateCheckpoint ==
  ASSUME IInv, NEW q \in delayed, q.kind = "checkpoint", delayed' = delayed \ {q},
         SaveCheckpoint(q.attempt, q.sequence), UNCHANGED <<diskVars, memoryVars, runs, crashes>>
  PROVE  IInv'
<1> DEFINE a == q.attempt  n == q.sequence
<1>1. a \in Attempts /\ n \in Checkpoints
  BY DEF IInv, TypeOK, Request
<1>2. /\ UNCHANGED <<status, flagged, verdict, active, unsent, pc, claimed, aborted, live, queued,
                     delivered, runs, crashes>>
      /\ saved' = [saved EXCEPT ![a] = IF Advances(a, n) THEN n ELSE @]
  BY DEF SaveCheckpoint, diskVars, memoryVars, liveVars
<1>3. ~Untouched(a)
  BY DEF Untouched
<1>4. (InHand => Job \in Attempts) /\ InHand' = InHand /\ Job' = Job
  BY <1>2, InHandFacts DEF InHand, Job
<1>5. CASE ~Advances(a, n)
  <2>1. saved' = saved
    BY <1>1, <1>2, <1>5 DEF IInv, TypeOK
  <2>2. TypeOK'
    BY <1>2, <2>1 DEF IInv, TypeOK
  <2>3. StepOK' /\ HandOK' /\ DeliveryOK'
    BY <1>2, <1>4, <2>1 DEF IInv, StepOK, HandOK, DeliveryOK, Ended, MustInterrupt, Delivering
  <2>4. OthersUntouched' /\ RequestsOK' /\ OneVerdict'
    BY <1>2, <1>4, <2>1 DEF IInv, OthersUntouched, Untouched, RequestsOK, OneVerdict
  <2> QED BY <2>2, <2>3, <2>4 DEF IInv
<1>6. CASE Advances(a, n)
  <2>1. /\ saved' = [saved EXCEPT ![a] = n] /\ status[a] = "active" /\ saved[a] < n
    BY <1>2, <1>6 DEF Advances
  <2>2. a = Job /\ InHand
    <3>1. a = Job
      BY <1>1, <1>3, <2>1 DEF IInv, OthersUntouched
    <3> QED BY <1>1, <3>1, Bounds DEF InHand, Job, NoActiveJob
  <2>3. active.checkpoint \in Int /\ saved[a] \in Int /\ n \in Int
    BY <1>1, <2>2, InHandFacts, Bounds DEF IInv, TypeOK, ActiveJob
  <2>4. n <= active.checkpoint /\ saved[a] # active.checkpoint
    BY <2>1, <2>2, <2>3 DEF IInv, RequestsOK
  <2>5. /\ saved' \in [Attempts -> Checkpoints] /\ saved'[a] = n
        /\ \A b \in Attempts : b # a => saved'[b] = saved[b]
    BY <1>1, <2>1 DEF IInv, TypeOK
  <2>6. TypeOK'
    BY <1>2, <2>5 DEF IInv, TypeOK
  <2>7. StepOK'
    BY <1>2, <1>4, <2>2, <2>4 DEF IInv, StepOK, Ended, MustInterrupt, Delivering
  <2>8. OthersUntouched'
    BY <1>2, <1>4, <2>1, <2>2, <2>5 DEF IInv, OthersUntouched, Untouched
  <2>9. HandOK'
    BY <1>2, <1>4, <2>1, <2>2 DEF IInv, HandOK, Ended
  <2>10. DeliveryOK'
    <3>1. delivered \in Int /\ delivered <= saved[a]
      BY <2>2, Bounds DEF IInv, TypeOK, DeliveryOK
    <3>2. delivered <= n
      BY <2>1, <2>3, <3>1
    <3> QED BY <1>2, <1>4, <2>2, <2>4, <2>5, <3>2 DEF IInv, DeliveryOK
  <2>11. RequestsOK'
    BY <1>2, <1>4, <2>2, <2>4 DEF IInv, RequestsOK
  <2>12. OneVerdict'
    BY <1>2, <1>4 DEF IInv, OneVerdict
  <2> QED BY <2>6, <2>7, <2>8, <2>9, <2>10, <2>11, <2>12 DEF IInv
<1> QED BY <1>5, <1>6

(* A late completion is the one the runner was about to make, or one that  *)
(* was made again since.                                                   *)
LEMMA LateCompletion ==
  ASSUME IInv, NEW q \in delayed, q.kind = "complete"
  PROVE  /\ q.attempt \in Attempts /\ q.verdict \in Verdicts
         /\ status[q.attempt] = "active" =>
              /\ q.attempt = Job /\ InHand /\ Ended /\ live = NoCheckpoint
              /\ q.verdict = active.terminal /\ saved[Job] = active.checkpoint
         /\ status[q.attempt] # "active" => status[q.attempt] = "terminal"
<1>1. q.attempt \in Attempts /\ q.verdict \in Verdicts
  BY DEF IInv, TypeOK, Request
<1>2. ~Untouched(q.attempt)
  BY DEF Untouched
<1>3. status[q.attempt] # "active" => status[q.attempt] = "terminal"
  BY <1>1, <1>2 DEF IInv, TypeOK, OthersUntouched
<1>4. ASSUME status[q.attempt] = "active"
      PROVE  /\ q.attempt = Job /\ InHand /\ Ended /\ live = NoCheckpoint
             /\ q.verdict = active.terminal /\ saved[Job] = active.checkpoint
  <2>1. q.attempt = Job
    BY <1>1, <1>2, <1>4 DEF IInv, OthersUntouched
  <2>2. InHand
    BY <1>1, <2>1, Bounds DEF InHand, Job, NoActiveJob
  <2> QED BY <1>1, <2>1, <2>2, Bounds DEF IInv, OneVerdict, RequestsOK, Ended
<1> QED BY <1>1, <1>3, <1>4

LEMMA LateInv ==
  ASSUME IInv, NEW q \in delayed, Late(q)
  PROVE  IInv'
<1>1. delayed' = delayed \ {q} /\ UNCHANGED <<diskVars, memoryVars, runs, crashes>>
  BY DEF Late
<1>2. CASE q.kind = "lease" /\ \E a \in Leasable : GrantLease(a)
  <2>1. PICK a \in Leasable : GrantLease(a)
    BY <1>2
  <2>2. a \in Attempts
    BY DEF Leasable
  <2>3. OthersUntouched' /\ HandOK' /\ DeliveryOK' /\ RequestsOK' /\ OneVerdict'
    BY <1>1, <2>1, <2>2, LeaseInv DEF diskVars, memoryVars
  <2>4. /\ status' = [status EXCEPT ![a] = "active"] /\ UNCHANGED <<flagged, saved, verdict>>
        /\ status' \in [Attempts -> {"queued", "active", "terminal"}]
        /\ status[a] = "queued" /\ a # Job
        /\ \A b \in Attempts : status[b] # "active"
    BY <2>1, <2>2, LeaseKeeps
  <2>5. TypeOK'
    BY <1>1, <2>4 DEF IInv, TypeOK, diskVars, memoryVars, liveVars
  <2>6. StepOK'
    <3>1. InHand => Job \in Attempts
      BY InHandFacts
    <3>2. status \in [Attempts -> {"queued", "active", "terminal"}]
      BY DEF IInv, TypeOK
    <3> QED BY <1>1, <2>2, <2>4, <3>1, <3>2
        DEF IInv, StepOK, InHand, Ended, MustInterrupt, Job, Delivering, diskVars, memoryVars,
            liveVars
  <2> QED BY <2>3, <2>5, <2>6 DEF IInv
<1>3. CASE q.kind = "checkpoint" /\ SaveCheckpoint(q.attempt, q.sequence)
  BY <1>1, <1>3, LateCheckpoint
<1>4. CASE q.kind = "complete" /\ CompleteAttempt(q.attempt, q.verdict)
  <2>1. CASE status[q.attempt] = "active"
    <3>1. /\ q.attempt = Job /\ InHand /\ Ended /\ live = NoCheckpoint
          /\ q.verdict = active.terminal /\ saved[Job] = active.checkpoint
      BY <1>4, <2>1, LateCompletion
    <3>2. /\ status' \in [Attempts -> {"queued", "active", "terminal"}]
          /\ verdict' \in [Attempts -> Verdicts \cup {NoVerdict}]
          /\ status'[Job] = "terminal"
          /\ OthersUntouched' /\ HandOK' /\ DeliveryOK' /\ RequestsOK' /\ OneVerdict'
      BY <1>1, <1>4, <3>1, TakesVerdict DEF diskVars, memoryVars
    <3>3. TypeOK'
      BY <1>1, <1>4, <3>2 DEF CompleteAttempt, IInv, TypeOK, diskVars, memoryVars, liveVars
    <3>4. StepOK'
      BY <1>1, <1>4, <3>1, <3>2 DEF CompleteAttempt, IInv, StepOK, InHand, Ended, MustInterrupt,
         Job, Delivering, diskVars, memoryVars, liveVars
    <3> QED BY <3>2, <3>3, <3>4 DEF IInv
  <2>2. CASE status[q.attempt] # "active"
    <3>1. q.attempt \in Attempts /\ status[q.attempt] = "terminal"
      BY <1>4, <2>2, LateCompletion
    <3>2. UNCHANGED serverVars
      BY <1>4, <2>2, <3>1 DEF CompleteAttempt, IInv, TypeOK, serverVars
    <3> QED BY <1>1, <3>2 DEF IInv, TypeOK, StepOK, OthersUntouched, Untouched, HandOK, DeliveryOK,
        RequestsOK, OneVerdict, InHand, Ended, MustInterrupt, Job, Delivering, serverVars,
        diskVars, memoryVars, liveVars
  <2> QED BY <2>1, <2>2
<1>5. CASE UNCHANGED serverVars
  BY <1>1, <1>5 DEF IInv, TypeOK, StepOK, OthersUntouched, Untouched, HandOK, DeliveryOK,
     RequestsOK, OneVerdict, InHand, Ended, MustInterrupt, Job, Delivering, serverVars,
     diskVars, memoryVars, liveVars
<1> QED BY <1>2, <1>3, <1>4, <1>5 DEF Late

-----------------------------------------------------------------------------

LEMMA NextInv == IInv /\ [Next]_vars => IInv'
<1> SUFFICES ASSUME IInv, [Next]_vars PROVE IInv'
  OBVIOUS
<1>1. CASE \E a \in Attempts : RequestCancellation(a)
  BY <1>1, RequestCancellationInv
<1>2. CASE \E q \in delayed : Late(q)
  BY <1>2, LateInv
<1>3. CASE Poll \/ Redeliver \/ Recover \/ Ready
  BY <1>3, PollsInv
<1>4. CASE Emit \/ Abort \/ FlushEvents
  BY <1>4, ExecutingInv
<1>5. CASE \E n \in Checkpoints : Checkpoint(n)
  BY <1>5, CheckpointInv
<1>6. CASE LeaseAnswered \/ SaveClaim \/ CheckAnswered \/ Interrupt
  BY <1>6, LeaseAnsweredInv, SaveClaimInv, CheckAnsweredInv, InterruptInv
<1>7. CASE Execute \/ Finish \/ LiveAnswered \/ LiveFails
  BY <1>7, ExecuteInv, FinishInv, LiveAnsweredInv, LiveFailsInv
<1>8. CASE FlushCheckpoint \/ Upload \/ Complete \/ ClearActiveJob
  BY <1>8, FlushCheckpointInv, UploadInv, CompleteInv, ClearActiveJobInv
<1>9. CASE Fail \/ Crash
  BY <1>9, FailInv, CrashInv
<1>10. CASE UNCHANGED vars
  BY <1>10, StutterInv
<1> QED
  BY <1>1, <1>2, <1>3, <1>4, <1>5, <1>6, <1>7, <1>8, <1>9, <1>10 DEF Next

(* Whatever the network loses or delays and wherever the runner stops, the *)
(* job on disk, the server's attempts and the requests that may still      *)
(* arrive agree.                                                           *)
THEOREM Inductive == Spec => []IInv
<1>1. Init => IInv
  BY InitInv
<1>2. IInv /\ [Next]_vars => IInv'
  BY NextInv
<1> QED BY <1>1, <1>2, PTL DEF Spec

(* Every state has the types the code declares.                            *)
THEOREM TypeCorrect == Spec => []TypeOK
<1>1. IInv => TypeOK
  BY DEF IInv
<1> QED BY <1>1, Inductive, PTL

(* The completion requests of an attempt that the server may still take    *)
(* (worker.ts deliver, made again after each failure) have one verdict.    *)
THEOREM VerdictIsOne == Spec => []OneVerdict
<1>1. IInv => OneVerdict
  BY DEF IInv
<1> QED BY <1>1, Inductive, PTL

(* The server has an attempt's last checkpoint before its terminal state.  *)
THEOREM CheckpointFirst == Spec => []CheckpointBeforeTerminal
<1>1. IInv => CheckpointBeforeTerminal
  BY DEF IInv, HandOK, InHand, CheckpointBeforeTerminal
<1> QED BY <1>1, Inductive, PTL

-----------------------------------------------------------------------------
(* RunnerWorker implements LeasedJob.                                      *)

LEMMA LeasedInit == Init => Leased!Init
BY DEF Init, Leased!Init, NoVerdict, Leased!NoVerdict

LEMMA GrantLeases ==
  ASSUME NEW a \in Attempts, GrantLease(a), UNCHANGED runs
  PROVE  Leased!Next
<1>1. Leased!Lease(a)
  BY DEF GrantLease, Leasable, Leased!Lease
<1> QED BY <1>1 DEF Leased!Next

LEMMA CompletionFinishes ==
  ASSUME IInv, InHand, Ended, CompleteAttempt(Job, active.terminal), UNCHANGED runs
  PROVE  [Leased!Next]_Leased!vars
<1>1. Job \in Attempts /\ active.terminal \in Verdicts /\ status[Job] \in {"active", "terminal"}
  BY InHandFacts DEF IInv, TypeOK, HandOK, ActiveJob, Ended
<1>2. CASE status[Job] = "active"
  <2>1. Leased!Finish(Job, active.terminal)
    BY <1>2 DEF CompleteAttempt, IInv, HandOK, Leased!Finish
  <2> QED BY <1>1, <2>1 DEF Leased!Next
<1>3. CASE status[Job] = "terminal"
  BY <1>1, <1>3 DEF CompleteAttempt, IInv, TypeOK, Leased!vars
<1> QED BY <1>1, <1>2, <1>3

LEMMA LeasedNext == IInv /\ [Next]_vars => [Leased!Next]_Leased!vars
<1> SUFFICES ASSUME IInv, [Next]_vars PROVE [Leased!Next]_Leased!vars
  OBVIOUS
<1>1. ASSUME NEW a \in Attempts, RequestCancellation(a) PROVE Leased!Next
  <2>1. Leased!RequestCancellation(a)
    BY <1>1 DEF RequestCancellation, Leased!RequestCancellation
  <2> QED BY <2>1 DEF Leased!Next
<1>2. ASSUME NEW q \in delayed, Late(q) PROVE [Leased!Next]_Leased!vars
  <2>1. CASE q.kind = "lease" /\ \E a \in Leasable : GrantLease(a)
    BY <1>2, <2>1, GrantLeases DEF Late, Leasable
  <2>2. CASE (q.kind = "checkpoint" /\ SaveCheckpoint(q.attempt, q.sequence))
             \/ UNCHANGED serverVars
    BY <1>2, <2>2 DEF Late, SaveCheckpoint, serverVars, Leased!vars
  <2>3. CASE q.kind = "complete" /\ CompleteAttempt(q.attempt, q.verdict)
    <3>1. CASE status[q.attempt] = "active"
      <4>1. q.attempt = Job /\ InHand /\ Ended /\ q.verdict = active.terminal
        BY <2>3, <3>1, LateCompletion
      <4> QED BY <1>2, <2>3, <4>1, CompletionFinishes DEF Late
    <3>2. CASE status[q.attempt] # "active"
      <4>1. q.attempt \in Attempts /\ status[q.attempt] = "terminal"
        BY <2>3, <3>2, LateCompletion
      <4> QED BY <1>2, <2>3, <4>1 DEF Late, CompleteAttempt, IInv, TypeOK, Leased!vars
    <3> QED BY <3>1, <3>2
  <2> QED BY <1>2, <2>1, <2>2, <2>3 DEF Late
<1>3. CASE Poll \/ Redeliver \/ Recover \/ Ready \/ Emit \/ Abort \/ FlushEvents
           \/ SaveClaim \/ CheckAnswered \/ Interrupt
  BY <1>3 DEF Poll, Redeliver, Recover, Ready, Emit, Abort, FlushEvents, SaveClaim, CheckAnswered,
     Interrupt, serverVars, Leased!vars
<1>4. CASE Finish \/ LiveAnswered \/ LiveFails \/ FlushCheckpoint \/ Upload \/ ClearActiveJob
           \/ Fail \/ Crash \/ UNCHANGED vars \/ \E n \in Checkpoints : Checkpoint(n)
  BY <1>4 DEF Finish, LiveAnswered, LiveFails, FlushCheckpoint, SaveCheckpoint, Upload,
     ClearActiveJob, Fail, Crash, Checkpoint, vars, serverVars, Leased!vars
<1>5. CASE LeaseAnswered
  BY <1>5, GrantLeases DEF LeaseAnswered, Leasable, serverVars, Leased!vars
<1>6. CASE Execute
  <2>1. /\ InHand /\ ~Ended /\ status[Job] = "active"
        /\ active.checkpoint = NoCheckpoint => runs[Job] = 0
    BY <1>6 DEF Execute, IInv, StepOK, HandOK
  <2>2. Job \in Attempts
    BY <2>1, InHandFacts
  <2>3. UNCHANGED <<status, flagged, verdict>> /\ runs \in [Attempts -> 0..MaxCrashes + 1]
    BY <1>6 DEF Execute, serverVars, IInv, TypeOK
  <2>4. CASE active.checkpoint = NoCheckpoint
    <3>1. Leased!Run(Job)
      BY <1>6, <2>1, <2>2, <2>3, <2>4 DEF Execute, Leased!Run
    <3> QED BY <2>2, <3>1 DEF Leased!Next
  <2>5. CASE active.checkpoint # NoCheckpoint
    BY <1>6, <2>2, <2>3, <2>5 DEF Execute, Leased!vars
  <2> QED BY <2>4, <2>5
<1>7. CASE Complete
  <2>1. InHand /\ Ended /\ CompleteAttempt(Job, active.terminal) /\ UNCHANGED runs
    BY <1>7 DEF Complete, IInv, StepOK, Delivering
  <2> QED BY <2>1, CompletionFinishes
<1> QED BY <1>1, <1>2, <1>3, <1>4, <1>5, <1>6, <1>7 DEF Next

(* The runner and the control plane keep LeasedJob's contract: one attempt *)
(* active at a time, executed from the start at most once and only while   *)
(* it is active, ended by one verdict that says what happened.             *)
THEOREM KeepsContract == Spec => Contract
<1>1. Init => Leased!Init
  BY LeasedInit
<1>2. IInv /\ [Next]_vars => [Leased!Next]_Leased!vars
  BY LeasedNext
<1> QED BY <1>1, <1>2, Inductive, PTL DEF Spec, Contract, Leased!Spec
=============================================================================
