-------------------------- MODULE RunnerJobsProofs --------------------------
(***************************************************************************)
(* Theorems about RunnerJobs, for every set of runners, accounts, targets  *)
(* and matrices and every value of the bounds.                             *)
(***************************************************************************)
EXTENDS RunnerJobs, SequenceTheorems, TLAPS

(* Rows that were inserted have their columns, rows are inserted in the    *)
(* order of their numbers, and the row a cancel transaction has locked is  *)
(* still queued.                                                           *)
RowsInserted ==
  /\ \A j \in Jobs : j < nextJob <=> jobStatus[j] # "absent"
  /\ \A j \in Jobs : j < nextJob => row[j] \in Row
  /\ \A j \in Jobs : cancelTx[j] = "locked" => jobStatus[j] = "queued"

(* A launch that is under way has a matrix with a target.                  *)
LaunchesWork == \A q \in launchReqs : q.matrix # <<>>

TInv == TypeOK /\ RowsInserted /\ LaunchesWork

LEMMA InitTyped == Init => TInv
BY RunnerJobsAssumption DEF Init, TInv, TypeOK, RowsInserted, LaunchesWork, Jobs, Attempts, NoJob,
   NoCheckpoint, Status

LEMMA InsertTyped ==
  ASSUME TInv, NEW newRow \in Row, NEW r \in Runners \cup {NoRunner},
         Insert(newRow, r)
  PROVE  TInv'
BY RunnerJobsAssumption DEF TInv, TypeOK, RowsInserted, LaunchesWork, dashboardVars, Insert, Jobs, Status,
   attemptVars, runnerVars, requestVars

LEMMA LaunchTyped ==
  ASSUME TInv, NEW q \in launchReqs, Launch(q)
  PROVE  TInv'
<1> DEFINE m == q.matrix
           new == nextJob .. nextJob + Len(m) - 1
<1>0. q.runner \in Runners /\ m \in Matrices /\ m # <<>>
  BY DEF TInv, TypeOK, LaunchReq, LaunchesWork
<1>1. m \in Seq(Targets) /\ Len(m) \in Nat /\ Len(m) > 0
  BY <1>0, RunnerJobsAssumption, EmptySeq
<1>2. nextJob \in 1..MaxJobs + 1 /\ MaxJobs \in Nat
  BY RunnerJobsAssumption DEF TInv, TypeOK
<1>3. nextJob \in Jobs /\ nextJob' \in 1..MaxJobs + 1
  BY <1>1, <1>2 DEF Launch, Jobs
<1>4. \A j \in Jobs : j \in new => m[j - nextJob + 1] \in Targets
  BY <1>1, <1>2, ElementOfSeq DEF Jobs
<1>5. row' \in [Jobs -> Row \cup {NoRow}] /\ \A j \in Jobs : j \in new => row'[j] \in Row
  BY <1>0, <1>1, <1>3, <1>4, RunnerJobsAssumption DEF Launch, TInv, TypeOK, Row
<1>6. jobStatus' \in [Jobs -> Status] /\ jobRunner' \in [Jobs -> Runners \cup {NoRunner}]
  BY <1>0 DEF Launch, TInv, TypeOK, Status
<1>7. TypeOK'
  BY <1>3, <1>5, <1>6 DEF Launch, TInv, TypeOK, attemptVars, runnerVars, requestVars
<1>8. RowsInserted'
  <2>1. \A j \in Jobs : j \in new <=> j >= nextJob /\ j < nextJob'
    BY <1>1, <1>2 DEF Launch, Jobs
  <2>2. \A j \in Jobs : j < nextJob' <=> j < nextJob \/ j \in new
    BY <1>1, <1>2, <2>1 DEF Launch, Jobs
  <2>3. \A j \in Jobs : j \notin new => row'[j] = row[j] /\ jobStatus'[j] = jobStatus[j]
    BY DEF Launch
  <2>4. \A j \in Jobs : j \in new => jobStatus'[j] = "queued"
    BY DEF Launch
  <2> HIDE DEF new
  <2>5. cancelTx' = cancelTx
    BY DEF Launch
  <2> QED BY <1>5, <2>2, <2>3, <2>4, <2>5 DEF TInv, RowsInserted
<1>9. LaunchesWork'
  BY DEF Launch, TInv, LaunchesWork
<1> QED BY <1>7, <1>8, <1>9 DEF TInv

LEMMA DashboardTyped == TInv /\ Dashboard => TInv'
<1> SUFFICES ASSUME TInv, Dashboard PROVE TInv'
  OBVIOUS
<1>1. ASSUME NEW q \in launchReqs, Launch(q) PROVE TInv'
  BY <1>1, LaunchTyped
<1>9. ASSUME NEW r \in Runners, NEW m \in Matrices, ReceiveLaunch(r, m) PROVE TInv'
  BY <1>9 DEF ReceiveLaunch, LaunchReq, TInv, TypeOK, RowsInserted, LaunchesWork,
     dashboardVars, attemptVars, runnerVars, requestVars
<1>2. CASE \E o \in Owners, t \in Targets, s \in Runners \cup {NoRunner}, fits \in BOOLEAN :
            Enqueue(o, t, s, fits)
  <2>1. PICK o \in Owners, t \in Targets, s \in Runners \cup {NoRunner}, fits \in BOOLEAN :
         Enqueue(o, t, s, fits)
    BY <1>2
  <2> DEFINE new == [owner |-> o, target |-> t, sealedFor |-> s, fits |-> fits,
                     retryOf |-> NoJob, experiment |-> nextJob]
  <2>2. new \in Row
    BY <2>1, RunnerJobsAssumption DEF Enqueue, Insert, TInv, TypeOK, Row, Jobs
  <2>3. Insert(new, NoRunner)
    BY <2>1 DEF Enqueue
  <2> QED BY <2>2, <2>3, InsertTyped
<1>3. ASSUME NEW j \in Jobs, Retry(j) PROVE TInv'
  <2>1. row[j] \in Row
    BY <1>3 DEF Retry, TInv, RowsInserted, Unsuccessful
  <2>2. [row[j] EXCEPT !.retryOf = j] \in Row
    BY <2>1 DEF Row
  <2>3. jobRunner[j] \in Runners \cup {NoRunner}
    BY DEF TInv, TypeOK
  <2> QED BY <1>3, <2>2, <2>3, InsertTyped DEF Retry
<1>4. ASSUME NEW j \in Jobs, CancelBegin(j) PROVE TInv'
  BY <1>4 DEF TInv, TypeOK, RowsInserted, LaunchesWork, dashboardVars, CancelBegin, attemptVars, runnerVars, requestVars
<1>5. ASSUME NEW j \in Jobs, CancelEnd(j) PROVE TInv'
  <2>1. cancelTx[j] = "locked" \/ cancelTx[j] = "missed"
    BY <1>5 DEF TInv, TypeOK, CancelEnd
  <2> QED BY <1>5, <2>1 DEF TInv, TypeOK, RowsInserted, LaunchesWork, dashboardVars, CancelEnd, Status, Terminal,
         Unsuccessful, attemptVars, runnerVars, requestVars
<1>6. ASSUME NEW j \in Jobs, RequestCancellation(j) PROVE TInv'
  BY <1>6 DEF TInv, TypeOK, RowsInserted, LaunchesWork, dashboardVars, RequestCancellation, attemptVars, runnerVars,
     requestVars
<1>7. ASSUME NEW r \in Runners, RevokeRunner(r) PROVE TInv'
  BY <1>7 DEF TInv, TypeOK, RowsInserted, LaunchesWork, dashboardVars, RevokeRunner, jobVars, attemptVars, requestVars
<1>8. ASSUME NEW j \in Jobs, CancelAbort(j) PROVE TInv'
  BY <1>8 DEF TInv, TypeOK, RowsInserted, LaunchesWork, dashboardVars, CancelAbort, attemptVars, runnerVars, requestVars
<1> QED BY <1>1, <1>2, <1>3, <1>4, <1>5, <1>6, <1>7, <1>8, <1>9 DEF Dashboard

LEMMA LeasingTyped == TInv /\ Leasing => TInv'
<1> SUFFICES ASSUME TInv, Leasing PROVE TInv'
  OBVIOUS
<1>1. ASSUME NEW r \in Runners, NEW i \in Inventories, ReceiveHeartbeat(r, i) PROVE TInv'
  BY <1>1 DEF TInv, TypeOK, RowsInserted, LaunchesWork, dashboardVars, ReceiveHeartbeat, LeaseReq, jobVars,
     attemptVars, runnerVars
<1>2. ASSUME NEW q \in beatReqs, RecordHeartbeat(q) PROVE TInv'
  BY <1>2 DEF TInv, TypeOK, RowsInserted, LaunchesWork, dashboardVars, RecordHeartbeat, LeaseReq, jobVars,
     attemptVars, runnerVars
<1>3. ASSUME NEW r \in Runners, ReceiveLease(r) PROVE TInv'
  BY <1>3 DEF TInv, TypeOK, RowsInserted, LaunchesWork, dashboardVars, ReceiveLease, LeaseReq, jobVars,
     attemptVars, runnerVars
<1>4. ASSUME NEW q \in leaseReqs, NEW held \in SUBSET HeldByClaims(q), Claim(q, held)
      PROVE  TInv'
  <2> DEFINE r == q.runner
             allowed == RunnerCanClaim(r) /\ ~HasActiveAttempt(r)
             claimed == IF allowed THEN First(Claimable(q) \ held) ELSE {}
             failed == IF allowed THEN Rejected(q, claimed) \ held ELSE {}
  <2>1. r \in Runners
    BY DEF TInv, TypeOK, LeaseReq
  <2>2. claimed \subseteq Candidates(r) /\ failed \subseteq Candidates(r)
    BY DEF First, Claimable, Rejected
  <2>3. \A j \in Candidates(r) : j \in Jobs /\ jobStatus[j] = "queued" /\ cancelTx[j] # "locked"
    BY DEF Candidates
  <2>4. jobStatus' = [j \in Jobs |-> IF j \in claimed THEN "leased"
                                    ELSE IF j \in failed THEN "failed" ELSE jobStatus[j]]
    BY <1>4 DEF Claim
  <2>5. jobRunner' = [j \in Jobs |-> IF j \in claimed THEN r ELSE jobRunner[j]]
    BY <1>4 DEF Claim
  <2>6. /\ claimed # {} => nextAttempt <= MaxAttempts
        /\ IF claimed = {}
             THEN UNCHANGED <<nextAttempt, attemptJob, attemptRunner, attemptStatus>>
             ELSE /\ nextAttempt' = nextAttempt + 1
                  /\ \E j \in claimed : attemptJob' = [attemptJob EXCEPT ![nextAttempt] = j]
                  /\ attemptRunner' = [attemptRunner EXCEPT ![nextAttempt] = r]
                  /\ attemptStatus' = [attemptStatus EXCEPT ![nextAttempt] = "leased"]
    BY <1>4 DEF Claim
  <2>7. /\ leaseReqs' = leaseReqs \ {q}
        /\ UNCHANGED <<nextJob, row, cancelRequested, cancelTx, launchReqs, checkpoint,
                       outcome, events, result, runnerVars, beatReqs, eventReqs,
                       checkpointReqs, terminalReqs>>
    BY <1>4 DEF Claim, dashboardVars
  <2> HIDE DEF r, claimed, failed
  <2>8. jobStatus' \in [Jobs -> Status] /\ jobRunner' \in [Jobs -> Runners \cup {NoRunner}]
    BY <2>1, <2>4, <2>5 DEF TInv, TypeOK, Status, Active, Terminal, Unsuccessful
  <2>9. RowsInserted'
    BY <2>2, <2>3, <2>4, <2>7 DEF TInv, RowsInserted
  <2>10. /\ nextAttempt' \in 1..MaxAttempts + 1
         /\ attemptJob' \in [Attempts -> Jobs \cup {NoJob}]
         /\ attemptRunner' \in [Attempts -> Runners \cup {NoRunner}]
         /\ attemptStatus' \in [Attempts -> Status]
    <3>1. CASE claimed = {}
      BY <3>1, <2>6 DEF TInv, TypeOK
    <3>2. CASE claimed # {}
      <4>1. PICK j \in claimed : attemptJob' = [attemptJob EXCEPT ![nextAttempt] = j]
        BY <3>2, <2>6
      <4>2. j \in Jobs
        BY <2>2, <2>3
      <4>3. nextAttempt \in 1..MaxAttempts + 1 /\ nextAttempt <= MaxAttempts
        BY <3>2, <2>6 DEF TInv, TypeOK
      <4>4. nextAttempt' \in 1..MaxAttempts + 1
        BY <3>2, <2>6, <4>3, RunnerJobsAssumption
      <4>5. attemptJob' \in [Attempts -> Jobs \cup {NoJob}]
        BY <4>1, <4>2 DEF TInv, TypeOK
      <4> QED BY <3>2, <4>4, <4>5, <2>1, <2>6 DEF TInv, TypeOK, Status, Active
    <3> QED BY <3>1, <3>2
  <2>11. TypeOK'
    BY <2>7, <2>8, <2>10 DEF TInv, TypeOK, runnerVars
  <2>12. LaunchesWork'
    BY <2>7 DEF TInv, LaunchesWork
  <2> QED BY <2>9, <2>11, <2>12 DEF TInv
<1> QED BY <1>1, <1>2, <1>3, <1>4 DEF Leasing, ClaimNext

LEMMA AttemptRequestsTyped == TInv /\ AttemptRequests => TInv'
<1> SUFFICES ASSUME TInv, AttemptRequests PROVE TInv'
  OBVIOUS
<1> USE RunnerJobsAssumption
<1>1. ASSUME NEW a \in Attempts, NEW f \in 0..EventCount - 1, NEW l \in 0..EventCount - 1,
             ReceiveEvents(a, f, l)
      PROVE  TInv'
  <2> DEFINE new == [attempt |-> a, next |-> f, last |-> l, leased |-> attemptStatus[a] = "leased"]
  <2>1. new \in EventReq
    BY DEF EventReq
  <2> QED BY <1>1, <2>1 DEF TInv, TypeOK, RowsInserted, LaunchesWork, dashboardVars, ReceiveEvents, jobVars, attemptVars,
         runnerVars
<1>2. ASSUME NEW q \in eventReqs, SaveEvent(q) PROVE TInv'
  <2>1. q \in EventReq /\ q.next \in 0..EventCount - 1
    BY <1>2 DEF TInv, TypeOK, SaveEvent, EventReq, MoreEvents
  <2>2. [q EXCEPT !.next = @ + 1] \in EventReq
    BY <2>1 DEF EventReq
  <2> QED BY <1>2, <2>1, <2>2 DEF TInv, TypeOK, RowsInserted, LaunchesWork, dashboardVars, SaveEvent, EventReq, jobVars,
         runnerVars
<1>3. ASSUME NEW q \in eventReqs, FinishEvents(q) PROVE TInv'
  BY <1>3 DEF TInv, TypeOK, RowsInserted, LaunchesWork, dashboardVars, FinishEvents, BecomesRunning, EventReq, Status, Active, runnerVars
<1>4. ASSUME NEW q \in eventReqs, AbandonEvents(q) PROVE TInv'
  BY <1>4 DEF TInv, TypeOK, RowsInserted, LaunchesWork, dashboardVars, AbandonEvents, jobVars, attemptVars, runnerVars
<1>5. ASSUME NEW a \in Attempts, NEW n \in 0..CheckpointCount - 1, ReceiveCheckpoint(a, n)
      PROVE  TInv'
  BY <1>5 DEF TInv, TypeOK, RowsInserted, LaunchesWork, dashboardVars, ReceiveCheckpoint, CheckpointReq, jobVars,
     attemptVars, runnerVars
<1>6. ASSUME NEW q \in checkpointReqs, SaveCheckpoint(q) PROVE TInv'
  BY <1>6 DEF TInv, TypeOK, RowsInserted, LaunchesWork, dashboardVars, SaveCheckpoint, CheckpointReq, NoCheckpoint,
     jobVars, runnerVars
<1>7. ASSUME NEW a \in Attempts, NEW o \in Outcomes, ReceiveTerminal(a, o) PROVE TInv'
  BY <1>7 DEF TInv, TypeOK, RowsInserted, LaunchesWork, dashboardVars, ReceiveTerminal, TerminalReq, jobVars,
     attemptVars, runnerVars
<1>8. ASSUME NEW q \in terminalReqs, Complete(q) PROVE TInv'
  <2>1. q.attempt \in Attempts /\ q.outcome \in Outcome /\ q.outcome.status \in Terminal
    BY DEF TInv, TypeOK, TerminalReq, Outcome
  <2>2. TypeOK'
    BY <1>8, <2>1 DEF TInv, TypeOK, Complete, Status, dashboardVars, runnerVars
  <2>3. RowsInserted' /\ LaunchesWork'
    BY <1>8, <2>1 DEF TInv, TypeOK, RowsInserted, LaunchesWork, dashboardVars, Complete, Active, Terminal, Unsuccessful
  <2> QED BY <2>2, <2>3 DEF TInv
<1> QED BY <1>1, <1>2, <1>3, <1>4, <1>5, <1>6, <1>7, <1>8 DEF AttemptRequests

LEMMA StutterTyped == TInv /\ UNCHANGED vars => TInv'
BY DEF TInv, TypeOK, RowsInserted, LaunchesWork, dashboardVars, vars, jobVars, attemptVars, runnerVars, requestVars

(* The type invariant is inductive with the order in which rows are        *)
(* inserted and the locks of the cancel transaction.                       *)
THEOREM Typed == Spec => []TInv
<1>1. TInv /\ [Next]_vars => TInv'
  BY DashboardTyped, LeasingTyped, AttemptRequestsTyped, StutterTyped DEF Next
<1> QED BY <1>1, InitTyped, PTL DEF Spec

(* Every variable of the queue keeps its type: in particular a job is      *)
(* inserted and leased within the rows there are, and an attempt only ever *)
(* has a status of the job_status enumeration.                             *)
THEOREM TypeCorrect == Spec => []TypeOK
<1>1. TInv => TypeOK
  BY DEF TInv
<1> QED BY <1>1, Typed, PTL

-----------------------------------------------------------------------------
(* Attempts are inserted in the order of their numbers, each for a job and *)
(* a runner, and every request about an attempt is about an inserted one.  *)
AttemptsInserted ==
  /\ \A a \in Attempts :
       IF a < nextAttempt
         THEN /\ attemptJob[a] \in Jobs /\ attemptRunner[a] \in Runners
              /\ attemptStatus[a] \in Active \cup Terminal
         ELSE /\ attemptJob[a] = NoJob /\ attemptRunner[a] = NoRunner
              /\ attemptStatus[a] = "absent"
  /\ \A q \in eventReqs \cup terminalReqs : q.attempt < nextAttempt

(* The inductive invariant.                                                *)
IInv ==
  /\ TInv /\ AttemptsInserted
  /\ OneActivePerRunner /\ JobFollowsAttempt
  /\ ResultMatchesOutcome /\ LeaseRespectsBinding

LEMMA InitSafe == Init => IInv
<1> SUFFICES ASSUME Init PROVE IInv
  OBVIOUS
<1>1. AttemptsInserted
  BY DEF Init, AttemptsInserted, Attempts
<1>2. OneActivePerRunner /\ JobFollowsAttempt
  BY DEF Init, OneActivePerRunner, JobFollowsAttempt, Active
<1>3. ResultMatchesOutcome /\ LeaseRespectsBinding
  BY DEF Init, ResultMatchesOutcome, LeaseRespectsBinding, Terminal, Unsuccessful
<1> QED BY <1>1, <1>2, <1>3, InitTyped DEF IInv

(* What a step may do to the jobs without disturbing any attempt: insert,  *)
(* or move a queued job to a terminal status.                              *)
JobsOnly ==
  /\ \A j \in Jobs :
       jobStatus[j] \in Active \cup Terminal =>
         /\ jobStatus'[j] = jobStatus[j]
         /\ row'[j] = row[j] /\ jobRunner'[j] = jobRunner[j]
  /\ \A j \in Jobs : jobStatus'[j] \in Active => jobStatus[j] \in Active
  /\ UNCHANGED <<attemptVars, eventReqs, terminalReqs>>

LEMMA JobsOnlySafe ==
  ASSUME IInv, TInv', JobsOnly
  PROVE  IInv'
<1> USE DEF IInv, attemptVars
<1>1. \A a \in Attempts : attemptStatus[a] # "absent" =>
        /\ attemptJob[a] \in Jobs
        /\ jobStatus[attemptJob[a]] \in Active \cup Terminal
  BY DEF AttemptsInserted, JobFollowsAttempt
<1>2. AttemptsInserted'
  BY DEF JobsOnly, AttemptsInserted
<1>3. OneActivePerRunner'
  BY DEF JobsOnly, OneActivePerRunner
<1>4. JobFollowsAttempt'
  BY <1>1 DEF JobsOnly, JobFollowsAttempt
<1>5. ResultMatchesOutcome'
  BY DEF JobsOnly, ResultMatchesOutcome
<1>6. LeaseRespectsBinding'
  BY <1>1 DEF JobsOnly, LeaseRespectsBinding
<1> QED BY <1>2, <1>3, <1>4, <1>5, <1>6

LEMMA InsertIsJobsOnly ==
  ASSUME TInv, NEW newRow, NEW r, Insert(newRow, r)
  PROVE  JobsOnly
<1>1. nextJob \in Jobs /\ jobStatus[nextJob] = "absent"
  BY RunnerJobsAssumption DEF TInv, TypeOK, RowsInserted, Insert, Jobs
<1> QED BY <1>1 DEF TInv, TypeOK, JobsOnly, Insert, Active, Terminal, Unsuccessful,
       requestVars, attemptVars

LEMMA DashboardEffect == IInv /\ Dashboard => JobsOnly
<1> SUFFICES ASSUME IInv, Dashboard PROVE JobsOnly
  OBVIOUS
<1> USE DEF IInv
<1>9. ASSUME NEW r \in Runners, NEW m \in Matrices, ReceiveLaunch(r, m) PROVE JobsOnly
  BY <1>9 DEF ReceiveLaunch, JobsOnly, attemptVars, requestVars
<1>1. ASSUME NEW q \in launchReqs, Launch(q) PROVE JobsOnly
  <2> DEFINE new == nextJob .. nextJob + Len(q.matrix) - 1
  <2>1. \A j \in Jobs : j \in new => jobStatus[j] = "absent"
    BY DEF TInv, TypeOK, RowsInserted, LaunchesWork, dashboardVars, Jobs
  <2>2. /\ \A j \in Jobs : j \notin new =>
             /\ jobStatus'[j] = jobStatus[j]
             /\ row'[j] = row[j] /\ jobRunner'[j] = jobRunner[j]
        /\ \A j \in Jobs : j \in new => jobStatus'[j] = "queued"
        /\ UNCHANGED <<attemptVars, eventReqs, terminalReqs>>
    BY <1>1 DEF Launch, requestVars
  <2> HIDE DEF new
  <2> QED BY <2>1, <2>2 DEF JobsOnly, Active, Terminal, Unsuccessful
<1>2. ASSUME NEW o \in Owners, NEW t \in Targets, NEW k \in Runners \cup {NoRunner},
             NEW fits \in BOOLEAN, Enqueue(o, t, k, fits)
      PROVE  JobsOnly
  BY <1>2, InsertIsJobsOnly DEF Enqueue
<1>3. ASSUME NEW j \in Jobs, Retry(j) PROVE JobsOnly
  BY <1>3, InsertIsJobsOnly DEF Retry
<1>4. ASSUME NEW j \in Jobs, CancelBegin(j) PROVE JobsOnly
  BY <1>4 DEF CancelBegin, JobsOnly, attemptVars, requestVars
<1>5. ASSUME NEW j \in Jobs, CancelEnd(j) PROVE JobsOnly
  BY <1>5 DEF CancelEnd, JobsOnly, TInv, TypeOK, RowsInserted, Active, Terminal,
     Unsuccessful, attemptVars, requestVars
<1>6. ASSUME NEW j \in Jobs, RequestCancellation(j) PROVE JobsOnly
  BY <1>6 DEF RequestCancellation, JobsOnly, attemptVars, requestVars
<1>7. ASSUME NEW r \in Runners, RevokeRunner(r) PROVE JobsOnly
  BY <1>7 DEF RevokeRunner, JobsOnly, jobVars, attemptVars, requestVars
<1>8. ASSUME NEW j \in Jobs, CancelAbort(j) PROVE JobsOnly
  BY <1>8 DEF CancelAbort, JobsOnly, attemptVars, requestVars
<1> QED BY <1>1, <1>2, <1>3, <1>4, <1>5, <1>6, <1>7, <1>8, <1>9 DEF Dashboard

(* What a claim does when it leases job j to the runner r of request q.    *)
Leases(q, j) ==
  /\ j \in Claimable(q) /\ RunnerCanClaim(q.runner) /\ ~HasActiveAttempt(q.runner)
  /\ nextAttempt <= MaxAttempts /\ nextAttempt' = nextAttempt + 1
  /\ jobStatus'[j] = "leased" /\ jobRunner'[j] = q.runner
  /\ \A k \in Jobs \ {j} :
       /\ jobRunner'[k] = jobRunner[k]
       /\ \/ jobStatus'[k] = jobStatus[k]
          \/ jobStatus[k] = "queued" /\ jobStatus'[k] = "failed"
  /\ attemptJob' = [attemptJob EXCEPT ![nextAttempt] = j]
  /\ attemptRunner' = [attemptRunner EXCEPT ![nextAttempt] = q.runner]
  /\ attemptStatus' = [attemptStatus EXCEPT ![nextAttempt] = "leased"]
  /\ UNCHANGED <<row, outcome, result, eventReqs, terminalReqs>>

LEMMA ClaimEffect ==
  ASSUME TInv, NEW q \in leaseReqs, NEW held, Claim(q, held)
  PROVE  JobsOnly \/ \E j \in Jobs : Leases(q, j)
<1> DEFINE r == q.runner
           allowed == RunnerCanClaim(r) /\ ~HasActiveAttempt(r)
           claimed == IF allowed THEN First(Claimable(q) \ held) ELSE {}
           failed == IF allowed THEN Rejected(q, claimed) \ held ELSE {}
<1>1. \A j \in claimed \cup failed : j \in Jobs /\ jobStatus[j] = "queued"
  BY DEF First, Claimable, Rejected, Candidates
<1>2. /\ jobStatus' = [j \in Jobs |-> IF j \in claimed THEN "leased"
                                      ELSE IF j \in failed THEN "failed" ELSE jobStatus[j]]
      /\ jobRunner' = [j \in Jobs |-> IF j \in claimed THEN r ELSE jobRunner[j]]
      /\ UNCHANGED <<row, outcome, result, eventReqs, terminalReqs, events, checkpoint>>
  BY DEF Claim
<1>3. IF claimed = {}
        THEN UNCHANGED <<nextAttempt, attemptJob, attemptRunner, attemptStatus>>
        ELSE /\ nextAttempt <= MaxAttempts /\ nextAttempt' = nextAttempt + 1
             /\ \E j \in claimed : attemptJob' = [attemptJob EXCEPT ![nextAttempt] = j]
             /\ attemptRunner' = [attemptRunner EXCEPT ![nextAttempt] = r]
             /\ attemptStatus' = [attemptStatus EXCEPT ![nextAttempt] = "leased"]
  BY DEF Claim
<1>4. claimed # {} => allowed /\ claimed \subseteq Claimable(q)
  BY DEF First
<1>5. \A i, j \in claimed : i = j
  <2>1. \A i, j \in First(Claimable(q) \ held) : i \in Jobs /\ j \in Jobs /\ i <= j /\ j <= i
    BY DEF First, Claimable, Candidates
  <2>2. \A i, j \in First(Claimable(q) \ held) : i = j
    <3>1. Jobs \subseteq Int
      BY DEF Jobs
    <3>2. \A i, j \in Int : i <= j /\ j <= i => i = j
      OBVIOUS
    <3> QED BY <2>1, <3>1, <3>2, Zenon
  <2> QED BY <2>2
<1> HIDE DEF claimed, failed
<1>6. CASE claimed = {}
  BY <1>1, <1>2, <1>3, <1>6 DEF JobsOnly, Active, Terminal, Unsuccessful, attemptVars
<1>7. CASE claimed # {}
  <2>1. PICK j \in claimed : attemptJob' = [attemptJob EXCEPT ![nextAttempt] = j]
    BY <1>3, <1>7
  <2>2. claimed = {j} /\ j \in Jobs
    BY <2>1, <1>1, <1>5
  <2>3. /\ jobStatus'[j] = "leased" /\ jobRunner'[j] = q.runner
        /\ \A k \in Jobs \ {j} :
             /\ jobRunner'[k] = jobRunner[k]
             /\ \/ jobStatus'[k] = jobStatus[k]
                \/ jobStatus[k] = "queued" /\ jobStatus'[k] = "failed"
    <3>1. jobStatus'[j] = "leased" /\ jobRunner'[j] = q.runner
      BY <1>2, <2>2
    <3>2. ASSUME NEW k \in Jobs \ {j}
          PROVE  /\ jobRunner'[k] = jobRunner[k]
                 /\ \/ jobStatus'[k] = jobStatus[k]
                    \/ jobStatus[k] = "queued" /\ jobStatus'[k] = "failed"
      <4>1. k \notin claimed
        BY <2>2
      <4>2. k \in failed => jobStatus[k] = "queued"
        BY <1>1
      <4> QED BY <1>2, <4>1, <4>2
    <3> QED BY <3>1, <3>2
  <2>4. j \in Claimable(q) /\ RunnerCanClaim(q.runner) /\ ~HasActiveAttempt(q.runner)
    BY <1>4, <1>7, <2>2
  <2>5. Leases(q, j)
    BY <1>2, <1>3, <1>7, <2>1, <2>3, <2>4 DEF Leases
  <2> QED BY <2>2, <2>5
<1> QED BY <1>6, <1>7

LEMMA LeasesSafe ==
  ASSUME IInv, TInv', NEW q \in leaseReqs, NEW j \in Jobs, Leases(q, j)
  PROVE  IInv'
<1> USE DEF IInv
<1>1. /\ nextAttempt \in Attempts /\ attemptStatus[nextAttempt] = "absent"
      /\ nextAttempt' = nextAttempt + 1 /\ q.runner \in Runners
  BY RunnerJobsAssumption
     DEF Leases, TInv, TypeOK, AttemptsInserted, Attempts, LeaseReq
<1>2. /\ jobStatus[j] = "queued" /\ row[j].owner = OwnerOf[q.runner]
      /\ row[j].target \in Hosted => row[j].sealedFor = q.runner /\ row[j].fits
  BY DEF Leases, Claimable, Candidates, ExecutionCanRunOnRunner
<1>3. \A a \in Attempts : attemptStatus[a] # "absent" =>
        /\ attemptJob[a] \in Jobs /\ attemptJob[a] # j /\ a # nextAttempt
        /\ jobStatus[attemptJob[a]] \in Active \cup Terminal
        /\ jobStatus[attemptJob[a]] # "queued"
  BY <1>1, <1>2 DEF AttemptsInserted, JobFollowsAttempt, Active, Terminal, Unsuccessful
<1>4. \A a \in Attempts : a # nextAttempt =>
        /\ attemptJob'[a] = attemptJob[a] /\ attemptRunner'[a] = attemptRunner[a]
        /\ attemptStatus'[a] = attemptStatus[a]
  BY DEF Leases, TInv, TypeOK
<1>5. /\ attemptJob'[nextAttempt] = j /\ attemptRunner'[nextAttempt] = q.runner
      /\ attemptStatus'[nextAttempt] = "leased"
  BY <1>1 DEF Leases, TInv, TypeOK
<1>6. AttemptsInserted'
  <2>1. \A a \in Attempts : a < nextAttempt' <=> a < nextAttempt \/ a = nextAttempt
    BY <1>1 DEF Attempts
  <2>2. \A k \in eventReqs \cup terminalReqs : k.attempt < nextAttempt'
    <3>1. \A k \in eventReqs \cup terminalReqs : k.attempt \in Attempts /\ k.attempt < nextAttempt
      BY DEF AttemptsInserted, TInv, TypeOK, EventReq, TerminalReq
    <3> QED BY <3>1, <2>1
  <2>3. nextAttempt \in Nat /\ ~(nextAttempt < nextAttempt)
    BY <1>1 DEF Attempts
  <2>4. ASSUME NEW a \in Attempts
        PROVE  IF a < nextAttempt'
                 THEN /\ attemptJob'[a] \in Jobs /\ attemptRunner'[a] \in Runners
                      /\ attemptStatus'[a] \in Active \cup Terminal
                 ELSE /\ attemptJob'[a] = NoJob /\ attemptRunner'[a] = NoRunner
                      /\ attemptStatus'[a] = "absent"
    BY <2>1, <2>3, <1>1, <1>4, <1>5 DEF AttemptsInserted, Active
  <2> QED BY <2>2, <2>4 DEF AttemptsInserted, Leases
<1>7. OneActivePerRunner'
  BY <1>1, <1>4, <1>5 DEF OneActivePerRunner, Leases, HasActiveAttempt
<1>8. JobFollowsAttempt'
  <2>1. \A a \in Attempts : attemptStatus'[a] # "absent" => jobStatus'[attemptJob'[a]] = attemptStatus'[a]
    BY <1>3, <1>4, <1>5 DEF JobFollowsAttempt, Leases
  <2>2. \A a, b \in Attempts : attemptJob'[a] = attemptJob'[b] /\ attemptJob'[a] # NoJob => a = b
    <3>1. \A a \in Attempts : a # nextAttempt => attemptJob'[a] # j
      <4>1. \A a \in Attempts : attemptStatus[a] = "absent" => attemptJob[a] = NoJob
        BY DEF AttemptsInserted, Active, Terminal, Unsuccessful
      <4>2. j # NoJob
        BY DEF Jobs, NoJob
      <4> QED BY <4>1, <4>2, <1>3, <1>4
    <3> QED BY <3>1, <1>4, <1>5 DEF JobFollowsAttempt
  <2>3. \A k \in Jobs : jobStatus'[k] \in Active => \E a \in Attempts : attemptJob'[a] = k
    <3> SUFFICES ASSUME NEW k \in Jobs, jobStatus'[k] \in Active
                 PROVE  \E a \in Attempts : attemptJob'[a] = k
      OBVIOUS
    <3>1. CASE k = j
      BY <3>1, <1>1, <1>5
    <3>2. CASE k # j
      <4>1. jobStatus[k] \in Active
        BY <3>2 DEF Leases, Active
      <4>2. PICK a \in Attempts : attemptJob[a] = k
        BY <4>1 DEF JobFollowsAttempt
      <4>3. a # nextAttempt
        BY <4>2, <1>1 DEF AttemptsInserted, NoJob, Jobs, Attempts
      <4> QED BY <4>2, <4>3, <1>4
    <3> QED BY <3>1, <3>2
  <2> QED BY <2>1, <2>2, <2>3 DEF JobFollowsAttempt
<1>9. ResultMatchesOutcome'
  BY <1>1, <1>4, <1>5 DEF ResultMatchesOutcome, Leases, Terminal, Unsuccessful, HasResult
<1>10. LeaseRespectsBinding'
  BY <1>2, <1>3, <1>4, <1>5 DEF LeaseRespectsBinding, Leases
<1> QED BY <1>6, <1>7, <1>8, <1>9, <1>10

LEMMA LeasingEffect ==
  IInv /\ Leasing => JobsOnly \/ \E q \in leaseReqs, j \in Jobs : Leases(q, j)
<1> SUFFICES ASSUME IInv, Leasing
             PROVE  JobsOnly \/ \E q \in leaseReqs, j \in Jobs : Leases(q, j)
  OBVIOUS
<1>1. ASSUME NEW r \in Runners, NEW i \in Inventories, ReceiveHeartbeat(r, i) PROVE JobsOnly
  BY <1>1 DEF ReceiveHeartbeat, JobsOnly, jobVars, attemptVars
<1>2. ASSUME NEW q \in beatReqs, RecordHeartbeat(q) PROVE JobsOnly
  BY <1>2 DEF RecordHeartbeat, JobsOnly, jobVars, attemptVars
<1>3. ASSUME NEW r \in Runners, ReceiveLease(r) PROVE JobsOnly
  BY <1>3 DEF ReceiveLease, JobsOnly, jobVars, attemptVars
<1>4. ASSUME NEW q \in leaseReqs, ClaimNext(q)
      PROVE  JobsOnly \/ \E j \in Jobs : Leases(q, j)
  BY <1>4, ClaimEffect DEF IInv, ClaimNext
<1> QED BY <1>1, <1>2, <1>3, <1>4 DEF Leasing

(* What a step may do to the requests alone.                               *)
RequestsOnly ==
  /\ UNCHANGED <<row, jobStatus, jobRunner, nextAttempt, attemptJob, attemptRunner,
                 attemptStatus, outcome, result>>
  /\ \A q \in (eventReqs \cup terminalReqs)' : q.attempt < nextAttempt

(* What a step does when it moves attempt a and its job from an active     *)
(* status to status s, recording the outcome if s is terminal.             *)
Moves(a, s) ==
  /\ attemptStatus[a] \in Active
  /\ attemptStatus' = [attemptStatus EXCEPT ![a] = s]
  /\ jobStatus' = [jobStatus EXCEPT ![attemptJob[a]] = s]
  /\ \/ s \in Active /\ UNCHANGED <<outcome, result>>
     \/ \E o \in Outcomes :
          /\ s = o.status /\ outcome' = [outcome EXCEPT ![a] = o]
          /\ result' = [result EXCEPT ![a] = IF HasResult(o) THEN o ELSE @]
  /\ UNCHANGED <<row, jobRunner, nextAttempt, attemptJob, attemptRunner>>
  /\ \A q \in (eventReqs \cup terminalReqs)' : q.attempt < nextAttempt

LEMMA RequestsOnlySafe ==
  ASSUME IInv, TInv', RequestsOnly
  PROVE  IInv'
BY DEF IInv, RequestsOnly, AttemptsInserted, OneActivePerRunner, JobFollowsAttempt,
   ResultMatchesOutcome, LeaseRespectsBinding

LEMMA MovesSafe ==
  ASSUME IInv, TInv', NEW a \in Attempts, NEW s, Moves(a, s)
  PROVE  IInv'
<1> USE DEF IInv
<1>1. s \in Active \cup Terminal
  BY RunnerJobsAssumption DEF Moves, Outcome
<1>2. /\ attemptStatus[a] \in Active /\ attemptStatus[a] # "absent"
      /\ attemptJob[a] \in Jobs /\ jobStatus[attemptJob[a]] = attemptStatus[a]
  BY DEF Moves, AttemptsInserted, JobFollowsAttempt, Active
<1>3. /\ attemptStatus'[a] = s /\ jobStatus'[attemptJob[a]] = s
      /\ \A b \in Attempts : b # a => attemptStatus'[b] = attemptStatus[b]
      /\ \A j \in Jobs : j # attemptJob[a] => jobStatus'[j] = jobStatus[j]
  BY <1>2 DEF Moves, TInv, TypeOK
<1>4. UNCHANGED <<row, jobRunner, nextAttempt, attemptJob, attemptRunner>>
  BY DEF Moves
<1>5. \A b \in Attempts : attemptStatus'[b] # "absent" <=> attemptStatus[b] # "absent"
  BY <1>1, <1>2, <1>3 DEF Active, Terminal, Unsuccessful
<1>6. \A b \in Attempts : b # a /\ attemptStatus[b] # "absent" =>
        attemptJob[b] \in Jobs /\ attemptJob[b] # attemptJob[a]
  BY <1>2 DEF AttemptsInserted, JobFollowsAttempt, NoJob, Jobs
<1>7. AttemptsInserted'
  <2>1. \A q \in (eventReqs \cup terminalReqs)' : q.attempt < nextAttempt
    BY DEF Moves
  <2>2. ASSUME NEW b \in Attempts
        PROVE  IF b < nextAttempt
                 THEN attemptStatus'[b] \in Active \cup Terminal
                 ELSE attemptStatus'[b] = "absent"
    <3>1. CASE b = a
      BY <3>1, <1>1, <1>2, <1>3 DEF AttemptsInserted
    <3>2. CASE b # a
      BY <3>2, <1>3 DEF AttemptsInserted
    <3> QED BY <3>1, <3>2
  <2> QED BY <2>1, <2>2, <1>4 DEF AttemptsInserted
<1>8. OneActivePerRunner'
  BY <1>2, <1>3, <1>4 DEF OneActivePerRunner
<1>9. JobFollowsAttempt'
  <2>1. \A b \in Attempts : attemptStatus'[b] # "absent" => jobStatus'[attemptJob'[b]] = attemptStatus'[b]
    BY <1>3, <1>4, <1>5, <1>6 DEF JobFollowsAttempt
  <2>2. \A j \in Jobs : jobStatus'[j] \in Active => \E b \in Attempts : attemptJob'[b] = j
    BY <1>3, <1>4 DEF JobFollowsAttempt
  <2> QED BY <2>1, <2>2, <1>4 DEF JobFollowsAttempt
<1>10. ResultMatchesOutcome'
  <2>1. \A b \in Attempts : b # a => outcome'[b] = outcome[b] /\ result'[b] = result[b]
    BY DEF Moves, TInv, TypeOK
  <2>2. outcome[a] = NoOutcome /\ result[a] = NoOutcome
    BY <1>2 DEF ResultMatchesOutcome, Active, Terminal, Unsuccessful
  <2>3. CASE s \in Active /\ UNCHANGED <<outcome, result>>
    BY <2>1, <2>2, <2>3, <1>3 DEF ResultMatchesOutcome, Active, Terminal, Unsuccessful
  <2>4. ASSUME NEW o \in Outcomes, s = o.status, outcome' = [outcome EXCEPT ![a] = o],
               result' = [result EXCEPT ![a] = IF HasResult(o) THEN o ELSE @]
        PROVE  ResultMatchesOutcome'
    <3>1. outcome'[a] = o /\ result'[a] = IF HasResult(o) THEN o ELSE NoOutcome
      BY <2>2, <2>4 DEF TInv, TypeOK
    <3>2. s \in Terminal /\ o # NoOutcome
      BY <2>4, RunnerJobsAssumption DEF Outcome
    <3> QED BY <2>1, <2>4, <3>1, <3>2, <1>3 DEF ResultMatchesOutcome, HasResult
  <2> QED BY <2>3, <2>4 DEF Moves
<1>11. LeaseRespectsBinding'
  BY <1>4, <1>5 DEF LeaseRespectsBinding
<1> QED BY <1>7, <1>8, <1>9, <1>10, <1>11

LEMMA AttemptRequestsEffect ==
  IInv /\ AttemptRequests =>
    RequestsOnly \/ \E a \in Attempts, s \in Status : Moves(a, s)
<1> SUFFICES ASSUME IInv, AttemptRequests
             PROVE  RequestsOnly \/ \E a \in Attempts, s \in Status : Moves(a, s)
  OBVIOUS
<1> USE DEF IInv
<1>1. \A q \in eventReqs \cup terminalReqs :
        /\ q.attempt \in Attempts /\ q.attempt < nextAttempt
        /\ attemptJob[q.attempt] \in Jobs
        /\ attemptStatus[q.attempt] \in Active \cup Terminal
        /\ jobStatus[attemptJob[q.attempt]] = attemptStatus[q.attempt]
  BY DEF AttemptsInserted, JobFollowsAttempt, TInv, TypeOK, EventReq, TerminalReq, Active,
     Terminal, Unsuccessful
<1>2. ASSUME NEW a \in Attempts, NEW f \in 0..EventCount - 1, NEW l \in 0..EventCount - 1,
             ReceiveEvents(a, f, l)
      PROVE  RequestsOnly
  BY <1>1, <1>2 DEF ReceiveEvents, Authorized, RequestsOnly, jobVars, attemptVars
<1>3. ASSUME NEW q \in eventReqs, SaveEvent(q) PROVE RequestsOnly
  <2>1. [q EXCEPT !.next = @ + 1].attempt = q.attempt
    BY DEF TInv, TypeOK, EventReq
  <2> QED BY <1>1, <1>3, <2>1 DEF SaveEvent, RequestsOnly, jobVars
<1>4. ASSUME NEW q \in eventReqs, FinishEvents(q)
      PROVE  RequestsOnly \/ Moves(q.attempt, "running")
  <2> DEFINE a == q.attempt
             j == attemptJob[a]
  <2>1. CASE q.leased /\ attemptStatus[a] = "leased"
    BY <1>1, <1>4, <2>1 DEF FinishEvents, BecomesRunning, Moves, Active
  <2>2. CASE ~(q.leased /\ attemptStatus[a] = "leased")
    <3>1. attemptStatus' = attemptStatus /\ jobStatus' = jobStatus
      BY <1>1, <1>4, <2>2 DEF FinishEvents, BecomesRunning, TInv, TypeOK
    <3> QED BY <1>1, <1>4, <3>1 DEF FinishEvents, RequestsOnly
  <2> QED BY <2>1, <2>2
<1>5. ASSUME NEW q \in eventReqs, AbandonEvents(q) PROVE RequestsOnly
  BY <1>1, <1>5 DEF AbandonEvents, RequestsOnly, jobVars, attemptVars
<1>6. ASSUME NEW a \in Attempts, NEW n \in 0..CheckpointCount - 1, ReceiveCheckpoint(a, n)
      PROVE  RequestsOnly
  BY <1>1, <1>6 DEF ReceiveCheckpoint, RequestsOnly, jobVars, attemptVars
<1>7. ASSUME NEW q \in checkpointReqs, SaveCheckpoint(q) PROVE RequestsOnly
  BY <1>1, <1>7 DEF SaveCheckpoint, RequestsOnly, jobVars
<1>8. ASSUME NEW a \in Attempts, NEW o \in Outcomes, ReceiveTerminal(a, o)
      PROVE  RequestsOnly
  BY <1>1, <1>8 DEF ReceiveTerminal, Authorized, RequestsOnly, jobVars, attemptVars
<1>9. ASSUME NEW q \in terminalReqs, Complete(q)
      PROVE  RequestsOnly \/ Moves(q.attempt, q.outcome.status)
  <2> DEFINE a == q.attempt
             j == attemptJob[a]
  <2>1. q.outcome \in Outcomes
    BY DEF TInv, TypeOK, TerminalReq
  <2>2. CASE attemptStatus[a] \in Active
    <3>1. /\ attemptStatus' = [attemptStatus EXCEPT ![a] = q.outcome.status]
          /\ jobStatus' = [jobStatus EXCEPT ![j] = q.outcome.status]
      BY <1>1, <1>9, <2>2 DEF Complete
    <3>2. /\ outcome' = [outcome EXCEPT ![a] = q.outcome]
          /\ result' = [result EXCEPT ![a] = IF HasResult(q.outcome) THEN q.outcome ELSE @]
      BY <1>9, <2>2 DEF Complete, PersistsResult
    <3> QED BY <1>1, <1>9, <2>1, <2>2, <3>1, <3>2 DEF Complete, Moves
  <2>3. CASE attemptStatus[a] \notin Active
    <3>1. /\ attemptStatus' = attemptStatus /\ jobStatus' = jobStatus
          /\ outcome' = outcome /\ result' = result
      BY <1>1, <1>9, <2>3 DEF Complete, PersistsResult, TInv, TypeOK
    <3> QED BY <1>1, <1>9, <3>1 DEF Complete, RequestsOnly
  <2> QED BY <2>2, <2>3
<1>10. \A q \in eventReqs \cup terminalReqs : q.attempt \in Attempts
  BY <1>1
<1>11. /\ "running" \in Status
       /\ \A q \in terminalReqs : q.outcome.status \in Status
  BY RunnerJobsAssumption DEF Status, Active, TInv, TypeOK, TerminalReq, Outcome
<1> QED BY <1>2, <1>3, <1>4, <1>5, <1>6, <1>7, <1>8, <1>9, <1>10, <1>11
        DEF AttemptRequests

LEMMA StutterEffect == IInv /\ UNCHANGED vars => RequestsOnly
BY DEF IInv, AttemptsInserted, RequestsOnly, vars, jobVars, attemptVars, requestVars

(* Every step is one of four kinds.                                        *)
LEMMA StepEffect ==
  ASSUME IInv, [Next]_vars
  PROVE  \/ JobsOnly
         \/ RequestsOnly
         \/ \E q \in leaseReqs, j \in Jobs : Leases(q, j)
         \/ \E a \in Attempts, s \in Status : Moves(a, s)
BY DashboardEffect, LeasingEffect, AttemptRequestsEffect, StutterEffect DEF Next

(* The inductive invariant holds: jobs and attempts are inserted in order, *)
(* and the four safety properties support each other.                      *)
THEOREM Inductive == Spec => []IInv
<1>1. IInv /\ [Next]_vars => IInv'
  <2> SUFFICES ASSUME IInv, [Next]_vars PROVE IInv'
    OBVIOUS
  <2>1. TInv'
    BY DashboardTyped, LeasingTyped, AttemptRequestsTyped, StutterTyped DEF Next, IInv
  <2> QED BY <2>1, StepEffect, JobsOnlySafe, RequestsOnlySafe, LeasesSafe, MovesSafe
<1> QED BY <1>1, InitSafe, PTL DEF Spec

(* However many lease requests of a runner are inside the server, and      *)
(* however old the row they authenticated with is, the runner never has    *)
(* two active attempts.                                                    *)
THEOREM OneActive == Spec => []OneActivePerRunner
<1>1. IInv => OneActivePerRunner
  BY DEF IInv
<1> QED BY <1>1, Inductive, PTL

(* The job and the attempt rows, updated by conditional statements of      *)
(* different handlers, never disagree, and no job is attempted twice.      *)
THEOREM RowsAgree == Spec => []JobFollowsAttempt
<1>1. IInv => JobFollowsAttempt
  BY DEF IInv
<1> QED BY <1>1, Inductive, PTL

(* A result row exists exactly for the terminal request that decided the   *)
(* attempt, whatever other terminal requests arrive.                       *)
THEOREM ResultFaithful == Spec => []ResultMatchesOutcome
<1>1. IInv => ResultMatchesOutcome
  BY DEF IInv
<1> QED BY <1>1, Inductive, PTL

(* No job is leased across accounts, nor away from the runner that can     *)
(* open its credential.                                                    *)
THEOREM BindingRespected == Spec => []LeaseRespectsBinding
<1>1. IInv => LeaseRespectsBinding
  BY DEF IInv
<1> QED BY <1>1, Inductive, PTL

-----------------------------------------------------------------------------
(* The part of a step that concerns the runners' rows.                     *)
LEMMA RunnersEffect ==
  ASSUME TInv, [Next]_vars
  PROVE  \/ UNCHANGED <<runnerStatus, revoked>>
         \/ \E r \in Runners : RevokeRunner(r)
         \/ \E q \in beatReqs : RecordHeartbeat(q)
BY DEF Next, Dashboard, ReceiveLaunch, Launch, Enqueue, Insert, Retry, RequestCancellation,
   CancelBegin, CancelEnd, CancelAbort, Leasing, ReceiveHeartbeat, ReceiveLease, ClaimNext, Claim,
   AttemptRequests, ReceiveEvents, SaveEvent, FinishEvents, AbandonEvents,
   ReceiveCheckpoint, SaveCheckpoint, ReceiveTerminal, Complete, vars, runnerVars

(* A heartbeat that was authenticated before a revocation never brings the *)
(* runner back online.                                                     *)
THEOREM RevocationHolds == Spec => []RevokedStaysDisabled
<1>1. Init => RevokedStaysDisabled
  BY DEF Init, RevokedStaysDisabled
<1>2. TInv /\ RevokedStaysDisabled /\ [Next]_vars => RevokedStaysDisabled'
  <2> SUFFICES ASSUME TInv, RevokedStaysDisabled, [Next]_vars
               PROVE  RevokedStaysDisabled'
    OBVIOUS
  <2>1. CASE UNCHANGED <<runnerStatus, revoked>>
    BY <2>1 DEF RevokedStaysDisabled
  <2>2. ASSUME NEW r \in Runners, RevokeRunner(r) PROVE RevokedStaysDisabled'
    BY <2>2 DEF RevokeRunner, RevokedStaysDisabled, TInv, TypeOK
  <2>3. ASSUME NEW q \in beatReqs, RecordHeartbeat(q) PROVE RevokedStaysDisabled'
    BY <2>3 DEF RecordHeartbeat, AcceptsHeartbeat, RevokedStaysDisabled, TInv, TypeOK
  <2> QED BY <2>1, <2>2, <2>3, RunnersEffect
<1> QED BY <1>1, <1>2, Typed, PTL DEF Spec

(* An attempt is inserted only for a runner that is not revoked, however   *)
(* long ago its lease request was authenticated.                           *)
THEOREM RevokedObtainsNothing == Spec => NoLeaseAfterRevoke
<1> DEFINE Fresh(a) == attemptStatus[a] = "absent" /\ attemptStatus'[a] # "absent"
                         => ~revoked[attemptRunner'[a]]
<1>1. ASSUME IInv, [Next]_vars, NEW a \in Attempts PROVE Fresh(a)
  <2>1. CASE JobsOnly
    BY <2>1 DEF JobsOnly, attemptVars
  <2>2. CASE RequestsOnly
    BY <2>2 DEF RequestsOnly
  <2>3. ASSUME NEW q \in leaseReqs, NEW j \in Jobs, Leases(q, j) PROVE Fresh(a)
    BY <1>1, <2>3 DEF Leases, RunnerCanClaim, IInv, TInv, TypeOK
  <2>4. ASSUME NEW b \in Attempts, NEW s \in Status, Moves(b, s) PROVE Fresh(a)
    BY <1>1, <2>4 DEF Moves, Active, IInv, TInv, TypeOK
  <2> QED BY <1>1, <2>1, <2>2, <2>3, <2>4, StepEffect
<1>2. IInv /\ [Next]_vars => [\A a \in Attempts : Fresh(a)]_vars
  BY <1>1
<1> QED BY <1>2, Inductive, PTL DEF Spec, NoLeaseAfterRevoke

(* A checkpoint moves only forward, and only of an active attempt.         *)
LEMMA CheckpointEffect ==
  ASSUME TInv, [Next]_vars, NEW a \in Attempts
  PROVE  \/ checkpoint'[a] = checkpoint[a]
         \/ attemptStatus[a] \in Active /\ checkpoint[a] < checkpoint'[a]
<1>1. UNCHANGED checkpoint \/ \E q \in checkpointReqs : SaveCheckpoint(q)
  BY DEF Next, Dashboard, ReceiveLaunch, Launch, Enqueue, Insert, Retry,
     RequestCancellation, CancelBegin, CancelEnd, CancelAbort, RevokeRunner, Leasing,
     ReceiveHeartbeat, RecordHeartbeat, ReceiveLease, ClaimNext, Claim, AttemptRequests,
     ReceiveEvents, SaveEvent, FinishEvents, AbandonEvents, ReceiveCheckpoint,
     ReceiveTerminal, Complete, vars, attemptVars
<1>2. ASSUME NEW q \in checkpointReqs, SaveCheckpoint(q)
      PROVE  \/ checkpoint'[a] = checkpoint[a]
             \/ attemptStatus[a] \in Active /\ checkpoint[a] < checkpoint'[a]
  BY <1>2 DEF SaveCheckpoint, Advances, TInv, TypeOK
<1> QED BY <1>1, <1>2

(* No delayed or repeated request replaces a newer checkpoint.             *)
THEOREM CheckpointMonotonic == Spec => CheckpointNeverRegresses
<1>1. TInv /\ [Next]_vars => [\A a \in Attempts : checkpoint[a] <= checkpoint'[a]]_vars
  <2> SUFFICES ASSUME TInv, [Next]_vars, NEW a \in Attempts
               PROVE  checkpoint[a] <= checkpoint'[a]
    OBVIOUS
  <2>1. checkpoint[a] \in Int
    BY RunnerJobsAssumption DEF TInv, TypeOK, NoCheckpoint
  <2>2. checkpoint'[a] \in Int
    BY RunnerJobsAssumption, DashboardTyped, LeasingTyped, AttemptRequestsTyped, StutterTyped
       DEF Next, TInv, TypeOK, NoCheckpoint
  <2> QED BY <2>1, <2>2, CheckpointEffect
<1> QED BY <1>1, Typed, PTL DEF Spec, CheckpointNeverRegresses

(* Nothing of a terminal job or attempt is written again.                  *)
THEOREM TerminalHolds == Spec => TerminalIsFinal
<1> DEFINE JobKept(j) == jobStatus[j] \in Terminal => jobStatus'[j] = jobStatus[j]
           AttemptKept(a) ==
             attemptStatus[a] \in Terminal =>
               /\ attemptStatus'[a] = attemptStatus[a]
               /\ outcome'[a] = outcome[a] /\ result'[a] = result[a]
               /\ checkpoint'[a] = checkpoint[a]
           Kept == (\A j \in Jobs : JobKept(j)) /\ \A a \in Attempts : AttemptKept(a)
<1>1. ASSUME IInv, [Next]_vars PROVE Kept
  <2>1. TInv /\ \A a \in Attempts : attemptStatus[a] \in Terminal =>
                   attemptStatus[a] \notin Active /\ attemptStatus[a] # "absent"
    BY <1>1 DEF IInv, Active, Terminal, Unsuccessful
  <2>2. \A a \in Attempts : attemptStatus[a] \in Terminal => checkpoint'[a] = checkpoint[a]
    BY <1>1, <2>1, CheckpointEffect
  <2>3. CASE JobsOnly
    BY <2>2, <2>3 DEF JobsOnly, attemptVars
  <2>4. CASE RequestsOnly
    BY <2>2, <2>4 DEF RequestsOnly
  <2>5. ASSUME NEW q \in leaseReqs, NEW j \in Jobs, Leases(q, j) PROVE Kept
    <3>1. jobStatus[j] = "queued" /\ "queued" \notin Terminal
      BY <2>5 DEF Leases, Claimable, Candidates, Terminal, Unsuccessful
    <3>2. \A k \in Jobs : JobKept(k)
      BY <2>5, <3>1 DEF Leases
    <3>3. nextAttempt \in Attempts /\ attemptStatus[nextAttempt] = "absent"
      BY <1>1, <2>5, RunnerJobsAssumption
         DEF Leases, IInv, TInv, TypeOK, AttemptsInserted, Attempts
    <3>4. \A a \in Attempts : a # nextAttempt => attemptStatus'[a] = attemptStatus[a]
      BY <2>5 DEF Leases
    <3> QED BY <2>1, <2>2, <2>5, <3>2, <3>3, <3>4 DEF Leases
  <2>6. ASSUME NEW b \in Attempts, NEW s \in Status, Moves(b, s) PROVE Kept
    <3>1. attemptStatus[b] \in Active /\ jobStatus[attemptJob[b]] \in Active
      BY <1>1, <2>6 DEF Moves, IInv, JobFollowsAttempt, Active
    <3>2. \A j \in Jobs : j # attemptJob[b] => jobStatus'[j] = jobStatus[j]
      BY <2>6 DEF Moves
    <3>3. \A j \in Jobs : JobKept(j)
      BY <3>1, <3>2 DEF Active, Terminal, Unsuccessful
    <3>4. \A a \in Attempts : a # b => /\ attemptStatus'[a] = attemptStatus[a]
                                       /\ outcome'[a] = outcome[a] /\ result'[a] = result[a]
      BY <1>1, <2>6 DEF Moves, IInv, TInv, TypeOK
    <3> QED BY <2>1, <2>2, <3>1, <3>3, <3>4
  <2> QED BY <1>1, <2>3, <2>4, <2>5, <2>6, StepEffect
<1>2. IInv /\ [Next]_vars => [Kept]_vars
  BY <1>1
<1> QED BY <1>2, Inductive, PTL DEF Spec, TerminalIsFinal

-----------------------------------------------------------------------------
(***************************************************************************)
(* What the dashboard asks of the queue: cancellations are not lost, a job *)
(* has one open retry, a launch keeps its order; and the theorem that all  *)
(* of it is the job queue that JobLifecycle describes.                     *)
(***************************************************************************)

(* What a step that neither inserts nor claims may do to the jobs: start   *)
(* or end them.                                                            *)
Settles ==
  /\ UNCHANGED <<nextJob, row, jobRunner>>
  /\ \A j \in Jobs :
       \/ jobStatus'[j] = jobStatus[j]
       \/ jobStatus[j] \in Open /\ jobStatus'[j] \in Terminal \cup {"running"}

(* What an insertion puts in the new row.                                  *)
Inserts(newRow, r) ==
  /\ Insert(newRow, r)
  /\ \/ newRow.retryOf = NoJob /\ newRow.experiment = nextJob
     \/ \E k \in Jobs : Retry(k) /\ newRow = [row[k] EXCEPT !.retryOf = k]

LEMMA EnqueueInserts ==
  ASSUME IInv, NEW o \in Owners, NEW t \in Targets, NEW s \in Runners \cup {NoRunner},
         NEW fits \in BOOLEAN, Enqueue(o, t, s, fits)
  PROVE  \E newRow \in Row, r \in Runners \cup {NoRunner} : Inserts(newRow, r)
<1> DEFINE new == [owner |-> o, target |-> t, sealedFor |-> s, fits |-> fits,
                   retryOf |-> NoJob, experiment |-> nextJob]
<1>1. new \in Row
  BY RunnerJobsAssumption DEF IInv, TInv, Enqueue, Insert, TypeOK, Row, Jobs
<1>2. Inserts(new, NoRunner)
  BY DEF Enqueue, Inserts
<1> QED BY <1>1, <1>2

LEMMA RetryInserts ==
  ASSUME IInv, NEW j \in Jobs, Retry(j)
  PROVE  \E newRow \in Row, r \in Runners \cup {NoRunner} : Inserts(newRow, r)
<1> DEFINE new == [row[j] EXCEPT !.retryOf = j]
<1>1. new \in Row
  <2>1. row[j] \in Row
    BY DEF IInv, TInv, Retry, RowsInserted, Unsuccessful
  <2> QED BY <2>1 DEF Row
<1>2. Inserts(new, jobRunner[j]) /\ jobRunner[j] \in Runners \cup {NoRunner}
  BY DEF IInv, TInv, Retry, Inserts, TypeOK
<1> QED BY <1>1, <1>2

LEMMA DashboardRows ==
  ASSUME IInv, Dashboard
  PROVE  \/ \E q \in launchReqs : Launch(q)
         \/ \E newRow \in Row, r \in Runners \cup {NoRunner} : Inserts(newRow, r)
         \/ Settles
<1> USE DEF IInv, TInv
<1>1. ASSUME NEW o \in Owners, NEW t \in Targets, NEW s \in Runners \cup {NoRunner},
             NEW fits \in BOOLEAN, Enqueue(o, t, s, fits)
      PROVE  \E newRow \in Row, r \in Runners \cup {NoRunner} : Inserts(newRow, r)
  BY <1>1, EnqueueInserts
<1>2. ASSUME NEW j \in Jobs, Retry(j)
      PROVE  \E newRow \in Row, r \in Runners \cup {NoRunner} : Inserts(newRow, r)
  BY <1>2, RetryInserts
<1>3. ASSUME NEW j \in Jobs, CancelEnd(j) PROVE Settles
  BY <1>3 DEF CancelEnd, Settles, TypeOK, RowsInserted, Open, Terminal, Unsuccessful
<1>4. ASSUME NEW j \in Jobs, CancelBegin(j) \/ CancelAbort(j) \/ RequestCancellation(j)
      PROVE  Settles
  BY <1>4 DEF CancelBegin, CancelAbort, RequestCancellation, Settles
<1>5. ASSUME NEW r \in Runners, NEW m \in Matrices, ReceiveLaunch(r, m) PROVE Settles
  BY <1>5 DEF ReceiveLaunch, Settles
<1>6. ASSUME NEW r \in Runners, RevokeRunner(r) PROVE Settles
  BY <1>6 DEF RevokeRunner, Settles, jobVars
<1> QED BY <1>1, <1>2, <1>3, <1>4, <1>5, <1>6 DEF Dashboard

LEMMA AttemptRequestsRows == IInv /\ AttemptRequests => Settles
<1> SUFFICES ASSUME IInv, AttemptRequests PROVE Settles
  OBVIOUS
<1> USE DEF IInv, TInv
<1>1. ASSUME NEW q \in eventReqs, FinishEvents(q) PROVE Settles
  <2>1. q.attempt < nextAttempt /\ q.attempt \in Attempts
    BY DEF AttemptsInserted, TypeOK, EventReq
  <2>2. attemptStatus[q.attempt] = "leased" => jobStatus[attemptJob[q.attempt]] = "leased"
    BY <2>1 DEF AttemptsInserted, JobFollowsAttempt
  <2> QED BY <1>1, <2>1, <2>2
          DEF FinishEvents, BecomesRunning, Settles, TypeOK, Open, Active
<1>2. ASSUME NEW q \in terminalReqs, Complete(q) PROVE Settles
  <2>1. q.outcome.status \in Terminal
    BY RunnerJobsAssumption DEF TypeOK, TerminalReq, Outcome
  <2> QED BY <1>2, <2>1 DEF Complete, Settles, TypeOK, Open
<1>3. ASSUME NEW a \in Attempts,
             \/ \E f, l \in 0..EventCount - 1 : ReceiveEvents(a, f, l)
             \/ \E n \in 0..CheckpointCount - 1 : ReceiveCheckpoint(a, n)
             \/ \E o \in Outcomes : ReceiveTerminal(a, o)
      PROVE  Settles
  BY <1>3 DEF ReceiveEvents, ReceiveCheckpoint, ReceiveTerminal, Settles, jobVars
<1>4. ASSUME NEW q \in eventReqs, SaveEvent(q) \/ AbandonEvents(q) PROVE Settles
  BY <1>4 DEF SaveEvent, AbandonEvents, Settles, jobVars
<1>5. ASSUME NEW q \in checkpointReqs, SaveCheckpoint(q) PROVE Settles
  BY <1>5 DEF SaveCheckpoint, Settles, jobVars
<1> QED BY <1>1, <1>2, <1>3, <1>4, <1>5 DEF AttemptRequests

LEMMA LeasingRows ==
  Leasing => Settles \/ \E q \in leaseReqs : \E held \in SUBSET HeldByClaims(q) : Claim(q, held)
BY DEF Leasing, ReceiveHeartbeat, RecordHeartbeat, ReceiveLease, ClaimNext, Settles, jobVars

(* A step launches, inserts one job, claims, or starts and ends jobs.      *)
LEMMA RowsEffect ==
  ASSUME IInv, [Next]_vars
  PROVE  \/ \E q \in launchReqs : Launch(q)
         \/ \E newRow \in Row, r \in Runners \cup {NoRunner} : Inserts(newRow, r)
         \/ \E q \in leaseReqs : \E held \in SUBSET HeldByClaims(q) : Claim(q, held)
         \/ Settles
<1>1. UNCHANGED vars => Settles
  BY DEF vars, jobVars, Settles
<1> QED BY <1>1, DashboardRows, AttemptRequestsRows, LeasingRows DEF Next

(* A claim touches queued jobs only.                                       *)
LEMMA ClaimRows ==
  ASSUME IInv, NEW q \in leaseReqs, NEW held \in SUBSET HeldByClaims(q), Claim(q, held)
  PROVE  /\ UNCHANGED <<nextJob, row, launchReqs>>
         /\ \A j \in Jobs :
              \/ jobStatus'[j] = jobStatus[j] /\ jobRunner'[j] = jobRunner[j]
              \/ /\ j \in Candidates(q.runner)
                 /\ \/ jobStatus'[j] = "failed" /\ jobRunner'[j] = jobRunner[j]
                    \/ jobStatus'[j] = "leased" /\ jobRunner'[j] = q.runner
<1> DEFINE r == q.runner
           allowed == RunnerCanClaim(r) /\ ~HasActiveAttempt(r)
           claimed == IF allowed THEN First(Claimable(q) \ held) ELSE {}
           failed == IF allowed THEN Rejected(q, claimed) \ held ELSE {}
<1>1. claimed \subseteq Candidates(r) /\ failed \subseteq Candidates(r)
  BY DEF First, Claimable, Rejected
<1>2. /\ jobStatus' = [j \in Jobs |-> IF j \in claimed THEN "leased"
                                      ELSE IF j \in failed THEN "failed" ELSE jobStatus[j]]
      /\ jobRunner' = [j \in Jobs |-> IF j \in claimed THEN r ELSE jobRunner[j]]
      /\ UNCHANGED <<nextJob, row, launchReqs>>
  BY DEF Claim, dashboardVars
<1> HIDE DEF claimed, failed
<1> QED BY <1>1, <1>2

(* The rows that are there before an insertion stay as they are.           *)
LEMMA InsertRows ==
  ASSUME IInv, NEW newRow \in Row, NEW r \in Runners \cup {NoRunner}, Inserts(newRow, r)
  PROVE  /\ nextJob \in Jobs /\ jobStatus[nextJob] = "absent" /\ nextJob' = nextJob + 1
         /\ row'[nextJob] = newRow /\ jobStatus'[nextJob] = "queued"
         /\ \A j \in Jobs \ {nextJob} :
              /\ row'[j] = row[j] /\ jobStatus'[j] = jobStatus[j]
              /\ jobRunner'[j] = jobRunner[j]
         /\ UNCHANGED launchReqs
BY RunnerJobsAssumption
   DEF Inserts, Insert, IInv, TInv, TypeOK, RowsInserted, Jobs, dashboardVars

LEMMA LaunchRows ==
  ASSUME IInv, NEW q \in launchReqs, Launch(q)
  PROVE  /\ nextJob \in Nat /\ nextJob' \in Nat /\ nextJob < nextJob'
         /\ \A j \in Jobs : j >= nextJob /\ j < nextJob' =>
              /\ jobStatus[j] = "absent" /\ jobStatus'[j] = "queued"
              /\ jobRunner'[j] = q.runner
              /\ \E i \in DOMAIN q.matrix :
                   row'[j] = [owner |-> OwnerOf[q.runner], target |-> q.matrix[i],
                     sealedFor |-> IF q.matrix[i] \in Hosted THEN q.runner ELSE NoRunner,
                     fits |-> TRUE, retryOf |-> NoJob, experiment |-> nextJob]
         /\ \A j \in Jobs : ~(j >= nextJob /\ j < nextJob') =>
              /\ row'[j] = row[j] /\ jobStatus'[j] = jobStatus[j]
              /\ jobRunner'[j] = jobRunner[j]
<1> DEFINE m == q.matrix
           new == nextJob .. nextJob + Len(m) - 1
<1>1. q.runner \in Runners /\ m \in Seq(Targets) /\ Len(m) \in Nat /\ Len(m) > 0
  BY RunnerJobsAssumption, EmptySeq DEF IInv, TInv, TypeOK, LaunchReq, LaunchesWork
<1>2. nextJob \in Nat /\ nextJob >= 1 /\ nextJob' = nextJob + Len(m)
  BY RunnerJobsAssumption DEF IInv, TInv, TypeOK, Launch
<1>3. \A j \in Jobs : j \in new <=> j >= nextJob /\ j < nextJob'
  BY <1>1, <1>2 DEF Jobs
<1>4. \A j \in Jobs : j \in new => j - nextJob + 1 \in DOMAIN m /\ jobStatus[j] = "absent"
  BY <1>1, <1>2 DEF Jobs, IInv, TInv, RowsInserted
<1>5. \A j \in Jobs : j \in new =>
        /\ jobStatus'[j] = "queued" /\ jobRunner'[j] = q.runner
        /\ row'[j] = [owner |-> OwnerOf[q.runner], target |-> m[j - nextJob + 1],
             sealedFor |-> IF m[j - nextJob + 1] \in Hosted THEN q.runner ELSE NoRunner,
             fits |-> TRUE, retryOf |-> NoJob, experiment |-> nextJob]
  BY DEF Launch
<1>6. \A j \in Jobs : j \notin new =>
        row'[j] = row[j] /\ jobStatus'[j] = jobStatus[j] /\ jobRunner'[j] = jobRunner[j]
  BY DEF Launch
<1> HIDE DEF new
<1>7. \A j \in Jobs : j \in new =>
        \E i \in DOMAIN m :
          row'[j] = [owner |-> OwnerOf[q.runner], target |-> m[i],
            sealedFor |-> IF m[i] \in Hosted THEN q.runner ELSE NoRunner,
            fits |-> TRUE, retryOf |-> NoJob, experiment |-> nextJob]
  BY <1>4, <1>5
<1>8. \A j \in Jobs : j >= nextJob /\ j < nextJob' =>
        /\ jobStatus[j] = "absent" /\ jobStatus'[j] = "queued"
        /\ jobRunner'[j] = q.runner
        /\ \E i \in DOMAIN m :
             row'[j] = [owner |-> OwnerOf[q.runner], target |-> m[i],
               sealedFor |-> IF m[i] \in Hosted THEN q.runner ELSE NoRunner,
               fits |-> TRUE, retryOf |-> NoJob, experiment |-> nextJob]
  BY <1>3, <1>4, <1>5, <1>7
<1>9. \A j \in Jobs : ~(j >= nextJob /\ j < nextJob') =>
        row'[j] = row[j] /\ jobStatus'[j] = jobStatus[j] /\ jobRunner'[j] = jobRunner[j]
  BY <1>3, <1>6
<1>10. nextJob \in Nat /\ nextJob' \in Nat /\ nextJob < nextJob'
  BY <1>1, <1>2
<1> QED BY <1>8, <1>9, <1>10

(* A job that was leased or is over does not return to the queue, and one  *)
(* that is over stays as it is.                                            *)
LEMMA NeverRequeued ==
  ASSUME IInv, [Next]_vars, NEW j \in Jobs, jobStatus[j] \in Active \cup Terminal
  PROVE  /\ jobStatus'[j] \in Active \cup Terminal
         /\ jobStatus[j] \in Terminal => jobStatus'[j] = jobStatus[j]
<1> USE DEF Active, Terminal, Unsuccessful, Open
<1>1. ASSUME NEW q \in launchReqs, Launch(q) PROVE jobStatus'[j] = jobStatus[j]
  BY <1>1, LaunchRows
<1>2. ASSUME NEW newRow \in Row, NEW r \in Runners \cup {NoRunner}, Inserts(newRow, r)
      PROVE  jobStatus'[j] = jobStatus[j]
  BY <1>2, InsertRows
<1>3. ASSUME NEW q \in leaseReqs, NEW held \in SUBSET HeldByClaims(q), Claim(q, held)
      PROVE  jobStatus'[j] = jobStatus[j]
  BY <1>3, ClaimRows DEF Candidates
<1>4. CASE Settles
  BY <1>4 DEF Settles
<1> QED BY <1>1, <1>2, <1>3, <1>4, RowsEffect

-----------------------------------------------------------------------------
(* A cancel transaction whose first statement missed has missed a job that *)
(* was leased or over already.                                             *)
MissedIsSettled ==
  \A j \in Jobs : cancelTx[j] = "missed" => jobStatus[j] \in Active \cup Terminal

LEMMA CancelTxEffect ==
  ASSUME [Next]_vars
  PROVE  UNCHANGED cancelTx \/ \E j \in Jobs : CancelBegin(j) \/ CancelEnd(j) \/ CancelAbort(j)
BY DEF Next, Dashboard, ReceiveLaunch, Launch, Enqueue, Insert, Retry, RequestCancellation,
   RevokeRunner, Leasing, ReceiveHeartbeat, RecordHeartbeat, ReceiveLease, ClaimNext, Claim,
   AttemptRequests, ReceiveEvents, SaveEvent, FinishEvents, AbandonEvents,
   ReceiveCheckpoint, SaveCheckpoint, ReceiveTerminal, Complete, vars, jobVars, dashboardVars

LEMMA MissedStep == IInv /\ MissedIsSettled /\ [Next]_vars => MissedIsSettled'
<1> SUFFICES ASSUME IInv, MissedIsSettled, [Next]_vars, NEW j \in Jobs,
                    cancelTx'[j] = "missed"
             PROVE  jobStatus'[j] \in Active \cup Terminal
  BY DEF MissedIsSettled
<1>1. jobStatus[j] \in Active \cup Terminal
  <2>1. CASE UNCHANGED cancelTx
    BY <2>1 DEF MissedIsSettled
  <2>2. ASSUME NEW k \in Jobs, CancelBegin(k) PROVE jobStatus[j] \in Active \cup Terminal
    <3>1. jobStatus[j] \in Status /\ cancelTx \in [Jobs -> {"none", "locked", "missed"}]
      BY DEF IInv, TInv, TypeOK
    <3>2. CASE k = j
      BY <2>2, <3>1, <3>2 DEF CancelBegin, Exists, Status
    <3>3. CASE k # j
      BY <2>2, <3>1, <3>3 DEF CancelBegin, MissedIsSettled
    <3> QED BY <3>2, <3>3
  <2>3. ASSUME NEW k \in Jobs, CancelEnd(k) \/ CancelAbort(k)
        PROVE  jobStatus[j] \in Active \cup Terminal
    <3>1. cancelTx' = [cancelTx EXCEPT ![k] = "none"]
          /\ cancelTx \in [Jobs -> {"none", "locked", "missed"}]
      BY <2>3 DEF CancelEnd, CancelAbort, IInv, TInv, TypeOK
    <3> QED BY <3>1 DEF MissedIsSettled
  <2> QED BY <2>1, <2>2, <2>3, CancelTxEffect
<1> QED BY <1>1, NeverRequeued

(* A claim that falls between the two statements of a cancellation does    *)
(* not lose it: the job is over, or its runner will be told.               *)
THEOREM CancellationKept == Spec => CancelNeverLost
<1> DEFINE Kept == \A j \in Jobs :
             CancelEnd(j) => jobStatus'[j] \in Terminal \/ cancelRequested'[j]
<1>1. Init => MissedIsSettled
  BY DEF Init, MissedIsSettled
<1>2. IInv /\ MissedIsSettled => Kept
  <2> SUFFICES ASSUME IInv, MissedIsSettled, NEW j \in Jobs, CancelEnd(j)
               PROVE  jobStatus'[j] \in Terminal \/ cancelRequested'[j]
    OBVIOUS
  <2>1. jobStatus \in [Jobs -> Status] /\ cancelRequested \in [Jobs -> BOOLEAN]
    BY DEF IInv, TInv, TypeOK
  <2>2. CASE cancelTx[j] = "locked"
    <3>1. jobStatus'[j] = "cancelled"
      BY <2>1, <2>2 DEF CancelEnd
    <3> QED BY <3>1 DEF Terminal, Unsuccessful
  <2>3. CASE cancelTx[j] = "missed"
    <3>1. jobStatus'[j] = jobStatus[j] /\ jobStatus[j] \in Active \cup Terminal
      BY <2>1, <2>3 DEF CancelEnd, MissedIsSettled
    <3>2. jobStatus[j] \in Active => cancelRequested'[j]
      BY <2>1 DEF CancelEnd, IsFlagged
    <3> QED BY <3>1, <3>2
  <2> QED BY <2>2, <2>3 DEF CancelEnd, IInv, TInv, TypeOK
<1>3. IInv /\ MissedIsSettled /\ [Next]_vars => [Kept]_vars
  BY <1>2
<1> QED BY <1>1, <1>3, MissedStep, Inductive, PTL DEF Spec, CancelNeverLost

-----------------------------------------------------------------------------
LEMMA RetryStep == IInv /\ OneOpenRetry /\ [Next]_vars => OneOpenRetry'
<1> SUFFICES ASSUME IInv, OneOpenRetry, [Next]_vars PROVE OneOpenRetry'
  OBVIOUS
<1>1. \A j \in Jobs : Exists(j) => row[j] \in Row
  BY DEF IInv, TInv, RowsInserted, Exists
<1>2. \A j \in Jobs : jobStatus[j] \in Unsuccessful => jobStatus'[j] = jobStatus[j]
  BY NeverRequeued DEF Terminal
<1>3. ASSUME UNCHANGED row,
             \A j \in Jobs : jobStatus'[j] \in Open => jobStatus[j] \in Open,
             \A j \in Jobs : Exists(j)' => Exists(j)
      PROVE  OneOpenRetry'
  <2>1. \A j \in Jobs : Exists(j) /\ row[j].retryOf # NoJob => row[j].retryOf \in Jobs
    BY <1>1 DEF Row
  <2> QED BY <1>2, <1>3, <2>1 DEF OneOpenRetry
<1>4. ASSUME NEW q \in launchReqs, Launch(q) PROVE OneOpenRetry'
  <2> DEFINE New(j) == j >= nextJob /\ j < nextJob'
  <2>1. ASSUME NEW j \in Jobs, New(j) PROVE row'[j].retryOf = NoJob
    <3>1. PICK i \in DOMAIN q.matrix :
            row'[j] = [owner |-> OwnerOf[q.runner], target |-> q.matrix[i],
              sealedFor |-> IF q.matrix[i] \in Hosted THEN q.runner ELSE NoRunner,
              fits |-> TRUE, retryOf |-> NoJob, experiment |-> nextJob]
      BY <1>4, <2>1, LaunchRows
    <3> QED BY <3>1
  <2>2. \A j \in Jobs : ~New(j) => row'[j] = row[j] /\ jobStatus'[j] = jobStatus[j]
    BY <1>4, LaunchRows
  <2>3. \A j \in Jobs : Exists(j) /\ row[j].retryOf # NoJob => row[j].retryOf \in Jobs
    BY <1>1 DEF Row
  <2> HIDE DEF New
  <2> QED BY <1>2, <2>1, <2>2, <2>3 DEF OneOpenRetry, Exists
<1>5. ASSUME NEW newRow \in Row, NEW r \in Runners \cup {NoRunner}, Inserts(newRow, r)
      PROVE  OneOpenRetry'
  <2>1. /\ nextJob \in Jobs /\ row'[nextJob] = newRow /\ jobStatus[nextJob] = "absent"
        /\ \A j \in Jobs \ {nextJob} : row'[j] = row[j] /\ jobStatus'[j] = jobStatus[j]
    BY <1>5, InsertRows
  <2>2. \A j \in Jobs : Exists(j) /\ row[j].retryOf # NoJob => row[j].retryOf \in Jobs
    BY <1>1 DEF Row
  <2>3. CASE newRow.retryOf = NoJob
    BY <1>2, <2>1, <2>2, <2>3 DEF OneOpenRetry, Exists
  <2>4. ASSUME NEW k \in Jobs, Retry(k), newRow = [row[k] EXCEPT !.retryOf = k]
        PROVE  OneOpenRetry'
    <3>1. newRow.retryOf = k
      <4>1. row[k] \in Row
        BY <1>1, <2>4 DEF Retry, Exists, Unsuccessful
      <4> QED BY <2>4, <4>1 DEF Row
    <3>2. jobStatus[k] \in Unsuccessful
          /\ \A j \in Jobs : jobStatus[j] \in Open => row[j].retryOf # k
      BY <2>4 DEF Retry, HasOpenRetry
    <3>3. \A i, j \in Jobs : /\ jobStatus'[i] \in Open /\ jobStatus'[j] \in Open
                             /\ row'[i].retryOf = row'[j].retryOf /\ row'[i].retryOf # NoJob
                             => i = j
      BY <2>1, <3>1, <3>2 DEF OneOpenRetry
    <3>4. \A j \in Jobs : jobStatus'[j] # "absent" /\ row'[j].retryOf # NoJob
                            => jobStatus'[row'[j].retryOf] \in Unsuccessful
      BY <1>2, <2>1, <2>2, <3>1, <3>2 DEF OneOpenRetry, Exists
    <3> QED BY <3>3, <3>4 DEF OneOpenRetry, Exists
  <2> QED BY <1>5, <2>3, <2>4 DEF Inserts
<1>6. ASSUME NEW q \in leaseReqs, NEW held \in SUBSET HeldByClaims(q), Claim(q, held)
      PROVE  OneOpenRetry'
  BY <1>3, <1>6, ClaimRows DEF Candidates, Open, Exists
<1>7. CASE Settles
  <2>1. UNCHANGED row /\ \A j \in Jobs :
          \/ jobStatus'[j] = jobStatus[j]
          \/ jobStatus[j] \in Open
    BY <1>7 DEF Settles
  <2> QED BY <1>3, <2>1 DEF Exists, Open, Active
<1> QED BY <1>4, <1>5, <1>6, <1>7, RowsEffect

(* However often retry is pressed, and whatever happens to the retries, a  *)
(* job has one open retry at most, and had ended without success.          *)
THEOREM RetryUnique == Spec => []OneOpenRetry
<1>1. Init => OneOpenRetry
  BY DEF Init, OneOpenRetry, Exists, Open, Active
<1> QED BY <1>1, RetryStep, Inductive, PTL DEF Spec

-----------------------------------------------------------------------------
(* Runner r may be given job i, and no other runner may.                   *)
PinnedTo(i, r) ==
  /\ r \in Runners /\ jobRunner[i] = r /\ row[i].owner = OwnerOf[r]
  /\ row[i].target \in CanHost[r]
  /\ row[i].target \in Hosted => row[i].sealedFor = r /\ row[i].fits

MatricesHosted ==
  \A q \in launchReqs : \A i \in DOMAIN q.matrix : q.matrix[i] \in CanHost[q.runner]

(* An experiment has the number of its first job.                          *)
ExperimentsBelow == \A j \in Jobs : Exists(j) => row[j].experiment <= j

(* The jobs of a launch that precede one of them are pinned to its runner. *)
LaunchPinned ==
  \A i, j \in Jobs :
    /\ i < j /\ Exists(j)
    /\ row[i].experiment = row[j].experiment /\ row[j].retryOf = NoJob
    => PinnedTo(i, jobRunner[j])

PInv == MatricesHosted /\ ExperimentsBelow /\ LaunchPinned

LEMMA LaunchReqsEffect ==
  ASSUME [Next]_vars
  PROVE  launchReqs' \subseteq launchReqs \/ \E r \in Runners, m \in Matrices : ReceiveLaunch(r, m)
BY DEF Next, Dashboard, Launch, Enqueue, Insert, Retry, RequestCancellation,
   RevokeRunner, CancelBegin, CancelEnd, CancelAbort, Leasing, ReceiveHeartbeat,
   RecordHeartbeat, ReceiveLease, ClaimNext, Claim, AttemptRequests, ReceiveEvents, SaveEvent,
   FinishEvents, AbandonEvents, ReceiveCheckpoint, SaveCheckpoint, ReceiveTerminal, Complete,
   vars, jobVars, dashboardVars

LEMMA PinnedStep == IInv /\ PInv /\ [Next]_vars => PInv'
<1> SUFFICES ASSUME IInv, PInv, [Next]_vars PROVE PInv'
  OBVIOUS
<1>1. MatricesHosted'
  <2>1. CASE launchReqs' \subseteq launchReqs
    BY <2>1 DEF PInv, MatricesHosted
  <2>2. ASSUME NEW r \in Runners, NEW m \in Matrices, ReceiveLaunch(r, m)
        PROVE  MatricesHosted'
    BY <2>2 DEF ReceiveLaunch, PInv, MatricesHosted
  <2> QED BY <2>1, <2>2, LaunchReqsEffect
<1>2. \A j \in Jobs : /\ Exists(j) => row[j] \in Row
                      /\ Exists(j) <=> j < nextJob
  BY DEF IInv, TInv, RowsInserted, Exists
<1>3. nextJob \in Nat
  BY RunnerJobsAssumption DEF IInv, TInv, TypeOK
<1>4. ASSUME NEW q \in launchReqs, Launch(q) PROVE ExperimentsBelow' /\ LaunchPinned'
  <2> DEFINE New(j) == j >= nextJob /\ j < nextJob'
             r == q.runner
  <2>1. r \in Runners
    BY DEF IInv, TInv, TypeOK, LaunchReq
  <2>2. ASSUME NEW j \in Jobs, New(j)
        PROVE  /\ jobRunner'[j] = r /\ row'[j].experiment = nextJob
               /\ row'[j].owner = OwnerOf[r] /\ row'[j].target \in CanHost[r]
               /\ row'[j].target \in Hosted => row'[j].sealedFor = r /\ row'[j].fits
    <3>1. PICK i \in DOMAIN q.matrix :
            row'[j] = [owner |-> OwnerOf[r], target |-> q.matrix[i],
              sealedFor |-> IF q.matrix[i] \in Hosted THEN r ELSE NoRunner,
              fits |-> TRUE, retryOf |-> NoJob, experiment |-> nextJob]
      BY <1>4, <2>2, LaunchRows
    <3>2. jobRunner'[j] = r /\ q.matrix[i] \in CanHost[r]
      BY <1>4, <2>2, LaunchRows DEF PInv, MatricesHosted
    <3> QED BY <3>1, <3>2
  <2>3. \A j \in Jobs : ~New(j) =>
          /\ row'[j] = row[j] /\ jobStatus'[j] = jobStatus[j] /\ jobRunner'[j] = jobRunner[j]
    BY <1>4, LaunchRows
  <2>4. \A j \in Jobs : New(j) => j >= nextJob
    OBVIOUS
  <2>5. \A j \in Jobs : ~New(j) /\ (Exists(j))' => Exists(j) /\ j < nextJob
    BY <1>2, <2>3 DEF Exists
  <2>6. \A i, j \in Jobs : i < j /\ ~New(j) /\ (Exists(j))' => ~New(i) /\ Exists(i)
    BY <1>2, <1>3, <2>4, <2>5 DEF Jobs
  <2>7. \A i, j \in Jobs : i < j /\ New(j) /\ ~New(i) => Exists(i) /\ row[i].experiment < nextJob
    <3> SUFFICES ASSUME NEW i \in Jobs, NEW j \in Jobs, i < j, New(j), ~New(i)
                 PROVE  Exists(i) /\ row[i].experiment < nextJob
      OBVIOUS
    <3>1. i < nextJob
      BY <1>3, <1>4, LaunchRows DEF Jobs
    <3>2. Exists(i) /\ row[i].experiment <= i /\ row[i].experiment \in Jobs
      BY <1>2, <3>1 DEF PInv, ExperimentsBelow, LaunchPinned, Row
    <3> QED BY <1>3, <3>1, <3>2 DEF Jobs
  <2> HIDE DEF New, r
  <2>8. ExperimentsBelow'
    BY <1>3, <2>2, <2>3, <2>4, <2>5 DEF PInv, ExperimentsBelow, LaunchPinned, Jobs
  <2>9. LaunchPinned'
    <3> SUFFICES ASSUME NEW i \in Jobs, NEW j \in Jobs, i < j, (Exists(j))',
                        row'[i].experiment = row'[j].experiment, row'[j].retryOf = NoJob
                 PROVE  PinnedTo(i, jobRunner[j])'
      BY DEF LaunchPinned, PinnedTo
    <3>1. CASE ~New(j)
      <4>1. ~New(i) /\ Exists(j)
        BY <2>5, <2>6, <3>1
      <4>2. PinnedTo(i, jobRunner[j])
        BY <2>3, <3>1, <4>1 DEF PInv, ExperimentsBelow, LaunchPinned
      <4> QED BY <2>3, <3>1, <4>1, <4>2 DEF PinnedTo
    <3>2. CASE New(j) /\ New(i)
      BY <2>1, <2>2, <3>2 DEF PinnedTo
    <3>3. CASE New(j) /\ ~New(i)
      <4>1. row[i].experiment < nextJob /\ row[i].experiment = nextJob
        BY <2>2, <2>3, <2>7, <3>3
      <4> QED BY <1>3, <4>1
    <3> QED BY <3>1, <3>2, <3>3
  <2> QED BY <2>8, <2>9
<1>5. ASSUME NEW newRow \in Row, NEW s \in Runners \cup {NoRunner}, Inserts(newRow, s)
      PROVE  ExperimentsBelow' /\ LaunchPinned'
  <2>1. /\ nextJob \in Jobs /\ row'[nextJob] = newRow
        /\ \A j \in Jobs \ {nextJob} :
             /\ row'[j] = row[j] /\ jobStatus'[j] = jobStatus[j]
             /\ jobRunner'[j] = jobRunner[j]
    BY <1>5, InsertRows
  <2>2. \A j \in Jobs : j < nextJob => Exists(j) /\ row[j].experiment <= j /\ row[j].experiment \in Jobs
    BY <1>2 DEF PInv, ExperimentsBelow, LaunchPinned, Row
  <2>3. newRow.retryOf # NoJob \/ newRow.experiment = nextJob
    <3>1. ASSUME NEW k \in Jobs, Retry(k), newRow = [row[k] EXCEPT !.retryOf = k]
          PROVE  newRow.retryOf # NoJob
      <4>1. row[k] \in Row
        BY <1>2, <3>1 DEF Retry, Exists, Unsuccessful
      <4> QED BY <3>1, <4>1 DEF Row, Jobs, NoJob
    <3> QED BY <1>5, <3>1 DEF Inserts
  <2>4. newRow.experiment <= nextJob
    <3>1. ASSUME NEW k \in Jobs, Retry(k), newRow = [row[k] EXCEPT !.retryOf = k]
          PROVE  newRow.experiment <= nextJob
      <4>1. Exists(k) /\ row[k] \in Row
        BY <1>2, <3>1 DEF Retry, Exists, Unsuccessful
      <4>2. newRow.experiment = row[k].experiment
        BY <3>1, <4>1 DEF Row
      <4>3. k < nextJob /\ row[k].experiment <= k /\ row[k].experiment \in Jobs
        BY <1>2, <2>2, <4>1
      <4> QED BY <1>3, <4>2, <4>3 DEF Jobs
    <3> QED BY <1>3, <1>5, <3>1 DEF Inserts
  <2>5. ExperimentsBelow'
    BY <2>1, <2>4 DEF PInv, ExperimentsBelow, LaunchPinned, Exists
  <2>6. LaunchPinned'
    <3> SUFFICES ASSUME NEW i \in Jobs, NEW j \in Jobs, i < j, (Exists(j))',
                        row'[i].experiment = row'[j].experiment, row'[j].retryOf = NoJob
                 PROVE  PinnedTo(i, jobRunner[j])'
      BY DEF LaunchPinned, PinnedTo
    <3>1. CASE j = nextJob
      <4>1. i # nextJob /\ i < nextJob
        BY <1>3, <3>1 DEF Jobs
      <4>2. row[i].experiment = nextJob
        BY <2>1, <2>3, <3>1, <4>1
      <4> QED BY <1>3, <2>2, <4>1, <4>2 DEF Jobs
    <3>2. CASE j # nextJob
      <4>1. Exists(j) /\ j < nextJob /\ i # nextJob
        BY <1>2, <1>3, <2>1, <3>2 DEF Exists, Jobs
      <4>2. PinnedTo(i, jobRunner[j])
        BY <2>1, <3>2, <4>1 DEF PInv, ExperimentsBelow, LaunchPinned
      <4> QED BY <2>1, <3>2, <4>1, <4>2 DEF PinnedTo
    <3> QED BY <3>1, <3>2
  <2> QED BY <2>5, <2>6
<1>6. ASSUME NEW q \in leaseReqs, NEW held \in SUBSET HeldByClaims(q), Claim(q, held)
      PROVE  ExperimentsBelow' /\ LaunchPinned'
  <2>1. /\ row' = row
        /\ \A j \in Jobs : jobStatus'[j] # "absent" => jobStatus[j] # "absent"
    BY <1>6, ClaimRows DEF Candidates
  <2>2. \A j \in Jobs : jobRunner[j] # NoRunner => jobRunner'[j] = jobRunner[j]
    BY <1>6, ClaimRows DEF Candidates
  <2>3. \A i, j \in Jobs : i < j /\ Exists(j) => Exists(i)
    BY <1>2, <1>3 DEF Jobs
  <2>4. ExperimentsBelow'
    BY <2>1 DEF PInv, ExperimentsBelow, LaunchPinned, Exists
  <2>5. LaunchPinned'
    <3> SUFFICES ASSUME NEW i \in Jobs, NEW j \in Jobs, i < j, (Exists(j))',
                        row'[i].experiment = row'[j].experiment, row'[j].retryOf = NoJob
                 PROVE  PinnedTo(i, jobRunner[j])'
      BY DEF LaunchPinned, PinnedTo
    <3>1. PinnedTo(i, jobRunner[j])
      BY <2>1 DEF PInv, ExperimentsBelow, LaunchPinned, Exists
    <3>2. jobRunner'[i] = jobRunner[i] /\ jobRunner'[j] = jobRunner[j]
      BY <2>2, <3>1, RunnerJobsAssumption DEF PinnedTo
    <3> QED BY <2>1, <3>1, <3>2 DEF PinnedTo
  <2> QED BY <2>4, <2>5
<1>7. ASSUME Settles PROVE ExperimentsBelow' /\ LaunchPinned'
  <2>1. UNCHANGED <<row, jobRunner>>
        /\ \A j \in Jobs : jobStatus'[j] # "absent" => jobStatus[j] # "absent"
    BY <1>7 DEF Settles, Open, Active
  <2> QED BY <2>1 DEF PInv, ExperimentsBelow, LaunchPinned, PinnedTo, Exists
<1>8. ExperimentsBelow' /\ LaunchPinned'
  BY <1>4, <1>5, <1>6, <1>7, RowsEffect
<1> QED BY <1>1, <1>8 DEF PInv

(* A claim passes over an earlier job of the same launch only when it      *)
(* fails that job, or when a cancel transaction holds its lock.            *)
THEOREM OrderKept == Spec => MatrixOrder
<1> DEFINE Passed(i, j) ==
             /\ i < j /\ row[i] # NoRow /\ row[j] # NoRow
             /\ row[i].experiment = row[j].experiment /\ row[j].retryOf = NoJob
             /\ jobStatus[i] = "queued" /\ jobStatus[j] # "leased" /\ jobStatus'[j] = "leased"
           Kept == \A i, j \in Jobs :
             Passed(i, j) => cancelTx[i] = "locked" \/ jobStatus'[i] = "failed"
<1>1. Init => PInv
  BY DEF Init, PInv, MatricesHosted, ExperimentsBelow, LaunchPinned, Exists
<1>2. ASSUME IInv, PInv, [Next]_vars PROVE Kept
  <2> SUFFICES ASSUME NEW i \in Jobs, NEW j \in Jobs, Passed(i, j), cancelTx[i] # "locked"
               PROVE  jobStatus'[i] = "failed"
    OBVIOUS
  <2>1. \E q \in leaseReqs : \E held \in SUBSET HeldByClaims(q) : Claim(q, held)
    <3>1. ASSUME NEW q \in launchReqs, Launch(q) PROVE FALSE
      BY <1>2, <3>1, LaunchRows
    <3>2. ASSUME NEW newRow \in Row, NEW s \in Runners \cup {NoRunner}, Inserts(newRow, s)
          PROVE  FALSE
      BY <1>2, <3>2, InsertRows
    <3>3. ~Settles
      BY DEF Settles, Terminal, Unsuccessful
    <3> QED BY <1>2, <3>1, <3>2, <3>3, RowsEffect
  <2>2. PICK q \in leaseReqs : \E held \in SUBSET HeldByClaims(q) : Claim(q, held)
    BY <2>1
  <2>3. PICK held \in SUBSET HeldByClaims(q) : Claim(q, held)
    BY <2>2
  <2> DEFINE r == q.runner
             allowed == RunnerCanClaim(r) /\ ~HasActiveAttempt(r)
             claimed == IF allowed THEN First(Claimable(q) \ held) ELSE {}
             failed == IF allowed THEN Rejected(q, claimed) \ held ELSE {}
  <2>4. jobStatus' = [k \in Jobs |-> IF k \in claimed THEN "leased"
                                     ELSE IF k \in failed THEN "failed" ELSE jobStatus[k]]
    BY <2>3 DEF Claim
  <2>5. j \in claimed /\ allowed
    <3>1. j \in claimed
      BY <2>4
    <3> QED BY <3>1
  <2>6. j \in Candidates(r) /\ \A k \in Claimable(q) \ held : j <= k
    BY <2>5 DEF First, Claimable
  <2>7. PinnedTo(i, jobRunner[j])
    BY <1>2, <2>6 DEF PInv, LaunchPinned, Candidates, Exists
  <2>8. jobRunner[j] = r /\ r \in Runners
    BY <2>6, <2>7, RunnerJobsAssumption DEF Candidates, PinnedTo
  <2>9. i \in Candidates(r) /\ ExecutionCanRunOnRunner(i, r)
    BY <2>7, <2>8 DEF Candidates, PinnedTo, ExecutionCanRunOnRunner
  <2>10. i \notin held
    <3>1. \A p \in leaseReqs : p.runner # r => i \notin Candidates(p.runner)
      BY <2>7, <2>8, RunnerJobsAssumption DEF Candidates, PinnedTo
    <3> QED BY <3>1 DEF HeldByClaims
  <2>11. ~Compatible(i, q)
    <3>1. i \notin Claimable(q)
      BY <2>6, <2>10 DEF Jobs
    <3> QED BY <2>9, <3>1 DEF Claimable
  <2>12. claimed = {j}
    BY <2>5, <2>6 DEF First, Claimable, Candidates, Jobs
  <2>13. i \in failed
    BY <2>5, <2>9, <2>10, <2>11, <2>12 DEF Rejected
  <2>14. i \notin claimed
    BY <2>12 DEF Jobs
  <2> HIDE DEF claimed, failed
  <2> QED BY <2>4, <2>13, <2>14
<1>3. IInv /\ PInv /\ [Next]_vars => [Kept]_vars
  BY <1>2
<1> QED BY <1>1, <1>3, PinnedStep, Inductive, PTL DEF Spec, MatrixOrder
-----------------------------------------------------------------------------
(* What JobLifecycle sees of the queue: the phase of a job, and the result *)
(* of the one attempt of a job.                                            *)
Phases == [j \in Jobs |-> IF jobStatus[j] \in Active THEN "active" ELSE jobStatus[j]]

ResultIn(attempted, results, j) ==
  IF \E a \in Attempts : attempted[a] = j
    THEN results[CHOOSE a \in Attempts : attempted[a] = j] ELSE NoOutcome

Results == [j \in Jobs |-> ResultIn(attemptJob, result, j)]

OnlyAttempt(attempted, j, a) == \A b \in Attempts : attempted[b] = j <=> b = a

NotAttempted(attempted, j) == \A b \in Attempts : attempted[b] # j

LEMMA ResultInOne ==
  ASSUME NEW attempted, NEW results, NEW j, NEW a \in Attempts, OnlyAttempt(attempted, j, a)
  PROVE  ResultIn(attempted, results, j) = results[a]
<1>1. (CHOOSE b \in Attempts : attempted[b] = j) = a
  BY DEF OnlyAttempt
<1> QED BY <1>1 DEF ResultIn, OnlyAttempt

LEMMA ResultInNone ==
  ASSUME NEW attempted, NEW results, NEW j, NotAttempted(attempted, j)
  PROVE  ResultIn(attempted, results, j) = NoOutcome
BY DEF ResultIn, NotAttempted

LEMMA OneAttemptEach ==
  ASSUME IInv, NEW j \in Jobs
  PROVE  NotAttempted(attemptJob, j) \/ \E a \in Attempts : OnlyAttempt(attemptJob, j, a)
BY DEF IInv, JobFollowsAttempt, NotAttempted, OnlyAttempt, NoJob, Jobs

(* Each action of JobLifecycle, in these terms.                            *)
LEMMA LifecycleAdd ==
  ASSUME NEW new \in SUBSET Jobs, \A j \in new : Phases[j] = "absent",
         Phases' = [j \in Jobs |-> IF j \in new THEN "queued" ELSE Phases[j]],
         Results' = Results
  PROVE  Lifecycle!LifecycleNext
<1>1. Lifecycle!Add(new)
  BY DEF Lifecycle!Add, Phases, Results, ResultIn
<1> QED BY <1>1 DEF Lifecycle!LifecycleNext

LEMMA LifecycleClaim ==
  ASSUME NEW leased \in {{}} \cup {{j} : j \in Jobs}, NEW failed \in SUBSET Jobs,
         leased \cap failed = {}, \A j \in leased \cup failed : Phases[j] = "queued",
         Phases' = [j \in Jobs |-> IF j \in leased THEN "active"
                                   ELSE IF j \in failed THEN "failed" ELSE Phases[j]],
         Results' = Results
  PROVE  Lifecycle!LifecycleNext
<1>1. Lifecycle!Claim(leased, failed)
  BY DEF Lifecycle!Claim, Phases, Results, ResultIn
<1> QED BY <1>1 DEF Lifecycle!LifecycleNext

LEMMA LifecycleCancel ==
  ASSUME NEW j \in Jobs, Phases[j] = "queued",
         Phases' = [Phases EXCEPT ![j] = "cancelled"], Results' = Results
  PROVE  Lifecycle!LifecycleNext
<1>1. Lifecycle!Cancel(j)
  BY DEF Lifecycle!Cancel, Phases, Results, ResultIn
<1> QED BY <1>1 DEF Lifecycle!LifecycleNext

LEMMA LifecycleFinish ==
  ASSUME NEW j \in Jobs, NEW o \in Outcomes, NEW shown \in {o, NoOutcome},
         Phases[j] = "active", o.status = "completed" => shown = o,
         Phases' = [Phases EXCEPT ![j] = o.status], Results' = [Results EXCEPT ![j] = shown]
  PROVE  Lifecycle!LifecycleNext
<1>1. Lifecycle!Finish(j, o, shown)
  BY DEF Lifecycle!Finish, Phases, Results, ResultIn
<1> QED BY <1>1 DEF Lifecycle!LifecycleNext

LEMMA LifecycleStutter ==
  ASSUME Phases' = Phases, Results' = Results
  PROVE  [Lifecycle!LifecycleNext]_Lifecycle!lifecycleVars
BY DEF Lifecycle!lifecycleVars, Phases, Results, ResultIn

(* Steps that leave every job, every attempt and every result alone.       *)
LEMMA QuietRefines ==
  ASSUME UNCHANGED <<jobStatus, attemptJob, result>>
  PROVE  [Lifecycle!LifecycleNext]_Lifecycle!lifecycleVars
<1>1. Phases' = Phases /\ Results' = Results
  BY DEF Phases, Results, ResultIn
<1> QED BY <1>1, LifecycleStutter

LEMMA LaunchRefines ==
  ASSUME IInv, NEW q \in launchReqs, Launch(q)
  PROVE  Lifecycle!LifecycleNext
<1> DEFINE new == {j \in Jobs : j >= nextJob /\ j < nextJob'}
<1>1. /\ \A j \in new : jobStatus[j] = "absent" /\ jobStatus'[j] = "queued"
      /\ \A j \in Jobs \ new : jobStatus'[j] = jobStatus[j]
  BY LaunchRows
<1>2. Results' = Results
  BY DEF Launch, attemptVars, Results, ResultIn
<1>3. new \in SUBSET Jobs
  OBVIOUS
<1> HIDE DEF new
<1>4. Phases' = [j \in Jobs |-> IF j \in new THEN "queued" ELSE Phases[j]]
  BY <1>1, <1>3 DEF Phases, Active
<1>5. \A j \in new : Phases[j] = "absent"
  BY <1>1, <1>3 DEF Phases, Active
<1> QED BY <1>2, <1>3, <1>4, <1>5, LifecycleAdd

LEMMA InsertRefines ==
  ASSUME IInv, NEW newRow \in Row, NEW r \in Runners \cup {NoRunner}, Inserts(newRow, r)
  PROVE  Lifecycle!LifecycleNext
<1>1. /\ nextJob \in Jobs /\ jobStatus[nextJob] = "absent" /\ jobStatus'[nextJob] = "queued"
      /\ \A j \in Jobs \ {nextJob} : jobStatus'[j] = jobStatus[j]
  BY InsertRows
<1>2. Results' = Results
  BY DEF Inserts, Insert, attemptVars, Results, ResultIn
<1>3. Phases' = [j \in Jobs |-> IF j \in {nextJob} THEN "queued" ELSE Phases[j]]
  BY <1>1 DEF Phases, Active
<1>4. \A j \in {nextJob} : Phases[j] = "absent"
  BY <1>1 DEF Phases, Active
<1>5. {nextJob} \in SUBSET Jobs
  BY <1>1
<1> QED BY <1>2, <1>3, <1>4, <1>5, LifecycleAdd

LEMMA CancelEndRefines ==
  ASSUME IInv, NEW j \in Jobs, CancelEnd(j)
  PROVE  [Lifecycle!LifecycleNext]_Lifecycle!lifecycleVars
<1>1. Results' = Results /\ jobStatus \in [Jobs -> Status]
  BY DEF CancelEnd, attemptVars, Results, ResultIn, IInv, TInv, TypeOK
<1>2. CASE cancelTx[j] = "locked"
  <2>1. jobStatus[j] = "queued" /\ jobStatus' = [jobStatus EXCEPT ![j] = "cancelled"]
    BY <1>2 DEF CancelEnd, IInv, TInv, RowsInserted
  <2>2. Phases[j] = "queued" /\ Phases' = [Phases EXCEPT ![j] = "cancelled"]
    BY <1>1, <2>1 DEF Phases, Active
  <2> QED BY <1>1, <2>2, LifecycleCancel
<1>3. CASE cancelTx[j] # "locked"
  <2>1. jobStatus' = jobStatus
    BY <1>1, <1>3 DEF CancelEnd
  <2>2. Phases' = Phases
    BY <2>1 DEF Phases
  <2> QED BY <1>1, <2>2, LifecycleStutter
<1> QED BY <1>2, <1>3

(* The new attempt has no result yet, and its job had no attempt.          *)
LEMMA LeaseHasNoResult ==
  ASSUME IInv, NEW j \in Jobs, jobStatus[j] = "queued", nextAttempt \in Attempts,
         NEW after, after[nextAttempt] = j,
         \A a \in Attempts : a # nextAttempt => after[a] = attemptJob[a]
  PROVE  \A k \in Jobs : ResultIn(after, result, k) = ResultIn(attemptJob, result, k)
<1>1. /\ attemptJob[nextAttempt] = NoJob /\ result[nextAttempt] = NoOutcome
  BY RunnerJobsAssumption
     DEF IInv, AttemptsInserted, ResultMatchesOutcome, Attempts, Terminal, Unsuccessful
<1>2. NotAttempted(attemptJob, j)
  BY DEF IInv, AttemptsInserted, JobFollowsAttempt, NotAttempted, Active, Terminal, Unsuccessful,
     NoJob, Jobs
<1>3. OnlyAttempt(after, j, nextAttempt)
  BY <1>2 DEF NotAttempted, OnlyAttempt
<1>4. ResultIn(attemptJob, result, j) = NoOutcome
  BY <1>2, ResultInNone
<1>5. ResultIn(after, result, j) = NoOutcome
  BY <1>1, <1>3, ResultInOne
<1>6. ASSUME NEW k \in Jobs, k # j
      PROVE  ResultIn(after, result, k) = ResultIn(attemptJob, result, k)
  <2>1. \A a \in Attempts : after[a] = k <=> attemptJob[a] = k
    BY <1>1, <1>6 DEF NoJob, Jobs
  <2>2. ASSUME NEW a \in Attempts, OnlyAttempt(attemptJob, k, a)
        PROVE  ResultIn(after, result, k) = ResultIn(attemptJob, result, k)
    <3>1. OnlyAttempt(after, k, a)
      BY <2>1, <2>2 DEF OnlyAttempt
    <3> QED BY <2>2, <3>1, ResultInOne
  <2>3. CASE NotAttempted(attemptJob, k)
    <3>1. NotAttempted(after, k)
      BY <2>1, <2>3 DEF NotAttempted
    <3> QED BY <2>3, <3>1, ResultInNone
  <2> QED BY <2>2, <2>3, OneAttemptEach
<1> QED BY <1>4, <1>5, <1>6

LEMMA ClaimRefines ==
  ASSUME IInv, NEW q \in leaseReqs, NEW held \in SUBSET HeldByClaims(q), Claim(q, held)
  PROVE  Lifecycle!LifecycleNext
<1> DEFINE r == q.runner
           allowed == RunnerCanClaim(r) /\ ~HasActiveAttempt(r)
           claimed == IF allowed THEN First(Claimable(q) \ held) ELSE {}
           failed == IF allowed THEN Rejected(q, claimed) \ held ELSE {}
<1>1. \A j \in claimed \cup failed : j \in Jobs /\ jobStatus[j] = "queued"
  BY DEF First, Claimable, Rejected, Candidates
<1>2. \A i, j \in claimed : i = j
  <2>1. \A i, j \in claimed : i \in Jobs /\ j \in Jobs /\ i <= j /\ j <= i
    BY DEF First, Claimable, Candidates
  <2> HIDE DEF claimed
  <2> QED BY <2>1 DEF Jobs
<1>3. claimed \cap failed = {}
  BY DEF First, Claimable, Rejected
<1>4. /\ jobStatus' = [j \in Jobs |-> IF j \in claimed THEN "leased"
                                      ELSE IF j \in failed THEN "failed" ELSE jobStatus[j]]
      /\ claimed # {} => nextAttempt <= MaxAttempts
      /\ IF claimed = {} THEN UNCHANGED attemptJob
           ELSE \E j \in claimed : attemptJob' = [attemptJob EXCEPT ![nextAttempt] = j]
      /\ result' = result
  BY DEF Claim
<1> HIDE DEF claimed, failed
<1>5. claimed \in {{}} \cup {{j} : j \in Jobs} /\ failed \in SUBSET Jobs
  <2>1. CASE claimed = {}
    BY <1>1, <2>1
  <2>2. ASSUME NEW j \in claimed PROVE claimed \in {{i} : i \in Jobs}
    <3>1. claimed = {j} /\ j \in Jobs
      BY <1>1, <1>2, <2>2
    <3> QED BY <3>1
  <2> QED BY <1>1, <2>1, <2>2
<1>6. Phases' = [j \in Jobs |-> IF j \in claimed THEN "active"
                                ELSE IF j \in failed THEN "failed" ELSE Phases[j]]
  BY <1>4 DEF Phases, Active
<1>7. \A j \in claimed \cup failed : Phases[j] = "queued"
  BY <1>1 DEF Phases, Active
<1>8. Results' = Results
  <2>1. CASE claimed = {}
    BY <1>4, <2>1 DEF Results
  <2>2. CASE claimed # {}
    <3>1. PICK j \in claimed : attemptJob' = [attemptJob EXCEPT ![nextAttempt] = j]
      BY <1>4, <2>2
    <3>2. nextAttempt \in Attempts
      BY <1>4, <2>2, RunnerJobsAssumption DEF IInv, TInv, TypeOK, Attempts
    <3>3. /\ [attemptJob EXCEPT ![nextAttempt] = j][nextAttempt] = j
          /\ \A a \in Attempts : a # nextAttempt =>
               [attemptJob EXCEPT ![nextAttempt] = j][a] = attemptJob[a]
      BY <3>2 DEF IInv, TInv, TypeOK
    <3>4. \A k \in Jobs : ResultIn([attemptJob EXCEPT ![nextAttempt] = j], result, k)
                          = ResultIn(attemptJob, result, k)
      BY <1>1, <3>2, <3>3, LeaseHasNoResult
    <3> QED BY <1>4, <3>1, <3>4 DEF Results
  <2> QED BY <2>1, <2>2
<1> QED BY <1>3, <1>5, <1>6, <1>7, <1>8, LifecycleClaim

(* Only the request that ends an attempt is visible: that an attempt       *)
(* starts to run is not.                                                   *)
LEMMA MovesRefines ==
  ASSUME IInv, NEW a \in Attempts, NEW s \in Status, Moves(a, s)
  PROVE  [Lifecycle!LifecycleNext]_Lifecycle!lifecycleVars
<1> DEFINE j == attemptJob[a]
<1>1. /\ j \in Jobs /\ jobStatus[j] \in Active /\ jobStatus \in [Jobs -> Status]
      /\ jobStatus' = [jobStatus EXCEPT ![j] = s] /\ attemptJob' = attemptJob
  BY DEF Moves, IInv, TInv, TypeOK, AttemptsInserted, JobFollowsAttempt, Active
<1>2. OnlyAttempt(attemptJob, j, a)
  BY <1>1 DEF IInv, JobFollowsAttempt, OnlyAttempt, NoJob, Jobs
<1>3. Phases[j] = "active"
  BY <1>1 DEF Phases
<1>4. CASE s \in Active /\ UNCHANGED <<outcome, result>>
  <2>1. Phases' = Phases
    BY <1>1, <1>4 DEF Phases
  <2>2. Results' = Results
    BY <1>1, <1>4 DEF Results
  <2> QED BY <2>1, <2>2, LifecycleStutter
<1>5. ASSUME NEW o \in Outcomes, s = o.status,
             result' = [result EXCEPT ![a] = IF HasResult(o) THEN o ELSE @]
      PROVE  Lifecycle!LifecycleNext
  <2> DEFINE shown == IF HasResult(o) THEN o ELSE NoOutcome
  <2>1. s \in Terminal /\ s \notin Active
    BY <1>5, RunnerJobsAssumption DEF Outcome, Active, Terminal, Unsuccessful
  <2>2. Phases' = [Phases EXCEPT ![j] = o.status]
    BY <1>1, <1>5, <2>1 DEF Phases
  <2>3. result[a] = NoOutcome
    BY DEF Moves, IInv, ResultMatchesOutcome, Active, Terminal, Unsuccessful
  <2>4. result'[a] = shown /\ \A b \in Attempts : b # a => result'[b] = result[b]
    BY <1>5, <2>3 DEF IInv, TInv, TypeOK
  <2>5. shown \in {o, NoOutcome} /\ (o.status = "completed" => shown = o)
    BY DEF HasResult
  <2> HIDE DEF shown, j
  <2>6. ResultIn(attemptJob, result', j) = shown
    BY <1>2, <2>4, ResultInOne DEF j
  <2>7. ASSUME NEW k \in Jobs, k # j
        PROVE  ResultIn(attemptJob, result', k) = ResultIn(attemptJob, result, k)
    <3>1. ASSUME NEW b \in Attempts, OnlyAttempt(attemptJob, k, b)
          PROVE  ResultIn(attemptJob, result', k) = ResultIn(attemptJob, result, k)
      <4>1. b # a /\ result'[b] = result[b]
        BY <2>4, <2>7, <3>1 DEF j, OnlyAttempt
      <4>2. ResultIn(attemptJob, result, k) = result[b]
        BY <3>1, ResultInOne
      <4>3. ResultIn(attemptJob, result', k) = result'[b]
        BY <3>1, ResultInOne
      <4> QED BY <4>1, <4>2, <4>3
    <3>2. CASE NotAttempted(attemptJob, k)
      BY <3>2, ResultInNone
    <3> QED BY <3>1, <3>2, OneAttemptEach
  <2>8. Results' = [Results EXCEPT ![j] = shown]
    BY <1>1, <2>6, <2>7 DEF Results
  <2> QED BY <1>1, <1>3, <2>2, <2>5, <2>8, LifecycleFinish
<1> QED BY <1>4, <1>5 DEF Moves

LEMMA DashboardRefines ==
  IInv /\ Dashboard => [Lifecycle!LifecycleNext]_Lifecycle!lifecycleVars
<1> SUFFICES ASSUME IInv, Dashboard
             PROVE  [Lifecycle!LifecycleNext]_Lifecycle!lifecycleVars
  OBVIOUS
<1>1. ASSUME NEW j \in Jobs, CancelEnd(j)
      PROVE  [Lifecycle!LifecycleNext]_Lifecycle!lifecycleVars
  BY <1>1, CancelEndRefines
<1>2. ASSUME NEW j \in Jobs, CancelBegin(j) \/ CancelAbort(j) \/ RequestCancellation(j)
      PROVE  [Lifecycle!LifecycleNext]_Lifecycle!lifecycleVars
  <2>1. UNCHANGED <<jobStatus, attemptJob, result>>
    BY <1>2 DEF CancelBegin, CancelAbort, RequestCancellation, attemptVars
  <2> QED BY <2>1, QuietRefines
<1>3. ASSUME NEW r \in Runners, RevokeRunner(r) \/ \E m \in Matrices : ReceiveLaunch(r, m)
      PROVE  [Lifecycle!LifecycleNext]_Lifecycle!lifecycleVars
  <2>1. UNCHANGED <<jobStatus, attemptJob, result>>
    BY <1>3 DEF RevokeRunner, ReceiveLaunch, jobVars, attemptVars
  <2> QED BY <2>1, QuietRefines
<1>4. ASSUME NEW q \in launchReqs, Launch(q)
      PROVE  [Lifecycle!LifecycleNext]_Lifecycle!lifecycleVars
  BY <1>4, LaunchRefines
<1>5. ASSUME \/ \E o \in Owners, t \in Targets, k \in Runners \cup {NoRunner}, fits \in BOOLEAN :
                  Enqueue(o, t, k, fits)
             \/ \E j \in Jobs : Retry(j)
      PROVE  [Lifecycle!LifecycleNext]_Lifecycle!lifecycleVars
  <2>1. PICK newRow \in Row, r \in Runners \cup {NoRunner} : Inserts(newRow, r)
    BY <1>5, EnqueueInserts, RetryInserts
  <2> QED BY <2>1, InsertRefines
<1> QED BY <1>1, <1>2, <1>3, <1>4, <1>5 DEF Dashboard

LEMMA LeasingRefines ==
  IInv /\ Leasing => [Lifecycle!LifecycleNext]_Lifecycle!lifecycleVars
<1> SUFFICES ASSUME IInv, Leasing
             PROVE  [Lifecycle!LifecycleNext]_Lifecycle!lifecycleVars
  OBVIOUS
<1>1. CASE \E q \in leaseReqs : ClaimNext(q)
  BY <1>1, ClaimRefines DEF ClaimNext
<1>2. CASE ~\E q \in leaseReqs : ClaimNext(q)
  <2>1. UNCHANGED <<jobStatus, attemptJob, result>>
    BY <1>2 DEF Leasing, ReceiveHeartbeat, RecordHeartbeat, ReceiveLease, jobVars, attemptVars
  <2> QED BY <2>1, QuietRefines
<1> QED BY <1>1, <1>2

LEMMA AttemptRequestsRefine ==
  IInv /\ AttemptRequests => [Lifecycle!LifecycleNext]_Lifecycle!lifecycleVars
<1> SUFFICES ASSUME IInv, AttemptRequests
             PROVE  [Lifecycle!LifecycleNext]_Lifecycle!lifecycleVars
  OBVIOUS
<1>1. CASE RequestsOnly
  <2>1. UNCHANGED <<jobStatus, attemptJob, result>>
    BY <1>1 DEF RequestsOnly
  <2> QED BY <2>1, QuietRefines
<1>2. ASSUME NEW a \in Attempts, NEW s \in Status, Moves(a, s)
      PROVE  [Lifecycle!LifecycleNext]_Lifecycle!lifecycleVars
  BY <1>2, MovesRefines
<1> QED BY <1>1, <1>2, AttemptRequestsEffect

LEMMA LifecycleInits == Init => Lifecycle!LifecycleInit
<1> SUFFICES ASSUME Init PROVE Lifecycle!LifecycleInit
  OBVIOUS
<1>1. Phases = [j \in Jobs |-> "absent"]
  BY DEF Init, Phases, Active
<1>2. \A j \in Jobs : ResultIn(attemptJob, result, j) = NoOutcome
  BY DEF Init, ResultIn, NoJob, Jobs
<1>3. Results = [j \in Jobs |-> NoOutcome]
  BY <1>2 DEF Results
<1> QED BY <1>1, <1>3 DEF Lifecycle!LifecycleInit, Phases, Results, ResultIn

(* The requests, the heartbeats and the locks are hidden: what is left is  *)
(* a queue that leases a job once, ends it once, and writes its result     *)
(* with its end.                                                           *)
THEOREM KeepsLifecycle == Spec => ImplementsLifecycle
<1>1. IInv /\ [Next]_vars => [Lifecycle!LifecycleNext]_Lifecycle!lifecycleVars
  <2>1. UNCHANGED vars => UNCHANGED <<jobStatus, attemptJob, result>>
    BY DEF vars, jobVars, attemptVars
  <2> QED BY <2>1, QuietRefines, DashboardRefines, LeasingRefines, AttemptRequestsRefine DEF Next
<1> QED BY <1>1, LifecycleInits, Inductive, PTL
        DEF Spec, ImplementsLifecycle, Lifecycle!LifecycleSpec
=============================================================================
