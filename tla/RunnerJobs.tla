----------------------------- MODULE RunnerJobs -----------------------------
(***************************************************************************)
(* The control plane's job queue: the tables jobs, attempts, runner_events *)
(* and results, the runner-facing job service (runner-jobs.ts) over the    *)
(* Postgres store (postgres-runner-store.ts), and the dashboard operations *)
(* that write the same rows (dashboard-experiments.ts).                    *)
(*                                                                         *)
(* An action is one database transaction.  A request that reads a row in   *)
(* one transaction and acts on what it read in a later one is two actions, *)
(* and what it carries from the first to the second is a record in         *)
(* leaseReqs, beatReqs, eventReqs, checkpointReqs or terminalReqs.  So a   *)
(* revocation, a cancellation or another copy of the same request can fall *)
(* between the two, and a request the runner gave up on can still act.     *)
(***************************************************************************)
EXTENDS Integers, Sequences, FiniteSets

CONSTANTS
  Runners, NoRunner,     \* paired runners, and the null of jobs.runner_id
  Owners, OwnerOf,       \* accounts; OwnerOf[r] is the account that paired r
  Targets,               \* (model route, harness, toolset) combinations
  Hosted,                \* the targets whose harness is llmbench
  CanHost,               \* CanHost[r]: targets whose capabilities r paired with
  Matrices,              \* the target sequences a dashboard launch expands to
  Inventories,           \* sets of targets a runner may be compatible with
  Outcomes,              \* the terminal requests a runner may send
  NoRow, NoOutcome,
  MaxJobs, MaxAttempts,  \* bounds: rows that can be inserted
  EventCount,            \* bound: event sequences are 0..EventCount - 1
  CheckpointCount,       \* bound: checkpoints are 0..CheckpointCount - 1
  MaxRequests            \* bound: requests inside the server at once

Jobs == 1..MaxJobs             \* a job's number is its queue_position
Attempts == 1..MaxAttempts
NoJob == 0
NoCheckpoint == -1

Active == {"leased", "preparing", "running", "grading", "uploading"}
Unsuccessful == {"failed", "cancelled", "interrupted"}
Terminal == Unsuccessful \cup {"completed"}
Status == {"absent", "queued"} \cup Active \cup Terminal
Open == {"queued"} \cup Active     \* the predicate of jobs_active_retry_unique

(* fits: the credential is one for the provider of the target's route.    *)
Row == [owner : Owners, target : Targets, sealedFor : Runners \cup {NoRunner},
        fits : BOOLEAN, retryOf : Jobs \cup {NoJob}, experiment : Jobs]
Outcome == [status : Terminal, evidence : BOOLEAN]

ASSUME RunnerJobsAssumption ==
  /\ NoRunner \notin Runners
  /\ OwnerOf \in [Runners -> Owners]
  /\ Hosted \subseteq Targets
  /\ CanHost \in [Runners -> SUBSET Targets]
  /\ Matrices \subseteq Seq(Targets)
  /\ Inventories \subseteq SUBSET Targets
  /\ Outcomes \subseteq Outcome
  /\ NoRow \notin Row /\ NoOutcome \notin Outcome
  /\ MaxJobs \in Nat /\ MaxAttempts \in Nat /\ MaxRequests \in Nat
  /\ EventCount \in Nat /\ CheckpointCount \in Nat

VARIABLES
  nextJob,          \* the queue_position of the next job
  row,              \* the columns of a job that never change
  jobStatus, jobRunner, cancelRequested,
  cancelTx,         \* the state of the dashboard's cancel transaction on a job
  launchReqs,       \* launches between their preview and their transaction
  nextAttempt, attemptJob, attemptRunner, attemptStatus,
  checkpoint, outcome, events, result,
  runnerStatus, revoked, supports,
  leaseReqs, beatReqs, eventReqs, checkpointReqs, terminalReqs

dashboardVars == <<cancelTx, launchReqs>>
jobVars == <<nextJob, row, jobStatus, jobRunner, cancelRequested, dashboardVars>>
attemptVars == <<nextAttempt, attemptJob, attemptRunner, attemptStatus,
                 checkpoint, outcome, events, result>>
runnerVars == <<runnerStatus, revoked, supports>>
requestVars == <<leaseReqs, beatReqs, eventReqs, checkpointReqs, terminalReqs>>
vars == <<jobVars, attemptVars, runnerVars, requestVars>>

LaunchReq == [runner : Runners, matrix : Matrices]
LeaseReq == [runner : Runners, supports : Inventories]
EventReq == [attempt : Attempts, next : 0..EventCount, last : 0..EventCount - 1,
             leased : BOOLEAN]
CheckpointReq == [attempt : Attempts, sequence : 0..CheckpointCount - 1]
TerminalReq == [attempt : Attempts, outcome : Outcomes]

TypeOK ==
  /\ nextJob \in 1..MaxJobs + 1
  /\ row \in [Jobs -> Row \cup {NoRow}]
  /\ jobStatus \in [Jobs -> Status]
  /\ jobRunner \in [Jobs -> Runners \cup {NoRunner}]
  /\ cancelRequested \in [Jobs -> BOOLEAN]
  /\ cancelTx \in [Jobs -> {"none", "locked", "missed"}]
  /\ launchReqs \subseteq LaunchReq
  /\ nextAttempt \in 1..MaxAttempts + 1
  /\ attemptJob \in [Attempts -> Jobs \cup {NoJob}]
  /\ attemptRunner \in [Attempts -> Runners \cup {NoRunner}]
  /\ attemptStatus \in [Attempts -> Status]
  /\ checkpoint \in [Attempts -> NoCheckpoint..CheckpointCount - 1]
  /\ outcome \in [Attempts -> Outcome \cup {NoOutcome}]
  /\ events \in [Attempts -> SUBSET (0..EventCount - 1)]
  /\ result \in [Attempts -> Outcome \cup {NoOutcome}]
  /\ runnerStatus \in [Runners -> {"offline", "online", "disabled"}]
  /\ revoked \in [Runners -> BOOLEAN]
  /\ supports \in [Runners -> Inventories]
  /\ leaseReqs \subseteq LeaseReq
  /\ beatReqs \subseteq LeaseReq
  /\ eventReqs \subseteq EventReq
  /\ checkpointReqs \subseteq CheckpointReq
  /\ terminalReqs \subseteq TerminalReq

Init ==
  /\ nextJob = 1
  /\ row = [j \in Jobs |-> NoRow]
  /\ jobStatus = [j \in Jobs |-> "absent"]
  /\ jobRunner = [j \in Jobs |-> NoRunner]
  /\ cancelRequested = [j \in Jobs |-> FALSE]
  /\ cancelTx = [j \in Jobs |-> "none"]
  /\ nextAttempt = 1
  /\ attemptJob = [a \in Attempts |-> NoJob]
  /\ attemptRunner = [a \in Attempts |-> NoRunner]
  /\ attemptStatus = [a \in Attempts |-> "absent"]
  /\ checkpoint = [a \in Attempts |-> NoCheckpoint]
  /\ outcome = [a \in Attempts |-> NoOutcome]
  /\ events = [a \in Attempts |-> {}]
  /\ result = [a \in Attempts |-> NoOutcome]
  /\ runnerStatus = [r \in Runners |-> "offline"]
  /\ revoked = [r \in Runners |-> FALSE]
  /\ supports \in [Runners -> Inventories]        \* the inventory it paired with
  /\ launchReqs = {} /\ leaseReqs = {} /\ beatReqs = {}
  /\ eventReqs = {} /\ checkpointReqs = {} /\ terminalReqs = {}

Exists(j) == jobStatus[j] # "absent"

RoomForRequest ==
  Cardinality(launchReqs) + Cardinality(leaseReqs) + Cardinality(beatReqs)
    + Cardinality(eventReqs) + Cardinality(checkpointReqs) + Cardinality(terminalReqs) < MaxRequests

(* authenticate and authorizeAttempt: the token is of a runner that is not *)
(* revoked, and the attempt is leased to it.                               *)
Authorized(a) == a < nextAttempt /\ ~revoked[attemptRunner[a]]

-----------------------------------------------------------------------------
(* The dashboard.                                                          *)

(* launchExperiment previews the experiment again: nothing blocks it now.  *)
ReceiveLaunch(r, matrix) ==
  /\ RoomForRequest
  /\ matrix # <<>> /\ runnerStatus[r] = "online"
  /\ {matrix[i] : i \in DOMAIN matrix} \subseteq CanHost[r] \cap supports[r]
  /\ launchReqs' = launchReqs \cup {[runner |-> r, matrix |-> matrix]}
  /\ UNCHANGED <<nextJob, row, jobStatus, jobRunner, cancelRequested, cancelTx,
                 attemptVars, runnerVars, requestVars>>

(* Its transaction: the jobs of the matrix are inserted in matrix order,   *)
(* pinned to the runner their credential is sealed for, whatever happened  *)
(* to the runner since.  The one provider of saveCredentialProfile is the  *)
(* one that the preview asks of a hosted route.                            *)
Launch(q) ==
  LET new == nextJob .. nextJob + Len(q.matrix) - 1 IN
  /\ nextJob + Len(q.matrix) <= MaxJobs + 1
  /\ launchReqs' = launchReqs \ {q}
  /\ nextJob' = nextJob + Len(q.matrix)
  /\ row' = [j \in Jobs |->
       IF j \in new
         THEN LET target == q.matrix[j - nextJob + 1] IN
              [owner |-> OwnerOf[q.runner], target |-> target,
               sealedFor |-> IF target \in Hosted THEN q.runner ELSE NoRunner,
               fits |-> TRUE, retryOf |-> NoJob, experiment |-> nextJob]
         ELSE row[j]]
  /\ jobStatus' = [j \in Jobs |-> IF j \in new THEN "queued" ELSE jobStatus[j]]
  /\ jobRunner' = [j \in Jobs |-> IF j \in new THEN q.runner ELSE jobRunner[j]]
  /\ UNCHANGED <<cancelRequested, cancelTx, attemptVars, runnerVars, requestVars>>

Insert(newRow, r) ==
  /\ nextJob <= MaxJobs
  /\ nextJob' = nextJob + 1
  /\ row' = [row EXCEPT ![nextJob] = newRow]
  /\ jobStatus' = [jobStatus EXCEPT ![nextJob] = "queued"]
  /\ jobRunner' = [jobRunner EXCEPT ![nextJob] = r]
  /\ UNCHANGED <<cancelRequested, dashboardVars, attemptVars, runnerVars, requestVars>>

(* RunnerJobService.enqueue: a job no runner is named for.  A hosted       *)
(* target needs a credential, of whatever provider; any other target       *)
(* refuses one.                                                            *)
Enqueue(owner, target, sealedFor, fits) ==
  /\ target \in Hosted <=> sealedFor # NoRunner
  /\ target \notin Hosted => fits
  /\ Insert([owner |-> owner, target |-> target, sealedFor |-> sealedFor, fits |-> fits,
             retryOf |-> NoJob, experiment |-> nextJob], NoRunner)

\* Mutant of HasOpenRetry.
HasOpenRetryQueuedOnly(j) == \E k \in Jobs : jobStatus[k] = "queued" /\ row[k].retryOf = j

HasOpenRetry(j) == \E k \in Jobs : jobStatus[k] \in Open /\ row[k].retryOf = j

(* retryJob.  The status read before the transaction is terminal and stays *)
(* so; the partial unique index turns a second retry that is still open    *)
(* into a read of the first.                                               *)
Retry(j) ==
  /\ jobStatus[j] \in Unsuccessful
  /\ ~HasOpenRetry(j)
  /\ Insert([row[j] EXCEPT !.retryOf = j], jobRunner[j])

(* cancelJob, first statement: it takes the lock of a queued row, or finds *)
(* the row in another status and changes nothing.                          *)
CancelBegin(j) ==
  /\ Exists(j) /\ cancelTx[j] = "none"
  /\ cancelTx' = [cancelTx EXCEPT
       ![j] = IF jobStatus[j] = "queued" THEN "locked" ELSE "missed"]
  /\ UNCHANGED <<launchReqs, nextJob, row, jobStatus, jobRunner, cancelRequested,
                 attemptVars, runnerVars, requestVars>>

\* Mutant of IsFlagged.
IsFlaggedQueuedOnly(j) == cancelTx[j] = "locked"

(* The rows that the two statements of cancelJob flag.                     *)
IsFlagged(j) == cancelTx[j] = "locked" \/ jobStatus[j] \in Active

(* cancelJob, second statement and commit.                                 *)
CancelEnd(j) ==
  /\ cancelTx[j] # "none"
  /\ cancelTx' = [cancelTx EXCEPT ![j] = "none"]
  /\ jobStatus' = [jobStatus EXCEPT
       ![j] = IF cancelTx[j] = "locked" THEN "cancelled" ELSE @]
  /\ cancelRequested' = [cancelRequested EXCEPT
       ![j] = @ \/ IsFlagged(j)]
  /\ UNCHANGED <<launchReqs, nextJob, row, jobRunner, attemptVars, runnerVars, requestVars>>

(* The server stops between the two statements: the transaction rolls back.*)
CancelAbort(j) ==
  /\ cancelTx[j] # "none"
  /\ cancelTx' = [cancelTx EXCEPT ![j] = "none"]
  /\ UNCHANGED <<launchReqs, nextJob, row, jobStatus, jobRunner, cancelRequested,
                 attemptVars, runnerVars, requestVars>>

(* RunnerJobService.requestCancellation: it waits for a locked row.        *)
RequestCancellation(j) ==
  /\ jobStatus[j] \in Open /\ cancelTx[j] # "locked"
  /\ cancelRequested' = [cancelRequested EXCEPT ![j] = TRUE]
  /\ UNCHANGED <<nextJob, row, jobStatus, jobRunner, dashboardVars,
                 attemptVars, runnerVars, requestVars>>

(* revokeRunner (the owner's) and revokeAuthenticated (the runner's logout).*)
RevokeRunner(r) ==
  /\ revoked' = [revoked EXCEPT ![r] = TRUE]
  /\ runnerStatus' = [runnerStatus EXCEPT ![r] = "disabled"]
  /\ UNCHANGED <<supports, jobVars, attemptVars, requestVars>>

-----------------------------------------------------------------------------
(* Heartbeats and leases.                                                  *)

ReceiveHeartbeat(r, inventory) ==
  /\ RoomForRequest /\ ~revoked[r]
  /\ beatReqs' = beatReqs \cup {[runner |-> r, supports |-> inventory]}
  /\ UNCHANGED <<jobVars, attemptVars, runnerVars, leaseReqs, eventReqs,
                 checkpointReqs, terminalReqs>>

\* Mutant of AcceptsHeartbeat.
AcceptsAnyHeartbeat(r) == TRUE

AcceptsHeartbeat(r) == ~revoked[r]

RecordHeartbeat(q) ==
  /\ beatReqs' = beatReqs \ {q}
  /\ IF AcceptsHeartbeat(q.runner)
       THEN /\ runnerStatus' = [runnerStatus EXCEPT ![q.runner] = "online"]
            /\ supports' = [supports EXCEPT ![q.runner] = q.supports]
       ELSE UNCHANGED <<runnerStatus, supports>>
  /\ UNCHANGED revoked
  /\ UNCHANGED <<jobVars, attemptVars, leaseReqs, eventReqs, checkpointReqs,
                 terminalReqs>>

(* authenticate: the request carries the runner row as it was read here.   *)
ReceiveLease(r) ==
  /\ RoomForRequest /\ ~revoked[r]
  /\ leaseReqs' = leaseReqs \cup {[runner |-> r, supports |-> supports[r]]}
  /\ UNCHANGED <<jobVars, attemptVars, runnerVars, beatReqs, eventReqs,
                 checkpointReqs, terminalReqs>>

\* Mutant of RunnerCanClaim.
RunnerCanClaimUnchecked(r) == TRUE

RunnerCanClaim(r) == ~revoked[r] /\ runnerStatus[r] # "disabled"

\* Mutant of HasActiveAttempt.
HasRunningAttempt(r) ==
  \E a \in Attempts : attemptRunner[a] = r /\ attemptStatus[a] = "running"

HasActiveAttempt(r) ==
  \E a \in Attempts : attemptRunner[a] = r /\ attemptStatus[a] \in Active

\* Mutant of Candidates.
CandidatesOfAnyStatus(r) ==
  {j \in Jobs : /\ Exists(j) /\ cancelTx[j] # "locked"
                /\ row[j].owner = OwnerOf[r]
                /\ jobRunner[j] \in {NoRunner, r}
                /\ row[j].target \in CanHost[r]}

(* What the candidate query returns over the iterations of its loop: rows  *)
(* that another transaction has locked are skipped.                        *)
Candidates(r) ==
  {j \in Jobs : /\ jobStatus[j] = "queued" /\ cancelTx[j] # "locked"
                /\ row[j].owner = OwnerOf[r]
                /\ jobRunner[j] \in {NoRunner, r}
                /\ row[j].target \in CanHost[r]}

(* targetCompatibilityBlockers is empty for the runner that was read.      *)
Compatible(j, q) == row[j].target \in q.supports

\* Mutant of ExecutionCanRunOnRunner.
ExecutionCanRunAnywhere(j, r) == TRUE

(* executionCanRunOnRunner: a job it refuses stays queued.                 *)
ExecutionCanRunOnRunner(j, r) ==
  row[j].target \in Hosted => row[j].sealedFor = r /\ row[j].fits

Claimable(q) ==
  {j \in Candidates(q.runner) :
     Compatible(j, q) /\ ExecutionCanRunOnRunner(j, q.runner)}

(* Incompatible candidates met before j (all of them when there is no j)   *)
(* are failed, not leased.                                                 *)
Rejected(q, claimed) ==
  {i \in Candidates(q.runner) :
     ~Compatible(i, q) /\ \A j \in claimed : i < j}

\* Mutant of First.
LastFirst(S) == {j \in S : \A i \in S : j >= i}

First(S) == {j \in S : \A i \in S : j <= i}

(* Rows that the open claim of another runner may have locked: it locks    *)
(* each row it looks at, also those it leaves queued.                      *)
HeldByClaims(q) ==
  {j \in Jobs : \E p \in leaseReqs : p.runner # q.runner /\ j \in Candidates(p.runner)}

(* claimNext, in one transaction that holds the lock of the runner's row   *)
(* and skips the rows in held.                                             *)
Claim(q, held) ==
  LET r == q.runner
      allowed == RunnerCanClaim(r) /\ ~HasActiveAttempt(r)
      claimed == IF allowed THEN First(Claimable(q) \ held) ELSE {}
      failed == IF allowed THEN Rejected(q, claimed) \ held ELSE {}
  IN
  /\ leaseReqs' = leaseReqs \ {q}
  /\ claimed # {} => nextAttempt <= MaxAttempts
  /\ jobStatus' = [j \in Jobs |-> IF j \in claimed THEN "leased"
                                  ELSE IF j \in failed THEN "failed"
                                  ELSE jobStatus[j]]
  /\ jobRunner' = [j \in Jobs |-> IF j \in claimed THEN r ELSE jobRunner[j]]
  /\ IF claimed = {}
       THEN UNCHANGED <<nextAttempt, attemptJob, attemptRunner, attemptStatus>>
       ELSE /\ nextAttempt' = nextAttempt + 1
            /\ \E j \in claimed : attemptJob' = [attemptJob EXCEPT ![nextAttempt] = j]
            /\ attemptRunner' = [attemptRunner EXCEPT ![nextAttempt] = r]
            /\ attemptStatus' = [attemptStatus EXCEPT ![nextAttempt] = "leased"]
  /\ UNCHANGED <<nextJob, row, cancelRequested, dashboardVars, checkpoint, outcome,
                 events, result, runnerVars, beatReqs, eventReqs,
                 checkpointReqs, terminalReqs>>

ClaimNext(q) == \E held \in SUBSET HeldByClaims(q) : Claim(q, held)

-----------------------------------------------------------------------------
(* Requests about a leased attempt.                                        *)

(* recordEvents: the attempt is read once; a terminal one is refused.      *)
ReceiveEvents(a, first, last) ==
  /\ RoomForRequest /\ Authorized(a) /\ first <= last
  /\ attemptStatus[a] \notin Terminal
  /\ eventReqs' = eventReqs \cup
       {[attempt |-> a, next |-> first, last |-> last,
         leased |-> attemptStatus[a] = "leased"]}
  /\ UNCHANGED <<jobVars, attemptVars, runnerVars, leaseReqs, beatReqs,
                 checkpointReqs, terminalReqs>>

\* Mutant of MoreEvents.
MoreEventsOffByOne(q) == q.next <= q.last + 1

MoreEvents(q) == q.next <= q.last

(* saveEvent for the next item: an insert that ignores a duplicate.        *)
SaveEvent(q) ==
  /\ MoreEvents(q)
  /\ events' = [events EXCEPT ![q.attempt] = @ \cup {q.next}]
  /\ eventReqs' = (eventReqs \ {q}) \cup {[q EXCEPT !.next = @ + 1]}
  /\ UNCHANGED <<jobVars, nextAttempt, attemptJob, attemptRunner, attemptStatus,
                 checkpoint, outcome, result, runnerVars, leaseReqs, beatReqs,
                 checkpointReqs, terminalReqs>>

\* Mutant of BecomesRunning.
BecomesRunningUnguarded(q, status) == q.leased

BecomesRunning(q, status) == q.leased /\ status = "leased"

(* markRunning when the status read at the start was leased; both updates  *)
(* are conditional on the status of the row now.                           *)
FinishEvents(q) ==
  LET a == q.attempt
      j == attemptJob[a]
  IN
  /\ ~MoreEvents(q)
  /\ eventReqs' = eventReqs \ {q}
  /\ attemptStatus' = [attemptStatus EXCEPT
       ![a] = IF BecomesRunning(q, @) THEN "running" ELSE @]
  /\ jobStatus' = [jobStatus EXCEPT
       ![j] = IF BecomesRunning(q, @) THEN "running" ELSE @]
  /\ UNCHANGED <<nextJob, row, jobRunner, cancelRequested, dashboardVars, nextAttempt,
                 attemptJob, attemptRunner, checkpoint, outcome, events, result,
                 runnerVars, leaseReqs, beatReqs, checkpointReqs, terminalReqs>>

(* The server process stops inside the loop of saveEvent calls.            *)
AbandonEvents(q) ==
  /\ eventReqs' = eventReqs \ {q}
  /\ UNCHANGED <<jobVars, attemptVars, runnerVars, leaseReqs, beatReqs,
                 checkpointReqs, terminalReqs>>

ReceiveCheckpoint(a, n) ==
  /\ RoomForRequest /\ Authorized(a)
  /\ checkpointReqs' = checkpointReqs \cup {[attempt |-> a, sequence |-> n]}
  /\ UNCHANGED <<jobVars, attemptVars, runnerVars, leaseReqs, beatReqs,
                 eventReqs, terminalReqs>>

\* Mutant of Advances.
AdvancesUnordered(q) == attemptStatus[q.attempt] \in Active

Advances(q) ==
  attemptStatus[q.attempt] \in Active /\ checkpoint[q.attempt] < q.sequence

(* saveCheckpoint: an update conditional on an active attempt and on a     *)
(* smaller stored sequence.                                                *)
SaveCheckpoint(q) ==
  /\ checkpointReqs' = checkpointReqs \ {q}
  /\ checkpoint' = [checkpoint EXCEPT
       ![q.attempt] = IF Advances(q) THEN q.sequence ELSE @]
  /\ UNCHANGED <<jobVars, nextAttempt, attemptJob, attemptRunner, attemptStatus,
                 outcome, events, result, runnerVars, leaseReqs, beatReqs,
                 eventReqs, terminalReqs>>

ReceiveTerminal(a, o) ==
  /\ RoomForRequest /\ Authorized(a)
  /\ terminalReqs' = terminalReqs \cup {[attempt |-> a, outcome |-> o]}
  /\ UNCHANGED <<jobVars, attemptVars, runnerVars, leaseReqs, beatReqs,
                 eventReqs, checkpointReqs>>

(* persistTerminalResult inserts a result unless there is nothing to show. *)
HasResult(o) == o.status = "completed" \/ o.evidence

\* Mutant of PersistsResult.
PersistsEveryResult(first, o) == HasResult(o)

PersistsResult(first, o) == first /\ HasResult(o)

(* complete: both rows and the result in one transaction, each update      *)
(* conditional on an active status; the result only with the attempt.      *)
Complete(q) ==
  LET a == q.attempt
      j == attemptJob[a]
      first == attemptStatus[a] \in Active
  IN
  /\ terminalReqs' = terminalReqs \ {q}
  /\ attemptStatus' = [attemptStatus EXCEPT
       ![a] = IF first THEN q.outcome.status ELSE @]
  /\ outcome' = [outcome EXCEPT ![a] = IF first THEN q.outcome ELSE @]
  /\ jobStatus' = [jobStatus EXCEPT
       ![j] = IF @ \in Active THEN q.outcome.status ELSE @]
  /\ result' = [result EXCEPT
       ![a] = IF PersistsResult(first, q.outcome) THEN q.outcome ELSE @]
  /\ UNCHANGED <<nextJob, row, jobRunner, cancelRequested, dashboardVars, nextAttempt,
                 attemptJob, attemptRunner, checkpoint, events, runnerVars,
                 leaseReqs, beatReqs, eventReqs, checkpointReqs>>

-----------------------------------------------------------------------------
Dashboard ==
  \/ \E r \in Runners, m \in Matrices : ReceiveLaunch(r, m)
  \/ \E q \in launchReqs : Launch(q)
  \/ \E o \in Owners, t \in Targets, s \in Runners \cup {NoRunner}, fits \in BOOLEAN :
       Enqueue(o, t, s, fits)
  \/ \E j \in Jobs : \/ Retry(j) \/ RequestCancellation(j)
                     \/ CancelBegin(j) \/ CancelEnd(j) \/ CancelAbort(j)
  \/ \E r \in Runners : RevokeRunner(r)

Leasing ==
  \/ \E r \in Runners, i \in Inventories : ReceiveHeartbeat(r, i)
  \/ \E q \in beatReqs : RecordHeartbeat(q)
  \/ \E r \in Runners : ReceiveLease(r)
  \/ \E q \in leaseReqs : ClaimNext(q)

AttemptRequests ==
  \/ \E a \in Attempts, f, l \in 0..EventCount - 1 : ReceiveEvents(a, f, l)
  \/ \E q \in eventReqs : SaveEvent(q) \/ FinishEvents(q) \/ AbandonEvents(q)
  \/ \E a \in Attempts, n \in 0..CheckpointCount - 1 : ReceiveCheckpoint(a, n)
  \/ \E q \in checkpointReqs : SaveCheckpoint(q)
  \/ \E a \in Attempts, o \in Outcomes : ReceiveTerminal(a, o)
  \/ \E q \in terminalReqs : Complete(q)

Next == Dashboard \/ Leasing \/ AttemptRequests

Spec == Init /\ [][Next]_vars

-----------------------------------------------------------------------------
(***************************************************************************)
(* Properties.                                                             *)
(***************************************************************************)

(* README "One active job per runner": no interleaving of lease requests,  *)
(* duplicated or stale ones included, leaves a runner with two active      *)
(* attempts.                                                               *)
OneActivePerRunner ==
  \A a, b \in Attempts :
    /\ attemptStatus[a] \in Active /\ attemptStatus[b] \in Active
    /\ attemptRunner[a] = attemptRunner[b]
    => a = b

(* A job and its attempt are rows of two tables, updated by conditional    *)
(* statements of several handlers that read them earlier: they never       *)
(* disagree, and a job is attempted at most once.                          *)
JobFollowsAttempt ==
  /\ \A a \in Attempts :
       attemptStatus[a] # "absent" => jobStatus[attemptJob[a]] = attemptStatus[a]
  /\ \A a, b \in Attempts :
       attemptJob[a] = attemptJob[b] /\ attemptJob[a] # NoJob => a = b
  /\ \A j \in Jobs :
       jobStatus[j] \in Active => \E a \in Attempts : attemptJob[a] = j

(* The stored terminal request is the one the status came from, and there  *)
(* is a result row exactly when that request had something to show: a      *)
(* second completion, with another outcome, leaves no trace.               *)
ResultMatchesOutcome ==
  \A a \in Attempts :
    IF attemptStatus[a] \in Terminal
      THEN /\ outcome[a] # NoOutcome /\ outcome[a].status = attemptStatus[a]
           /\ result[a] = IF HasResult(outcome[a]) THEN outcome[a] ELSE NoOutcome
      ELSE outcome[a] = NoOutcome /\ result[a] = NoOutcome

(* A job runs only on a runner of its account, and a hosted one only where *)
(* its credential can be opened and with a route that accepts it, also     *)
(* when it was enqueued for any runner and when it is a retry.             *)
LeaseRespectsBinding ==
  \A a \in Attempts :
    attemptStatus[a] # "absent" =>
      LET j == attemptJob[a] IN
      /\ row[j].owner = OwnerOf[attemptRunner[a]]
      /\ jobRunner[j] = attemptRunner[a]
      /\ row[j].target \in Hosted => row[j].sealedFor = attemptRunner[a] /\ row[j].fits

(* A heartbeat authenticated before a revocation and recorded after it     *)
(* does not bring the runner back online.                                  *)
RevokedStaysDisabled ==
  \A r \in Runners : revoked[r] => runnerStatus[r] = "disabled"

(* However often retry is pressed, a job has one open retry at most, and a *)
(* job that was retried had ended without success.                         *)
OneOpenRetry ==
  /\ \A j, k \in Jobs :
       /\ jobStatus[j] \in Open /\ jobStatus[k] \in Open
       /\ row[j].retryOf = row[k].retryOf /\ row[j].retryOf # NoJob
       => j = k
  /\ \A j \in Jobs :
       Exists(j) /\ row[j].retryOf # NoJob
         => jobStatus[row[j].retryOf] \in Unsuccessful

(* The jobs of a matrix are leased in its round-robin order: a claim passes*)
(* over an earlier job of the same launch only when it fails that job or a *)
(* cancel transaction holds its lock.                                      *)
MatrixOrder ==
  [][\A i, j \in Jobs :
       /\ i < j /\ row[i] # NoRow /\ row[j] # NoRow
       /\ row[i].experiment = row[j].experiment /\ row[j].retryOf = NoJob
       /\ jobStatus[i] = "queued" /\ jobStatus[j] # "leased" /\ jobStatus'[j] = "leased"
       => cancelTx[i] = "locked" \/ jobStatus'[i] = "failed"]_vars

(* A terminal job or attempt is never changed again, whatever requests of  *)
(* earlier times are still inside the server: not its status, not its      *)
(* outcome, not its result, not its checkpoint.                            *)
TerminalIsFinal ==
  [][/\ \A j \in Jobs : jobStatus[j] \in Terminal => jobStatus'[j] = jobStatus[j]
     /\ \A a \in Attempts :
          attemptStatus[a] \in Terminal =>
            /\ attemptStatus'[a] = attemptStatus[a]
            /\ outcome'[a] = outcome[a] /\ result'[a] = result[a]
            /\ checkpoint'[a] = checkpoint[a]]_vars

(* When cancelJob commits, the job is over or its runner will be told: a   *)
(* claim that falls between its two statements does not lose the           *)
(* cancellation.                                                           *)
CancelNeverLost ==
  [][\A j \in Jobs :
       CancelEnd(j) => jobStatus'[j] \in Terminal \/ cancelRequested'[j]]_vars

(* A lease request authenticated before a revocation obtains nothing after *)
(* it.                                                                     *)
NoLeaseAfterRevoke ==
  [][\A a \in Attempts :
       attemptStatus[a] = "absent" /\ attemptStatus'[a] # "absent"
         => ~revoked[attemptRunner'[a]]]_vars

(* A checkpoint request that was delayed or repeated never replaces a      *)
(* newer checkpoint.                                                       *)
CheckpointNeverRegresses ==
  [][\A a \in Attempts : checkpoint[a] <= checkpoint'[a]]_vars

(* All of this together is a job queue as JobLifecycle describes it: one   *)
(* row and one end per job, whatever requests are inside the server.       *)
Lifecycle ==
  INSTANCE JobLifecycle WITH
    phase <- [j \in Jobs |-> IF jobStatus[j] \in Active THEN "active" ELSE jobStatus[j]],
    result <- [j \in Jobs |->
                 IF \E a \in Attempts : attemptJob[a] = j
                   THEN result[CHOOSE a \in Attempts : attemptJob[a] = j] ELSE NoOutcome],
    NoResult <- NoOutcome

ImplementsLifecycle == Lifecycle!LifecycleSpec
=============================================================================
