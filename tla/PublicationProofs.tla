-------------------------- MODULE PublicationProofs --------------------------
(***************************************************************************)
(* Theorems about Publication, for every set of jobs and administrators,   *)
(* every matrix of targets, any number of requests that overlap, and       *)
(* whatever the runners report.                                            *)
(***************************************************************************)
EXTENDS Publication, FiniteSetTheorems, WellFoundedInduction, TLAPS

IsRequest(q) ==
  /\ q = [admin |-> q.admin, confirmed |-> q.confirmed, read |-> q.read,
          status |-> q.status, view |-> q.view]
  /\ q.admin \in Admins /\ q.read \in {"experiment", "jobs", "results"}

RowsOK ==
  /\ phase \in [Jobs -> Phase]
  /\ result \in [Jobs -> Outcomes \cup {NoResult}]
  /\ DOMAIN retryOf = Jobs /\ DOMAIN shown = Admins
  /\ visibility \in {"private", "public"}

(* What a request read of the jobs: all that the launch added, and ends    *)
(* that stand.                                                             *)
Settled(status) ==
  /\ DOMAIN status \subseteq Jobs
  /\ \A j \in DOMAIN status : status[j] = phase[j] /\ phase[j] \in Ended
  /\ \A j \in Present : retryOf[j] = NoJob => j \in DOMAIN status

(* The view says what the rows of its jobs say.                            *)
Agrees(view) ==
  /\ \A s \in Published(view) :
       /\ s.job \in Jobs /\ s.status = phase[s.job] /\ phase[s.job] \in Ended
       /\ s.primary = Primary(result[s.job])
  /\ \A j \in Present : retryOf[j] = NoJob => \E s \in Published(view) : s.job = j

(* The launch is over before anything is read, so that it adds no job.     *)
Launched == requests # {} \/ snapshot # NoView => Present # {}

RequestOK(q) ==
  /\ IsRequest(q)
  /\ q.confirmed # NoView => q.confirmed \in shown[q.admin]
  /\ q.read \in {"jobs", "results"} => Settled(q.status)
  /\ q.read = "results" => Agrees(q.view) /\ q.view \in shown[q.admin]

SnapshotOK ==
  snapshot # NoView =>
    Agrees(snapshot) /\ curatedBy \in Admins /\ snapshot \in shown[curatedBy]

IInv == RowsOK /\ Launched /\ (\A q \in requests : RequestOK(q)) /\ SnapshotOK

-----------------------------------------------------------------------------
(* The view keeps every series: a group only gives it a rank.              *)

IsSeries(s) ==
  s = [job |-> s.job, target |-> s.target, status |-> s.status, primary |-> s.primary,
       sampleCount |-> s.sampleCount, rank |-> s.rank]

Copies(t, s) == t.job = s.job /\ t.status = s.status /\ t.primary = s.primary

LEMMA RanksKeep ==
  ASSUME NEW series, \A s \in series : IsSeries(s)
  PROVE  /\ \A t \in AssignRanks(series) : \E s \in series : Copies(t, s)
         /\ \A s \in series : \E t \in AssignRanks(series) : Copies(t, s)
<1>1. PICK f : AssignRanks(series) = {[s EXCEPT !.rank = f[s]] : s \in series}
  <2> DEFINE ranked == Ranked(series)
             rank == CHOOSE g : g = [i \in DOMAIN ranked |->
                       IF i > 1 /\ Same(ranked[i].primary, ranked[i - 1].primary)
                         THEN g[i - 1] ELSE i]
             h == [s \in series |-> rank[Place(s, ranked)]]
  <2>1. AssignRanks(series) = {[s EXCEPT !.rank = rank[Place(s, ranked)]] : s \in series}
    BY DEF AssignRanks
  <2> HIDE DEF rank, ranked
  <2>2. \A s \in series : h[s] = rank[Place(s, ranked)]
    OBVIOUS
  <2>3. AssignRanks(series) = {[s EXCEPT !.rank = h[s]] : s \in series}
    BY <2>1, <2>2
  <2> QED BY <2>3
<1>2. \A s \in series : Copies([s EXCEPT !.rank = f[s]], s)
  BY DEF IsSeries, Copies
<1> QED BY <1>1, <1>2

LEMMA GroupKeeps ==
  ASSUME NEW c, NEW series, \A s \in series : IsSeries(s)
  PROVE  LET g == FinalizeGroup(c, series) IN
         /\ \A t \in g.series : \E s \in series : Copies(t, s)
         /\ \A s \in series : \E t \in g.series : Copies(t, s)
<1>1. \A s \in series : Copies(s, s)
  BY DEF Copies
<1>2. FinalizeGroup(c, series).series \in {AssignRanks(series), series}
  BY DEF FinalizeGroup
<1> QED BY <1>1, <1>2, RanksKeep

LEMMA ViewKeeps ==
  ASSUME NEW all, \A s \in all : IsSeries(s)
  PROVE  /\ \A t \in Published(BuildView(all)) : \E s \in all : Copies(t, s)
         /\ \A s \in all : \E t \in Published(BuildView(all)) : Copies(t, s)
<1> DEFINE Of(c) == {s \in all : s.target.condition = c}
<1>1. BuildView(all) = {FinalizeGroup(c, Of(c)) : c \in {s.target.condition : s \in all}}
  BY DEF BuildView
<1>2. ASSUME NEW c
      PROVE  /\ \A t \in FinalizeGroup(c, Of(c)).series : \E s \in Of(c) : Copies(t, s)
             /\ \A s \in Of(c) : \E t \in FinalizeGroup(c, Of(c)).series : Copies(t, s)
  BY GroupKeeps
<1>3. \A s \in all : s \in Of(s.target.condition)
  OBVIOUS
<1>4. \A c : Of(c) \subseteq all
  OBVIOUS
<1> HIDE DEF Of
<1>5. ASSUME NEW t \in Published(BuildView(all)) PROVE \E s \in all : Copies(t, s)
  <2>1. PICK c : t \in FinalizeGroup(c, Of(c)).series
    BY <1>1 DEF Published
  <2> QED BY <2>1, <1>2, <1>4
<1>6. ASSUME NEW s \in all PROVE \E t \in Published(BuildView(all)) : Copies(t, s)
  <2>1. PICK t \in FinalizeGroup(s.target.condition, Of(s.target.condition)).series : Copies(t, s)
    BY <1>2, <1>3
  <2>2. t \in Published(BuildView(all))
    BY <1>1, <2>1 DEF Published
  <2> QED BY <2>1, <2>2
<1> QED BY <1>5, <1>6

-----------------------------------------------------------------------------
(* The invariant.                                                          *)

LEMMA InitInv == PublicationInit => IInv
BY DEF PublicationInit, LifecycleInit, IInv, RowsOK, Launched, SnapshotOK, Phase, Present, Ended

(* A step of the queue leaves the jobs that have ended, and what the       *)
(* requests and the snapshot say of them, as they are.                     *)
Continues ==
  /\ phase' \in [Jobs -> Phase] /\ result' \in [Jobs -> Outcomes \cup {NoResult}]
  /\ \A j \in Jobs : phase[j] # "absent" => phase'[j] # "absent"
  /\ \A j \in Jobs : phase[j] \in Ended => phase'[j] = phase[j] /\ result'[j] = result[j]

LEMMA AddContinues ==
  ASSUME RowsOK, NEW new, Add(new) PROVE Continues
BY DEF RowsOK, Add, Continues, Phase, Ended

LEMMA ClaimContinues ==
  ASSUME RowsOK, NEW leased, NEW failed, Claim(leased, failed) PROVE Continues
BY DEF RowsOK, Claim, Continues, Phase, Ended

LEMMA CancelContinues ==
  ASSUME RowsOK, NEW j \in Jobs, Cancel(j) PROVE Continues
BY DEF RowsOK, Cancel, Continues, Phase, Ended

LEMMA FinishContinues ==
  ASSUME RowsOK, NEW j \in Jobs, NEW o \in Outcomes, NEW row, Finish(j, o, row)
  PROVE  Continues
<1>1. o.status \in Ended /\ row \in Outcomes \cup {NoResult}
  BY PublicationAssumption DEF Finish
<1> QED BY <1>1 DEF RowsOK, Finish, Continues, Phase, Ended

(* Whatever adds no job but retries keeps the invariant.                   *)
LEMMA JobsStep ==
  ASSUME IInv, Continues, DOMAIN retryOf' = Jobs,
         \A j \in Jobs : phase'[j] # "absent" /\ retryOf'[j] = NoJob =>
                         phase[j] # "absent" /\ retryOf[j] = NoJob,
         UNCHANGED <<benchmark, experimentVars, shown, requests>>
  PROVE  IInv'
<1>1. Present \subseteq Present'
  BY DEF Present, Continues
<1>2. \A row : Primary(row)' = Primary(row)
  BY DEF Primary
<1>3. ASSUME NEW view, Agrees(view) PROVE Agrees(view)'
  BY <1>2, <1>3 DEF Agrees, Continues, Present
<1>4. ASSUME NEW status, Settled(status) PROVE Settled(status)'
  BY <1>4 DEF Settled, Continues, Present
<1>5. ASSUME NEW q \in requests PROVE RequestOK(q)'
  BY <1>3, <1>4, RequestOK(q) DEF IInv, RequestOK, IsRequest
<1>6. RowsOK'
  BY DEF IInv, RowsOK, Continues, experimentVars
<1>7. Launched'
  BY <1>1 DEF IInv, Launched, experimentVars
<1>8. SnapshotOK'
  BY <1>3 DEF IInv, SnapshotOK, experimentVars
<1> QED BY <1>5, <1>6, <1>7, <1>8 DEF IInv

LEMMA LaunchInv == ASSUME IInv, Launch PROVE IInv'
<1>1. requests = {} /\ snapshot = NoView
  BY DEF IInv, Launched, Launch
<1>2. Continues
  BY AddContinues DEF IInv, Launch
<1> QED BY <1>1, <1>2 DEF IInv, Launch, Continues, RowsOK, Launched, SnapshotOK, experimentVars

LEMMA RetryInv ==
  ASSUME IInv, NEW j \in Jobs, NEW k \in Jobs, Retry(j, k) PROVE IInv'
<1>1. Continues
  BY AddContinues DEF IInv, Retry
<1>2. \A i \in Jobs : phase'[i] # "absent" /\ retryOf'[i] = NoJob =>
                      phase[i] # "absent" /\ retryOf[i] = NoJob
  BY PublicationAssumption DEF IInv, RowsOK, Retry, Add
<1> QED BY <1>1, <1>2, JobsStep DEF IInv, RowsOK, Retry

LEMMA QueueAddsNone ==
  ASSUME IInv, QueueStep
  PROVE  \A i \in Jobs : phase'[i] # "absent" => phase[i] # "absent"
<1>1. ASSUME NEW j \in Jobs, NEW o, NEW row, Finish(j, o, row), NEW i \in Jobs,
             phase'[i] # "absent"
      PROVE  phase[i] # "absent"
  BY <1>1 DEF IInv, RowsOK, Finish
<1>2. ASSUME NEW a, NEW b, Claim(a, b), NEW i \in Jobs, phase'[i] # "absent"
      PROVE  phase[i] # "absent"
  BY <1>2 DEF Claim
<1>3. ASSUME NEW j \in Jobs, Cancel(j), NEW i \in Jobs, phase'[i] # "absent"
      PROVE  phase[i] # "absent"
  BY <1>3 DEF IInv, RowsOK, Cancel
<1> QED BY <1>1, <1>2, <1>3 DEF QueueStep, EndOfJob

LEMMA QueueInv == ASSUME IInv, QueueStep PROVE IInv'
<1>1. Continues
  <2> USE DEF IInv
  <2>1. ASSUME NEW j \in Jobs, NEW o \in Outcomes, EndOfJob(j, o) PROVE Continues
    BY <2>1, FinishContinues DEF EndOfJob
  <2> QED BY <2>1, ClaimContinues, CancelContinues DEF QueueStep
<1>2. \A i \in Jobs : phase'[i] # "absent" => phase[i] # "absent"
  BY QueueAddsNone
<1> QED BY <1>1, <1>2, JobsStep DEF IInv, RowsOK, QueueStep, jobRows

-----------------------------------------------------------------------------
(* Requests.                                                               *)

(* A step that changes neither jobs nor snapshot, shows no less, and       *)
(* leaves only requests that are in order.                                 *)
LEMMA RequestStep ==
  ASSUME IInv, UNCHANGED <<lifecycleVars, benchmark, jobRows, experimentVars>>,
         DOMAIN shown' = Admins, \A a \in Admins : shown[a] \subseteq shown'[a],
         requests' # {} => Present # {},
         \A q \in requests' : q \in requests \/ RequestOK(q)'
  PROVE  IInv'
<1> USE DEF lifecycleVars, jobRows, experimentVars
<1>1. \A view : Agrees(view)' = Agrees(view)
  BY DEF Agrees, Present, Primary
<1>2. \A status : Settled(status)' = Settled(status)
  BY DEF Settled, Present
<1>3. ASSUME NEW q \in requests PROVE RequestOK(q)'
  BY <1>1, <1>2, RequestOK(q) DEF IInv, RequestOK, IsRequest
<1>4. RowsOK' /\ Launched'
  BY DEF IInv, RowsOK, Launched, Present
<1>5. SnapshotOK'
  BY <1>1 DEF IInv, SnapshotOK
<1> QED BY <1>3, <1>4, <1>5 DEF IInv

LEMMA ReceiveInv ==
  ASSUME IInv, NEW a \in Admins, NEW view, view # NoView => view \in shown[a],
         Receive(a, view)
  PROVE  IInv'
<1> DEFINE new == NewRequest(a, view)
<1>1. requests' = requests \cup {new} /\ Present # {}
      /\ UNCHANGED <<lifecycleVars, benchmark, jobRows, experimentVars, shown>>
  BY DEF Receive
<1>2. RequestOK(new)'
  BY <1>1 DEF NewRequest, RequestOK, IsRequest
<1> HIDE DEF new
<1> QED BY <1>1, <1>2, RequestStep DEF IInv, RowsOK

(* The request that has read one thing more.                               *)
LEMMA Advance ==
  ASSUME NEW q, IsRequest(q), NEW status, NEW view
  PROVE  /\ [q EXCEPT !.read = "jobs", !.status = status] =
               [admin |-> q.admin, confirmed |-> q.confirmed, read |-> "jobs",
                status |-> status, view |-> q.view]
         /\ [q EXCEPT !.read = "results", !.view = view] =
               [admin |-> q.admin, confirmed |-> q.confirmed, read |-> "results",
                status |-> q.status, view |-> view]
<1>1. PICK a, c, r, t, v :
        q = [admin |-> a, confirmed |-> c, read |-> r, status |-> t, view |-> v]
  BY DEF IsRequest
<1>2. /\ [q EXCEPT !.read = "jobs", !.status = status] =
           [[q EXCEPT !.read = "jobs"] EXCEPT !.status = status]
      /\ [q EXCEPT !.read = "results", !.view = view] =
           [[q EXCEPT !.read = "results"] EXCEPT !.view = view]
  OBVIOUS
<1>3. \A x : [q EXCEPT !.read = x] =
        [admin |-> a, confirmed |-> c, read |-> x, status |-> t, view |-> v]
  BY <1>1
<1>4. [[q EXCEPT !.read = "jobs"] EXCEPT !.status = status] =
        [admin |-> a, confirmed |-> c, read |-> "jobs", status |-> status, view |-> v]
  <2>1. PICK p : p = [q EXCEPT !.read = "jobs"]
    OBVIOUS
  <2>2. p = [admin |-> a, confirmed |-> c, read |-> "jobs", status |-> t, view |-> v]
    BY <1>3, <2>1
  <2>3. [p EXCEPT !.status = status] =
          [admin |-> a, confirmed |-> c, read |-> "jobs", status |-> status, view |-> v]
    BY <2>2
  <2> QED BY <2>1, <2>3
<1>5. [[q EXCEPT !.read = "results"] EXCEPT !.view = view] =
        [admin |-> a, confirmed |-> c, read |-> "results", status |-> t, view |-> view]
  <2>1. PICK p : p = [q EXCEPT !.read = "results"]
    OBVIOUS
  <2>2. p = [admin |-> a, confirmed |-> c, read |-> "results", status |-> t, view |-> v]
    BY <1>3, <2>1
  <2>3. [p EXCEPT !.view = view] =
          [admin |-> a, confirmed |-> c, read |-> "results", status |-> t, view |-> view]
    BY <2>2
  <2> QED BY <2>1, <2>3
<1> QED BY <1>1, <1>2, <1>4, <1>5

LEMMA ReadJobsInv ==
  ASSUME IInv, NEW q \in requests, ReadJobs(q) PROVE IInv'
<1>1. PICK status : status = [j \in Present |-> phase[j]]
  OBVIOUS
<1>2. PICK next : next = [q EXCEPT !.read = "jobs", !.status = status]
  OBVIOUS
<1>3. UNCHANGED <<lifecycleVars, benchmark, jobRows, experimentVars, shown>>
      /\ requests' = (requests \ {q}) \cup IF JobsAreTerminal(status) THEN {next} ELSE {}
  BY <1>1, <1>2 DEF ReadJobs, Replace
<1>4. RequestOK(q) /\ Present # {}
  BY DEF IInv, Launched
<1>5. ASSUME JobsAreTerminal(status) PROVE RequestOK(next)'
  <2>1. Settled(status)'
    BY <1>1, <1>3, <1>5 DEF JobsAreTerminal, Settled, Present, lifecycleVars, jobRows
  <2>2. next = [admin |-> q.admin, confirmed |-> q.confirmed, read |-> "jobs",
                status |-> status, view |-> q.view]
    BY <1>2, <1>4, Advance DEF RequestOK
  <2>3. next.admin = q.admin /\ next.confirmed = q.confirmed /\ next.read = "jobs"
        /\ next.status = status
    BY <2>2
  <2>4. IsRequest(next)'
    BY <1>4, <2>2 DEF RequestOK, IsRequest
  <2> QED BY <1>3, <1>4, <2>1, <2>3, <2>4 DEF RequestOK
<1> QED BY <1>3, <1>4, <1>5, RequestStep DEF IInv, RowsOK

(* The view of a request: its jobs have ended, so that the rows read later *)
(* are those of the same ends.                                             *)
LEMMA ViewAgrees ==
  ASSUME NEW status, Settled(status), NEW readable
  PROVE  Agrees(BuildView({SeriesFor(j, status[j], result[j], j \in readable) :
                             j \in DOMAIN status}))
<1> DEFINE all == {SeriesFor(j, status[j], result[j], j \in readable) : j \in DOMAIN status}
<1>1. \A s \in all : IsSeries(s)
  BY DEF IsSeries, SeriesFor
<1>2. ASSUME NEW s \in all
      PROVE  /\ s.job \in DOMAIN status /\ s.status = status[s.job]
             /\ s.primary = Primary(result[s.job])
  BY DEF SeriesFor
<1>3. ASSUME NEW j \in DOMAIN status PROVE \E s \in all : s.job = j
  <2>1. SeriesFor(j, status[j], result[j], j \in readable) \in all
    OBVIOUS
  <2>2. SeriesFor(j, status[j], result[j], j \in readable).job = j
    BY DEF SeriesFor
  <2> HIDE DEF all
  <2> QED BY <2>1, <2>2
<1> HIDE DEF all
<1>4. /\ \A t \in Published(BuildView(all)) : \E s \in all : Copies(t, s)
      /\ \A s \in all : \E t \in Published(BuildView(all)) : Copies(t, s)
  BY <1>1, ViewKeeps
<1>5. ASSUME NEW t \in Published(BuildView(all))
      PROVE  /\ t.job \in Jobs /\ t.status = phase[t.job] /\ phase[t.job] \in Ended
             /\ t.primary = Primary(result[t.job])
  <2>1. PICK s \in all : Copies(t, s)
    BY <1>4
  <2> QED BY <1>2, <2>1 DEF Copies, Settled
<1>6. ASSUME NEW j \in Present, retryOf[j] = NoJob
      PROVE  \E t \in Published(BuildView(all)) : t.job = j
  <2>1. PICK s \in all : s.job = j
    BY <1>3, <1>6 DEF Settled
  <2> QED BY <1>4, <2>1 DEF Copies
<1>7. Agrees(BuildView(all))
  BY <1>5, <1>6 DEF Agrees
<1> QED BY <1>7 DEF all

LEMMA ReadResultsInv ==
  ASSUME IInv, NEW q \in requests, NEW readable, NEW current, ReadResults(q, readable, current)
  PROVE  IInv'
<1>1. RequestOK(q) /\ q.read = "jobs" /\ q.admin \in Admins /\ Present # {}
  BY DEF IInv, Launched, ReadResults, RequestOK, IsRequest
<1>2. PICK view : view = BuildView({SeriesFor(j, q.status[j], result[j], j \in readable) :
                                     j \in DOMAIN q.status})
  OBVIOUS
<1>3. PICK next : next = [q EXCEPT !.read = "results", !.view = view]
  OBVIOUS
<1>4. UNCHANGED <<lifecycleVars, benchmark, jobRows, experimentVars>>
  BY DEF ReadResults, Replace
<1>5. \/ shown' = [shown EXCEPT ![q.admin] = @ \cup {view}]
      \/ shown' = [shown EXCEPT ![q.admin] = @]
  BY <1>2 DEF ReadResults
<1>6. \/ requests' = requests \ {q}
      \/ /\ requests' = (requests \ {q}) \cup {next}
         /\ q.confirmed # NoView /\ view = q.confirmed
  BY <1>2, <1>3 DEF ReadResults, Replace, Fingerprint
<1>7. Settled(q.status) /\ Agrees(view)
  BY <1>1, <1>2, ViewAgrees DEF RequestOK
<1>8. next = [admin |-> q.admin, confirmed |-> q.confirmed, read |-> "results",
              status |-> q.status, view |-> view]
  BY <1>1, <1>3, Advance DEF RequestOK
<1>9. DOMAIN shown' = Admins /\ \A a \in Admins : shown[a] \subseteq shown'[a]
  BY <1>1, <1>5 DEF IInv, RowsOK
<1>10. ASSUME q.confirmed # NoView, view = q.confirmed PROVE RequestOK(next)'
  <2>1. q.confirmed \in shown'[q.admin]
    BY <1>1, <1>9, <1>10 DEF RequestOK
  <2>2. Agrees(view)' /\ Settled(q.status)'
    BY <1>4, <1>7 DEF Agrees, Settled, Present, Primary, lifecycleVars, jobRows
  <2>3. next.admin = q.admin /\ next.confirmed = q.confirmed /\ next.read = "results"
        /\ next.status = q.status /\ next.view = view
    BY <1>8
  <2>4. IsRequest(next)'
    BY <1>1, <1>8 DEF IsRequest
  <2> QED BY <1>10, <2>1, <2>2, <2>3, <2>4 DEF RequestOK
<1> QED BY <1>1, <1>4, <1>6, <1>9, <1>10, RequestStep

LEMMA AbandonInv ==
  ASSUME IInv, NEW q \in requests, Abandon(q) PROVE IInv'
<1>1. Present # {}
  BY DEF IInv, Launched
<1> QED BY <1>1, RequestStep DEF IInv, RowsOK, Abandon, Replace

(* Between the end of the reads and the update nothing has changed that    *)
(* the view says.                                                          *)
LEMMA PublishInv ==
  ASSUME IInv, NEW q \in requests, Publish(q) PROVE IInv'
<1>1. RequestOK(q) /\ q.read = "results" /\ Present # {}
  BY DEF IInv, Launched, Publish
<1>2. requests' = requests \ {q} /\ UNCHANGED <<lifecycleVars, benchmark, jobRows, shown>>
  BY DEF Publish
<1>3. \A view : Agrees(view)' = Agrees(view)
  BY <1>2 DEF Agrees, Present, Primary, lifecycleVars, jobRows
<1>4. \A status : Settled(status)' = Settled(status)
  BY <1>2 DEF Settled, Present, lifecycleVars, jobRows
<1>5. ASSUME NEW r \in requests PROVE RequestOK(r)'
  BY <1>2, <1>3, <1>4, RequestOK(r) DEF IInv, RequestOK, IsRequest
<1>6. \/ UNCHANGED experimentVars
      \/ visibility' = "public" /\ snapshot' = q.view /\ curatedBy' = q.admin
  BY DEF Publish
<1>7. RowsOK' /\ Launched'
  BY <1>1, <1>2, <1>6
     DEF IInv, RowsOK, Launched, Present, lifecycleVars, jobRows, experimentVars
<1>8. SnapshotOK'
  <2>1. Agrees(q.view) /\ q.admin \in Admins /\ q.view \in shown[q.admin]
    BY <1>1 DEF RequestOK, IsRequest
  <2> QED BY <1>2, <1>3, <1>6, <2>1 DEF IInv, SnapshotOK, experimentVars
<1> QED BY <1>2, <1>5, <1>7, <1>8 DEF IInv

LEMMA WithdrawInv == ASSUME IInv, Withdraw PROVE IInv'
<1>1. UNCHANGED <<lifecycleVars, benchmark, jobRows, snapshot, curatedBy, shown, requests>>
      /\ visibility' = "private"
  BY DEF Withdraw
<1>2. \A view : Agrees(view)' = Agrees(view)
  BY <1>1 DEF Agrees, Present, Primary, lifecycleVars, jobRows
<1>3. \A status : Settled(status)' = Settled(status)
  BY <1>1 DEF Settled, Present, lifecycleVars, jobRows
<1>4. ASSUME NEW r \in requests PROVE RequestOK(r)'
  BY <1>1, <1>2, <1>3, RequestOK(r) DEF IInv, RequestOK, IsRequest
<1>5. RowsOK' /\ Launched' /\ SnapshotOK'
  BY <1>1, <1>2
     DEF IInv, RowsOK, Launched, SnapshotOK, Present, lifecycleVars, jobRows
<1> QED BY <1>1, <1>4, <1>5 DEF IInv

LEMMA NextInv == IInv /\ [PublicationNext]_vars => IInv'
<1> SUFFICES ASSUME IInv, [PublicationNext]_vars PROVE IInv'
  OBVIOUS
<1>1. ASSUME NEW a \in Admins, ReceivePreview(a) PROVE IInv'
  BY <1>1, ReceiveInv DEF ReceivePreview
<1>2. ASSUME NEW a \in Admins, NEW v \in shown[a], ReceiveCurate(a, v) PROVE IInv'
  BY <1>2, ReceiveInv DEF ReceiveCurate
<1>3. CASE UNCHANGED vars
  <2>1. UNCHANGED <<benchmark, experimentVars, shown, requests, phase, result, retryOf>>
    BY <1>3 DEF vars, lifecycleVars, jobRows
  <2>2. Continues
    BY <2>1 DEF IInv, RowsOK, Continues
  <2> QED BY <2>1, <2>2, JobsStep DEF IInv, RowsOK
<1> QED BY <1>1, <1>2, <1>3, LaunchInv, RetryInv, QueueInv, ReadJobsInv, ReadResultsInv,
        AbandonInv, PublishInv, WithdrawInv DEF PublicationNext

-----------------------------------------------------------------------------
(* The inductive invariant: what a request has read of the jobs and of     *)
(* their results stays true of the tables while it is in the server.       *)
THEOREM Inductive == PublicationSpec => []IInv
BY InitInv, NextInv, PTL DEF PublicationSpec

(* Whatever happens between a preview and its confirmation, what becomes   *)
(* public is a view that the administrator who published it was shown.     *)
THEOREM ConfirmationBinds == PublicationSpec => []PublishedAsConfirmed
<1>1. IInv => PublishedAsConfirmed
  BY DEF IInv, SnapshotOK, PublishedAsConfirmed
<1> QED BY <1>1, Inductive, PTL

(* A snapshot says what the tables say of its jobs, and misses no job of   *)
(* the launch, however its reads interleaved with the queue.               *)
THEOREM SnapshotIsCurrent == PublicationSpec => []SnapshotAgreesWithTables
<1>1. \A x, y : x = y => Same(x, y)
  BY DEF Same
<1>2. IInv => SnapshotAgreesWithTables
  BY <1>1 DEF IInv, SnapshotOK, Agrees, SnapshotAgreesWithTables
<1> QED BY <1>2, Inductive, PTL

(* What was published is never published again, nor listed again once it   *)
(* was withdrawn.                                                          *)
THEOREM PublishedOnce == PublicationSpec => NeverRepublished
<1> DEFINE Once == snapshot # NoView => snapshot' = snapshot /\ Listed' \subseteq Listed
<1>1. ASSUME [PublicationNext]_vars, snapshot # NoView
      PROVE  snapshot' = snapshot /\ (visibility' = visibility \/ visibility' = "private")
  <2> USE <1>1
  <2>1. CASE UNCHANGED experimentVars
    BY <2>1 DEF experimentVars
  <2>2. CASE Withdraw
    BY <2>2 DEF Withdraw
  <2>3. ASSUME NEW q, Publish(q) PROVE UNCHANGED experimentVars
    BY <2>3 DEF Publish, IsUnpublished
  <2> QED BY <2>1, <2>2, <2>3 DEF PublicationNext, Launch, QueueStep, Retry, ReceivePreview,
          ReceiveCurate, Receive, ReadJobs, ReadResults, Replace, Abandon, vars
<1>2. [PublicationNext]_vars => [Once]_vars
  BY <1>1 DEF Listed
<1> QED BY <1>2, PTL DEF PublicationSpec, NeverRepublished

-----------------------------------------------------------------------------
(* Fractions are compared by cross-multiplication: a total order.          *)

LEMMA Multiplied ==
  ASSUME NEW a \in Int, NEW b \in Int, NEW c \in Nat \ {0}
  PROVE  a <= b <=> a * c <= b * c
OBVIOUS

LEMMA Exchanged ==
  ASSUME NEW a \in Int, NEW b \in Int, NEW c \in Int
  PROVE  (a * b) * c = (a * c) * b /\ a * b \in Int
OBVIOUS

LEMMA CrossTransitive ==
  ASSUME NEW a \in Int, NEW b \in Nat \ {0}, NEW c \in Int, NEW d \in Nat \ {0},
         NEW e \in Int, NEW f \in Nat \ {0}, a * d <= c * b, c * f <= e * d
  PROVE  a * f <= e * b
<1>1. (a * d) * f <= (c * b) * f
  BY Multiplied, Exchanged
<1>2. (c * f) * b <= (e * d) * b
  BY Multiplied, Exchanged
<1>3. (a * f) * d <= (e * b) * d
  BY <1>1, <1>2, Exchanged
<1> QED BY <1>3, Multiplied, Exchanged

Value == Fraction \ {Missing}

LEMMA AtMostOrders ==
  ASSUME NEW x \in Value, NEW y \in Value, NEW z \in Value
  PROVE  /\ AtMost(x, y) \/ AtMost(y, x)
         /\ AtMost(x, y) /\ AtMost(y, z) => AtMost(x, z)
         /\ Same(x, y) <=> AtMost(x, y) /\ AtMost(y, x)
<1>1. /\ x.num \in Int /\ x.den \in Nat \ {0} /\ y.num \in Int /\ y.den \in Nat \ {0}
      /\ z.num \in Int /\ z.den \in Nat \ {0}
      /\ x # Missing /\ y # Missing
  BY DEF Value, Fraction
<1>2. x.num * y.den \in Int /\ y.num * x.den \in Int
  BY <1>1
<1>3. AtMost(x, y) /\ AtMost(y, z) => AtMost(x, z)
  BY <1>1, CrossTransitive DEF AtMost
<1> QED BY <1>1, <1>2, <1>3 DEF AtMost, Same

Valued(S) == \A s \in S : s.primary \in Value

(* Better is a strict weak order, in which equal values are ties.          *)
LEMMA BetterOrders ==
  ASSUME NEW S, Valued(S), NEW x \in S, NEW y \in S, NEW z \in S
  PROVE  /\ ~(Better(x, y) /\ Better(y, x))
         /\ Better(x, z) => Better(x, y) \/ Better(y, z)
         /\ Same(x.primary, y.primary) <=> ~Better(x, y) /\ ~Better(y, x)
<1>1. x.primary \in Value /\ y.primary \in Value /\ z.primary \in Value
  BY DEF Valued
<1>2. ASSUME NEW a \in S, NEW b \in S
      PROVE  Better(a, b) <=> IF benchmark.direction = "higher" THEN ~AtMost(a.primary, b.primary)
                                                                ELSE ~AtMost(b.primary, a.primary)
  BY AtMostOrders DEF Better, Valued
<1> QED BY <1>1, <1>2, AtMostOrders

-----------------------------------------------------------------------------
(* There is an order in which no series follows one that it beats.         *)

LEMMA Induction ==
  ASSUME NEW P \in SUBSET Nat, 0 \in P, \A n \in P : n + 1 \in P
  PROVE  P = Nat
<1> SUFFICES ASSUME P # Nat PROVE FALSE
  OBVIOUS
<1> DEFINE T == Nat \ P
<1>1. PICK x \in T : \A y \in T : x <= y
  <2>1. T \in SUBSET Nat /\ T # {}
    OBVIOUS
  <2> HIDE DEF T
  <2>2. PICK x \in T : \A y \in T : <<y, x>> \notin OpToRel(<, Nat)
    BY <2>1, NatLessThanWellFounded, WFMin
  <2>3. \A y \in T : ~(y < x)
    BY <2>1, <2>2 DEF OpToRel
  <2> QED BY <2>1, <2>3
<1>2. x # 0 /\ x \in Nat /\ x \notin P
  OBVIOUS
<1>3. x - 1 \in Nat /\ x - 1 < x
  BY <1>2
<1>4. x - 1 \in P
  BY <1>1, <1>3
<1> QED BY <1>2, <1>3, <1>4

(* A series that beats no other one is the last of them.                   *)
LEMMA WorstExists ==
  ASSUME NEW S, Valued(S), IsFiniteSet(S), S # {}
  PROVE  \E w \in S : \A x \in S : ~Better(w, x)
<1> DEFINE HasWorst(T) == \E w \in T : \A x \in T : ~Better(w, x)
           P == {n \in Nat : \A T \in SUBSET S : T # {} /\ Cardinality(T) = n => HasWorst(T)}
<1>1. 0 \in P
  BY FS_Subset, FS_EmptySet
<1>2. ASSUME NEW n \in P PROVE n + 1 \in P
  <2> SUFFICES ASSUME NEW T \in SUBSET S, T # {}, Cardinality(T) = n + 1 PROVE HasWorst(T)
    BY <1>2
  <2>1. PICK x \in T : TRUE
    OBVIOUS
  <2> DEFINE U == T \ {x}
  <2>2. U \in SUBSET S /\ Cardinality(U) = n
    <3>1. IsFiniteSet(T) /\ n \in Nat
      BY <1>2, FS_Subset
    <3>2. Cardinality(U) = Cardinality(T) - 1
      BY <2>1, <3>1, FS_RemoveElement
    <3> QED BY <3>1, <3>2
  <2>3. ~Better(x, x)
    BY <2>1, BetterOrders
  <2>4. CASE U = {}
    BY <2>1, <2>3, <2>4
  <2>5. CASE U # {}
    <3>1. PICK w \in U : \A y \in U : ~Better(w, y)
      BY <1>2, <2>2, <2>5
    <3>2. CASE Better(w, x)
      <4>1. ASSUME NEW y \in U PROVE ~Better(x, y)
        <5>1. w \in S /\ x \in S /\ y \in S /\ ~Better(w, y)
          BY <2>1, <2>2, <3>1
        <5>2. Better(w, x) => Better(w, y) \/ Better(y, x)
          BY <5>1, BetterOrders
        <5> QED BY <3>2, <5>1, <5>2, BetterOrders
      <4> QED BY <2>1, <2>3, <4>1
    <3>3. CASE ~Better(w, x)
      BY <3>1, <3>3
    <3> QED BY <3>2, <3>3
  <2> QED BY <2>4, <2>5
<1> HIDE DEF P
<1>3. P = Nat
  <2>1. P \in SUBSET Nat
    BY DEF P
  <2> QED BY <1>1, <1>2, <2>1, Induction
<1>4. Cardinality(S) \in P
  BY <1>3, FS_CardinalityType
<1> QED BY <1>4 DEF P

Sorted(f) == \A i, j \in DOMAIN f : i < j => ~Better(f[j], f[i])

LEMMA OrderExists ==
  ASSUME NEW S, Valued(S), IsFiniteSet(S)
  PROVE  \E f \in SetToSeqs(S) : Sorted(f)
<1> DEFINE P == {n \in Nat : \A T \in SUBSET S : Cardinality(T) = n =>
                               \E f \in SetToSeqs(T) : Sorted(f)}
<1>1. 0 \in P
  <2> SUFFICES ASSUME NEW T \in SUBSET S, Cardinality(T) = 0
               PROVE  \E f \in SetToSeqs(T) : Sorted(f)
    OBVIOUS
  <2> DEFINE f == [i \in 1..0 |-> i]
  <2>1. f \in [1..0 -> T] /\ DOMAIN f = {}
    OBVIOUS
  <2> HIDE DEF f
  <2> QED BY <2>1 DEF SetToSeqs, Sorted
<1>2. ASSUME NEW n \in P PROVE n + 1 \in P
  <2> SUFFICES ASSUME NEW T \in SUBSET S, Cardinality(T) = n + 1
               PROVE  \E f \in SetToSeqs(T) : Sorted(f)
    BY <1>2
  <2>1. Valued(T) /\ IsFiniteSet(T) /\ T # {} /\ n \in Nat
    BY <1>2, FS_Subset, FS_EmptySet DEF Valued
  <2>2. PICK w \in T : \A x \in T : ~Better(w, x)
    BY <2>1, WorstExists
  <2> DEFINE U == T \ {w}
  <2>3. U \in SUBSET S /\ Cardinality(U) = n
    <3>1. Cardinality(U) = Cardinality(T) - 1
      BY <2>1, FS_RemoveElement
    <3> QED BY <2>1, <3>1
  <2>4. PICK g \in SetToSeqs(U) : Sorted(g)
    BY <1>2, <2>3
  <2>5. /\ g \in [1..n -> U]
        /\ \A i, j \in 1..n : i # j => g[i] # g[j]
        /\ \A i, j \in 1..n : i < j => ~Better(g[j], g[i])
    BY <2>3, <2>4 DEF SetToSeqs, Sorted
  <2> DEFINE f == [i \in 1..n + 1 |-> IF i = n + 1 THEN w ELSE g[i]]
  <2>6. ASSUME NEW i \in 1..n + 1
        PROVE  /\ i = n + 1 => f[i] = w
               /\ i # n + 1 => i \in 1..n /\ f[i] = g[i] /\ f[i] \in U
               /\ f[i] \in T
    BY <2>1, <2>5
  <2>7. DOMAIN f = 1..n + 1 /\ f \in [1..n + 1 -> T]
    BY <2>6
  <2> HIDE DEF f
  <2>8. ASSUME NEW i \in 1..n + 1, NEW j \in 1..n + 1, i # j PROVE f[i] # f[j]
    BY <2>5, <2>6, <2>8
  <2>9. ASSUME NEW i \in 1..n + 1, NEW j \in 1..n + 1, i < j PROVE ~Better(f[j], f[i])
    <3>1. i # n + 1 /\ i \in 1..n
      BY <2>1, <2>9
    <3>2. CASE j = n + 1
      BY <2>2, <2>6, <3>2
    <3>3. CASE j # n + 1
      BY <2>5, <2>6, <2>9, <3>1, <3>3
    <3> QED BY <3>2, <3>3
  <2>10. f \in SetToSeqs(T)
    BY <2>7, <2>8 DEF SetToSeqs
  <2>11. Sorted(f)
    BY <2>7, <2>9 DEF Sorted
  <2> QED BY <2>10, <2>11
<1> HIDE DEF P
<1>3. P = Nat
  <2>1. P \in SUBSET Nat
    BY DEF P
  <2> QED BY <1>1, <1>2, <2>1, Induction
<1>4. Cardinality(S) \in P
  BY <1>3, FS_CardinalityType
<1> QED BY <1>4 DEF P

LEMMA RankedIs ==
  ASSUME NEW S, Valued(S), IsFiniteSet(S)
  PROVE  LET r == Ranked(S)
             n == Cardinality(S)
         IN  /\ n \in Nat /\ r \in [1..n -> S] /\ Sorted(r)
             /\ \A i, j \in 1..n : i # j => r[i] # r[j]
             /\ \A s \in S : \E i \in 1..n : r[i] = s
<1> DEFINE r == Ranked(S)
           n == Cardinality(S)
<1>1. r \in SetToSeqs(S) /\ Sorted(r)
  <2>1. PICK f \in SetToSeqs(S) : \A i, j \in DOMAIN f : i < j => ~Better(f[j], f[i])
    BY OrderExists DEF Sorted
  <2>2. r \in SetToSeqs(S) /\ \A i, j \in DOMAIN r : i < j => ~Better(r[j], r[i])
    BY <2>1 DEF Ranked
  <2> QED BY <2>2 DEF Sorted
<1>2. n \in Nat
  BY FS_CardinalityType
<1> HIDE DEF r
<1>3. r \in [1..n -> S] /\ \A i, j \in 1..n : i # j => r[i] # r[j]
  BY <1>1 DEF SetToSeqs
<1>4. \A s \in S : \E i \in 1..n : r[i] = s
  <2>1. r \in Injection(1..n, S)
    BY <1>3 DEF Injection, IsInjective
  <2>2. Cardinality(1..n) = n
    BY <1>2, FS_Interval
  <2>3. r \in Surjection(1..n, S)
    BY <2>1, <2>2, FS_Injection
  <2> QED BY <2>3 DEF Surjection
<1> QED BY <1>1, <1>2, <1>3, <1>4 DEF r

-----------------------------------------------------------------------------
(* The loop over the ordered series gives each its rank.                   *)

RankAt(g, r, i) ==
  IF i > 1 /\ Same(r[i].primary, r[i - 1].primary) THEN g[i - 1] ELSE i

IsRanks(g, r, n) == g = [i \in 1..n |-> RankAt(g, r, i)]

LEMMA RanksExist ==
  ASSUME NEW r, NEW n \in Nat
  PROVE  \E g : IsRanks(g, r, n)
<1> DEFINE P == {m \in Nat : \E g : IsRanks(g, r, m)}
<1>1. 0 \in P
  <2> DEFINE g == [i \in 1..0 |-> 0]
  <2>1. g = [i \in 1..0 |-> RankAt(g, r, i)]
    OBVIOUS
  <2> HIDE DEF g
  <2> QED BY <2>1 DEF IsRanks
<1>2. ASSUME NEW m \in P PROVE m + 1 \in P
  <2>1. m \in Nat
    OBVIOUS
  <2>2. PICK g : g = [i \in 1..m |-> RankAt(g, r, i)]
    BY DEF IsRanks
  <2> DEFINE h == [i \in 1..m + 1 |-> IF i = m + 1 THEN RankAt(g, r, i) ELSE g[i]]
  <2>3. ASSUME NEW i \in 1..m + 1 PROVE h[i] = RankAt(h, r, i)
    <3>1. i > 1 => h[i - 1] = g[i - 1]
      BY <2>1
    <3>2. RankAt(h, r, i) = RankAt(g, r, i)
      BY <3>1 DEF RankAt
    <3>3. i # m + 1 => g[i] = RankAt(g, r, i)
      <4>1. i # m + 1 => i \in 1..m
        BY <2>1
      <4> QED BY <2>2, <4>1
    <3> QED BY <3>2, <3>3
  <2>4. h = [i \in 1..m + 1 |-> h[i]]
    OBVIOUS
  <2> HIDE DEF h
  <2>5. IsRanks(h, r, m + 1)
    BY <2>3, <2>4 DEF IsRanks
  <2> QED BY <2>1, <2>5
<1> HIDE DEF P
<1>3. P = Nat
  <2>1. P \in SUBSET Nat
    BY DEF P
  <2> QED BY <1>1, <1>2, <2>1, Induction
<1> QED BY <1>3 DEF P

(* A rank is the first place of an equal value.                            *)
FirstOfTies(g, r, i) ==
  /\ g[i] \in 1..i /\ Same(r[g[i]].primary, r[i].primary)
  /\ \A k \in 1..g[i] - 1 : ~Same(r[k].primary, r[i].primary)

LEMMA RankIsFirst ==
  ASSUME NEW S, Valued(S), NEW n \in Nat, NEW r \in [1..n -> S], Sorted(r),
         NEW g, IsRanks(g, r, n)
  PROVE  \A i \in 1..n : FirstOfTies(g, r, i)
<1> DEFINE P == {m \in Nat : m \in 1..n => FirstOfTies(g, r, m)}
<1>0. \A i, j, k \in 1..n :
        /\ Same(r[i].primary, r[j].primary) <=> Same(r[j].primary, r[i].primary)
        /\ Same(r[i].primary, r[i].primary)
        /\ Same(r[i].primary, r[j].primary) /\ Same(r[j].primary, r[k].primary)
             => Same(r[i].primary, r[k].primary)
  BY AtMostOrders DEF Valued
<1>1. 0 \in P
  OBVIOUS
<1>2. ASSUME NEW m \in P PROVE m + 1 \in P
  <2> DEFINE i == m + 1
  <2> SUFFICES ASSUME i \in 1..n PROVE FirstOfTies(g, r, i)
    OBVIOUS
  <2>1. m \in Nat /\ i \in 1..n /\ g[i] = RankAt(g, r, i) /\ i - 1 = m
    BY DEF IsRanks
  <2>2. CASE i > 1 /\ Same(r[i].primary, r[m].primary)
    <3>1. m \in 1..n /\ g[i] = g[m] /\ FirstOfTies(g, r, m)
      BY <2>1, <2>2 DEF RankAt
    <3>2. g[i] \in 1..m /\ 1..m \subseteq 1..n /\ g[i] \in 1..i
      BY <2>1, <3>1 DEF FirstOfTies
    <3>3. \A k \in 1..g[i] - 1 : k \in 1..n
      BY <3>2
    <3> QED BY <1>0, <2>1, <2>2, <3>1, <3>2, <3>3 DEF FirstOfTies
  <2>3. CASE ~(i > 1 /\ Same(r[i].primary, r[m].primary))
    <3>1. g[i] = i
      BY <2>1, <2>3 DEF RankAt
    <3>2. ASSUME NEW k \in 1..i - 1 PROVE ~Same(r[k].primary, r[i].primary)
      <4>1. k \in 1..n /\ m \in 1..n /\ k <= m /\ m < i /\ i > 1
        BY <2>1
      <4>2. Better(r[m], r[i])
        <5>1. ~Better(r[i], r[m]) /\ ~Same(r[i].primary, r[m].primary)
          BY <2>1, <2>3, <4>1 DEF Sorted
        <5> QED BY <2>1, <4>1, <5>1, BetterOrders
      <4>3. ~Better(r[m], r[k])
        <5>1. CASE k = m
          BY <4>1, <5>1, BetterOrders
        <5>2. CASE k # m
          BY <2>1, <4>1, <5>2 DEF Sorted
        <5> QED BY <5>1, <5>2
      <4>4. Better(r[k], r[i])
        BY <2>1, <4>1, <4>2, <4>3, BetterOrders
      <4> QED BY <2>1, <4>1, <4>4, BetterOrders
    <3> QED BY <1>0, <2>1, <3>1, <3>2 DEF FirstOfTies
  <2> QED BY <2>1, <2>2, <2>3
<1> HIDE DEF P
<1>3. P = Nat
  <2>1. P \in SUBSET Nat
    BY DEF P
  <2> QED BY <1>1, <1>2, <2>1, Induction
<1> QED BY <1>3 DEF P

(* The series before it are those that beat it.                            *)
LEMMA BetterAreBefore ==
  ASSUME NEW S, Valued(S), NEW n \in Nat, NEW r \in [1..n -> S], Sorted(r),
         NEW g, NEW i \in 1..n, FirstOfTies(g, r, i), NEW j \in 1..n
  PROVE  Better(r[j], r[i]) <=> j \in 1..g[i] - 1
<1> DEFINE f == g[i]
<1>1. f \in 1..n /\ f <= i /\ Same(r[f].primary, r[i].primary)
  BY DEF FirstOfTies
<1>2. ~Better(r[f], r[i]) /\ ~Better(r[i], r[f])
  BY <1>1, BetterOrders
<1>3. CASE j < f
  <2>1. j \in 1..f - 1 /\ j < i
    BY <1>1, <1>3
  <2>2. ~Same(r[j].primary, r[i].primary) /\ ~Better(r[i], r[j])
    BY <2>1 DEF FirstOfTies, Sorted
  <2> QED BY <2>1, <2>2, BetterOrders
<1>4. CASE ~(j < f)
  <2>1. j \notin 1..f - 1
    BY <1>1, <1>4
  <2>2. ~Better(r[j], r[f])
    <3>1. CASE j = f
      BY <1>1, <3>1, BetterOrders
    <3>2. CASE j # f
      <4>1. f < j
        BY <1>1, <1>4, <3>2
      <4> QED BY <1>1, <4>1 DEF Sorted
    <3> QED BY <3>1, <3>2
  <2>3. ~Better(r[j], r[i])
    BY <1>1, <1>2, <2>2, BetterOrders
  <2> QED BY <2>1, <2>3
<1> QED BY <1>3, <1>4

-----------------------------------------------------------------------------
(* The ranks of a group are those of the definition.                       *)

LEMMA SameSize ==
  ASSUME NEW A, NEW B, IsFiniteSet(A), NEW f, DOMAIN f = A, f = [a \in A |-> f[a]],
         \A a \in A : f[a] \in B, \A a, b \in A : f[a] = f[b] => a = b,
         \A b \in B : \E a \in A : f[a] = b
  PROVE  IsFiniteSet(B) /\ Cardinality(B) = Cardinality(A)
<1>1. f \in [A -> B]
  OBVIOUS
<1>2. f \in Bijection(A, B)
  BY <1>1 DEF Bijection, Injection, Surjection, IsInjective
<1>3. ExistsBijection(A, B)
  BY <1>2 DEF ExistsBijection
<1> QED BY <1>3, FS_Bijection

RankedBy(T, S, h) == T = {[s EXCEPT !.rank = h[s]] : s \in S}

LEMMA AssignRanksIs ==
  ASSUME NEW S, Valued(S), IsFiniteSet(S)
  PROVE  \E g, h : /\ RankedBy(AssignRanks(S), S, h)
                   /\ IsRanks(g, Ranked(S), Cardinality(S))
                   /\ \A s \in S : \E i \in 1..Cardinality(S) : Ranked(S)[i] = s /\ h[s] = g[i]
<1> DEFINE r == Ranked(S)
           n == Cardinality(S)
           g == CHOOSE f : f = [i \in DOMAIN r |->
                  IF i > 1 /\ Same(r[i].primary, r[i - 1].primary) THEN f[i - 1] ELSE i]
           h == [s \in S |-> g[Place(s, r)]]
<1>1. AssignRanks(S) = {[s EXCEPT !.rank = g[Place(s, r)]] : s \in S}
  BY DEF AssignRanks
<1>2. n \in Nat /\ r \in [1..n -> S] /\ DOMAIN r = 1..n /\ \A s \in S : \E i \in 1..n : r[i] = s
  BY RankedIs
<1>3. IsRanks(g, r, n)
  <2> HIDE DEF r, n
  <2>1. PICK f : f = [i \in 1..n |-> RankAt(f, r, i)]
    BY <1>2, RanksExist DEF IsRanks
  <2>2. f = [i \in DOMAIN r |->
               IF i > 1 /\ Same(r[i].primary, r[i - 1].primary) THEN f[i - 1] ELSE i]
    BY <1>2, <2>1 DEF RankAt
  <2>3. g = [i \in DOMAIN r |->
               IF i > 1 /\ Same(r[i].primary, r[i - 1].primary) THEN g[i - 1] ELSE i]
    BY <2>2
  <2> HIDE DEF g
  <2> QED BY <1>2, <2>3 DEF IsRanks, RankAt
<1> HIDE DEF g, r
<1>4. ASSUME NEW s \in S PROVE Place(s, r) \in 1..n /\ r[Place(s, r)] = s
  BY <1>2 DEF Place
<1>5. \A s \in S : h[s] = g[Place(s, r)]
  OBVIOUS
<1>6. RankedBy(AssignRanks(S), S, h)
  BY <1>1, <1>5 DEF RankedBy
<1> HIDE DEF h, n
<1>7. \A s \in S : \E i \in 1..n : r[i] = s /\ h[s] = g[i]
  BY <1>4, <1>5
<1> QED BY <1>3, <1>6, <1>7 DEF r, n

IsNewSeries(s) == IsSeries(s) /\ s.rank = 0

LEMMA RanksOfGroup ==
  ASSUME NEW S, Valued(S), IsFiniteSet(S), \A s \in S : IsNewSeries(s)
  PROVE  /\ Cardinality(AssignRanks(S)) = Cardinality(S)
         /\ \A t \in AssignRanks(S) :
              /\ \E s \in S : t.sampleCount = s.sampleCount /\ t.primary = s.primary
              /\ t.rank = 1 + Cardinality({u \in AssignRanks(S) : Better(u, t)})
<1> DEFINE r == Ranked(S)
           n == Cardinality(S)
           T == AssignRanks(S)
<1>1. PICK g, h : /\ RankedBy(T, S, h)
                  /\ IsRanks(g, r, n)
                  /\ \A s \in S : \E i \in 1..n : r[i] = s /\ h[s] = g[i]
  BY AssignRanksIs
<1>2. /\ n \in Nat /\ r \in [1..n -> S] /\ Sorted(r)
      /\ \A i, j \in 1..n : i # j => r[i] # r[j]
      /\ \A s \in S : \E i \in 1..n : r[i] = s
  BY RankedIs
<1> HIDE DEF r, T
<1>3. \A i \in 1..n : FirstOfTies(g, r, i)
  BY <1>1, <1>2, RankIsFirst
<1> DEFINE copy == [s \in S |-> [s EXCEPT !.rank = h[s]]]
<1>4. ASSUME NEW s \in S
      PROVE  copy[s] = [job |-> s.job, target |-> s.target, status |-> s.status,
                        primary |-> s.primary, sampleCount |-> s.sampleCount, rank |-> h[s]]
  BY DEF IsNewSeries, IsSeries
<1>5. T = {copy[s] : s \in S} /\ DOMAIN copy = S /\ copy = [s \in S |-> copy[s]]
  BY <1>1 DEF RankedBy
<1> HIDE DEF copy
<1>6. ASSUME NEW s \in S
      PROVE  /\ copy[s].primary = s.primary /\ copy[s].rank = h[s]
             /\ copy[s].sampleCount = s.sampleCount /\ copy[s].job = s.job
             /\ copy[s].target = s.target /\ copy[s].status = s.status
  <2>1. PICK c : c = copy[s]
    OBVIOUS
  <2>2. c = [job |-> s.job, target |-> s.target, status |-> s.status,
             primary |-> s.primary, sampleCount |-> s.sampleCount, rank |-> h[s]]
    BY <1>4, <2>1
  <2>3. /\ c.primary = s.primary /\ c.rank = h[s] /\ c.sampleCount = s.sampleCount
        /\ c.job = s.job /\ c.target = s.target /\ c.status = s.status
    BY <2>2
  <2> QED BY <2>1, <2>3
<1>7. ASSUME NEW s \in S, NEW t \in S, copy[s] = copy[t] PROVE s = t
  <2>1. /\ s.job = t.job /\ s.target = t.target /\ s.status = t.status /\ s.primary = t.primary
        /\ s.sampleCount = t.sampleCount /\ s.rank = t.rank
    BY <1>6, <1>7 DEF IsNewSeries
  <2> QED BY <2>1 DEF IsNewSeries, IsSeries
<1>8. Cardinality(T) = n
  BY <1>5, <1>7, SameSize
<1>9. ASSUME NEW t \in T
      PROVE  /\ \E s \in S : t.sampleCount = s.sampleCount /\ t.primary = s.primary
             /\ t.rank = 1 + Cardinality({u \in T : Better(u, t)})
  <2>1. PICK s \in S : t = copy[s]
    BY <1>5
  <2>2. PICK i \in 1..n : r[i] = s /\ h[s] = g[i]
    BY <1>1
  <2> DEFINE A == 1..g[i] - 1
             B == {u \in T : Better(u, t)}
             f == [j \in A |-> copy[r[j]]]
  <2>3. g[i] \in 1..n /\ A \subseteq 1..n
    BY <1>2, <1>3 DEF FirstOfTies
  <2>4. \A u \in S : Better(copy[u], t) <=> Better(u, s)
    BY <1>6, <2>1 DEF Better
  <2>5. \A j \in 1..n : Better(r[j], s) <=> j \in A
    BY <1>2, <1>3, <2>2, BetterAreBefore
  <2> HIDE DEF A
  <2>6. \A j \in A : f[j] = copy[r[j]] /\ r[j] \in S
    BY <1>2, <2>3
  <2>7. DOMAIN f = A /\ f = [j \in A |-> f[j]]
    OBVIOUS
  <2> HIDE DEF f
  <2>8. \A j \in A : f[j] \in B
    BY <1>5, <2>3, <2>4, <2>5, <2>6
  <2>9. \A j, k \in A : f[j] = f[k] => j = k
    BY <1>2, <1>7, <2>3, <2>6
  <2>10. ASSUME NEW b \in B PROVE \E j \in A : f[j] = b
    <3>1. PICK u \in S : b = copy[u]
      BY <1>5
    <3>2. PICK j \in 1..n : r[j] = u
      BY <1>2
    <3> QED BY <2>4, <2>5, <2>6, <3>1, <3>2
  <2>11. IsFiniteSet(A) /\ Cardinality(A) = g[i] - 1
    BY <2>3, FS_Interval DEF A
  <2> HIDE DEF B
  <2>12. Cardinality(B) = g[i] - 1
    BY <2>7, <2>8, <2>9, <2>10, <2>11, SameSize
  <2>13. t.rank = g[i]
    BY <1>6, <2>1, <2>2
  <2>14. g[i] = 1 + (g[i] - 1)
    BY <2>3
  <2>15. t.sampleCount = s.sampleCount /\ t.primary = s.primary
    BY <1>6, <2>1
  <2> QED BY <2>12, <2>13, <2>14, <2>15 DEF B
<1> QED BY <1>8, <1>9 DEF T

-----------------------------------------------------------------------------
(* The view of a request has fair ranks, as long as the jobs are finitely  *)
(* many.                                                                   *)

FairIn(g) ==
  \A s \in g.series :
    IF /\ Cardinality(g.series) >= 2
       /\ \A t \in g.series : t.sampleCount >= 2 /\ t.primary # Missing
      THEN s.rank = 1 + Cardinality({t \in g.series : Better(t, s)})
      ELSE s.rank = 0

LEMMA GroupIsFair ==
  ASSUME NEW c, NEW S, IsFiniteSet(S),
         \A s \in S : IsNewSeries(s) /\ s.primary \in Fraction \cup {Missing}
  PROVE  FairIn(FinalizeGroup(c, S))
<1> DEFINE eligible == /\ Cardinality(S) >= 2
                       /\ \A s \in S : s.sampleCount >= 2 /\ s.primary # Missing
           G == FinalizeGroup(c, S).series
<1>1. G = IF eligible THEN AssignRanks(S) ELSE S
  BY DEF FinalizeGroup
<1>2. CASE ~eligible
  BY <1>1, <1>2 DEF FairIn, IsNewSeries
<1>3. CASE eligible
  <2>1. Valued(S)
    BY <1>3 DEF Valued, Value
  <2>2. G = AssignRanks(S)
    BY <1>1, <1>3
  <2>3. /\ Cardinality(G) = Cardinality(S)
        /\ \A t \in G : /\ \E s \in S : t.sampleCount = s.sampleCount /\ t.primary = s.primary
                        /\ t.rank = 1 + Cardinality({u \in G : Better(u, t)})
    BY <2>1, <2>2, RanksOfGroup
  <2> HIDE DEF G
  <2>4. /\ Cardinality(G) >= 2
        /\ \A t \in G : t.sampleCount >= 2 /\ t.primary # Missing
    BY <1>3, <2>3
  <2>5. \A t \in G : t.rank = 1 + Cardinality({u \in G : Better(u, t)})
    BY <2>3
  <2> QED BY <2>4, <2>5 DEF FairIn, G
<1> QED BY <1>2, <1>3

LEMMA ViewIsFair ==
  ASSUME RowsOK, NEW status, DOMAIN status \subseteq Jobs, IsFiniteSet(DOMAIN status),
         NEW readable,
         NEW g \in BuildView({SeriesFor(j, status[j], result[j], j \in readable) :
                                j \in DOMAIN status})
  PROVE  FairIn(g)
<1> DEFINE D == DOMAIN status
           f == [j \in D |-> SeriesFor(j, status[j], result[j], j \in readable)]
           all == {SeriesFor(j, status[j], result[j], j \in readable) : j \in D}
<1>1. \A j \in D : f[j] = SeriesFor(j, status[j], result[j], j \in readable) /\ f[j] \in all
  OBVIOUS
<1>2. all = {f[j] : j \in D}
  BY <1>1
<1>3. \A j \in D : IsNewSeries(f[j]) /\ f[j].primary = Primary(result[j])
  BY <1>1 DEF SeriesFor, IsNewSeries, IsSeries
<1>4. PICK c : g = FinalizeGroup(c, {s \in all : s.target.condition = c})
  BY DEF BuildView
<1> HIDE DEF all
<1>5. f \in [D -> all] /\ \A s \in all : \E j \in D : f[j] = s
  BY <1>1, <1>2
<1>6. f \in Surjection(D, all)
  BY <1>5 DEF Surjection
<1>7. IsFiniteSet(all)
  BY <1>6, FS_Surjection
<1> HIDE DEF f
<1>8. \A j \in D : Primary(result[j]) \in Fraction \cup {Missing}
  BY PublicationAssumption DEF Primary, RowsOK
<1> DEFINE S == {s \in all : s.target.condition = c}
<1>9. IsFiniteSet(S) /\ S \subseteq all
  BY <1>7, FS_Subset
<1>10. \A s \in S : IsNewSeries(s) /\ s.primary \in Fraction \cup {Missing}
  BY <1>3, <1>5, <1>8, <1>9
<1> HIDE DEF S
<1>11. FairIn(FinalizeGroup(c, S))
  BY <1>9, <1>10, GroupIsFair
<1> QED BY <1>4, <1>11 DEF S

FairInv ==
  IsFiniteSet(Present) /\ \A a \in Admins : \A view \in shown[a] : \A g \in view : FairIn(g)

LEMMA FairInit == PublicationInit => FairInv
<1> SUFFICES ASSUME PublicationInit PROVE FairInv
  OBVIOUS
<1>1. Present = {}
  BY DEF PublicationInit, LifecycleInit, Present
<1> QED BY <1>1, FS_EmptySet DEF PublicationInit, FairInv

LEMMA FairStep == IInv /\ FairInv /\ [PublicationNext]_vars => FairInv'
<1> SUFFICES ASSUME IInv, FairInv, [PublicationNext]_vars PROVE FairInv'
  OBVIOUS
<1>1. benchmark' = benchmark
  BY DEF PublicationNext, Launch, QueueStep, Withdraw, Retry, ReceivePreview, ReceiveCurate,
     Receive, ReadJobs, Publish, Abandon, ReadResults, Replace, vars
<1>2. \A g : FairIn(g)' = FairIn(g)
  BY <1>1 DEF FairIn, Better
<1>3. IsFiniteSet(Present)'
  <2>1. CASE Launch
    <3>1. Present' \subseteq DOMAIN Matrix
      BY <2>1 DEF Launch, Add, Present
    <3>2. DOMAIN Matrix = 1..Len(Matrix) /\ Len(Matrix) \in Nat
      BY PublicationAssumption
    <3>3. IsFiniteSet(DOMAIN Matrix)
      BY <3>2, FS_Interval
    <3> QED BY <3>1, <3>3, FS_Subset
  <2>2. ASSUME NEW j \in Jobs, NEW k \in Jobs, Retry(j, k) PROVE IsFiniteSet(Present)'
    <3>1. Present' \subseteq Present \cup {k}
      BY <2>2 DEF Retry, Add, Present
    <3>2. IsFiniteSet(Present \cup {k})
      BY FS_AddElement DEF FairInv
    <3> QED BY <3>1, <3>2, FS_Subset
  <2>3. CASE QueueStep
    <3>1. Present' \subseteq Present
      BY <2>3, QueueAddsNone DEF Present
    <3> QED BY <3>1, FS_Subset DEF FairInv
  <2>4. CASE UNCHANGED lifecycleVars
    BY <2>4 DEF lifecycleVars, Present, FairInv
  <2> QED BY <2>1, <2>2, <2>3, <2>4 DEF PublicationNext, Withdraw, ReceivePreview, ReceiveCurate,
          Receive, ReadJobs, Publish, Abandon, ReadResults, Replace, vars
<1>4. ASSUME NEW a \in Admins, NEW view \in shown'[a], NEW g \in view PROVE FairIn(g)
  <2>1. CASE UNCHANGED shown
    BY <1>4, <2>1 DEF FairInv
  <2>2. ASSUME NEW q \in requests, NEW readable, NEW current, ReadResults(q, readable, current)
        PROVE  FairIn(g)
    <3>1. PICK v : v = BuildView({SeriesFor(j, q.status[j], result[j], j \in readable) :
                                    j \in DOMAIN q.status})
      OBVIOUS
    <3>2. RequestOK(q) /\ q.read = "jobs"
      BY <2>2 DEF IInv, ReadResults
    <3>3. Settled(q.status)
      BY <3>2 DEF RequestOK
    <3>4. DOMAIN q.status \subseteq Jobs /\ DOMAIN q.status \subseteq Present
      BY <3>3 DEF Settled, Present, Ended
    <3>5. IsFiniteSet(DOMAIN q.status)
      BY <3>4, FS_Subset DEF FairInv
    <3>6. view \in shown[a] \/ view = v
      BY <2>2, <3>1 DEF IInv, RowsOK, ReadResults
    <3>7. RowsOK
      BY DEF IInv
    <3> QED BY <1>4, <3>1, <3>4, <3>5, <3>6, <3>7, ViewIsFair DEF FairInv
  <2> QED BY <2>1, <2>2 DEF PublicationNext, Launch, QueueStep, Retry, Withdraw, ReceivePreview,
          ReceiveCurate, Receive, ReadJobs, Publish, Abandon, vars
<1> QED BY <1>2, <1>3, <1>4 DEF FairInv

(* Every view that an administrator was shown, and so every one that is    *)
(* published, ranks a series by the number of those that beat it, and      *)
(* nothing where a series lacks samples or its primary metric.             *)
THEOREM RanksStand == PublicationSpec => []RanksAreFair
<1>1. FairInv => RanksAreFair
  BY DEF FairInv, FairIn, RanksAreFair
<1>2. PublicationSpec => []FairInv
  BY Inductive, FairInit, FairStep, PTL DEF PublicationSpec
<1> QED BY <1>1, <1>2, PTL

-----------------------------------------------------------------------------
(* Sums over finite sets of places, as the folds take them: one place      *)
(* after another, in an order that nothing is said of.                     *)

Some(S) == CHOOSE x \in S : TRUE

(* h[s] is the sum of f over each s of a set of sets.                      *)
SumsUp(h, f, sets) ==
  h = [s \in sets |-> IF s = {} THEN 0 ELSE f[Some(s)] + h[s \ {Some(s)}]]

SumsOf(h, f, S) == SumsUp(h, f, SUBSET S)

Numeric(f, S) == \A x \in S : f[x] \in Int
SameOn(f, g, S) == \A x \in S : f[x] = g[x]

LEMMA SomeIn == ASSUME NEW S, S # {} PROVE Some(S) \in S
BY DEF Some

(* Induction over the size of a set takes one element away.                *)
LEMMA SmallerSet ==
  ASSUME NEW S, IsFiniteSet(S), NEW x \in S
  PROVE  /\ IsFiniteSet(S \ {x}) /\ Cardinality(S) \in Nat /\ Cardinality(S \ {x}) \in Nat
         /\ Cardinality(S) = Cardinality(S \ {x}) + 1
<1>1. Cardinality(S) \in Nat /\ IsFiniteSet(S \ {x})
  BY FS_CardinalityType, FS_RemoveElement
<1>2. Cardinality(S \ {x}) \in Nat
  BY <1>1, FS_CardinalityType
<1>3. Cardinality(S \ {x}) = Cardinality(S) - 1
  BY FS_RemoveElement
<1> QED BY <1>1, <1>2, <1>3

LEMMA SumsExist ==
  ASSUME NEW S, IsFiniteSet(S), NEW f, Numeric(f, S)
  PROVE  \E h : SumsOf(h, f, S) /\ h \in [SUBSET S -> Int]
<1> DEFINE Upto(n) == {s \in SUBSET S : Cardinality(s) <= n}
           P == {n \in Nat : \E h : SumsUp(h, f, Upto(n)) /\ h \in [Upto(n) -> Int]}
<1>1. ASSUME NEW s \in SUBSET S
      PROVE  IsFiniteSet(s) /\ Cardinality(s) \in Nat /\ (Cardinality(s) = 0 <=> s = {})
  BY FS_Subset, FS_CardinalityType, FS_EmptySet
<1>2. ASSUME NEW s \in SUBSET S, s # {}
      PROVE  /\ Some(s) \in s /\ f[Some(s)] \in Int /\ s \ {Some(s)} \in SUBSET S
             /\ Cardinality(s) = Cardinality(s \ {Some(s)}) + 1
  BY <1>1, <1>2, SomeIn, SmallerSet DEF Numeric
<1>3. 0 \in P
  <2>1. Upto(0) = {{}}
    BY <1>1
  <2> DEFINE h == [s \in {{}} |-> 0]
  <2>2. SumsUp(h, f, {{}}) /\ h \in [{{}} -> Int]
    BY DEF SumsUp
  <2> HIDE DEF h, Upto
  <2> QED BY <2>1, <2>2
<1>4. ASSUME NEW n \in P PROVE n + 1 \in P
  <2>1. PICK h : SumsUp(h, f, Upto(n)) /\ h \in [Upto(n) -> Int]
    OBVIOUS
  <2> DEFINE g == [s \in Upto(n + 1) |-> IF s = {} THEN 0 ELSE f[Some(s)] + h[s \ {Some(s)}]]
  <2>2. ASSUME NEW s \in Upto(n + 1), s # {}
        PROVE  s \ {Some(s)} \in Upto(n) /\ s \ {Some(s)} \in Upto(n + 1)
    <3>1. n \in Nat /\ s \in SUBSET S /\ Cardinality(s) <= n + 1
      OBVIOUS
    <3>2. Cardinality(s) = Cardinality(s \ {Some(s)}) + 1 /\ s \ {Some(s)} \in SUBSET S
      BY <1>2, <2>2, <3>1
    <3>3. Cardinality(s \ {Some(s)}) \in Nat /\ Cardinality(s) \in Nat
      BY <1>1, <3>1, <3>2
    <3>4. Cardinality(s \ {Some(s)}) <= n /\ Cardinality(s \ {Some(s)}) <= n + 1
      BY <3>1, <3>2, <3>3
    <3> QED BY <3>2, <3>4
  <2>3. ASSUME NEW s \in Upto(n) PROVE g[s] = h[s] /\ s \in Upto(n + 1)
    <3>1. n \in Nat /\ s \in SUBSET S /\ Cardinality(s) <= n
      OBVIOUS
    <3>2. Cardinality(s) <= n + 1
      BY <1>1, <3>1
    <3>3. s \in Upto(n + 1)
      BY <3>1, <3>2
    <3> HIDE DEF Upto
    <3> QED BY <2>1, <3>3 DEF SumsUp
  <2>4. g \in [Upto(n + 1) -> Int]
    <3>1. ASSUME NEW s \in Upto(n + 1), s # {} PROVE f[Some(s)] + h[s \ {Some(s)}] \in Int
      <4>1. f[Some(s)] \in Int
        BY <1>2, <3>1
      <4>2. h[s \ {Some(s)}] \in Int
        <5>1. s \ {Some(s)} \in Upto(n)
          BY <2>2, <3>1
        <5> HIDE DEF Upto
        <5> QED BY <2>1, <5>1
      <4> QED BY <4>1, <4>2
    <3> HIDE DEF Upto
    <3> QED BY <3>1
  <2>5. SumsUp(g, f, Upto(n + 1))
    <3>1. ASSUME NEW s \in Upto(n + 1), s # {} PROVE h[s \ {Some(s)}] = g[s \ {Some(s)}]
      <4>1. s \ {Some(s)} \in Upto(n)
        BY <2>2, <3>1
      <4> HIDE DEF Upto, g
      <4> QED BY <2>3, <4>1
    <3>2. \A s \in Upto(n + 1) : g[s] = IF s = {} THEN 0 ELSE f[Some(s)] + g[s \ {Some(s)}]
      <4> HIDE DEF Upto
      <4> QED BY <3>1
    <3> HIDE DEF Upto
    <3>3. g = [s \in Upto(n + 1) |-> g[s]]
      OBVIOUS
    <3> HIDE DEF g
    <3> QED BY <3>2, <3>3 DEF SumsUp
  <2> HIDE DEF Upto, g
  <2> QED BY <2>4, <2>5
<1>5. Cardinality(S) \in P
  <2>1. P \in SUBSET Nat
    OBVIOUS
  <2> HIDE DEF P
  <2> QED BY <1>3, <1>4, <2>1, Induction, FS_CardinalityType
<1>6. Upto(Cardinality(S)) = SUBSET S
  BY <1>1, FS_Subset
<1>7. PICK h : SumsUp(h, f, Upto(Cardinality(S))) /\ h \in [Upto(Cardinality(S)) -> Int]
  BY <1>5
<1> HIDE DEF Upto, P
<1> QED BY <1>6, <1>7 DEF SumsOf

(* The sums of a set do not depend on what they are a part of.             *)
LEMMA SumsAgree ==
  ASSUME NEW S, IsFiniteSet(S), NEW T, NEW U, S \subseteq T, S \subseteq U,
         NEW f, NEW g, SameOn(f, g, S),
         NEW h, SumsOf(h, f, T), NEW k, SumsOf(k, g, U)
  PROVE  h[S] = k[S]
<1> DEFINE P == {n \in Nat : \A s \in SUBSET S : Cardinality(s) = n => h[s] = k[s]}
<1>1. ASSUME NEW s \in SUBSET S
      PROVE  IsFiniteSet(s) /\ Cardinality(s) \in Nat /\ (Cardinality(s) = 0 <=> s = {})
  BY FS_Subset, FS_CardinalityType, FS_EmptySet
<1>2. ASSUME NEW s \in SUBSET S
      PROVE  /\ h[s] = IF s = {} THEN 0 ELSE f[Some(s)] + h[s \ {Some(s)}]
             /\ k[s] = IF s = {} THEN 0 ELSE g[Some(s)] + k[s \ {Some(s)}]
  <2>1. s \in SUBSET T /\ s \in SUBSET U
    OBVIOUS
  <2> QED BY <2>1 DEF SumsOf, SumsUp
<1>3. 0 \in P
  BY <1>1, <1>2
<1>4. ASSUME NEW n \in P PROVE n + 1 \in P
  <2> SUFFICES ASSUME NEW s \in SUBSET S, Cardinality(s) = n + 1 PROVE h[s] = k[s]
    OBVIOUS
  <2>1. n \in Nat
    OBVIOUS
  <2>2. s # {}
    BY <1>1, <2>1
  <2>3. Some(s) \in s /\ s \ {Some(s)} \in SUBSET S
    BY <2>2, SomeIn
  <2>4. Cardinality(s \ {Some(s)}) = n
    <3>1. Cardinality(s) = Cardinality(s \ {Some(s)}) + 1 /\ Cardinality(s \ {Some(s)}) \in Nat
      BY <1>1, <2>3, SmallerSet
    <3> QED BY <2>1, <3>1
  <2>5. h[s \ {Some(s)}] = k[s \ {Some(s)}]
    BY <2>3, <2>4
  <2> QED BY <1>2, <2>2, <2>3, <2>5 DEF SameOn
<1>5. Cardinality(S) \in P
  <2>1. P \in SUBSET Nat
    OBVIOUS
  <2> HIDE DEF P
  <2> QED BY <1>3, <1>4, <2>1, Induction, FS_CardinalityType
<1> QED BY <1>5

SumOver(f, S) == (CHOOSE h : SumsOf(h, f, S))[S]

LEMMA SumOfAgreeing ==
  ASSUME NEW S, IsFiniteSet(S), NEW f, Numeric(f, S), NEW g, SameOn(f, g, S)
  PROVE  SumOver(f, S) = SumOver(g, S)
<1>1. Numeric(g, S)
  BY DEF Numeric, SameOn
<1> DEFINE h == CHOOSE h : SumsOf(h, f, S)
           k == CHOOSE k : SumsOf(k, g, S)
<1>2. SumsOf(h, f, S)
  BY SumsExist
<1>3. SumsOf(k, g, S)
  BY <1>1, SumsExist
<1> HIDE DEF h, k
<1>4. S \subseteq S
  OBVIOUS
<1>5. h[S] = k[S]
  BY <1>2, <1>3, <1>4, SumsAgree
<1> QED BY <1>5 DEF SumOver, h, k

(* Any place can be the one that is taken first.                           *)
LEMMA SumIs ==
  ASSUME NEW S, IsFiniteSet(S), NEW f, Numeric(f, S)
  PROVE  /\ SumOver(f, S) \in Int
         /\ S = {} => SumOver(f, S) = 0
         /\ \A x \in S : SumOver(f, S) = f[x] + SumOver(f, S \ {x})
<1>1. PICK h : SumsOf(h, f, S) /\ h \in [SUBSET S -> Int]
  BY SumsExist
<1> DEFINE FirstIsAny(n) == \A s \in SUBSET S : Cardinality(s) = n =>
                       \A x \in s : h[s] = f[x] + h[s \ {x}]
           P == {n \in Nat : FirstIsAny(n)}
<1>2. ASSUME NEW s \in SUBSET S
      PROVE  IsFiniteSet(s) /\ Cardinality(s) \in Nat /\ (Cardinality(s) = 0 <=> s = {})
  BY FS_Subset, FS_CardinalityType, FS_EmptySet
<1>3. ASSUME NEW s \in SUBSET S PROVE h[s] = SumOver(f, s)
  <2> DEFINE k == CHOOSE k : SumsOf(k, f, s)
  <2>1. SumsOf(k, f, s)
    BY <1>2, SumsExist DEF Numeric
  <2> HIDE DEF k
  <2>2. s \subseteq s /\ s \subseteq S /\ SameOn(f, f, s)
    BY DEF SameOn
  <2>3. h[s] = k[s]
    BY <1>1, <1>2, <2>1, <2>2, SumsAgree
  <2> QED BY <2>3 DEF SumOver, k
<1>4. 0 \in P
  BY <1>2
<1>5. ASSUME NEW n \in Nat, n \in P,
             NEW s \in SUBSET S, Cardinality(s) = n + 1, NEW x \in s
      PROVE  h[s] = f[x] + h[s \ {x}]
  <2> DEFINE c == Some(s)
  <2>1. c \in s
    BY SomeIn
  <2> HIDE DEF c
  <2>2. h[s] = f[c] + h[s \ {c}]
    BY <1>1 DEF SumsOf, SumsUp, c
  <2>3. ASSUME NEW y \in s PROVE s \ {y} \in SUBSET S /\ Cardinality(s \ {y}) = n
    <3>1. Cardinality(s) = Cardinality(s \ {y}) + 1 /\ Cardinality(s \ {y}) \in Nat
      BY <1>2, SmallerSet
    <3> QED BY <1>5, <3>1
  <2>4. ASSUME c # x PROVE h[s] = f[x] + h[s \ {x}]
    <3>1. h[s \ {c}] = f[x] + h[(s \ {c}) \ {x}]
      BY <1>5, <2>1, <2>3, <2>4
    <3>2. h[s \ {x}] = f[c] + h[(s \ {x}) \ {c}]
      BY <1>5, <2>1, <2>3, <2>4
    <3>3. (s \ {c}) \ {x} = (s \ {x}) \ {c}
      OBVIOUS
    <3>4. f[c] \in Int /\ f[x] \in Int
      BY <2>1 DEF Numeric
    <3>5. PICK z \in Int : z = h[(s \ {x}) \ {c}]
      BY <1>1
    <3>6. h[s \ {c}] = f[x] + z /\ h[s \ {x}] = f[c] + z
      BY <3>1, <3>2, <3>3, <3>5
    <3>7. f[c] + (f[x] + z) = f[x] + (f[c] + z)
      BY <3>4, <3>5
    <3> QED BY <2>2, <3>6, <3>7
  <2> QED BY <2>2, <2>4
<1>6. Cardinality(S) \in P
  <2>1. P \in SUBSET Nat
    OBVIOUS
  <2>2. ASSUME NEW n \in P PROVE n + 1 \in P
    <3>1. n \in Nat
      OBVIOUS
    <3>2. FirstIsAny(n + 1)
      <4> HIDE DEF P
      <4> QED BY <1>5, <3>1
    <3> HIDE DEF FirstIsAny
    <3> QED BY <3>1, <3>2
  <2> HIDE DEF P
  <2> QED BY <1>4, <2>1, <2>2, Induction, FS_CardinalityType
<1>7. \A x \in S : h[S] = f[x] + h[S \ {x}]
  BY <1>6
<1>8. S = {} => h[S] = 0
  BY <1>1 DEF SumsOf, SumsUp
<1>9. h[S] \in Int /\ h[S] = SumOver(f, S) /\ \A x \in S : h[S \ {x}] = SumOver(f, S \ {x})
  BY <1>1, <1>3
<1> QED BY <1>7, <1>8, <1>9

-----------------------------------------------------------------------------
(* A subsequence has the values of the places that were kept.              *)

PrefixAt(f, s, kept, n) ==
  IF n = 0 THEN <<>> ELSE IF n \in kept THEN Append(f[n - 1], s[n]) ELSE f[n - 1]

IsPrefixes(f, s, kept, n) == f = [i \in 0..n |-> PrefixAt(f, s, kept, i)]

LEMMA PrefixesExist ==
  ASSUME NEW s, NEW kept, NEW n \in Nat
  PROVE  \E f : IsPrefixes(f, s, kept, n)
<1> DEFINE P == {k \in Nat : \E f : IsPrefixes(f, s, kept, k)}
<1>1. 0 \in P
  <2>1. PICK f : f = [i \in 0..0 |-> <<>>]
    OBVIOUS
  <2>2. IsPrefixes(f, s, kept, 0)
    BY <2>1 DEF IsPrefixes, PrefixAt
  <2> QED BY <2>2
<1>2. ASSUME NEW k \in P PROVE k + 1 \in P
  <2>1. PICK f : IsPrefixes(f, s, kept, k)
    OBVIOUS
  <2>2. k \in Nat /\ k + 1 \in Nat
    OBVIOUS
  <2>3. PICK g : g = [i \in 0..k + 1 |-> PrefixAt(f, s, kept, i)]
    OBVIOUS
  <2>4. ASSUME NEW i \in 0..k PROVE g[i] = f[i]
    BY <2>1, <2>2, <2>3 DEF IsPrefixes
  <2>5. ASSUME NEW i \in 0..k + 1 PROVE PrefixAt(f, s, kept, i) = PrefixAt(g, s, kept, i)
    <3>1. i = 0 \/ i - 1 \in 0..k
      BY <2>2
    <3> QED BY <2>4, <3>1 DEF PrefixAt
  <2>6. IsPrefixes(g, s, kept, k + 1)
    BY <2>3, <2>5 DEF IsPrefixes
  <2> QED BY <2>2, <2>6
<1> HIDE DEF P
<1>3. P = Nat
  BY <1>1, <1>2, Induction DEF P
<1> QED BY <1>3 DEF P

LEMMA SumAppended ==
  ASSUME NEW T, NEW u \in Seq(T), NEW v \in Int, Numeric(u, DOMAIN u)
  PROVE  SumOver(Append(u, v), DOMAIN Append(u, v)) = v + SumOver(u, DOMAIN u)
<1> DEFINE w == Append(u, v)
<1>1. /\ Len(u) \in Nat /\ DOMAIN u = 1..Len(u) /\ DOMAIN w = 1..Len(u) + 1
      /\ w[Len(u) + 1] = v /\ \A i \in DOMAIN u : w[i] = u[i]
  OBVIOUS
<1> HIDE DEF w
<1>2. IsFiniteSet(DOMAIN u) /\ IsFiniteSet(DOMAIN w)
  BY <1>1, FS_Interval
<1>3. Numeric(w, DOMAIN w)
  BY <1>1 DEF Numeric
<1>4. Len(u) + 1 \in DOMAIN w /\ DOMAIN w \ {Len(u) + 1} = DOMAIN u
  BY <1>1
<1>5. SumOver(w, DOMAIN w) = v + SumOver(w, DOMAIN u)
  BY <1>1, <1>2, <1>3, <1>4, SumIs
<1>6. SumOver(w, DOMAIN u) = SumOver(u, DOMAIN u)
  <2>1. Numeric(w, DOMAIN u) /\ SameOn(w, u, DOMAIN u)
    BY <1>1 DEF Numeric, SameOn
  <2> QED BY <1>2, <2>1, SumOfAgreeing
<1> QED BY <1>5, <1>6 DEF w

LEMMA SubsequenceIs ==
  ASSUME NEW T, NEW s \in Seq(T), NEW kept \in SUBSET (DOMAIN s)
  PROVE  /\ Subsequence(s, kept) \in Seq({s[i] : i \in kept})
         /\ Len(Subsequence(s, kept)) = Cardinality(kept) /\ IsFiniteSet(kept)
         /\ Numeric(s, kept) =>
              SumOver(Subsequence(s, kept), DOMAIN Subsequence(s, kept)) = SumOver(s, kept)
<1> DEFINE f == CHOOSE f : IsPrefixes(f, s, kept, Len(s))
           V == {s[i] : i \in kept}
           Upto(n) == kept \cap (1..n)
           Right(n) == /\ f[n] \in Seq(V) /\ Len(f[n]) = Cardinality(Upto(n))
                       /\ Numeric(s, kept) => SumOver(f[n], DOMAIN f[n]) = SumOver(s, Upto(n))
           P == {n \in Nat : n <= Len(s) => Right(n)}
<1>1. Len(s) \in Nat /\ DOMAIN s = 1..Len(s)
  OBVIOUS
<1>2. Subsequence(s, kept) = f[Len(s)]
  BY DEF Subsequence, IsPrefixes, PrefixAt
<1>3. IsPrefixes(f, s, kept, Len(s))
  BY <1>1, PrefixesExist
<1> HIDE DEF f
<1>4. \A n \in 0..Len(s) : f[n] = PrefixAt(f, s, kept, n)
  BY <1>3 DEF IsPrefixes
<1>5. ASSUME NEW n \in Nat PROVE IsFiniteSet(Upto(n)) /\ Upto(n) \subseteq kept
  BY FS_Interval, FS_Subset
<1>6. 0 \in P
  <2>1. f[0] = <<>> /\ Upto(0) = {}
    BY <1>1, <1>4 DEF PrefixAt
  <2>2. Numeric(<<>>, {}) /\ Numeric(s, {}) /\ IsFiniteSet({}) /\ Cardinality({}) = 0
    BY FS_EmptySet DEF Numeric
  <2>3. SumOver(<<>>, {}) = 0 /\ SumOver(s, {}) = 0
    BY <2>2, SumIs
  <2>4. <<>> \in Seq(V) /\ Len(<<>>) = 0 /\ DOMAIN <<>> = {}
    OBVIOUS
  <2> HIDE DEF V, Upto
  <2>5. Right(0)
    BY <2>1, <2>2, <2>3, <2>4
  <2> HIDE DEF Right
  <2> QED BY <2>5
<1>7. ASSUME NEW n \in P PROVE n + 1 \in P
  <2> SUFFICES ASSUME n + 1 <= Len(s) PROVE Right(n + 1)
    OBVIOUS
  <2>1. n \in Nat /\ n + 1 \in 0..Len(s) /\ n + 1 # 0 /\ (n + 1) - 1 = n
    BY <1>1
  <2>2. Right(n)
    BY <1>1, <2>1
  <2>3. CASE n + 1 \in kept
    <3>1. f[n + 1] = Append(f[n], s[n + 1])
      BY <1>4, <2>1, <2>3 DEF PrefixAt
    <3>2. Upto(n + 1) = Upto(n) \cup {n + 1} /\ n + 1 \notin Upto(n)
      BY <2>1, <2>3
    <3>3. s[n + 1] \in V
      BY <2>3
    <3>4. f[n + 1] \in Seq(V) /\ Len(f[n + 1]) = Len(f[n]) + 1
      <4> HIDE DEF V, Upto
      <4> QED BY <2>2, <3>1, <3>3
    <3>5. Cardinality(Upto(n + 1)) = Cardinality(Upto(n)) + 1
      <4> HIDE DEF Upto
      <4> QED BY <1>5, <2>1, <3>2, FS_AddElement
    <3>6. ASSUME Numeric(s, kept) PROVE SumOver(f[n + 1], DOMAIN f[n + 1]) = SumOver(s, Upto(n + 1))
      <4>1. Numeric(f[n], DOMAIN f[n])
        <5>1. V \subseteq Int
          BY <3>6 DEF Numeric
        <5>2. f[n] \in Seq(V)
          BY <2>2
        <5> HIDE DEF V, Upto
        <5>3. \A i \in DOMAIN f[n] : f[n][i] \in V
          BY <5>2
        <5> QED BY <5>1, <5>3 DEF Numeric
      <4>2. s[n + 1] \in Int
        BY <2>3, <3>6 DEF Numeric
      <4>3. SumOver(f[n + 1], DOMAIN f[n + 1]) = s[n + 1] + SumOver(f[n], DOMAIN f[n])
        <5> HIDE DEF V, Upto
        <5> QED BY <2>2, <3>1, <4>1, <4>2, SumAppended
      <4>4. Numeric(s, Upto(n + 1)) /\ IsFiniteSet(Upto(n + 1))
        BY <1>5, <2>1, <3>6 DEF Numeric
      <4>5. Upto(n + 1) \ {n + 1} = Upto(n) /\ n + 1 \in Upto(n + 1)
        BY <3>2
      <4>6. SumOver(s, Upto(n + 1)) = s[n + 1] + SumOver(s, Upto(n))
        <5> HIDE DEF Upto
        <5> QED BY <4>4, <4>5, SumIs
      <4> HIDE DEF V, Upto
      <4> QED BY <2>2, <3>6, <4>3, <4>6
    <3> HIDE DEF V, Upto
    <3> QED BY <2>2, <3>4, <3>5, <3>6
  <2>4. CASE n + 1 \notin kept
    <3>1. f[n + 1] = f[n]
      BY <1>4, <2>1, <2>4 DEF PrefixAt
    <3>2. Upto(n + 1) = Upto(n)
      BY <2>1, <2>4
    <3> HIDE DEF V, Upto
    <3> QED BY <2>2, <3>1, <3>2
  <2> HIDE DEF Right
  <2> QED BY <2>3, <2>4
<1>8. Right(Len(s))
  <2>1. P \in SUBSET Nat
    OBVIOUS
  <2>2. P = Nat
    <3> HIDE DEF P
    <3> QED BY <1>6, <1>7, <2>1, Induction
  <2>3. Len(s) \in P
    BY <1>1, <2>2
  <2> HIDE DEF Right
  <2> QED BY <1>1, <2>3
<1>9. Upto(Len(s)) = kept
  BY <1>1
<1>10. IsFiniteSet(kept)
  BY <1>1, <1>5, <1>9
<1> HIDE DEF V, Upto
<1> QED BY <1>2, <1>8, <1>9, <1>10 DEF V

-----------------------------------------------------------------------------
(* The two computations of a mean.                                         *)

LEMMA TotalIs ==
  ASSUME NEW values PROVE Total(values) = SumOver(values, DOMAIN values)
BY DEF Total, FoldSeq, FoldFunction, FoldFunctionOnSet, MapThenFoldSet, SumOver, SumsOf, SumsUp,
   Some

Column(samples, metric) == [i \in DOMAIN samples |-> samples[i][metric]]

LEMMA SetSumIs ==
  ASSUME NEW samples, NEW metric, NEW kept \in SUBSET (DOMAIN samples), IsFiniteSet(kept),
         Numeric(Column(samples, metric), kept)
  PROVE  MapThenSumSet(LAMBDA i : samples[i][metric], kept) = SumOver(Column(samples, metric), kept)
<1> DEFINE c == Column(samples, metric)
           IsIter(h) == h = [s \in SUBSET kept |->
                              IF s = {} THEN 0 ELSE samples[Some(s)][metric] + h[s \ {Some(s)}]]
           k == CHOOSE h : IsIter(h)
<1>1. MapThenSumSet(LAMBDA i : samples[i][metric], kept) = k[kept]
  BY DEF MapThenSumSet, MapThenFoldSet, Some
<1>2. ASSUME NEW h PROVE IsIter(h) <=> SumsOf(h, c, kept)
  <2>1. ASSUME NEW s \in SUBSET kept, s # {} PROVE c[Some(s)] = samples[Some(s)][metric]
    <3>1. Some(s) \in DOMAIN samples
      BY <2>1, SomeIn
    <3> QED BY <3>1 DEF Column
  <2> HIDE DEF c
  <2> QED BY <2>1 DEF SumsOf, SumsUp
<1> HIDE DEF IsIter
<1>3. IsIter(k)
  BY <1>2, SumsExist
<1> HIDE DEF k
<1>4. SumsOf(k, c, kept)
  BY <1>2, <1>3
<1> DEFINE h == CHOOSE h : SumsOf(h, c, kept)
<1>5. SumsOf(h, c, kept)
  BY SumsExist
<1> HIDE DEF h
<1>6. kept \subseteq kept /\ SameOn(c, c, kept)
  BY DEF SameOn
<1>7. k[kept] = h[kept]
  BY <1>4, <1>5, <1>6, SumsAgree
<1> QED BY <1>1, <1>7 DEF SumOver, h

Metrics == Telemetry \cup {"grade"}

LEMMA MeasuredIs ==
  ASSUME NEW samples \in Seq(Sample) PROVE Measured(samples) \in Seq(Sample)
<1> DEFINE kept == {i \in DOMAIN samples : samples[i].phase = "measured"}
           V == {samples[i] : i \in kept}
<1>1. kept \in SUBSET (DOMAIN samples)
  OBVIOUS
<1>2. V \subseteq Sample
  OBVIOUS
<1>3. Measured(samples) = Subsequence(samples, kept)
  BY DEF Measured
<1> HIDE DEF kept
<1>4. Measured(samples) \in Seq(V)
  BY <1>1, <1>3, SubsequenceIs
<1> HIDE DEF V
<1> QED BY <1>2, <1>4

LEMMA MeansAgree ==
  ASSUME NEW samples \in Seq(Sample), NEW metric \in Metrics
  PROVE  Mean(samples, metric) = ObservedMean(samples, metric)
<1> DEFINE c == Column(samples, metric)
           kept == {i \in DOMAIN samples : samples[i][metric] # Missing}
           values == Subsequence(c, kept)
<1>1. c \in Seq(Measurement) /\ DOMAIN c = DOMAIN samples /\ kept \in SUBSET (DOMAIN c)
  <2>1. \A i \in DOMAIN samples : samples[i] \in Sample
    OBVIOUS
  <2>2. \A i \in DOMAIN samples : samples[i][metric] \in Measurement
    BY <2>1 DEF Sample, Metrics, Telemetry, Measurement
  <2>3. DOMAIN samples = 1..Len(samples) /\ Len(samples) \in Nat
    OBVIOUS
  <2> QED BY <2>2, <2>3 DEF Column
<1>2. Numeric(c, kept)
  <2>1. \A i \in kept : c[i] \in Measurement /\ c[i] # Missing
    BY <1>1 DEF Column
  <2> HIDE DEF c, kept
  <2> QED BY <2>1 DEF Numeric, Measurement
<1>3. Mean(samples, metric) = IF values = <<>> THEN Missing
                              ELSE [num |-> Total(values), den |-> Len(values)]
  BY DEF Mean, Reported, Column
<1>4. ObservedMean(samples, metric) =
        IF kept = {} THEN Missing
        ELSE [num |-> MapThenSumSet(LAMBDA i : samples[i][metric], kept), den |-> Cardinality(kept)]
  BY DEF ObservedMean
<1> HIDE DEF kept, values
<1>5. /\ values \in Seq({c[i] : i \in kept}) /\ Len(values) = Cardinality(kept)
      /\ IsFiniteSet(kept) /\ SumOver(values, DOMAIN values) = SumOver(c, kept)
  <2> HIDE DEF c
  <2> QED BY <1>1, <1>2, SubsequenceIs DEF values
<1>6. values = <<>> <=> kept = {}
  <2>1. values = <<>> <=> Len(values) = 0
    <3> HIDE DEF c
    <3> QED BY <1>5
  <2>2. Cardinality(kept) = 0 <=> kept = {}
    BY <1>5, FS_EmptySet
  <2> QED BY <1>5, <2>1, <2>2
<1>7. Total(values) = SumOver(c, kept)
  BY <1>5, TotalIs
<1>8. MapThenSumSet(LAMBDA i : samples[i][metric], kept) = SumOver(c, kept)
  <2>1. kept \in SUBSET (DOMAIN samples)
    BY <1>1
  <2> QED BY <1>2, <1>5, <2>1, SetSumIs
<1> HIDE DEF c
<1> QED BY <1>3, <1>4, <1>5, <1>6, <1>7, <1>8

(* What the executor collects are samples, whatever it is given.           *)
LEMMA CollectedAreSamples ==
  ASSUME NEW warmups, NEW raw \in Seq(RawSample)
  PROVE  CollectSamples(warmups, raw) \in Seq(Sample)
<1>1. Len(raw) \in Nat /\ DOMAIN raw = 1..Len(raw) /\ \A i \in DOMAIN raw : raw[i] \in RawSample
  OBVIOUS
<1>2. ASSUME NEW s \in RawSample
      PROVE  /\ NormalizeSample(s).duration \in Int /\ NormalizeSample(s).tokens \in Measurement
             /\ NormalizeSample(s).throughput \in Measurement
             /\ NormalizeSample(s).grade \in Measurement
  <2>1. s.duration \in Int /\ s.tokens \in Measurement /\ s.grade \in Measurement
    BY DEF RawSample
  <2>2. ASSUME s.tokens # Missing, ~(s.duration <= 0)
        PROVE  (s.tokens * SampleScale) \div s.duration \in Measurement
    <3>1. s.tokens \in Int
      BY <2>1, <2>2 DEF Measurement
    <3>2. PICK n \in Int, d \in Int : n = s.tokens * SampleScale /\ d = s.duration /\ d > 0
      BY <2>1, <2>2, <3>1 DEF SampleScale
    <3>3. n \div d \in Int
      BY <3>2
    <3> QED BY <3>2, <3>3 DEF Measurement
  <2> QED BY <2>1, <2>2 DEF NormalizeSample, RawSample, Measurement
<1> DEFINE At(i) == [duration |-> NormalizeSample(raw[i]).duration,
                     tokens |-> NormalizeSample(raw[i]).tokens,
                     throughput |-> NormalizeSample(raw[i]).throughput,
                     grade |-> NormalizeSample(raw[i]).grade,
                     phase |-> IF i <= warmups THEN "warmup" ELSE "measured"]
<1>3. ASSUME NEW i \in DOMAIN raw PROVE At(i) \in Sample
  BY <1>1, <1>2 DEF Sample
<1>4. CollectSamples(warmups, raw) = [i \in DOMAIN raw |-> At(i)]
  BY DEF CollectSamples
<1> HIDE DEF At
<1> QED BY <1>1, <1>3, <1>4

(* The report of a response benchmark is one of those that the assumption  *)
(* about honest outcomes speaks of: the executor's samples, and the means  *)
(* of the measured ones.                                                   *)
THEOREM ReportsAreHonest ==
  ASSUME NEW warmups, NEW raw \in Seq(RawSample)
  PROVE  /\ Report(warmups, raw, "grade").evidence \in Seq(Sample)
         /\ Report(warmups, raw, "grade").metrics =
              Observations(Report(warmups, raw, "grade").evidence, Metrics)
BY CollectedAreSamples DEF Report, Metrics

-----------------------------------------------------------------------------
(* The rows of results.                                                    *)

RowIsReported(j) ==
  result[j] # NoResult =>
    /\ result[j] \in Outcomes /\ result[j].metrics # <<>>
    /\ Telemetric <=> result[j].kind = "response"

ReportedInv == RowsOK /\ \A j \in Jobs : RowIsReported(j)

LEMMA ReportedInit == PublicationInit => ReportedInv
BY InitInv DEF IInv, ReportedInv, RowIsReported, PublicationInit, LifecycleInit

LEMMA ReportedStep == IInv /\ IInv' /\ ReportedInv /\ [PublicationNext]_vars => ReportedInv'
<1> SUFFICES ASSUME IInv, IInv', ReportedInv, [PublicationNext]_vars PROVE ReportedInv'
  OBVIOUS
<1>1. benchmark' = benchmark
  BY DEF PublicationNext, Launch, QueueStep, Withdraw, Retry, ReceivePreview, ReceiveCurate,
     Receive, ReadJobs, Publish, Abandon, ReadResults, Replace, vars
<1>2. CASE UNCHANGED result
  BY <1>1, <1>2 DEF ReportedInv, RowIsReported, Telemetric, IInv
<1>3. ASSUME NEW j \in Jobs, NEW o \in Outcomes, EndOfJob(j, o) PROVE ReportedInv'
  <2>1. result' = [result EXCEPT ![j] = IF o.metrics = <<>> THEN NoResult ELSE o]
    BY <1>3 DEF EndOfJob, Finish
  <2>2. Telemetric <=> o.kind = "response"
    BY <1>3 DEF EndOfJob
  <2>3. RowIsReported(j)'
    BY <1>1, <2>1, <2>2 DEF ReportedInv, RowsOK, RowIsReported, Telemetric
  <2>4. ASSUME NEW i \in Jobs, i # j PROVE RowIsReported(i)'
    BY <1>1, <2>1, <2>4 DEF ReportedInv, RowsOK, RowIsReported, Telemetric
  <2> QED BY <2>3, <2>4 DEF ReportedInv, IInv
<1> QED BY <1>2, <1>3 DEF PublicationNext, Launch, QueueStep, Withdraw, Retry, Add, Claim, Cancel,
        ReceivePreview, ReceiveCurate, Receive, ReadJobs, Publish, Abandon, ReadResults, Replace,
        vars, lifecycleVars

LEMMA HonestPasses ==
  ASSUME ReportedInv, NEW j \in Jobs, result[j] # NoResult, result[j].honest
  PROVE  ~IsBlocked(result[j], TRUE, TRUE)
<1> DEFINE row == result[j]
<1>1. /\ row \in Outcomes /\ row.metrics # <<>> /\ row.honest
      /\ Telemetric <=> row.kind = "response"
  BY DEF ReportedInv, RowIsReported
<1> HIDE DEF row
<1>2. CASE Telemetric
  <2>1. /\ row.evidence \in Seq(Sample) /\ row.evidence # NoEvidence
        /\ row.metrics = Observations(row.evidence, Metrics)
    BY <1>1, <1>2, HonestAssumption DEF Metrics
  <2>2. DOMAIN row.metrics = Metrics /\ Metrics = ApprovedMetrics
    BY <1>2, <2>1 DEF Observations, ApprovedMetrics, Metrics
  <2>3. PublicSamples(row, TRUE) = Measured(row.evidence)
    BY <1>2, <2>1 DEF PublicSamples
  <2>4. ASSUME NEW m \in Metrics PROVE AggregateMatches(row, m, Measured(row.evidence))
    <3>1. row.metrics[m] = Mean(Measured(row.evidence), m)
      BY <2>1 DEF Observations
    <3>2. row.metrics[m] = ObservedMean(Measured(row.evidence), m)
      BY <2>1, <3>1, MeasuredIs, MeansAgree
    <3> QED BY <3>2 DEF AggregateMatches, Same
  <2> QED BY <1>2, <2>1, <2>2, <2>3, <2>4 DEF IsBlocked, row
<1>3. CASE ~Telemetric
  <2>1. DOMAIN row.metrics \subseteq {"grade"}
    BY <1>1, <1>3, HonestAssumption
  <2>2. PublicSamples(row, TRUE) = <<>>
    BY <1>3 DEF PublicSamples
  <2> QED BY <1>3, <2>1, <2>2 DEF IsBlocked, ApprovedMetrics, row
<1> QED BY <1>2, <1>3

(* A row that the runner's own executor reported is never blocked: for any *)
(* number of samples, warm-ups among them, and whichever of them lack a    *)
(* metric, its means are those that the control plane computes from the    *)
(* artifact.                                                               *)
THEOREM HonestPass == PublicationSpec => []HonestResultsPass
<1>1. ReportedInv => HonestResultsPass
  BY HonestPasses DEF HonestResultsPass
<1>2. PublicationSpec => []ReportedInv
  BY Inductive, ReportedInit, ReportedStep, PTL DEF PublicationSpec
<1> QED BY <1>1, <1>2, PTL
=============================================================================
