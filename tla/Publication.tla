---------------------------- MODULE Publication ----------------------------
(***************************************************************************)
(* The publication of one experiment (public-results.ts): an administrator *)
(* previews the sanitized view, confirms it by its fingerprint, and may    *)
(* withdraw it.  A preview reads the tables in several statements, and     *)
(* curate publishes what it read in a later one, while jobs of the         *)
(* experiment are leased, end, are cancelled and are retried, as           *)
(* JobLifecycle says.                                                      *)
(*                                                                         *)
(* An action is one statement; a request between two of its statements is  *)
(* a record in requests.  A fingerprint is the view it is a hash of.       *)
(***************************************************************************)
EXTENDS JobLifecycle, Performance, FiniteSets, FiniteSetsExt

CONSTANTS
  Admins,
  Matrix,            \* the targets of the experiment's launch, in order
  Benchmarks,        \* records [kind, primary, direction]
  NoTarget, NoJob, NoView, NoAdmin,
  NoEvidence,        \* a result without a response_evidence artifact
  MaxRequests        \* bound: requests inside the server at once

ASSUME PublicationAssumption ==
  /\ Jobs \subseteq Nat /\ NoJob \notin Jobs
  /\ Matrix \in Seq([model : STRING, harness : STRING, toolset : STRING,
                     condition : STRING])
  /\ NoAdmin \notin Admins
  /\ \A o \in Outcomes :
       /\ o.status \in Ended
       /\ \A m \in DOMAIN o.metrics : o.metrics[m] \in Fraction \cup {Missing}
  /\ MaxRequests \in Nat

(* What the runner's own executor reports with observations: for a response*)
(* benchmark the samples and what it computes from them, and otherwise the *)
(* grade.                                                                  *)
ASSUME HonestAssumption ==
  \A o \in Outcomes : o.honest /\ o.metrics # <<>> =>
    IF o.kind = "response"
      THEN /\ o.evidence \in Seq(Sample) /\ o.evidence # NoEvidence
           /\ o.metrics = Observations(o.evidence, Telemetry \cup {"grade"})
      ELSE DOMAIN o.metrics \subseteq {"grade"}

VARIABLES
  benchmark,         \* of the experiment
  target, retryOf,   \* columns of a job
  visibility, snapshot, curatedBy,
  shown,             \* the views each administrator was shown with a fingerprint
  requests

jobRows == <<target, retryOf>>
experimentVars == <<visibility, snapshot, curatedBy>>
vars == <<lifecycleVars, benchmark, jobRows, experimentVars, shown, requests>>

Targets == {Matrix[i] : i \in DOMAIN Matrix}
Present == {j \in Jobs : phase[j] # "absent"}
Unsuccessful == Ended \ {"completed"}
Telemetric == benchmark.kind = "response"

PublicationInit ==
  /\ LifecycleInit
  /\ benchmark \in Benchmarks
  /\ target = [j \in Jobs |-> NoTarget]
  /\ retryOf = [j \in Jobs |-> NoJob]
  /\ visibility = "private" /\ snapshot = NoView /\ curatedBy = NoAdmin
  /\ shown = [a \in Admins |-> {}]
  /\ requests = {}

-----------------------------------------------------------------------------
(* The jobs of the experiment.                                             *)

Launch ==
  /\ Present = {}
  /\ Add(DOMAIN Matrix)
  /\ target' = [j \in Jobs |-> IF j \in DOMAIN Matrix THEN Matrix[j] ELSE NoTarget]
  /\ UNCHANGED <<benchmark, retryOf, experimentVars, shown, requests>>

Retry(j, k) ==
  /\ phase[j] \in Unsuccessful
  /\ \A i \in Jobs : retryOf[i] = j => phase[i] \in Ended
  /\ k \notin Present /\ \A i \in Jobs : i < k => i \in Present
  /\ Add({k})
  /\ target' = [target EXCEPT ![k] = target[j]]
  /\ retryOf' = [retryOf EXCEPT ![k] = j]
  /\ UNCHANGED <<benchmark, experimentVars, shown, requests>>

(* A terminal request leaves a result when it has observations.            *)
EndOfJob(j, o) ==
  /\ Telemetric <=> o.kind = "response"
  /\ Finish(j, o, IF o.metrics = <<>> THEN NoResult ELSE o)

QueueStep ==
  /\ \/ \E j \in Jobs : Claim({j}, {}) \/ Claim({}, {j}) \/ Cancel(j)
     \/ \E j \in Jobs, o \in Outcomes : EndOfJob(j, o)
  /\ UNCHANGED <<benchmark, jobRows, experimentVars, shown, requests>>

-----------------------------------------------------------------------------
(* The view.  A series is one job; what a reader may compare is in one     *)
(* group.                                                                  *)

ApprovedMetrics == {"grade"} \cup (IF Telemetric THEN Telemetry ELSE {})

(* readPublicSamples: the bytes are those of the artifact, and the samples *)
(* are the ones the counts promise.                                        *)
PublicSamples(row, readable) ==
  IF ~Telemetric \/ ~readable \/ row.evidence = NoEvidence THEN <<>>
  ELSE Measured(row.evidence)

(* The mean of the samples in which the metric was observed.               *)
ObservedMean(samples, metric) ==
  LET observed == {i \in DOMAIN samples : samples[i][metric] # Missing} IN
  IF observed = {} THEN Missing
  ELSE [num |-> MapThenSumSet(LAMBDA i : samples[i][metric], observed),
        den |-> Cardinality(observed)]

AggregateMatches(row, metric, samples) ==
  Same(row.metrics[metric], ObservedMean(samples, metric))

(* The blockers of a job that has a result: the metadata of its benchmark, *)
(* of its conditions, of its metrics and of its primary metric, which are  *)
(* compared with the registry of the build that runs now and differ when   *)
(* that registry is no longer current; its evidence; which metrics it has, *)
(* and their values.                                                       *)
IsBlocked(row, readable, current) ==
  LET samples == PublicSamples(row, readable) IN
  \/ ~current
  \/ Telemetric /\ (row.evidence = NoEvidence \/ ~readable)
  \/ ~(DOMAIN row.metrics \subseteq ApprovedMetrics)
  \/ samples # <<>> /\ \E m \in DOMAIN row.metrics : ~AggregateMatches(row, m, samples)

Primary(row) ==
  IF row # NoResult /\ benchmark.primary \in DOMAIN row.metrics
    THEN row.metrics[benchmark.primary] ELSE Missing

SampleCount(row, samples) ==
  IF row = NoResult THEN 0 ELSE IF Telemetric THEN Len(samples) ELSE 1

SeriesFor(j, status, row, readable) ==
  [job |-> j, target |-> target[j], status |-> status, primary |-> Primary(row),
   sampleCount |-> SampleCount(row, PublicSamples(row, readable)), rank |-> 0]

Better(x, y) ==
  ~Same(x.primary, y.primary) /\
    IF benchmark.direction = "higher" THEN AtMost(y.primary, x.primary)
                                      ELSE AtMost(x.primary, y.primary)

(* A stable sort leaves equal values in some order: any order in which no  *)
(* series follows one that it beats.                                       *)
Ranked(series) ==
  CHOOSE ranked \in SetToSeqs(series) :
    \A i, j \in DOMAIN ranked : i < j => ~Better(ranked[j], ranked[i])

Place(s, ranked) == CHOOSE i \in DOMAIN ranked : ranked[i] = s

\* Mutant of AssignRanks.
AssignRanksWithoutTies(series) ==
  LET ranked == Ranked(series) IN
  {[s EXCEPT !.rank = Place(s, ranked)] : s \in series}

(* Equal values share a rank.                                              *)
AssignRanks(series) ==
  LET ranked == Ranked(series)
      rank[i \in DOMAIN ranked] ==
        IF i > 1 /\ Same(ranked[i].primary, ranked[i - 1].primary)
          THEN rank[i - 1] ELSE i
  IN {[s EXCEPT !.rank = rank[Place(s, ranked)]] : s \in series}

Dimensions == {"model", "harness", "toolset"}

FinalizeGroup(condition, series) ==
  LET eligible ==
        /\ Cardinality(series) >= 2
        /\ \A s \in series : s.sampleCount >= 2 /\ s.primary # Missing
  IN [condition |-> condition,
      changed |-> {d \in Dimensions : \E s, t \in series : s.target[d] # t.target[d]},
      eligible |-> eligible,
      series |-> IF eligible THEN AssignRanks(series) ELSE series]

BuildView(allSeries) ==
  {FinalizeGroup(c, {s \in allSeries : s.target.condition = c}) :
     c \in {s.target.condition : s \in allSeries}}

-----------------------------------------------------------------------------
(* Requests of administrators.                                             *)

NewRequest(a, confirmed) ==
  [admin |-> a, confirmed |-> confirmed, read |-> "experiment",
   status |-> <<>>, view |-> NoView]

Receive(a, confirmed) ==
  /\ Cardinality(requests) < MaxRequests
  /\ Present # {} /\ snapshot = NoView
  /\ requests' = requests \cup {NewRequest(a, confirmed)}
  /\ UNCHANGED <<lifecycleVars, benchmark, jobRows, experimentVars, shown>>

(* previewCuration: its experiment was not published when it was read.     *)
ReceivePreview(a) == Receive(a, NoView)

(* curate, with the fingerprint of a view the administrator was shown.     *)
ReceiveCurate(a, view) == view \in shown[a] /\ Receive(a, view)

Replace(q, more) ==
  /\ requests' = (requests \ {q}) \cup more
  /\ UNCHANGED <<lifecycleVars, benchmark, jobRows, experimentVars>>

\* Mutant of JobsAreTerminal.
JobsHaveStarted(status) == \A j \in DOMAIN status : status[j] # "queued"

JobsAreTerminal(status) == \A j \in DOMAIN status : status[j] \in Ended

ReadJobs(q) ==
  LET status == [j \in Present |-> phase[j]] IN
  /\ q.read = "experiment"
  /\ Replace(q, IF JobsAreTerminal(status)
                  THEN {[q EXCEPT !.read = "jobs", !.status = status]} ELSE {})
  /\ UNCHANGED shown

\* Mutant of Fingerprint.
FingerprintOfGroups(view) == {g.condition : g \in view}

(* The whole view except its date.                                         *)
Fingerprint(view) == view

(* Attempts, results, metrics, artifacts and the bytes of the artifacts in *)
(* readable, compared with a registry that is current unless a deployment  *)
(* changed it since the jobs were launched.  A preview with a blocker has  *)
(* no fingerprint, so that it cannot be confirmed; a curation with one, or *)
(* with another fingerprint, ends here.                                    *)
ReadResults(q, readable, current) ==
  LET read == DOMAIN q.status
      withRow == {j \in read : result[j] # NoResult}
      view == BuildView({SeriesFor(j, q.status[j], result[j], j \in readable) : j \in read})
      approved == withRow # {} /\ \A j \in withRow : ~IsBlocked(result[j], j \in readable, current)
      confirmed == Fingerprint(view) = Fingerprint(q.confirmed)
  IN
  /\ q.read = "jobs"
  /\ Replace(q, IF approved /\ q.confirmed # NoView /\ confirmed
                  THEN {[q EXCEPT !.read = "results", !.view = view]} ELSE {})
  /\ shown' = [shown EXCEPT
       ![q.admin] = IF approved /\ q.confirmed = NoView THEN @ \cup {view} ELSE @]

\* Mutant of IsUnpublished.
IsPrivate == visibility = "private"

IsUnpublished == visibility = "private" /\ snapshot = NoView

(* The conditional update of the experiment's row.                         *)
Publish(q) ==
  /\ q.read = "results"
  /\ requests' = requests \ {q}
  /\ IF IsUnpublished
       THEN visibility' = "public" /\ snapshot' = q.view /\ curatedBy' = q.admin
       ELSE UNCHANGED experimentVars
  /\ UNCHANGED <<lifecycleVars, benchmark, jobRows, shown>>

(* The server stops, or a statement or a read of an artifact fails.        *)
Abandon(q) == Replace(q, {}) /\ UNCHANGED shown

Withdraw ==
  /\ visibility = "public"
  /\ visibility' = "private"
  /\ UNCHANGED <<lifecycleVars, benchmark, jobRows, snapshot, curatedBy, shown, requests>>

(* What list and get show to everyone.                                     *)
Listed == IF visibility = "public" /\ snapshot # NoView THEN {snapshot} ELSE {}

PublicationNext ==
  \/ Launch \/ QueueStep \/ Withdraw
  \/ \E j, k \in Jobs : Retry(j, k)
  \/ \E a \in Admins : ReceivePreview(a) \/ \E v \in shown[a] : ReceiveCurate(a, v)
  \/ \E q \in requests :
       \/ ReadJobs(q) \/ Publish(q) \/ Abandon(q)
       \/ \E readable \in SUBSET Jobs, current \in BOOLEAN : ReadResults(q, readable, current)

PublicationSpec == PublicationInit /\ [][PublicationNext]_vars

-----------------------------------------------------------------------------
(***************************************************************************)
(* Properties.                                                             *)
(***************************************************************************)

Published(view) == UNION {g.series : g \in view}

(* The confirmation binds: what is public is exactly a view that the       *)
(* administrator who published it was shown, although every read was done  *)
(* again in between.                                                       *)
PublishedAsConfirmed == snapshot # NoView => snapshot \in shown[curatedBy]

(* A snapshot is never out of date: whatever the jobs do during and after  *)
(* its several reads, each series says what the tables say of its job, and *)
(* the only jobs it can miss are retries that were added meanwhile.        *)
SnapshotAgreesWithTables ==
  snapshot # NoView =>
    /\ \A s \in Published(snapshot) :
         /\ s.status = phase[s.job] /\ s.status \in Ended
         /\ Same(s.primary, Primary(result[s.job]))
    /\ \A j \in Present :
         retryOf[j] = NoJob => \E s \in Published(snapshot) : s.job = j

(* "Experiment was already published and cannot be republished.": two      *)
(* curations that overlap, or one that overlaps a withdrawal, publish once,*)
(* and what was withdrawn is never listed again.                           *)
NeverRepublished ==
  [][snapshot # NoView => snapshot' = snapshot /\ Listed' \subseteq Listed]_vars

(* The ranks that are shown are those of the definition: one more than the *)
(* number of better series, and no rank where a series lacks samples or    *)
(* its primary metric.                                                     *)
RanksAreFair ==
  \A view \in UNION {shown[a] : a \in Admins} : \A g \in view : \A s \in g.series :
    IF /\ Cardinality(g.series) >= 2
       /\ \A t \in g.series : t.sampleCount >= 2 /\ t.primary # Missing
      THEN s.rank = 1 + Cardinality({t \in g.series : Better(t, s)})
      ELSE s.rank = 0

(* What the runner's own executor reports always passes the control        *)
(* plane's comparison of metrics and evidence, samples that lack a metric  *)
(* included, while the registry is the one its job was launched with: the  *)
(* two computations of an aggregate agree.                                 *)
HonestResultsPass ==
  \A j \in Jobs :
    result[j] # NoResult /\ result[j].honest => ~IsBlocked(result[j], TRUE, TRUE)
=============================================================================
