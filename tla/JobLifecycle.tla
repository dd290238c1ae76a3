---------------------------- MODULE JobLifecycle ----------------------------
(***************************************************************************)
(* What the job queue promises about the jobs of an account, whatever      *)
(* requests overlap: a job is queued, is leased once, and ends once; its   *)
(* result is written with its end and never changes.  RunnerJobs implements*)
(* it, and Publication reads it.                                           *)
(***************************************************************************)
EXTENDS Naturals

CONSTANTS Jobs, Outcomes, NoResult

Ended == {"completed", "failed", "cancelled", "interrupted"}
Phase == {"absent", "queued", "active"} \cup Ended

VARIABLES phase, result

lifecycleVars == <<phase, result>>

LifecycleInit ==
  /\ phase = [j \in Jobs |-> "absent"]
  /\ result = [j \in Jobs |-> NoResult]

(* A launch or a retry inserts queued jobs.                                *)
Add(new) ==
  /\ \A j \in new : phase[j] = "absent"
  /\ phase' = [j \in Jobs |-> IF j \in new THEN "queued" ELSE phase[j]]
  /\ UNCHANGED result

(* One claim fails the jobs its runner cannot run and leases one other.    *)
Claim(leased, failed) ==
  /\ leased \cap failed = {}
  /\ \A j \in leased \cup failed : phase[j] = "queued"
  /\ phase' = [j \in Jobs |-> IF j \in leased THEN "active"
                              ELSE IF j \in failed THEN "failed" ELSE phase[j]]
  /\ UNCHANGED result

Cancel(j) ==
  /\ phase[j] = "queued"
  /\ phase' = [phase EXCEPT ![j] = "cancelled"]
  /\ UNCHANGED result

(* The result row says what happened, or there is none.                    *)
Finish(j, o, row) ==
  /\ phase[j] = "active"
  /\ row \in {o, NoResult} /\ (o.status = "completed" => row = o)
  /\ phase' = [phase EXCEPT ![j] = o.status]
  /\ result' = [result EXCEPT ![j] = row]

LifecycleNext ==
  \/ \E new \in SUBSET Jobs : Add(new)
  \/ \E leased \in {{}} \cup {{j} : j \in Jobs}, failed \in SUBSET Jobs : Claim(leased, failed)
  \/ \E j \in Jobs : Cancel(j) \/ \E o \in Outcomes, row \in Outcomes \cup {NoResult} : Finish(j, o, row)

LifecycleSpec == LifecycleInit /\ [][LifecycleNext]_lifecycleVars
=============================================================================
