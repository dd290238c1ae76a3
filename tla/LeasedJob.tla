----------------------------- MODULE LeasedJob -----------------------------
(***************************************************************************)
(* What a runner and the control plane promise together about the attempts *)
(* leased to the runner: one active at a time, executed from the start at  *)
(* most once and only while it is active, ended by one verdict that says   *)
(* what happened.                                                          *)
(***************************************************************************)
EXTENDS Naturals

CONSTANTS Attempts, Verdicts

VARIABLES
  status,      \* queued, active or terminal
  flagged,     \* its cancellation was requested
  runs,        \* how often it was executed from the start
  verdict      \* what it ended with

vars == <<status, flagged, runs, verdict>>

NoVerdict == "none"

Init ==
  /\ status = [a \in Attempts |-> "queued"]
  /\ flagged = [a \in Attempts |-> FALSE]
  /\ runs = [a \in Attempts |-> 0]
  /\ verdict = [a \in Attempts |-> NoVerdict]

Lease(a) ==
  /\ status[a] = "queued" /\ \A b \in Attempts : status[b] # "active"
  /\ status' = [status EXCEPT ![a] = "active"]
  /\ UNCHANGED <<flagged, runs, verdict>>

RequestCancellation(a) ==
  /\ status[a] = "active"
  /\ flagged' = [flagged EXCEPT ![a] = TRUE]
  /\ UNCHANGED <<status, runs, verdict>>

Run(a) ==
  /\ status[a] = "active" /\ runs[a] = 0
  /\ runs' = [runs EXCEPT ![a] = 1]
  /\ UNCHANGED <<status, flagged, verdict>>

Finish(a, v) ==
  /\ status[a] = "active"
  /\ v = "executed" => runs[a] = 1
  /\ v = "cancelled" => flagged[a]
  /\ status' = [status EXCEPT ![a] = "terminal"]
  /\ verdict' = [verdict EXCEPT ![a] = v]
  /\ UNCHANGED <<flagged, runs>>

Next ==
  \E a \in Attempts :
    Lease(a) \/ RequestCancellation(a) \/ Run(a) \/ \E v \in Verdicts : Finish(a, v)

Spec == Init /\ [][Next]_vars
=============================================================================
