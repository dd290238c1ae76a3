--------------------------- MODULE MCRunnerWorker ---------------------------
EXTENDS RunnerWorker

(* Two attempts.  The first saves two checkpoints, so that one can be      *)
(* superseded and one can be late in the second attempt, which saves none. *)
MCCheckpointCount == <<2, 0>>

(* One attempt without checkpoints.                                        *)
MCNoCheckpoints == <<0>>
=============================================================================
