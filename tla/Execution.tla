----------------------------- MODULE Execution -----------------------------
(***************************************************************************)
(* One call of TracerExecutor.execute, which RunnerWorker takes as a step: *)
(* an agentic task by executeAgenticTask (engine.ts) under the llmbench    *)
(* harness (agent-loop.ts) with hidden grading (grader.ts), or a response  *)
(* case (executeResponse).  The worker's cancellation monitor, the         *)
(* deadline, the loop's own clock and every await run side by side.        *)
(*                                                                         *)
(* A step is what runs between two awaits, or what an await waits for.     *)
(***************************************************************************)
EXTENDS Integers

CONSTANTS
  MaxTurns, MaxToolCalls,   \* the limits of the lease
  MaxCalls,                 \* bound: tool calls in one completion
  HiddenTests,              \* the number of hidden tests of the task
  Samples                   \* requests of a response case, the warm-up included

ASSUME ExecutionAssumption ==
  /\ MaxTurns \in Nat /\ MaxToolCalls \in Nat /\ MaxCalls \in Nat
  /\ HiddenTests \in Nat /\ Samples \in Nat

VARIABLES
  mode,             \* the kind of the workload
  pc,               \* what execute waits for
  requested,        \* the control plane wants the job cancelled
  aborted,          \* context.signal
  expired,          \* the deadline signal of the engine, or of the response
  clock,            \* the agent loop's deadline: passed on its clock, timer fired
  loop, turns, toolCalls,
  calls,            \* tool calls of the last completion that are still to run
  stop,             \* HarnessStopReason
  sample,           \* samples that were taken
  test, child,      \* the hidden test that is next or under way, and its process
  passed,
  cut,              \* hidden tests that an interruption failed
  grade, status,
  stored,           \* the artifact is in the artifact store
  terminals,        \* terminal events in the spool, or in the event buffer
  workspace         \* the temporary tree exists

signalVars == <<requested, aborted, expired, clock>>
loopVars == <<loop, turns, toolCalls, calls, stop>>
gradeVars == <<test, child, passed, cut, grade>>
outputVars == <<status, stored, terminals, workspace>>
vars == <<mode, pc, signalVars, loopVars, sample, gradeVars, outputVars>>

NoGrade == -1
Ended == {"returned", "threw"}
StopReason == {"none", "completed", "cancelled", "timeout", "max_turns",
               "max_tool_calls", "error"}

TypeOK ==
  /\ mode \in {"agentic", "response"}
  /\ pc \in {"starting", "creating", "preparing", "repairing", "diffing", "grading",
             "storing", "reporting", "cleaning", "discarding", "sampling", "failing"}
            \cup Ended
  /\ requested \in BOOLEAN /\ aborted \in BOOLEAN /\ expired \in BOOLEAN
  /\ clock \in {"running", "passed", "fired"}
  /\ loop \in {"idle", "turn", "request", "calls", "tool"}
  /\ turns \in 0..MaxTurns /\ toolCalls \in 0..MaxToolCalls /\ calls \in 0..MaxCalls
  /\ stop \in StopReason
  /\ sample \in 0..Samples
  /\ test \in 1..HiddenTests + 1 /\ child \in BOOLEAN
  /\ passed \in 0..HiddenTests /\ cut \subseteq 1..HiddenTests
  /\ grade \in 0..HiddenTests \cup {NoGrade}
  /\ status \in {"none", "completed", "failed", "cancelled", "timed_out"}
  /\ stored \in BOOLEAN
  /\ terminals \subseteq {"case_completed", "job_failed"}
  /\ workspace \in BOOLEAN

Init ==
  /\ mode \in {"agentic", "response"}
  /\ pc = "starting"
  /\ requested = FALSE /\ aborted = FALSE /\ expired = FALSE /\ clock = "running"
  /\ loop = "idle" /\ turns = 0 /\ toolCalls = 0 /\ calls = 0 /\ stop = "none"
  /\ sample = 0
  /\ test = 1 /\ child = FALSE /\ passed = 0 /\ cut = {} /\ grade = NoGrade
  /\ status = "none" /\ stored = FALSE /\ terminals = {} /\ workspace = FALSE

-----------------------------------------------------------------------------
(* The signals.                                                            *)

(* The signal that the harness, the grader and the provider are given.     *)
Interrupted == aborted \/ expired

RequestCancellation ==
  /\ ~requested /\ requested' = TRUE
  /\ UNCHANGED <<mode, pc, aborted, expired, clock, loopVars, sample, gradeVars, outputVars>>

(* The worker's monitor, or the poll that follows an emitted event.        *)
ObserveCancellation ==
  /\ pc \notin Ended /\ requested /\ ~aborted
  /\ aborted' = TRUE
  /\ UNCHANGED <<mode, pc, requested, expired, clock, loopVars, sample, gradeVars, outputVars>>

(* The engine's deadline runs from its call, that of a response from the   *)
(* end of the first event.                                                 *)
Expire ==
  /\ pc \notin Ended /\ ~expired
  /\ mode = "response" => pc # "starting"
  /\ expired' = TRUE
  /\ UNCHANGED <<mode, pc, requested, aborted, clock, loopVars, sample, gradeVars, outputVars>>

(* The agent loop reads Date.now and sets a timer: either can be first.    *)
AgentClock ==
  /\ pc = "repairing" /\ stop = "none"
  /\ \/ clock = "running" /\ clock' \in {"passed", "fired"}
     \/ clock = "passed" /\ clock' = "fired"
  /\ UNCHANGED <<mode, pc, requested, aborted, expired, loopVars, sample, gradeVars, outputVars>>

-----------------------------------------------------------------------------
(* executeAgenticTask, up to the harness.                                  *)

(* job_started is appended to the spool and emitted.                       *)
Start ==
  /\ pc = "starting"
  /\ pc' = IF mode = "agentic" THEN "creating" ELSE "sampling"
  /\ UNCHANGED <<mode, signalVars, loopVars, sample, gradeVars, outputVars>>

(* A validation, the first event or the directory fails: nothing is there  *)
(* to be removed.                                                          *)
StartFails ==
  /\ pc \in {"starting", "creating"}
  /\ pc' = "threw"
  /\ UNCHANGED <<mode, signalVars, loopVars, sample, gradeVars, outputVars>>

Create ==
  /\ pc = "creating"
  /\ pc' = "preparing" /\ workspace' = TRUE
  /\ UNCHANGED <<mode, signalVars, loopVars, sample, gradeVars, status, stored, terminals>>

Prepare ==
  /\ pc = "preparing"
  /\ pc' = "repairing" /\ loop' = "turn"
  /\ UNCHANGED <<mode, signalVars, turns, toolCalls, calls, stop, sample, gradeVars, outputVars>>

-----------------------------------------------------------------------------
(* LlmBenchHarness.run.                                                    *)

(* Mutant of Halted.                                                       *)
HaltedByClock == clock # "running"

(* checkHalt.                                                              *)
Halted == Interrupted \/ clock # "running"

HaltReason == IF Interrupted THEN "cancelled" ELSE "timeout"

Stops(reason) ==
  /\ stop' = reason /\ loop' = "idle"
  /\ UNCHANGED <<turns, toolCalls, calls>>

(* Mutant of TurnsLeft.                                                    *)
TurnsLeftOffByOne == turns <= MaxTurns

TurnsLeft == turns < MaxTurns

BeginTurn ==
  /\ loop = "turn" /\ TurnsLeft /\ ~Halted
  /\ turns' = turns + 1 /\ loop' = "request"
  /\ UNCHANGED <<toolCalls, calls, stop>>

EndTurns ==
  /\ loop = "turn"
  /\ \/ ~TurnsLeft /\ Stops("max_turns")
     \/ TurnsLeft /\ Halted /\ Stops(HaltReason)

(* A completion without tool calls ends the run, also when it was aborted  *)
(* while the answer came in.                                               *)
ProviderAnswers ==
  /\ loop = "request"
  /\ \/ Stops("completed")
     \/ \E n \in 1..MaxCalls :
          loop' = "calls" /\ calls' = n /\ UNCHANGED <<turns, toolCalls, stop>>

(* Mutant of SignalFired.                                                  *)
SignalFiredOnCancel == aborted

(* The signal of a request under way: the controller's of the loop, which  *)
(* follows its parent, or responseRequestSignal.                           *)
SignalFired == Interrupted \/ clock = "fired"

ProviderAborts ==
  /\ loop = "request" /\ SignalFired
  /\ Stops(IF clock = "fired" THEN "timeout" ELSE "cancelled")

ProviderFails == loop = "request" /\ Stops("error")

BeginTool ==
  /\ loop = "calls" /\ calls > 0 /\ ~Halted /\ toolCalls < MaxToolCalls
  /\ toolCalls' = toolCalls + 1 /\ loop' = "tool"
  /\ UNCHANGED <<turns, calls, stop>>

(* executeTool reports every failure of a tool as its result.              *)
EndTool ==
  /\ loop = "tool"
  /\ calls' = calls - 1 /\ loop' = "calls"
  /\ UNCHANGED <<turns, toolCalls, stop>>

EndCalls ==
  /\ loop = "calls"
  /\ \/ calls = 0 /\ loop' = "turn" /\ UNCHANGED <<turns, toolCalls, calls, stop>>
     \/ calls > 0 /\ Halted /\ Stops(HaltReason)
     \/ calls > 0 /\ ~Halted /\ toolCalls >= MaxToolCalls /\ Stops("max_tool_calls")

InLoop(A) ==
  /\ pc = "repairing" /\ A
  /\ UNCHANGED <<mode, pc, signalVars, sample, gradeVars, outputVars>>

(* repair resolves after "completed" and rejects after any other reason.   *)
EndRepair ==
  /\ pc = "repairing" /\ stop # "none"
  /\ pc' = "diffing"
  /\ UNCHANGED <<mode, signalVars, loopVars, sample, gradeVars, outputVars>>

-----------------------------------------------------------------------------
(* executeAgenticTask, from the harness to its end.                        *)

Classification ==
  IF aborted THEN "cancelled"
  ELSE IF expired THEN "timed_out"
  ELSE IF stop # "completed" THEN "failed"
  ELSE "completed"

(* The final snapshot was taken.                                           *)
Classify ==
  /\ pc = "diffing"
  /\ status' = Classification
  /\ pc' = IF status' = "completed" THEN "grading" ELSE "storing"
  /\ UNCHANGED <<mode, signalVars, loopVars, sample, gradeVars, stored, terminals, workspace>>

(* runIsolated: nothing is run once the signal is aborted.                 *)
BeginTest ==
  /\ pc = "grading" /\ ~child /\ test <= HiddenTests
  /\ IF Interrupted
       THEN test' = test + 1 /\ cut' = cut \cup {test} /\ UNCHANGED child
       ELSE child' = TRUE /\ UNCHANGED <<test, cut>>
  /\ UNCHANGED <<mode, pc, signalVars, loopVars, sample, passed, grade, outputVars>>

(* The child is killed, or ends: an interruption fails the test even when  *)
(* its result was written.                                                 *)
EndTest ==
  /\ child
  /\ child' = FALSE /\ test' = test + 1
  /\ IF Interrupted
       THEN cut' = cut \cup {test} /\ UNCHANGED passed
       ELSE passed' \in {passed, passed + 1} /\ UNCHANGED cut
  /\ UNCHANGED <<mode, pc, signalVars, loopVars, sample, grade, outputVars>>

(* Mutant of AfterGrading.                                                 *)
AfterGradingAsBefore == status

(* The interruption may have come while the hidden tests ran.              *)
AfterGrading == Classification

EndGrading ==
  /\ pc = "grading" /\ test = HiddenTests + 1
  /\ status' = AfterGrading
  /\ grade' = IF status' = "completed" THEN passed ELSE NoGrade
  /\ pc' = "storing"
  /\ UNCHANGED <<mode, signalVars, loopVars, sample, test, child, passed, cut,
                 stored, terminals, workspace>>

Store ==
  /\ pc = "storing"
  /\ pc' = "reporting" /\ stored' = TRUE
  /\ UNCHANGED <<mode, signalVars, loopVars, sample, gradeVars, status, terminals, workspace>>

(* appendTerminalEvent: a cancelled task has no terminal event.            *)
TerminalEvents ==
  IF mode = "response" \/ status = "completed" THEN {"case_completed"}
  ELSE IF status \in {"failed", "timed_out"} THEN {"job_failed"} ELSE {}

Report ==
  /\ pc = "reporting"
  /\ terminals' = terminals \cup TerminalEvents
  /\ IF mode = "agentic" THEN pc' = "cleaning" /\ UNCHANGED status
                         ELSE pc' = "returned" /\ status' = "completed"
  /\ UNCHANGED <<mode, signalVars, loopVars, sample, gradeVars, stored, workspace>>

Clean ==
  /\ pc = "cleaning"
  /\ pc' = "returned" /\ workspace' = FALSE
  /\ UNCHANGED <<mode, signalVars, loopVars, sample, gradeVars, status, stored, terminals>>

(* A step fails: the catch clause of either executor.  An event whose      *)
(* append failed may have been written.                                    *)
Fails ==
  /\ \/ pc \in {"preparing", "diffing", "storing", "cleaning"}
     \/ pc = "reporting" /\ TerminalEvents # {}
     \/ pc = "grading" /\ child
  /\ pc' = IF mode = "agentic" THEN "discarding" ELSE "failing"
  /\ child' = FALSE
  /\ \/ UNCHANGED terminals
     \/ pc = "reporting" /\ terminals' = terminals \cup TerminalEvents
  /\ UNCHANGED <<mode, signalVars, loopVars, sample, test, passed, cut, grade,
                 status, stored, workspace>>

Discard ==
  /\ pc = "discarding"
  /\ pc' = "threw" /\ workspace' \in {FALSE, workspace}
  /\ UNCHANGED <<mode, signalVars, loopVars, sample, gradeVars, status, stored, terminals>>

-----------------------------------------------------------------------------
(* executeResponse.                                                        *)

(* A request with an aborted signal is rejected without being sent.        *)
BeginSample ==
  /\ pc = "sampling" /\ loop = "idle" /\ sample < Samples
  /\ IF Interrupted THEN pc' = "failing" /\ UNCHANGED loop
                    ELSE loop' = "request" /\ UNCHANGED pc
  /\ UNCHANGED <<mode, signalVars, turns, toolCalls, calls, stop, sample, gradeVars, outputVars>>

SampleAnswers ==
  /\ pc = "sampling" /\ loop = "request"
  /\ sample' = sample + 1 /\ loop' = "idle"
  /\ UNCHANGED <<mode, pc, signalVars, turns, toolCalls, calls, stop, gradeVars, outputVars>>

(* The credential cannot be had; or the request, or the grading of its     *)
(* answer, fails.                                                          *)
SampleFails ==
  /\ pc = "sampling" /\ (loop = "request" \/ sample = 0)
  /\ pc' = "failing" /\ loop' = "idle"
  /\ UNCHANGED <<mode, signalVars, turns, toolCalls, calls, stop, sample, gradeVars, outputVars>>

SampleAborts == loop = "request" /\ SignalFired /\ SampleFails

EndSampling ==
  /\ pc = "sampling" /\ loop = "idle" /\ sample = Samples
  /\ pc' = "storing"
  /\ UNCHANGED <<mode, signalVars, loopVars, sample, gradeVars, outputVars>>

(* The catch clause: job_failed, then the verdict.                         *)
ReportFailure ==
  /\ pc = "failing"
  /\ pc' = "returned"
  /\ terminals' = terminals \cup {"job_failed"}
  /\ status' = IF aborted THEN "cancelled" ELSE "failed"
  /\ UNCHANGED <<mode, signalVars, loopVars, sample, gradeVars, stored, workspace>>

ReportFailureFails ==
  /\ pc = "failing"
  /\ pc' = "threw" /\ terminals' \in {terminals, terminals \cup {"job_failed"}}
  /\ UNCHANGED <<mode, signalVars, loopVars, sample, gradeVars, status, stored, workspace>>

(* Mutant of Verdict.                                                      *)
VerdictAtReturn ==
  IF pc = "threw" THEN "failed"
  ELSE IF aborted THEN "cancelled"
  ELSE IF status = "timed_out" THEN "failed" ELSE status

(* The terminal status that the worker saves.                              *)
Verdict ==
  IF pc = "threw" \/ status = "timed_out" THEN "failed" ELSE status

-----------------------------------------------------------------------------
Signals == RequestCancellation \/ ObserveCancellation \/ Expire \/ AgentClock

AgentLoop ==
  \/ InLoop(BeginTurn) \/ InLoop(EndTurns)
  \/ InLoop(BeginTool) \/ InLoop(EndTool) \/ InLoop(EndCalls)
  \/ InLoop(ProviderAborts) \/ EndRepair

Engine ==
  \/ Start \/ StartFails \/ Create \/ Prepare \/ Classify
  \/ BeginTest \/ EndTest \/ EndGrading \/ Store \/ Report \/ Clean \/ Fails \/ Discard

Response ==
  \/ BeginSample \/ SampleAborts \/ EndSampling \/ ReportFailure \/ ReportFailureFails

(* What the model provider decides.                                        *)
Provider ==
  \/ InLoop(ProviderAnswers) \/ InLoop(ProviderFails)
  \/ SampleAnswers \/ SampleFails

Next == Signals \/ AgentLoop \/ Engine \/ Response \/ Provider

Spec == Init /\ [][Next]_vars

(* The provider owes nothing; timers fire, and what runs locally goes on.  *)
Fairness == WF_vars(AgentLoop) /\ WF_vars(Engine) /\ WF_vars(Response) /\ WF_vars(Expire)

FairSpec == Spec /\ Fairness

-----------------------------------------------------------------------------
(***************************************************************************)
(* Properties.                                                             *)
(***************************************************************************)

(* "Grading is part of the run": a grade that is reported was decided by   *)
(* the hidden tests alone, and no test was failed by a cancellation or a   *)
(* deadline that fell into the grading.                                    *)
GradeUninfluenced == grade # NoGrade => cut = {} /\ test = HiddenTests + 1

(* The events tell the same story as the verdict, though the signals may   *)
(* change between the two, and a terminal event of success or of an        *)
(* agentic task is written only when the artifact is stored.               *)
EventMatchesVerdict ==
  /\ pc = "returned" =>
       /\ Verdict = "completed" => terminals = {"case_completed"}
       /\ Verdict = "failed" => "job_failed" \in terminals
       /\ Verdict = "cancelled" => requested /\ (mode = "agentic" => terminals = {})
  /\ "case_completed" \in terminals \/ (mode = "agentic" /\ terminals # {}) => stored

(* No request is sent to a provider, which costs money, after the          *)
(* cancellation or the deadline was seen: also not when that was before    *)
(* the loop listened to the signal, or during its tools.                   *)
NoRequestAfterInterrupt ==
  [][loop # "request" /\ loop' = "request" => ~Interrupted]_vars

(* An execution ends, whatever the provider does.                          *)
ExecutionEnds == <>(pc \in Ended)
=============================================================================
