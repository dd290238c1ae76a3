-------------------------- MODULE ExecutionProofs --------------------------
(***************************************************************************)
(* Theorems about Execution, for every limit of turns, tool calls, tests   *)
(* and samples: types, grades that no interruption touched, events that    *)
(* agree with the verdict, and no request after an interruption.           *)
(***************************************************************************)
EXTENDS Execution, TLAPS

-----------------------------------------------------------------------------
(* Types, with the bounds that the counters rest on.                       *)

LoopInv ==
  /\ loop = "tool" => calls > 0
  /\ loop = "request" /\ pc = "sampling" => sample < Samples
  /\ pc \in {"starting", "creating", "preparing"} => loop = "idle"

GradingInv ==
  /\ passed < test
  /\ child => pc = "grading" /\ test <= HiddenTests

TInv == TypeOK /\ LoopInv /\ GradingInv

LEMMA TInit == Init => TInv
<1> SUFFICES ASSUME Init PROVE TInv
  OBVIOUS
<1> USE ExecutionAssumption DEF ExecutionAssumption, Init
<1>1. /\ mode \in {"agentic", "response"} /\ pc = "starting"
      /\ requested = FALSE /\ aborted = FALSE /\ expired = FALSE /\ child = FALSE
      /\ stored = FALSE /\ workspace = FALSE
  OBVIOUS
<1>2. test \in 1..HiddenTests + 1 /\ passed \in 0..HiddenTests /\ passed < test
  OBVIOUS
<1>3. turns \in 0..MaxTurns /\ toolCalls \in 0..MaxToolCalls /\ calls \in 0..MaxCalls
      /\ sample \in 0..Samples
  OBVIOUS
<1>4. cut \subseteq 1..HiddenTests /\ terminals \subseteq {"case_completed", "job_failed"}
  OBVIOUS
<1> QED
  BY <1>2, <1>3, <1>4 DEF TInv, TypeOK, LoopInv, GradingInv, StopReason, Ended

(* The signals touch nothing else.                                         *)
LEMMA TSignals == ASSUME TInv, Signals PROVE TInv'
<1> USE DEF TInv, TypeOK, LoopInv, GradingInv, StopReason, Ended, loopVars, gradeVars,
            outputVars
<1>1. CASE RequestCancellation
  BY <1>1 DEF RequestCancellation
<1>2. CASE ObserveCancellation
  BY <1>2 DEF ObserveCancellation
<1>3. CASE Expire
  BY <1>3 DEF Expire
<1>4. CASE AgentClock
  BY <1>4 DEF AgentClock
<1> QED
  BY <1>1, <1>2, <1>3, <1>4 DEF Signals

(* The agent loop, with what the provider decides.                         *)
LEMMA TAgentLoop ==
  ASSUME TInv,
         \/ AgentLoop
         \/ InLoop(ProviderAnswers) \/ InLoop(ProviderFails)
  PROVE  TInv'
<1> USE ExecutionAssumption
    DEF ExecutionAssumption, TInv, TypeOK, LoopInv, GradingInv, StopReason, Ended, InLoop, Stops,
        signalVars, gradeVars, outputVars
<1>1. CASE InLoop(BeginTurn)
  BY <1>1 DEF BeginTurn, TurnsLeft
<1>2. CASE InLoop(EndTurns)
  BY <1>2 DEF EndTurns, HaltReason
<1>3. CASE InLoop(BeginTool)
  BY <1>3 DEF BeginTool
<1>4. CASE InLoop(EndTool)
  BY <1>4 DEF EndTool
<1>5. CASE InLoop(EndCalls)
  BY <1>5 DEF EndCalls, HaltReason
<1>6. CASE InLoop(ProviderAborts)
  BY <1>6 DEF ProviderAborts
<1>7. CASE EndRepair
  BY <1>7 DEF EndRepair, loopVars
<1>8. CASE InLoop(ProviderAnswers)
  BY <1>8 DEF ProviderAnswers
<1>9. CASE InLoop(ProviderFails)
  BY <1>9 DEF ProviderFails
<1> QED
  BY <1>1, <1>2, <1>3, <1>4, <1>5, <1>6, <1>7, <1>8, <1>9 DEF AgentLoop

LEMMA TEngine == ASSUME TInv, Engine PROVE TInv'
<1> USE ExecutionAssumption
    DEF ExecutionAssumption, TInv, TypeOK, LoopInv, GradingInv, StopReason, Ended,
        signalVars, loopVars, gradeVars, outputVars
<1>1. CASE Start
  BY <1>1 DEF Start
<1>2. CASE StartFails
  BY <1>2 DEF StartFails
<1>3. CASE Create
  <2>1. workspace' \in BOOLEAN
    BY <1>3, Zenon DEF Create
  <2> QED
    BY <1>3, <2>1 DEF Create
<1>4. CASE Prepare
  BY <1>4 DEF Prepare
<1>5. CASE Classify
  BY <1>5 DEF Classify, Classification
<1>6. CASE BeginTest
  <2>1. child' \in BOOLEAN
    BY <1>6, Zenon DEF BeginTest
  <2>2. test \in 1..HiddenTests /\ test' \in {test, test + 1}
    BY <1>6 DEF BeginTest
  <2>3. cut' \in {cut, cut \cup {test}}
    BY <1>6 DEF BeginTest
  <2>4. cut' \subseteq 1..HiddenTests /\ test' \in 1..HiddenTests + 1
    BY <2>2, <2>3
  <2>5. passed' \in 0..HiddenTests /\ passed' < test'
    BY <1>6 DEF BeginTest
  <2>6. child' => pc' = "grading" /\ test' <= HiddenTests
    BY <1>6 DEF BeginTest
  <2> QED
    BY <1>6, <2>1, <2>4, <2>5, <2>6 DEF BeginTest
<1>7. CASE EndTest
  <2>1. child' \in BOOLEAN
    BY <1>7, Zenon DEF EndTest
  <2>2. test \in 1..HiddenTests /\ test' \in {test, test + 1}
    BY <1>7 DEF EndTest
  <2>3. cut' \in {cut, cut \cup {test}}
    BY <1>7 DEF EndTest
  <2>4. cut' \subseteq 1..HiddenTests /\ test' \in 1..HiddenTests + 1
    BY <2>2, <2>3
  <2>5. passed' \in 0..HiddenTests /\ passed' < test'
    BY <1>7 DEF EndTest
  <2>6. child' => pc' = "grading" /\ test' <= HiddenTests
    BY <1>7 DEF EndTest
  <2> QED
    BY <1>7, <2>1, <2>4, <2>5, <2>6 DEF EndTest
<1>8. CASE EndGrading
  BY <1>8 DEF EndGrading, AfterGrading, Classification
<1>9. CASE Store
  BY <1>9 DEF Store
<1>10. CASE Report
  BY <1>10 DEF Report, TerminalEvents
<1>11. CASE Clean
  <2>1. workspace' \in BOOLEAN
    BY <1>11, Zenon DEF Clean
  <2> QED
    BY <1>11, <2>1 DEF Clean
<1>12. CASE Fails
  <2>1. child' \in BOOLEAN
    BY <1>12, Zenon DEF Fails
  <2>2. terminals' \subseteq {"case_completed", "job_failed"}
    BY <1>12 DEF Fails, TerminalEvents
  <2> QED
    BY <1>12, <2>1, <2>2 DEF Fails
<1>13. CASE Discard
  <2>1. workspace' \in BOOLEAN
    BY <1>13, Zenon DEF Discard
  <2> QED
    BY <1>13, <2>1 DEF Discard
<1> QED
  BY <1>1, <1>2, <1>3, <1>4, <1>5, <1>6, <1>7, <1>8, <1>9, <1>10, <1>11, <1>12, <1>13
  DEF Engine

LEMMA TResponse ==
  ASSUME TInv, Response \/ SampleAnswers \/ SampleFails PROVE TInv'
<1> USE ExecutionAssumption
    DEF ExecutionAssumption, TInv, TypeOK, LoopInv, GradingInv, StopReason, Ended,
        signalVars, loopVars, gradeVars, outputVars
<1>1. CASE BeginSample
  BY <1>1 DEF BeginSample
<1>2. CASE SampleAnswers
  BY <1>2 DEF SampleAnswers
<1>3. CASE SampleFails
  BY <1>3 DEF SampleFails
<1>4. CASE EndSampling
  BY <1>4 DEF EndSampling
<1>5. CASE ReportFailure
  BY <1>5 DEF ReportFailure
<1>6. CASE ReportFailureFails
  BY <1>6 DEF ReportFailureFails
<1> QED
  BY <1>1, <1>2, <1>3, <1>4, <1>5, <1>6 DEF Response, SampleAborts

LEMMA TStep == TInv /\ [Next]_vars => TInv'
<1> SUFFICES ASSUME TInv, [Next]_vars PROVE TInv'
  OBVIOUS
<1>1. CASE UNCHANGED vars
  BY <1>1 DEF TInv, TypeOK, LoopInv, GradingInv, vars, signalVars, loopVars, gradeVars,
              outputVars
<1> QED
  BY <1>1, TSignals, TAgentLoop, TEngine, TResponse DEF Next, Provider

(* Every variable keeps its type: no more turns, tool calls, tests or      *)
(* samples than the lease allows.                                          *)
THEOREM TypeCorrect == Spec => []TypeOK
<1>1. TInv => TypeOK
  BY DEF TInv
<1> QED
  BY <1>1, TInit, TStep, PTL DEF Spec

-----------------------------------------------------------------------------
(* Grades.                                                                 *)

BeforeGrade == {"starting", "creating", "preparing", "repairing", "diffing", "grading"}

(* An interruption stays, and a grade is set when grading is over.         *)
CutInv ==
  /\ cut # {} => Interrupted
  /\ grade # NoGrade => cut = {} /\ test = HiddenTests + 1 /\ pc \notin BeforeGrade

LEMMA CutStep ==
  ASSUME TInv, CutInv, [Next]_vars PROVE CutInv'
<1> USE DEF TInv, GradingInv, CutInv, BeforeGrade, Interrupted,
            signalVars, loopVars, gradeVars, outputVars
<1>1. CASE UNCHANGED vars
  BY <1>1 DEF vars
<1>2. CASE Signals
  BY <1>2 DEF Signals, RequestCancellation, ObserveCancellation, Expire, AgentClock
<1>3. CASE AgentLoop \/ InLoop(ProviderAnswers) \/ InLoop(ProviderFails)
  BY <1>3 DEF AgentLoop, InLoop, EndRepair
<1>4. CASE Engine
  <2>1. CASE Start \/ StartFails \/ Create \/ Prepare
    BY <2>1 DEF Start, StartFails, Create, Prepare
  <2>2. CASE Classify
    BY <2>2 DEF Classify
  <2>3. CASE BeginTest
    BY <2>3 DEF BeginTest
  <2>4. CASE EndTest
    BY <2>4 DEF EndTest
  <2>5. CASE EndGrading
    BY <2>5 DEF EndGrading, AfterGrading, Classification
  <2>6. CASE Store \/ Report \/ Clean \/ Discard
    BY <2>6 DEF Store, Report, Clean, Discard
  <2>7. CASE Fails
    BY <2>7 DEF Fails
  <2> QED
    BY <1>4, <2>1, <2>2, <2>3, <2>4, <2>5, <2>6, <2>7 DEF Engine
<1>5. CASE Response \/ SampleAnswers \/ SampleFails
  BY <1>5 DEF Response, BeginSample, SampleAnswers, SampleFails, SampleAborts, EndSampling,
              ReportFailure, ReportFailureFails
<1> QED
  BY <1>1, <1>2, <1>3, <1>4, <1>5 DEF Next, Provider

(* A reported grade was decided by all the hidden tests, none of which a   *)
(* cancellation or the deadline had failed (engine.ts, after grading).     *)
THEOREM GradeFaithful == Spec => []GradeUninfluenced
<1>1. Init => CutInv
  BY DEF Init, CutInv, NoGrade
<1>2. CutInv => GradeUninfluenced
  BY DEF CutInv, GradeUninfluenced
<1> QED
  BY <1>1, <1>2, TInit, TStep, CutStep, PTL DEF Spec

-----------------------------------------------------------------------------
(* Events and verdict.                                                     *)

AgenticReports ==
  /\ pc \notin {"sampling", "failing"}
  /\ pc \in BeforeGrade \cup {"storing", "reporting"} => terminals = {}
  /\ pc \in {"storing", "reporting", "cleaning", "returned"} => status # "none"
  /\ pc \in {"cleaning", "returned"} => terminals = TerminalEvents
  /\ pc = "reporting" \/ terminals # {} => stored

ResponseReports ==
  /\ pc \notin {"creating", "preparing", "repairing", "diffing", "grading", "cleaning",
                "discarding"}
  /\ pc \in {"starting", "sampling", "storing", "reporting"} => terminals = {}
  /\ pc = "reporting" \/ "case_completed" \in terminals => stored
  /\ pc = "returned" =>
       \/ status = "completed" /\ terminals = {"case_completed"}
       \/ status \in {"cancelled", "failed"} /\ "job_failed" \in terminals

(* An abort and a cancelled status have a request; the rest by mode.       *)
ReportInv ==
  /\ aborted \/ status = "cancelled" => requested
  /\ mode = "agentic" => AgenticReports
  /\ mode = "response" => ResponseReports

LEMMA ReportStep ==
  ASSUME TInv, ReportInv, [Next]_vars PROVE ReportInv'
<1> USE DEF ReportInv, AgenticReports, ResponseReports, TerminalEvents, BeforeGrade,
            signalVars, loopVars, gradeVars, outputVars
<1>t. mode \in {"agentic", "response"}
  BY DEF TInv, TypeOK
<1>1. CASE UNCHANGED vars
  BY <1>1 DEF vars
<1>2. CASE Signals
  BY <1>2 DEF Signals, RequestCancellation, ObserveCancellation, Expire, AgentClock
<1>3. CASE AgentLoop \/ InLoop(ProviderAnswers) \/ InLoop(ProviderFails)
  BY <1>3 DEF AgentLoop, InLoop, EndRepair
<1>4. CASE Engine
  <2>1. CASE Start \/ StartFails \/ Create \/ Prepare
    BY <1>t, <2>1 DEF Start, StartFails, Create, Prepare
  <2>2. CASE Classify
    BY <1>t, <2>2 DEF Classify, Classification
  <2>3. CASE BeginTest \/ EndTest
    BY <1>t, <2>3 DEF BeginTest, EndTest, TInv, GradingInv
  <2>4. CASE EndGrading
    BY <1>t, <2>4 DEF EndGrading, AfterGrading, Classification
  <2>5. CASE Store
    BY <1>t, <2>5 DEF Store
  <2>6. CASE Report
    <3>1. CASE mode = "agentic"
      <4>1. terminals' = TerminalEvents' /\ UNCHANGED <<mode, status, stored, requested, aborted>>
        BY <2>6, <3>1 DEF Report
      <4>2. pc' = "cleaning" /\ stored /\ status # "none"
        BY <2>6, <3>1 DEF Report
      <4> QED
        BY <3>1, <4>1, <4>2
    <3>2. CASE mode = "response"
      <4>1. terminals = {} /\ stored /\ TerminalEvents = {"case_completed"}
        BY <2>6, <3>2 DEF Report
      <4>2. pc' = "returned" /\ status' = "completed" /\ terminals' = {"case_completed"}
        BY <2>6, <3>2, <4>1 DEF Report
      <4>3. UNCHANGED <<mode, stored, requested, aborted>>
        BY <2>6 DEF Report
      <4> QED
        BY <2>6, <3>2, <4>1, <4>2, <4>3
    <3> QED
      BY <1>t, <3>1, <3>2
  <2>7. CASE Clean
    <3>1. mode = "agentic" /\ TerminalEvents' = TerminalEvents
      BY <1>t, <2>7 DEF Clean
    <3> QED
      BY <2>7, <3>1 DEF Clean
  <2>9. CASE Discard
    BY <1>t, <2>9 DEF Discard
  <2>8. CASE Fails
    BY <1>t, <2>8 DEF Fails
  <2> QED
    BY <1>4, <2>1, <2>2, <2>3, <2>4, <2>5, <2>6, <2>7, <2>8, <2>9 DEF Engine
<1>5. CASE Response \/ SampleAnswers \/ SampleFails
  BY <1>t, <1>5 DEF Response, BeginSample, SampleAnswers, SampleFails, SampleAborts,
                    EndSampling, ReportFailure, ReportFailureFails
<1> QED
  BY <1>1, <1>2, <1>3, <1>4, <1>5 DEF Next, Provider

(* What the events say is what the worker saves as the verdict, whatever   *)
(* signal comes between the two (appendTerminalEvent, executeResponse).    *)
THEOREM EventsFaithful == Spec => []EventMatchesVerdict
<1>1. Init => ReportInv
  BY DEF Init, ReportInv, AgenticReports, ResponseReports, BeforeGrade
<1>2. TInv /\ ReportInv => EventMatchesVerdict
  BY DEF TInv, TypeOK, ReportInv, AgenticReports, ResponseReports, EventMatchesVerdict,
         Verdict, TerminalEvents
<1> QED
  BY <1>1, <1>2, TInit, TStep, ReportStep, PTL DEF Spec

-----------------------------------------------------------------------------
(* No request goes out after the cancellation or the deadline was seen     *)
(* (checkHalt, and a fetch with an aborted signal).                        *)
THEOREM NothingSpentLate == Spec => NoRequestAfterInterrupt
<1>1. ASSUME [Next]_vars PROVE loop # "request" /\ loop' = "request" => ~Interrupted
  <2> USE DEF signalVars, loopVars, gradeVars, outputVars
  <2>1. CASE UNCHANGED vars \/ Signals
    BY <2>1 DEF vars, Signals, RequestCancellation, ObserveCancellation, Expire, AgentClock
  <2>2. CASE AgentLoop \/ InLoop(ProviderAnswers) \/ InLoop(ProviderFails)
    BY <2>2 DEF AgentLoop, InLoop, BeginTurn, EndTurns, BeginTool, EndTool, EndCalls,
                ProviderAborts, EndRepair, ProviderAnswers, ProviderFails, Stops, Halted
  <2>3. CASE Engine
    BY <2>3 DEF Engine, Start, StartFails, Create, Prepare, Classify, BeginTest, EndTest,
                EndGrading, Store, Report, Clean, Fails, Discard
  <2>4. CASE Response \/ SampleAnswers \/ SampleFails
    BY <2>4 DEF Response, BeginSample, SampleAnswers, SampleFails, SampleAborts,
                EndSampling, ReportFailure, ReportFailureFails
  <2> QED
    BY <1>1, <2>1, <2>2, <2>3, <2>4 DEF Next, Provider
<1> QED
  BY <1>1, PTL DEF Spec, NoRequestAfterInterrupt
=============================================================================
