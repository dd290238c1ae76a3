--------------------------- MODULE ExamplePlugin ---------------------------
(***************************************************************************)
(* The example plugin (example-harness-plugin/plugin.ts): the lines that   *)
(* one session prints for what it was sent, and whether it has written to  *)
(* the workspace.  A request is [kind] or, of a run, [kind, supported,     *)
(* credentials, tools].                                                    *)
(***************************************************************************)
EXTENDS Transcript

CONSTANT PluginVersion

Session(lines, repaired, exitCode) ==
  [lines |-> lines, repaired |-> repaired, exitCode |-> exitCode]

Greeting == Handshake(PluginVersion)
Refusal == <<Greeting, RunEvent(0, PluginVersion), RunResult("failed", FALSE, PluginVersion)>>
Repair == <<Greeting, RunEvent(0, PluginVersion), RunEvent(1, PluginVersion),
            RunResult("completed", FALSE, PluginVersion)>>

Refuses(run) == ~run.supported \/ run.credentials # {} \/ "apply_patch" \notin run.tools

(* runPluginSession; writeFile may fail once the run has begun.            *)
RunPluginSession(input, writable) ==
  CASE input = <<>> -> Session(<<>>, FALSE, 0)
    [] input # <<>> /\ input[1].kind # "handshake_request" -> Session(<<>>, FALSE, 1)
    [] Len(input) = 1 /\ input[1].kind = "handshake_request" ->
         Session(<<Greeting>>, FALSE, 0)
    [] OTHER ->
         CASE input[2].kind # "run_request" -> Session(<<Greeting>>, FALSE, 1)
           [] input[2].kind = "run_request" /\ Refuses(input[2]) -> Session(Refusal, FALSE, 0)
           [] OTHER -> IF writable THEN Session(Repair, TRUE, 0)
                       ELSE Session(SubSeq(Refusal, 1, 2), FALSE, 1)

-----------------------------------------------------------------------------
(* What an author of plugins takes from it: a probe gets exactly the       *)
(* handshake; a run that the host sees complete is one that repaired the   *)
(* workspace, and only a failed write leaves the host without a result.    *)
AnswersProbe ==
  LET s == RunPluginSession(<<[kind |-> "handshake_request"]>>, TRUE)
  IN IsProbeReply(s.lines, s.exitCode) /\ ~s.repaired

AnswersRun(run, writable) ==
  LET s == RunPluginSession(<<[kind |-> "handshake_request"], run>>, writable)
      result == PluginResult(s.lines, s.exitCode, PluginVersion)
  IN /\ result = NoResult <=> ~Refuses(run) /\ ~writable
     /\ result # NoResult => (result.status = "completed" <=> s.repaired)
=============================================================================
