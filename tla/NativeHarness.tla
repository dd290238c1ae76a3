--------------------------- MODULE NativeHarness ---------------------------
(***************************************************************************)
(* One run of a native harness: which command is started for a request,    *)
(* what the lines it prints and its exit become, and which checkpoint is   *)
(* saved (codex-harness, claude-harness, pi-harness, process-harness and   *)
(* tracer-executor.ts).  The command's process itself is ExtensionRun's    *)
(* subject; these are pure definitions.                                    *)
(*                                                                         *)
(*   request     [mode, checkpoint, tools, profiles]                       *)
(*   checkpoint  [sequence, resumable, session], or Absent                 *)
(*   process     [lines, exitCode, cancelled]                              *)
(*   event       codex:  [kind, session], [kind, text], [kind, usage]      *)
(*               claude: [kind, session, blocks, usage]                    *)
(*               pi:     [kind, text, usage, error]                        *)
(* A line that does not decode is Malformed; a field that is missing or of *)
(* another type is Absent.                                                 *)
(***************************************************************************)
EXTENDS Integers, Sequences, SequencesExt

CONSTANTS Absent, Malformed

ResumingHarnesses == {"codex", "claude"}

FirstOr(seq, default) == IF seq = <<>> THEN default ELSE Head(seq)
LastOr(seq, default) == IF seq = <<>> THEN default ELSE Last(seq)

SessionFrom(checkpoint) == IF checkpoint = Absent THEN Absent ELSE checkpoint.session

-----------------------------------------------------------------------------
(* Before the process starts.                                              *)

(* canResume, of a manifest that advertises session_resume or does not.    *)
CanResume(harness, advertised, ephemeral, checkpoint) ==
  /\ harness \in ResumingHarnesses /\ advertised /\ ~ephemeral
  /\ checkpoint # Absent
  /\ checkpoint.resumable /\ checkpoint.session # Absent

(* TracerExecutor.canResume: a response is never resumed, and the executor *)
(* starts no ephemeral session.                                            *)
CanResumeLease(kind, harness, advertised, checkpoint) ==
  kind = "agentic" /\ CanResume(harness, advertised, FALSE, checkpoint)

(* codex takes what it is given; the others reject, before they start,     *)
(* what they cannot do.                                                    *)
ClaudeAccepts(advertised, ephemeral, request) ==
  /\ request.tools = {} /\ request.profiles = {}
  /\ \/ request.checkpoint = Absent
     \/ CanResume("claude", advertised, ephemeral, request.checkpoint)

PiAccepts(request) ==
  /\ request.mode = "response" /\ request.checkpoint = Absent
  /\ request.tools = {} /\ request.profiles = {}

Accepts(harness, advertised, ephemeral, request) ==
  /\ harness = "claude" => ClaudeAccepts(advertised, ephemeral, request)
  /\ harness = "pi" => PiAccepts(request)

Sandbox(mode) == IF mode = "agentic" THEN "workspace-write" ELSE "read-only"

(* A resumed codex thread keeps the sandbox it was started with; claude is *)
(* told its permissions every time; pi has neither.                        *)
CodexCommand(ephemeral, request) ==
  LET session == SessionFrom(request.checkpoint) IN
  [resume |-> session,
   sandbox |-> IF session = Absent THEN Sandbox(request.mode) ELSE Absent,
   persist |-> session # Absent \/ ~ephemeral]

ClaudeCommand(ephemeral, request) ==
  LET session == SessionFrom(request.checkpoint) IN
  [resume |-> session, sandbox |-> Sandbox(request.mode),
   persist |-> session # Absent \/ ~ephemeral]

PiCommand == [resume |-> Absent, sandbox |-> Absent, persist |-> FALSE]

Command(harness, ephemeral, request) ==
  CASE harness = "codex"  -> CodexCommand(ephemeral, request)
    [] harness = "claude" -> ClaudeCommand(ephemeral, request)
    [] OTHER              -> PiCommand

-----------------------------------------------------------------------------
(* What the process printed.                                               *)

OfKind(kind, events) == SelectSeq(events, LAMBDA e : e.kind = kind)

CodexOutcome(events) ==
  LET text == LastOr(OfKind("message", events), [text |-> <<>>]).text IN
  [failed  |-> \E i \in DOMAIN events : events[i].kind \in {"turn.failed", "error"},
   output  |-> IF text = Absent THEN <<>> ELSE text,
   usage   |-> LastOr(OfKind("turn.completed", events), [usage |-> Absent]).usage,
   session |-> FirstOr(OfKind("thread.started", events), [session |-> Absent]).session]

(* The text blocks of the last message of the assistant; its session is    *)
(* the first that any event names.                                         *)
ClaudeSession(events) ==
  FirstOr(SelectSeq(events, LAMBDA e : e.session # Absent), [session |-> Absent]).session

ClaudeOutcome(events) ==
  LET message == LastOr(OfKind("assistant", events), [blocks |-> <<>>, usage |-> Absent]) IN
  [failed  |-> \E i \in DOMAIN events : events[i].kind = "error",
   output  |-> SelectSeq(message.blocks, LAMBDA text : text # Absent),
   usage   |-> message.usage,
   session |-> ClaudeSession(events)]

PiUsage(events) ==
  LastOr(SelectSeq(OfKind("response", events), LAMBDA e : e.usage # Absent),
         [usage |-> Absent]).usage

PiOutcome(events) ==
  [failed  |-> \E i \in DOMAIN events : events[i].kind = "response" /\ events[i].error,
   output  |-> LastOr(SelectSeq(OfKind("response", events), LAMBDA e : e.text # Absent),
                      [text |-> <<>>]).text,
   usage   |-> PiUsage(events),
   session |-> Absent]

Outcome(harness, events) ==
  CASE harness = "codex"  -> CodexOutcome(events)
    [] harness = "claude" -> ClaudeOutcome(events)
    [] OTHER              -> PiOutcome(events)

-----------------------------------------------------------------------------
(* complete() and result().                                                *)

Status(harness, process) ==
  CASE process.cancelled -> "cancelled"
    [] ~process.cancelled /\ (process.exitCode # 0 \/ Outcome(harness, process.lines).failed)
                         -> "failed"
    [] OTHER -> "completed"

(* A session that ended well is the next checkpoint; otherwise the one the *)
(* run was given is kept.                                                  *)
NextCheckpoint(harness, ephemeral, request, process) ==
  LET named == Outcome(harness, process.lines).session
      session == IF named = Absent THEN SessionFrom(request.checkpoint) ELSE named
  IN IF harness = "pi" THEN request.checkpoint
     ELSE IF ephemeral THEN Absent
     ELSE IF session # Absent /\ Status(harness, process) = "completed"
       THEN [sequence |-> IF request.checkpoint = Absent THEN 0
                          ELSE request.checkpoint.sequence + 1,
             resumable |-> TRUE, session |-> session]
       ELSE request.checkpoint

(* run: a malformed line throws, also when the run was cancelled.          *)
Threw == [status |-> "threw"]

Run(harness, advertised, ephemeral, request, process) ==
  IF \/ ~Accepts(harness, advertised, ephemeral, request)
     \/ \E i \in DOMAIN process.lines : process.lines[i] = Malformed
    THEN Threw
    ELSE [status |-> Status(harness, process),
          output |-> Outcome(harness, process.lines).output,
          usage |-> Outcome(harness, process.lines).usage,
          checkpoint |-> NextCheckpoint(harness, ephemeral, request, process)]

(* processFixtureHarness, of the checkpoint the attempt had: a completed   *)
(* run saves a new checkpoint, any other throws.                           *)
SavedCheckpoint(result, checkpoint) ==
  IF /\ result.status = "completed"
     /\ result.checkpoint # Absent /\ result.checkpoint # checkpoint
    THEN result.checkpoint ELSE checkpoint

-----------------------------------------------------------------------------
(* What checkpoints are for: over any number of attempts at one task, of   *)
(* which each is given what the one before it saved, a run resumes the     *)
(* session of the last run that completed, and every one that completes    *)
(* and names a session counts.                                             *)

Request(checkpoint) ==
  [mode |-> "agentic", checkpoint |-> checkpoint, tools |-> {}, profiles |-> {}]

CheckpointAfter(harness, processes) ==
  FoldLeft(LAMBDA checkpoint, process :
             SavedCheckpoint(Run(harness, TRUE, FALSE, Request(checkpoint), process), checkpoint),
           Absent, processes)

IsWhole(process) == \A i \in DOMAIN process.lines : process.lines[i] # Malformed
EndedWell(harness, process) ==
  /\ IsWhole(process) /\ ~process.cancelled /\ process.exitCode = 0
  /\ ~Outcome(harness, process.lines).failed

ResumesLastCompleted(harness, processes) ==
  LET checkpoint == CheckpointAfter(harness, processes)
      named == {i \in DOMAIN processes : EndedWell(harness, processes[i])
                                         /\ Outcome(harness, processes[i].lines).session # Absent}
      counted == {i \in DOMAIN processes : EndedWell(harness, processes[i])
                                           /\ \E j \in named : j <= i}
      command == Command(harness, FALSE, Request(checkpoint))
  IN IF named = {} THEN checkpoint = Absent /\ command.resume = Absent
     ELSE /\ CanResumeLease("agentic", harness, TRUE, checkpoint)
          /\ \E i \in named :
               /\ \A j \in named : j <= i
               /\ command.resume = Outcome(harness, processes[i].lines).session
          /\ checkpoint.sequence + 1 = Len(SelectSeq([i \in DOMAIN processes |-> i],
                                                     LAMBDA i : i \in counted))
=============================================================================
