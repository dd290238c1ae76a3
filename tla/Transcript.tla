----------------------------- MODULE Transcript -----------------------------
(***************************************************************************)
(* The lines an extension's process prints, decoded: the transcript of a   *)
(* plugin run (harness-sdk/protocol.ts, plugin-host.ts) and the reply of a *)
(* plugin's probe.  A message is a record of its kind, its protocol        *)
(* version, its sequence number and, of a result, status and checkpoint;   *)
(* a line that does not decode is Malformed.                               *)
(***************************************************************************)
EXTENDS Integers, Sequences, SequencesExt

CONSTANTS Malformed, NoResult

Handshake(version) ==
  [kind |-> "handshake_reply", version |-> version, sequence |-> 0, status |-> "none",
   checkpoint |-> FALSE]
RunEvent(n, version) ==
  [kind |-> "run_event", version |-> version, sequence |-> n, status |-> "none",
   checkpoint |-> FALSE]
RunResult(status, checkpoint, version) ==
  [kind |-> "run_result", version |-> version, sequence |-> 0, status |-> status,
   checkpoint |-> checkpoint]

Message ==
  [kind : STRING, version : Nat \X Nat, sequence : Nat, status : STRING, checkpoint : BOOLEAN]

(* assertCompatibleProtocolVersion, of every line that is decoded.         *)
IsCompatibleVersion(version) == version[1] = 1

Decodes(line) == line # Malformed /\ IsCompatibleVersion(line.version)

(* One turn of assertValidRunTranscript's loop.                            *)
IsInOrder(scan, m) ==
  /\ ~scan.terminal
  /\ m.kind = "run_result" \/ m.sequence = scan.expected

ScanLine(scan, m, version) ==
  [ok |-> scan.ok /\ m.version = version /\ IsInOrder(scan, m),
   expected |-> IF m.kind = "run_event" THEN scan.expected + 1 ELSE scan.expected,
   terminal |-> scan.terminal \/ m.kind = "run_result"]

Scan(messages, version) ==
  LET scan[n \in 0..Len(messages)] ==
        IF n = 0 THEN [ok |-> TRUE, expected |-> 0, terminal |-> FALSE]
        ELSE ScanLine(scan[n - 1], messages[n], version)
  IN scan[Len(messages)]

IsRunTranscript(messages, version) ==
  LET end == Scan(messages, version) IN end.ok /\ end.terminal

(* validatedRunTranscript.                                                 *)
IsValidOutput(lines, version) ==
  /\ \A i \in DOMAIN lines : Decodes(lines[i])
  /\ lines # <<>> /\ Head(lines).kind = "handshake_reply" /\ Head(lines).version = version
  /\ \A i \in DOMAIN Tail(lines) : Tail(lines)[i].kind \in {"run_event", "run_result"}
  /\ IsRunTranscript(Tail(lines), version)

(* ExecutablePluginHarness.run, of the lines and the exit code.            *)
PluginResult(lines, exitCode, version) ==
  IF exitCode = 0 /\ IsValidOutput(lines, version) THEN Last(lines) ELSE NoResult

(* probeExecutablePlugin: exactly one handshake.                           *)
IsProbeReply(lines, exitCode) ==
  /\ exitCode = 0 /\ Len(lines) = 1
  /\ Decodes(lines[1]) /\ lines[1].kind = "handshake_reply"

-----------------------------------------------------------------------------
(* What the protocol says of a run, from its end instead of line by line:  *)
(* a handshake, events numbered from 0, and exactly one result.            *)
IsWholeRun(lines, version) ==
  /\ Len(lines) >= 2
  /\ \A i \in DOMAIN lines : lines[i] # Malformed /\ lines[i].version = version
  /\ Head(lines).kind = "handshake_reply" /\ Last(lines).kind = "run_result"
  /\ \A i \in 2..Len(lines) - 1 : lines[i].kind = "run_event" /\ lines[i].sequence = i - 2
=============================================================================
