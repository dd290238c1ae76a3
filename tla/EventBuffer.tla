---------------------------- MODULE EventBuffer ----------------------------
(***************************************************************************)
(* The runner's durable buffer of benchmark events (event-buffer.ts) under *)
(* the delivery that drives it (LiveEventDelivery and deliver, worker.ts), *)
(* for the events of one attempt, with crashes of the runner process and a *)
(* network that loses and delays requests and answers.                     *)
(*                                                                         *)
(* An appendFile and a rename are one step each.  writeFile over the       *)
(* buffer is two, the open that truncates and the write, because the       *)
(* process can stop between them.  A mutation holds the buffer from its    *)
(* first step to its last, as mutate() does.                               *)
(***************************************************************************)
EXTENDS Integers, SequencesExt

CONSTANTS
  MaxEvents,       \* bound: events the executor emits
  MaxCrashes       \* bound: crashes of the runner process

ASSUME EventBufferAssumption == MaxEvents \in Nat /\ MaxCrashes \in Nat

Events == 1..MaxEvents            \* in the order they are emitted
Sequences0 == 0..MaxEvents - 1    \* the sequence numbers they can get
NoEvent == 0
Item == [sequence : Sequences0, event : Events]

VARIABLES
  file, sequenceFile,      \* the buffer and its .sequence file (-1: absent)
  emitted,                 \* how many events were emitted
  appended,                \* the events whose append() has returned
  mutation,                \* what holds the buffer
  delivery, final, requested, batch,   \* the flush under way, if any
  phase,                   \* of the attempt: executing, ended, completed
  delayed,                 \* requests the runner gave up on
  stored,                  \* the rows of runner_events: an event per sequence
  crashes

bufferVars == <<file, sequenceFile, emitted, appended, mutation>>
deliveryVars == <<delivery, final, requested, batch>>
serverVars == <<delayed, stored>>
vars == <<bufferVars, deliveryVars, phase, serverVars, crashes>>

Items(s) == {s[i] : i \in DOMAIN s}

TypeOK ==
  /\ file \in Seq(Item) /\ batch \in Seq(Item)
  /\ sequenceFile \in Sequences0 \cup {-1}
  /\ emitted \in 0..MaxEvents /\ appended \subseteq Events
  /\ mutation \in {"free", "appending", "rewriting"}
  /\ delivery \in {"idle", "reading", "sending", "answered", "rewriting"}
  /\ final \in BOOLEAN /\ requested \in BOOLEAN
  /\ phase \in {"executing", "ended", "completed"}
  /\ \A b \in delayed : b \in Seq(Item)
  /\ stored \in [Sequences0 -> Events \cup {NoEvent}]
  /\ crashes \in 0..MaxCrashes

Init ==
  /\ file = <<>> /\ sequenceFile = -1 /\ emitted = 0 /\ appended = {}
  /\ mutation = "free"
  /\ delivery = "idle" /\ final = FALSE /\ requested = FALSE /\ batch = <<>>
  /\ phase = "executing"
  /\ delayed = {} /\ stored = [s \in Sequences0 |-> NoEvent]
  /\ crashes = 0

-----------------------------------------------------------------------------
(* append().                                                               *)

LastPending == IF file = <<>> THEN -1 ELSE Last(file).sequence

\* Mutants of LastSequence.
LastSequenceOfPending == LastPending
LastSequenceSkips == 1 + IF sequenceFile > LastPending THEN sequenceFile ELSE LastPending

LastSequence == IF sequenceFile > LastPending THEN sequenceFile ELSE LastPending

(* The line is appended under the next sequence number.                    *)
BeginAppend ==
  /\ phase = "executing" /\ mutation = "free" /\ emitted < MaxEvents
  /\ mutation' = "appending"
  /\ emitted' = emitted + 1
  /\ file' = Append(file, [sequence |-> LastSequence + 1, event |-> emitted + 1])
  /\ UNCHANGED <<sequenceFile, appended, deliveryVars, phase, serverVars, crashes>>

(* The sequence file is replaced, append() returns, and the live delivery  *)
(* is started unless one is in flight.                                     *)
EndAppend ==
  /\ mutation = "appending"
  /\ mutation' = "free"
  /\ sequenceFile' = Last(file).sequence
  /\ appended' = appended \cup {Last(file).event}
  /\ IF delivery = "idle"
       THEN delivery' = "reading" /\ requested' = FALSE
       ELSE requested' = TRUE /\ UNCHANGED delivery
  /\ UNCHANGED <<file, emitted, final, batch, phase, serverVars, crashes>>

(* execute() returns or rejects: its terminal request is saved.            *)
EndExecution ==
  /\ phase = "executing" /\ mutation # "appending"
  /\ phase' = "ended"
  /\ UNCHANGED <<bufferVars, deliveryVars, serverVars, crashes>>

-----------------------------------------------------------------------------
(* flush().                                                                *)

\* Mutant of ReadyForTerminal.
ReadyWhenUnrequested == delivery = "idle" /\ ~requested

(* readyForTerminal: no live delivery is in flight.                        *)
ReadyForTerminal == delivery = "idle"

(* deliver() flushes the buffer once more before it completes the attempt. *)
BeginFinalFlush ==
  /\ phase = "ended" /\ ReadyForTerminal
  /\ delivery' = "reading" /\ final' = TRUE
  /\ UNCHANGED <<bufferVars, requested, batch, phase, serverVars, crashes>>

(* The end of a flush that was answered or had nothing to send.  A live    *)
(* one starts again if events arrived; after the last one the attempt is   *)
(* completed.                                                              *)
FlushSucceeds ==
  /\ delivery' = IF requested /\ ~final THEN "reading" ELSE "idle"
  /\ requested' = (requested /\ final)
  /\ phase' = IF final THEN "completed" ELSE phase
  /\ final' = FALSE
  /\ batch' = <<>>

ReadPending ==
  /\ delivery = "reading" /\ mutation = "free"
  /\ IF file = <<>>
       THEN FlushSucceeds
       ELSE /\ delivery' = "sending" /\ batch' = file
            /\ UNCHANGED <<final, requested, phase>>
  /\ UNCHANGED <<bufferVars, serverVars, crashes>>

(* The request fails or times out, the server may still act on it, and a   *)
(* live delivery is not started again.                                     *)
FlushFails ==
  /\ delivery \in {"sending", "answered"}
  /\ delayed' = IF delivery = "sending" THEN delayed \cup {batch} ELSE delayed
  /\ delivery' = "idle" /\ final' = FALSE /\ batch' = <<>>
  /\ UNCHANGED <<bufferVars, requested, phase, stored, crashes>>

(* The items of a list that an acknowledgement does not cover, in order.   *)
Filtered(kept, item, through) == IF item.sequence > through THEN Append(kept, item) ELSE kept

NotCovered(items, through) ==
  LET kept[n \in 0..Len(items)] ==
        IF n = 0 THEN <<>> ELSE Filtered(kept[n - 1], items[n], through)
  IN  kept[Len(items)]

\* Mutants of Remaining: from the batch that was sent, not the file as it is
\* now; one sequence number too far.
RemainingOfBatch(through) == NotCovered(batch, through)
RemainingOffByOne(through) == NotCovered(file, through + 1)

(* What a rewrite leaves, from the file as it is after the send.           *)
Remaining(through) == NotCovered(file, through)

(* The rewrite opens the file: it is empty now, and what remains is in     *)
(* memory.                                                                 *)
BeginRewrite ==
  /\ delivery = "answered" /\ mutation = "free"
  /\ delivery' = "rewriting" /\ mutation' = "rewriting"
  /\ batch' = Remaining(Last(batch).sequence)
  /\ file' = <<>>
  /\ UNCHANGED <<sequenceFile, emitted, appended, final, requested, phase,
                 serverVars, crashes>>

EndRewrite ==
  /\ delivery = "rewriting"
  /\ mutation' = "free" /\ file' = batch
  /\ FlushSucceeds
  /\ UNCHANGED <<sequenceFile, emitted, appended, serverVars, crashes>>

-----------------------------------------------------------------------------
(* The control plane: saveEvent for each item in turn, which keeps the row *)
(* that is there (recordEvents, RunnerJobs).                               *)

Saved(items) ==
  [s \in Sequences0 |->
     LET new == {n \in DOMAIN items : items[n].sequence = s}
     IN  IF stored[s] = NoEvent /\ new # {} THEN items[Min(new)].event ELSE stored[s]]

Answer ==
  /\ delivery = "sending"
  /\ stored' = Saved(batch)
  /\ delivery' = "answered"
  /\ UNCHANGED <<bufferVars, final, requested, batch, phase, delayed, crashes>>

(* The server saved n items of a request and stopped.                      *)
SavePart(n) ==
  /\ delivery = "sending" /\ n < Len(batch)
  /\ stored' = Saved(SubSeq(batch, 1, n))
  /\ UNCHANGED <<bufferVars, deliveryVars, phase, delayed, crashes>>

(* A request the runner gave up on is acted on, or was lost.               *)
Late(b, n) ==
  /\ n <= Len(b)
  /\ stored' = Saved(SubSeq(b, 1, n))
  /\ delayed' = delayed \ {b}
  /\ UNCHANGED <<bufferVars, deliveryVars, phase, crashes>>

-----------------------------------------------------------------------------
(* The runner process stops and starts again: it resumes the execution, or *)
(* ends it as interrupted.                                                 *)
Crash ==
  /\ crashes < MaxCrashes /\ phase # "completed"
  /\ crashes' = crashes + 1
  /\ mutation' = "free"
  /\ delivery' = "idle" /\ final' = FALSE /\ requested' = FALSE /\ batch' = <<>>
  /\ delayed' = IF delivery = "sending" THEN delayed \cup {batch} ELSE delayed
  /\ phase' \in {phase, "ended"}
  /\ UNCHANGED <<file, sequenceFile, emitted, appended, stored>>

Next ==
  \/ BeginAppend \/ EndAppend \/ EndExecution
  \/ BeginFinalFlush \/ ReadPending \/ FlushFails \/ BeginRewrite \/ EndRewrite
  \/ Answer \/ \E n \in Events : SavePart(n)
  \/ \E b \in delayed, n \in 0..MaxEvents : Late(b, n)
  \/ Crash

Spec == Init /\ [][Next]_vars

(* The event loop runs every step of the process that is ready, executions *)
(* end (their limits see to it), the daemon loop delivers again after a    *)
(* failure, and a server that is asked again and again answers in the end. *)
Fairness ==
  /\ WF_vars(EndAppend) /\ WF_vars(EndExecution) /\ WF_vars(BeginFinalFlush)
  /\ WF_vars(ReadPending) /\ WF_vars(EndRewrite)
  /\ SF_vars(Answer) /\ SF_vars(BeginRewrite)

FairSpec == Spec /\ Fairness

-----------------------------------------------------------------------------
(***************************************************************************)
(* Properties.                                                             *)
(***************************************************************************)

Known ==
  Items(file) \cup Items(batch) \cup (UNION {Items(b) : b \in delayed})
    \cup {i \in Item : stored[i.sequence] = i.event}

(* A sequence number names one event, wherever it appears, and the order   *)
(* of the numbers is the order of emission: runner_events ignores a second *)
(* event with a number it has, so reuse is silent loss.                    *)
SequenceFollowsEmission ==
  \A i, j \in Known : i.sequence < j.sequence <=> i.event < j.event

Kept(e) ==
  \/ \E i \in Items(file) : i.event = e
  \/ mutation = "rewriting" /\ \E i \in Items(batch) : i.event = e
  \/ \E s \in Sequences0 : stored[s] = e

(* An event whose append returned is in the buffer or stored, and only a   *)
(* crash inside the rewrite can change that: not an append while the send  *)
(* was in flight, not a lost answer, not a crash at any other point.       *)
OnlyRewriteCrashErases ==
  [][\A e \in appended :
       Kept(e) => Kept(e)' \/ (mutation = "rewriting" /\ crashes' # crashes)]_vars

(* A completed attempt has every event it appended on the server, unless   *)
(* the process crashed on the way.                                         *)
CompletedAfterEvents ==
  phase = "completed" =>
    /\ file = <<>>
    /\ crashes = 0 => \A e \in appended : \E s \in Sequences0 : stored[s] = e

(* Delivery does not get stuck: whatever failed before, the attempt is     *)
(* completed in the end.                                                   *)
EventuallyCompleted == <>(phase = "completed")

(* event-buffer.ts:74: events "cannot be erased by the acknowledgement     *)
(* rewrite".                                                               *)
NoEventErased == \A e \in appended : Kept(e)
=============================================================================
