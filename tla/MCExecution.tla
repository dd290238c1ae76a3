---------------------------- MODULE MCExecution ----------------------------
(* A small instance of Execution, and the reference checks of what an      *)
(* execution calls: the tools of the agent loop, the diff of its workspace,*)
(* the client of the model provider and the native harnesses.              *)
EXTENDS Execution, Sequences, FiniteSets, TLC

CONSTANTS Absent, Malformed, Done

Tuples(S, n) == UNION {[1..k -> S] : k \in 0..n}

-----------------------------------------------------------------------------
(* Trees of a repository with a file a whose text varies, a directory d, a *)
(* link l, an ignored directory n, and files b in and next to d.           *)
toolLimits ==
  [readBytes |-> 3, listEntries |-> 3, listBytes |-> 17, results |-> 2, searchBytes |-> 24,
   scanEntries |-> 5, scanBytes |-> 5, patchBytes |-> 4]

Tools ==
  INSTANCE RepositoryTools
    WITH Root <- <<"w">>, Names <- <<"a", "b", "d", "l", "n">>, Ignored <- {"n"},
         Umask <- {"g"}, Limits <- toolLimits

trees ==
  {(<<>> :> [kind |-> "dir"]) @@ (<<"d">> :> [kind |-> "dir"]) @@ (<<"n">> :> [kind |-> "dir"])
   @@ (<<"l">> :> [kind |-> "link"])
   @@ (<<"a">> :> Tools!File(text, {"r", "w", "g", "x"}))
   @@ (<<"n", "a">> :> Tools!File(<<"x">>, {"r"}))
   @@ [p \in others |-> Tools!File(<<"x", "x">>, {"r"})] :
     text \in Tuples({"x", "y", "\n"}, 3), others \in SUBSET {<<"b">>, <<"d", "b">>}}

requests ==
  {[absolute |-> FALSE, segments |-> s] :
     s \in {<<>>, <<".">>, <<"..">>, <<"a">>, <<"a", "b">>, <<"d">>, <<"d", "b">>, <<"l">>,
            <<"l", "b">>, <<"d", "..", "b">>, <<"..", "w", "a">>, <<"..", "v", "a">>}}
  \cup {[absolute |-> TRUE, segments |-> <<"a">>]}

oldTexts == {<<>>, <<"x">>, <<"x", "x">>, <<"x", "y">>}
newTexts == Tuples({"x", "$", "&"}, 2) \cup {<<"y", "y", "x", "y", "x">>}

(* A patch changes one file that the path names inside the root, and       *)
(* writes its text as it is; the exceptions are a new text with a pattern  *)
(* of String.prototype.replace, and an old text that can overlap itself.   *)
ASSUME PatchReference ==
  \A tree \in trees, asked \in requests, old \in oldTexts, new \in newTexts :
    LET result == Tools!ApplyPatch(tree, asked, old, new)
        literal == \A i \in 1..Len(new) - 1 : new[i] # "$"
    IN /\ Tools!ChangesOnly(tree, asked, result)
       /\ literal /\ old # <<"x", "x">> =>
            Tools!WritesVerbatim(tree, asked, old, new, result)

(* What is read is inside the root, and a search misses nothing it can see.*)
ASSUME ReadReference ==
  \A tree \in trees :
    /\ \A asked \in requests :
         /\ Tools!ReadFile(tree, asked).ok =>
              Tools!IsSafe(tree, Tools!Relative(asked))
         /\ LET listed == Tools!ListDirectory(tree, asked) IN
            listed.ok =>
              /\ Tools!IsSafe(tree, Tools!Relative(asked))
              /\ {listed.answer[i][2] : i \in DOMAIN listed.answer}
                   = {Tools!Last(p) : p \in {q \in DOMAIN tree :
                        Len(q) = Len(Tools!Relative(asked)) + 1
                        /\ Tools!IsPrefix(Tools!Relative(asked), q)}} \ {"n"}
    /\ \A query \in oldTexts : Tools!FindsAll(tree, query, Tools!SearchFiles(tree, query))

-----------------------------------------------------------------------------
(* Snapshots of two files with lines that are empty, or not ended.         *)
Diff == INSTANCE WorkspaceDiff WITH Paths <- <<"p", "q">>

snapshots ==
  UNION {[paths -> {<<>>, <<"\n">>, <<"x">>, <<"x", "\n">>, <<"\n", "x">>}] :
           paths \in SUBSET {"p", "q"}}
diffs == {Diff!CaptureDiff(before, after) : before, after \in snapshots}

ASSUME DiffReference ==
  /\ \A before, after \in snapshots : Diff!LeadsTo(before, after)
  /\ Cardinality({Diff!RenderDiffText(d) : d \in diffs}) = Cardinality(diffs)

(* The exception: lines of a text that look like headers.                  *)
ASSUME HeaderReference ==
  LET files(p, q) == ("p" :> p) @@ IF q = Absent THEN <<>> ELSE "q" :> q
      one == Diff!CaptureDiff(
               files(<<"x", "\n", "-- ", "/dev/null", "\n">>, Absent),
               files(<<"++ ", "b/", "q", "\n", "y", "\n">>, Absent))
      other == Diff!CaptureDiff(files(<<"x", "\n">>, Absent), files(<<>>, <<"y", "\n">>))
  IN one # other /\ ~Diff!RendersApart({one, other})

-----------------------------------------------------------------------------
(* A completion with a text and two calls, in three chunks.                *)
Call(index, id, name, arguments) ==
  [index |-> index, id |-> id, name |-> name, arguments |-> arguments]
Choice(content, made, finish) ==
  [content |-> content, calls |-> made, finish |-> finish]

usage == [prompt |-> 3, completion |-> Absent, total |-> 3]
completion ==
  [usage |-> usage,
   choice |-> Choice(<<"h", "i">>,
                     <<Call(0, Absent, <<"f">>, <<"{", "}">>), Call(1, <<"b">>, <<"g">>, Absent)>>,
                     "tool_calls")]
chunks ==
  [c1 |-> [usage |-> Absent,
           choice |-> Choice(<<"h">>, <<Call(1, <<"b">>, <<"g">>, Absent),
                                        Call(0, Absent, <<"f">>, <<"{">>)>>, Absent)],
   c2 |-> [usage |-> Absent,
           choice |-> Choice(<<"i">>, <<Call(Absent, Absent, Absent, <<"}">>)>>, "tool_calls")],
   c3 |-> [usage |-> usage, choice |-> Absent]]

Client == INSTANCE ProviderStream WITH Payloads <- chunks

ASSUME StreamReference ==
  \A payloads \in {<<"c1", "c2", "c3", Done>>, <<"c3", "c1", "c2">>} :
    Client!CollectsTo(payloads, completion)

(* Only an answer with a completion is a result, and what may be different *)
(* the next time is what a caller is told to retry.                        *)
ASSUME AnswerReference ==
  \A fetch \in {"aborted", "rejected", "answered"}, code \in {200, 400, 401, 429, 503},
     body \in {Absent, completion, [completion EXCEPT !.choice = Absent]} :
    LET result == Client!Complete([fetch |-> fetch, status |-> code, body |-> body])
    IN /\ result.kind = "result" <=> fetch = "answered" /\ code = 200 /\ body = completion
       /\ result.kind = "error" => (result.retryable <=> fetch = "rejected" \/ code >= 429)

(* What the request for the next turn carries of the calls of the last.    *)
ASSUME RequestReference ==
  LET message == [role |-> "assistant", content |-> <<>>, toolCallId |-> Absent, name |-> Absent,
                  toolCalls |-> Client!ParseToolCalls(completion.choice.calls)]
      request == [model |-> "m", temperature |-> Absent, maxTokens |-> Absent, tools |-> <<>>,
                  messages |-> <<message, [message EXCEPT !.toolCalls = <<>>]>>]
      body == Client!RequestBody(request, FALSE)
  IN /\ DOMAIN body = {"model", "messages", "stream"}
     /\ DOMAIN body.messages[1] = {"role", "content", "toolCalls"}
     /\ DOMAIN body.messages[2] = {"role", "content"}

-----------------------------------------------------------------------------
(* Up to four attempts at a task under a native harness.                   *)
Native == INSTANCE NativeHarness

codexEvents ==
  {Malformed, [kind |-> "thread.started", session |-> "s1"],
   [kind |-> "thread.started", session |-> "s2"], [kind |-> "turn.failed"],
   [kind |-> "message", text |-> Absent], [kind |-> "turn.completed", usage |-> usage]}
claudeEvents ==
  {Malformed, [kind |-> "system", session |-> "s1"], [kind |-> "error", session |-> Absent],
   [kind |-> "assistant", session |-> "s2", blocks |-> <<"a", Absent>>, usage |-> usage]}

processesOf(events) ==
  [lines : Tuples(events, 2), exitCode : {0, 1}, cancelled : BOOLEAN]
namedOrNot == {<<>>, <<[kind |-> "thread.started", session |-> "s1"]>>,
               <<[kind |-> "thread.started", session |-> "s2"]>>}

ASSUME CheckpointReference ==
  /\ \A first, second \in processesOf(codexEvents) :
       Native!ResumesLastCompleted("codex", <<first, second>>)
  /\ \A first, second \in processesOf(claudeEvents) :
       Native!ResumesLastCompleted("claude", <<first, second>>)
  /\ \A processes \in [1..4 -> [lines : namedOrNot, exitCode : {0, 1}, cancelled : {FALSE}]] :
       Native!ResumesLastCompleted("codex", processes)
=============================================================================
