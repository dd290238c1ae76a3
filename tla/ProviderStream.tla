--------------------------- MODULE ProviderStream ---------------------------
(***************************************************************************)
(* The client of an OpenAI-compatible endpoint (openai-compatible): what a *)
(* request is sent as, how an answer or an error becomes a result, and how *)
(* a stream of server-sent events is put together again.  complete() is    *)
(* what the agent loop and the response executor call.                     *)
(*                                                                         *)
(*   text      of the stream: the field name "data:" and the JSON of one   *)
(*             payload are one character each                              *)
(*   chunk     [usage, choice]: the payload of an event                    *)
(*   choice    [content, calls, finish]; in a completion these are whole,  *)
(*             in a chunk they are what was added                          *)
(*   call      [index, id, name, arguments]                                *)
(* A field that is missing, null or of another type is Absent.             *)
(***************************************************************************)
EXTENDS Texts, Functions, TLC

CONSTANTS Absent, Done, Payloads      \* Payloads: from characters to chunks

NewLine == <<"\n">>
Or(value, default) == IF value = Absent THEN default ELSE value

-----------------------------------------------------------------------------
(* Requests.                                                               *)

(* serializeMessage: an empty list of calls is left out.                   *)
SerializeMessage(message) ==
  LET kept == {f \in DOMAIN message :
                 CASE f \in {"role", "content"} -> TRUE
                   [] f = "toolCalls" -> message[f] \notin {Absent, <<>>}
                   [] OTHER -> message[f] # Absent}
  IN Restrict(message, kept)

RequestBody(request, stream) ==
  LET kept == {"model"}
              \cup {f \in {"temperature", "maxTokens"} : request[f] # Absent}
              \cup {f \in {"tools"} : request[f] \notin {Absent, <<>>}}
      messages == [i \in DOMAIN request.messages |-> SerializeMessage(request.messages[i])]
  IN Restrict(request, kept)
     @@ [messages |-> messages, stream |-> stream]
     @@ IF stream THEN [includeUsage |-> TRUE] ELSE <<>>

-----------------------------------------------------------------------------
(* Answers.                                                                *)

NormalizeFinishReason(raw) ==
  IF raw \in {"stop", "length", "tool_calls", "content_filter"} THEN raw ELSE "unknown"

UnknownUsage == [prompt |-> Absent, completion |-> Absent, total |-> Absent]
NormalizeUsage(raw) == Or(raw, UnknownUsage)

ParseToolCalls(calls) ==
  [i \in DOMAIN calls |->
     [id |-> Or(calls[i].id, <<"call", i - 1>>), name |-> Or(calls[i].name, <<>>),
      arguments |-> Or(calls[i].arguments, <<>>)]]

Error(type, retryable) == [kind |-> "error", type |-> type, retryable |-> retryable]

ErrorFromResponse(status) ==
  CASE status \in {401, 403} -> Error("authentication", FALSE)
    [] status = 429          -> Error("rate_limit", TRUE)
    [] status >= 500         -> Error("server_error", TRUE)
    [] OTHER                 -> Error("invalid_request", FALSE)

ParseCompletionResponse(body) ==
  IF body.choice = Absent THEN Error("decode", FALSE)
  ELSE [kind |-> "result", content |-> Or(body.choice.content, <<>>),
        toolCalls |-> ParseToolCalls(body.choice.calls),
        finishReason |-> NormalizeFinishReason(body.choice.finish),
        usage |-> NormalizeUsage(body.usage)]

(* complete: fetch rejects with the caller's abort, or because the network *)
(* is not reached; a body that is no JSON object is Absent.                *)
Complete(answer) ==
  CASE answer.fetch = "aborted"             -> [kind |-> "aborted"]
    [] answer.fetch = "rejected"            -> Error("network", TRUE)
    [] answer.fetch = "answered" /\ answer.status \notin 200..299
                                            -> ErrorFromResponse(answer.status)
    [] OTHER -> IF answer.body = Absent THEN Error("decode", FALSE)
                ELSE ParseCompletionResponse(answer.body)

-----------------------------------------------------------------------------
(* Server-sent events.                                                     *)

(* extractData: the data lines of an event, or nothing.                    *)
DataOf(event) ==
  LET lines == SelectSeq(Split(event, NewLine), LAMBDA l : l # <<>> /\ Head(l) = "data:")
  IN IF lines = <<>> THEN <<>>
     ELSE <<Join([i \in DOMAIN lines |-> TrimStart(Tail(lines[i]), {" ", "\r"})], NewLine)>>

DataOfAll(events) == FlattenSeq([i \in DOMAIN events |-> DataOf(events[i])])

(* iterateSseData, of the pieces that the reader returns.                  *)
IterateSseData(pieces) ==
  LET read == FoldLeft(LAMBDA state, piece :
                         LET events == Split(state.buffer \o piece, <<"\n", "\n">>)
                         IN [buffer |-> Last(events), data |-> state.data \o DataOfAll(Front(events))],
                       [buffer |-> <<>>, data |-> <<>>], pieces)
  IN read.data \o DataOf(read.buffer)

-----------------------------------------------------------------------------
(* StreamAssembler.                                                        *)

EmptyAssembler ==
  [calls |-> <<>>, finish |-> "unknown", usage |-> UnknownUsage,
   finished |-> FALSE, failed |-> FALSE, events |-> <<>>]

(* A call without an index has its position in the chunk.                  *)
AccumulateToolCalls(known, raw) ==
  FoldLeft(LAMBDA calls, i :
             LET index == Or(raw[i].index, i - 1)
                 call == IF index \in DOMAIN calls THEN calls[index]
                         ELSE [id |-> <<"call", index>>, name |-> <<>>, arguments |-> <<>>]
             IN (index :> [id |-> Or(raw[i].id, call.id),
                           name |-> call.name \o Or(raw[i].name, <<>>),
                           arguments |-> call.arguments \o Or(raw[i].arguments, <<>>)])
                @@ calls,
           known, [i \in DOMAIN raw |-> i])

Finish(state) ==
  LET order == SetToSortSeq(DOMAIN state.calls, <)
  IN IF state.finished THEN state
     ELSE [state EXCEPT !.finished = TRUE,
             !.events = @ \o [i \in DOMAIN order |-> [type |-> "tool-call",
                                                      value |-> state.calls[order[i]]]]
                          \o <<[type |-> "usage", value |-> state.usage],
                               [type |-> "done", value |-> state.finish]>>]

PushChoice(state, choice) ==
  [state EXCEPT
     !.calls = AccumulateToolCalls(@, choice.calls),
     !.finish = IF choice.finish = Absent THEN @ ELSE NormalizeFinishReason(choice.finish),
     !.events = IF choice.content \in {Absent, <<>>} THEN @
                ELSE Append(@, [type |-> "content", value |-> choice.content])]

PushChunk(state, chunk) ==
  LET used == [state EXCEPT !.usage = Or(chunk.usage, @)]
  IN IF chunk.choice = Absent THEN used ELSE PushChoice(used, chunk.choice)

Push(state, data) ==
  CASE state.failed                                       -> state
    [] data = <<Done>>                                    -> Finish(state)
    [] Len(data) = 1 /\ data[1] \in DOMAIN Payloads       -> PushChunk(state, Payloads[data[1]])
    [] OTHER                                              -> [state EXCEPT !.failed = TRUE]

(* stream(): the events it yields before it ends or throws.                *)
Stream(pieces) ==
  LET last == FoldLeft(Push, EmptyAssembler, IterateSseData(pieces))
  IN IF last.failed THEN last ELSE Finish(last)

(* collectStreamContent.                                                   *)
ValuesOf(events, type) ==
  LET chosen == SelectSeq(events, LAMBDA e : e.type = type)
  IN [i \in DOMAIN chosen |-> chosen[i].value]

CollectStreamContent(events) ==
  [kind |-> "result", content |-> FlattenSeq(ValuesOf(events, "content")),
   toolCalls |-> ValuesOf(events, "tool-call"),
   finishReason |-> Last(<<"unknown">> \o ValuesOf(events, "done")),
   usage |-> Last(<<UnknownUsage>> \o ValuesOf(events, "usage"))]

-----------------------------------------------------------------------------
(* What a stream is for: however a completion is cut into chunks, and the  *)
(* text of the chunks into pieces, it is collected again.                  *)

EventText(payload) == <<"data:", " ", payload, "\n", "\n">>
StreamText(payloads) == FlattenSeq([i \in DOMAIN payloads |-> EventText(payloads[i])])

(* The text in three pieces.                                               *)
CutAt(text, i, j) ==
  <<SubSeq(text, 1, i), SubSeq(text, i + 1, j), SubSeq(text, j + 1, Len(text))>>

CollectsTo(payloads, body) ==
  LET text == StreamText(payloads) IN
  \A i \in 0..Len(text) : \A j \in i..Len(text) :
    LET streamed == Stream(CutAt(text, i, j)) IN
    /\ ~streamed.failed
    /\ CollectStreamContent(streamed.events) = ParseCompletionResponse(body)
=============================================================================
