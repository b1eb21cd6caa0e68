---------------------------- MODULE Providers ----------------------------
(***************************************************************************)
(* Model providers: the stream contract that every provider answers under,  *)
(* three adapters that translate the provider's own protocol into it, and   *)
(* the dispatch of a request to a qualified provider.                       *)
(***************************************************************************)
EXTENDS Integers, Sequences, FiniteSets

(* What the provider adapters (internal/provider) share when they stream one *)
(* inference: the events they hand to the consumer, their numbering, the     *)
(* terminal error, and the StreamValidator of internal/domain/               *)
(* providercontract that every consumer applies.                             *)
(*                                                                           *)
(* One Stream call is modelled from its dispatch on.  The vendor's bytes are *)
(* inputs; text, names and arguments are sequences of tokens.                *)
CONSTANTS
    Tools,          \* the names the request allows (sequences of tokens)
    Revisions,      \* runtime builds the endpoint may be running
    Qualified       \* the build the capability of the request names

VARIABLES
    ctx,            \* "live", "canceled" or "timeout": streamContext
    runtime,        \* the build behind the endpoint
    cohNext,        \* streamReducer.cohNext
    events,         \* the events the consumer accepted
    terminal,       \* streamReducer.terminal
    result          \* what Stream returned: a code, "ok", or "none" (running)

svars == <<ctx, runtime, cohNext, events, terminal, result>>

Codes == {"canceled", "timeout", "unavailable", "denied", "conflict",
          "invalid_input", "unsupported", "internal"}

(* ContentItem: only the fields that tell two outputs of a model apart.      *)
Item(kind, text, name) == [kind |-> kind, text |-> text, name |-> name]
TextItem(text) == Item("text", text, <<>>)
ReasoningItem(text) == Item("reasoning_ref", text, <<>>)
CallItem(name, arguments) == Item("tool_call", arguments, name)
ResultItem(outcome) == Item("tool_result", <<outcome>>, <<>>)

(* StreamEvent before it is numbered; a completed event carries the items of *)
(* its response, an error event its code.                                    *)
Event(kind, items, code) == [kind |-> kind, items |-> items, code |-> code]
DeltaEvent(token) == Event("text_delta", <<TextItem(<<token>>)>>, "")
ItemEvent(item) == Event("item", <<item>>, "")
CompletedEvent(items) == Event("completed", items, "")
ErrorEvent(code) == Event("error", <<>>, code)

ItemEvents(items) == [i \in 1..Len(items) |-> ItemEvent(items[i])]

(* emitCOH: an event takes the next number, and the number is used up only   *)
(* when the consumer accepted the event.                                     *)
emitCOH(es) ==
    /\ events' = events \o [i \in 1..Len(es) |->
                     [seq |-> cohNext + i - 1, kind |-> es[i].kind,
                      items |-> es[i].items, code |-> es[i].code, at |-> ctx]]
    /\ cohNext' = cohNext + Len(es)

(* finishAdapterError: the error event is decoded without cancellation, so   *)
(* only the consumer can refuse it.  `sent` are the events that went before. *)
finishAdapterError(sent, code) ==
    \/ /\ emitCOH(Append(sent, ErrorEvent(code)))
       /\ terminal' = TRUE
       /\ result' = "ok"
    \/ /\ emitCOH(sent)
       /\ result' = "unavailable"
       /\ UNCHANGED terminal

(* Stream after its reader failed with `code`: three codes become a terminal *)
(* error event, the others are returned as they are.                         *)
StreamFails(sent, code) ==
    \/ /\ ~terminal /\ code \in {"canceled", "timeout", "unavailable"}
       /\ finishAdapterError(sent, code)
    \/ /\ terminal \/ code \notin {"canceled", "timeout", "unavailable"}
       /\ emitCOH(sent)
       /\ result' = code
       /\ UNCHANGED terminal

(* One call of the reducer that emits the events es: all are accepted, or    *)
(* the consumer refuses one, or the context ends before one of them.         *)
EmitsAll(es) == ctx = "live" /\ emitCOH(es) /\ UNCHANGED <<ctx, result>>

EmissionFails(es) ==
    /\ es # <<>>
    /\ \/ /\ ctx = "live"
          /\ \E n \in 0..(Len(es) - 1) :
                \/ StreamFails(SubSeq(es, 1, n), "unavailable") /\ UNCHANGED ctx
                \/ \E why \in {"canceled", "timeout"} :
                      ctx' = why /\ StreamFails(SubSeq(es, 1, n), why)
       \/ ctx # "live" /\ StreamFails(<<>>, ctx) /\ UNCHANGED ctx

(* The caller cancels, or the window of the dispatch runs out.               *)
ContextEnds ==
    /\ result = "none" /\ ctx = "live"
    /\ ctx' \in {"canceled", "timeout"}
    /\ UNCHANGED <<runtime, cohNext, events, terminal, result>>

(* The operator of the endpoint replaces the runtime.                        *)
RuntimeReplaced ==
    /\ result = "none"
    /\ runtime' \in Revisions \ {runtime}
    /\ UNCHANGED <<ctx, cohNext, events, terminal, result>>

StreamInit ==
    /\ ctx = "live" /\ runtime = Qualified
    /\ cohNext = 0 /\ events = <<>> /\ terminal = FALSE /\ result = "none"

-----------------------------------------------------------------------------
(* StreamValidator.Apply over the accepted events: the first number is zero, *)
(* numbers are consecutive, and nothing follows a completed or error event.  *)
Apply(es) ==
    \A i \in 1..Len(es) :
        /\ es[i].seq = i - 1
        /\ es[i].kind \in {"completed", "error"} => i = Len(es)

(* StreamValidator.Complete.                                                 *)
Complete(es) ==
    es # <<>> /\ es[Len(es)].kind \in {"completed", "error"}

Deltas(es) ==
    LET texts == SelectSeq(es, LAMBDA e : e.kind = "text_delta")
    IN  [i \in 1..Len(texts) |-> texts[i].items[1].text[1]]

Released(es) ==
    LET released == SelectSeq(es, LAMBDA e : e.kind = "item")
    IN  [i \in 1..Len(released) |-> released[i].items[1]]

(* The consumer's validator accepts the events of every adapter, and a       *)
(* Stream that returns success has delivered exactly one terminal event,     *)
(* whatever the consumer refused and whenever the context ended on the way   *)
(* (StreamValidator.Apply and Complete, emitCOH, finishAdapterError).        *)
StreamAccepted ==
    /\ Apply(events)
    /\ result = "ok" => Complete(events)
    /\ Complete(events) => terminal

(* contracts/provider/v1/README.md: "a terminal canceled result is distinct  *)
(* from timeout, denial, provider failure, and uncertain completion".        *)
CanceledIsDistinct ==
    \A i \in 1..Len(events) :
        events[i].kind = "error" /\ events[i].at = "canceled" =>
            events[i].code = "canceled"

-----------------------------------------------------------------------------
(* The three local adapters: vLLM and llama.cpp (SSE chat completions, a     *)
(* finish chunk, a usage chunk, then [DONE]) and Ollama (NDJSON records, the *)
(* last of them done).  Each probes the identity of the runtime before the   *)
(* chat request and reduces the chunks into one response.                    *)
CONSTANTS
    Chunks,                     \* vLLM / llama.cpp chunks the vendor may send
    Records,                    \* Ollama records the vendor may send
    MaximumParallelToolCalls,
    MaximumChunks               \* bound on the chunks of one stream

VARIABLES chatKind, phase, reducer, chunks

cvars == <<chatKind, phase, reducer, chunks>>

NoFragment == [index |-> -1, id |-> 0, name |-> <<>>, arguments |-> <<>>]

(* streamChunk: the vendor's id, at most one choice with a role, a content,  *)
(* a reasoning, a tool fragment or a finish reason; usage has no choice.     *)
(* The fingerprint, when the chunk carries one, is that of the build.        *)
Chunk == [id : 1..2, fingerprint : BOOLEAN, role : BOOLEAN, text : STRING, reasoning : STRING,
          fragment : [index : Int, id : Nat, name : Seq(STRING), arguments : Seq(STRING)],
          finish : STRING, usage : {"none", "valid", "over"}]

(* chatResponse of Ollama: content, thinking and complete tool calls.        *)
Record == [text : STRING, thinking : STRING, calls : Seq(STRING \X STRING),
           done : {"", "stop", "length", "load"}, created : Nat]

ChatAssumption ==
    /\ \A c \in Chunks : c \in Chunk
    /\ \A r \in Records : r.done \in {"", "stop", "length", "load"} /\ r.created \in Nat
    /\ MaximumParallelToolCalls \in Nat /\ MaximumChunks \in Nat
    /\ Qualified \in Revisions

ChatInit ==
    /\ StreamInit
    /\ chatKind \in {"vllm", "llamacpp", "ollama"}
    /\ phase = "probe" /\ chunks = 0
    /\ reducer = [vendorID |-> 0, text |-> <<>>, reasoning |-> <<>>, toolCalls |-> <<>>,
                  finishReason |-> "", usageSeen |-> FALSE, pending |-> <<>>,
                  lastCreated |-> 0, by |-> {}]

(* The first refusal of a list of <<condition, code>>; "ok" if there is none. *)
First(checks) ==
    IF \E i \in 1..Len(checks) : checks[i][1]
    THEN checks[CHOOSE i \in 1..Len(checks) :
                  checks[i][1] /\ \A j \in 1..(i - 1) : ~checks[j][1]][2]
    ELSE "ok"

-----------------------------------------------------------------------------
(* verifyIdentity: the build the probes observe must be the qualified one.   *)
(* Each adapter probes other operations, all before the chat request.        *)
vllmVerifyIdentity == runtime = Qualified
llamacppVerifyIdentity == runtime = Qualified
ollamaVerifyIdentity == runtime = Qualified

verifyIdentity ==
    CASE chatKind = "vllm" -> vllmVerifyIdentity
      [] chatKind = "llamacpp" -> llamacppVerifyIdentity
      [] chatKind = "ollama" -> ollamaVerifyIdentity

(* Stream, first half: the identity is verified and the chat request is      *)
(* sent.  Every failure here is a terminal error event.                      *)
Probe ==
    /\ phase = "probe" /\ result = "none"
    /\ \/ /\ ctx = "live" /\ verifyIdentity
          /\ phase' = "request"
          /\ UNCHANGED svars
       \/ /\ ctx = "live" /\ ~verifyIdentity
          /\ finishAdapterError(<<>>, "denied")
          /\ UNCHANGED <<ctx, runtime, phase>>
       \/ /\ finishAdapterError(<<>>, IF ctx = "live" THEN "unavailable" ELSE ctx)
          /\ UNCHANGED <<ctx, runtime, phase>>
    /\ UNCHANGED <<chatKind, reducer, chunks>>

(* startRequest and statusError: the refusals of the endpoint by class.      *)
statusError == {"invalid_input", "denied", "unsupported", "timeout", "conflict", "unavailable"}

Request ==
    /\ phase = "request" /\ result = "none"
    /\ \/ ctx = "live" /\ phase' = "stream" /\ UNCHANGED svars
       \/ /\ \E code \in (IF ctx = "live" THEN statusError ELSE {ctx}) :
                finishAdapterError(<<>>, code)
          /\ UNCHANGED <<ctx, runtime, phase>>
    /\ UNCHANGED <<chatKind, reducer, chunks>>

-----------------------------------------------------------------------------
(* mapToolCall: the assembled name must be a tool of the request.            *)
mapToolCall(call) == IF call.name \in Tools THEN "ok" ELSE "denied"

(* mapMessage: the text, then the reasoning, then the calls in index order.  *)
mapMessage(r) ==
    (IF r.text # <<>> THEN <<TextItem(r.text)>> ELSE <<>>)
    \o (IF r.reasoning # <<>> THEN <<ReasoningItem(r.reasoning)>> ELSE <<>>)
    \o [i \in 1..Len(r.toolCalls) |->
          CallItem(r.toolCalls[i].name, r.toolCalls[i].arguments)]

(* The refusals of translateResponse that the reduced message can meet.      *)
translateResponse(r) ==
    First(<< <<\E i \in DOMAIN r.toolCalls : mapToolCall(r.toolCalls[i]) # "ok", "denied">>,
             <<Len(r.toolCalls) > MaximumParallelToolCalls, "denied">> >>)

(* vLLM compares the ids of the calls, the others number them.               *)
vllmTranslateResponse(r) ==
    IF \E i, j \in DOMAIN r.toolCalls : i # j /\ r.toolCalls[i].id = r.toolCalls[j].id
    THEN "conflict" ELSE translateResponse(r)

(* bindChunk: every chunk carries the id of the first one; the fingerprint   *)
(* is the qualified build's.  vLLM lets a partial chunk omit it.             *)
vllmBindChunk(c) ==
    (reducer.vendorID \in {0, c.id}) /\ (c.fingerprint => runtime = Qualified)

llamacppBindChunk(c) ==
    (reducer.vendorID \in {0, c.id}) /\ c.fingerprint /\ runtime = Qualified

bindChunk(c) == IF chatKind = "vllm" THEN vllmBindChunk(c) ELSE llamacppBindChunk(c)

Populated(c) ==
    {part \in {"text", "reasoning", "fragment"} :
        \/ part = "text" /\ c.text # ""
        \/ part = "reasoning" /\ c.reasoning # ""
        \/ part = "fragment" /\ c.fragment # NoFragment}

(* consumeToolFragment.                                                      *)
consumeToolFragment(f) ==
    LET known == f.index < Len(reducer.toolCalls)
    IN  First(<< <<f.index >= MaximumParallelToolCalls, "denied">>,
                 <<~known /\ (f.index # Len(reducer.toolCalls) \/ f.id = 0 \/ f.name = <<>>),
                   "conflict">>,
                 <<known /\ f.id # 0, "conflict">>,
                 <<f.name = <<>> /\ f.arguments = <<>>, "invalid_input">> >>)

Assembled(f) ==
    IF f.index < Len(reducer.toolCalls)
    THEN [reducer.toolCalls EXCEPT ![f.index + 1].name = @ \o f.name,
                                   ![f.index + 1].arguments = @ \o f.arguments]
    ELSE Append(reducer.toolCalls, [id |-> f.id, name |-> f.name, arguments |-> f.arguments])

(* consumeDelta: exactly one part.                                           *)
consumeDelta(c) ==
    IF c.role
    THEN IF reducer.text # <<>> \/ reducer.reasoning # <<>> \/ reducer.toolCalls # <<>>
            \/ Populated(c) # {}
         THEN "denied" ELSE "ok"
    ELSE First(<< <<c.fragment # NoFragment /\ consumeToolFragment(c.fragment) # "ok",
                    consumeToolFragment(c.fragment)>>,
                  <<Cardinality(Populated(c)) # 1, "invalid_input">> >>)

(* consumeFinish.                                                            *)
consumeFinish(c) ==
    First(<< <<reducer.finishReason # "" \/ c.role \/ Populated(c) # {}, "conflict">>,
             <<c.finish \notin {"stop", "length", "tool_calls"}, "unsupported">> >>)

(* completeMessage: the calls are complete and something was produced.       *)
completeMessage ==
    First(<< <<\E i \in DOMAIN reducer.toolCalls : reducer.toolCalls[i].arguments = <<>>,
               "invalid_input">>,
             <<mapMessage(reducer) = <<>>, "invalid_input">> >>)

(* consumeUsage: after the finish chunk, and within the limits of the        *)
(* request; the response is built here and held until [DONE].                *)
consumeUsage(c) ==
    First(<< <<reducer.finishReason = "" \/ ~c.fingerprint, "conflict">>,
             <<completeMessage # "ok", completeMessage>>,
             <<c.usage = "over", "denied">>,
             <<chatKind = "vllm", vllmTranslateResponse(reducer)>>,
             <<chatKind = "llamacpp", translateResponse(reducer)>> >>)

(* consume of vLLM and llama.cpp: the refusal of a chunk, "ok" for none.     *)
consume(c) ==
    First(<< <<terminal \/ reducer.usageSeen, "conflict">>,
             <<~bindChunk(c), "denied">>,
             <<c.usage # "none", consumeUsage(c)>>,
             <<c.finish # "", consumeFinish(c)>>,
             <<reducer.finishReason # "", "conflict">>,
             <<TRUE, consumeDelta(c)>> >>)

(* The reducer after an accepted chunk.                                      *)
Reduced(c) ==
    [reducer EXCEPT
        !.vendorID = c.id,
        !.by = @ \cup {runtime},
        !.text = IF c.text # "" THEN Append(@, c.text) ELSE @,
        !.reasoning = IF c.reasoning # "" THEN Append(@, c.reasoning) ELSE @,
        !.toolCalls = IF c.fragment # NoFragment THEN Assembled(c.fragment) ELSE @,
        !.finishReason = IF c.finish # "" THEN c.finish ELSE @,
        !.usageSeen = c.usage # "none",
        !.pending = IF c.usage # "none" THEN mapMessage(reducer) ELSE @]

(* The delta leaves before the rest of its chunk is looked at.               *)
Forwarded(c) ==
    IF /\ c.text # "" /\ ~c.role /\ c.finish = "" /\ c.usage = "none"
       /\ bindChunk(c) /\ reducer.finishReason = "" /\ ~terminal
    THEN <<DeltaEvent(c.text)>> ELSE <<>>

(* translateResponse stores the reasoning before it looks at the calls.      *)
Storing(c) ==
    /\ c.usage = "valid" /\ bindChunk(c) /\ c.fingerprint /\ ~terminal /\ ~reducer.usageSeen
    /\ reducer.finishReason # "" /\ completeMessage = "ok" /\ reducer.reasoning # <<>>

Reading == phase = "stream" /\ result = "none" /\ chatKind \in {"vllm", "llamacpp"}

ReadChunk ==
    /\ Reading /\ chunks < MaximumChunks
    /\ chunks' = chunks + 1
    /\ \E c \in Chunks :
          \/ /\ consume(c) = "ok"
             /\ reducer' = Reduced(c)
             /\ \/ Forwarded(c) # <<>> /\ EmitsAll(Forwarded(c))
                \/ /\ Forwarded(c) = <<>> /\ (c.usage = "none" \/ ctx = "live")
                   /\ UNCHANGED <<ctx, cohNext, events, result>>
             /\ UNCHANGED terminal
          \/ EmissionFails(Forwarded(c)) /\ UNCHANGED reducer
          \/ Storing(c) /\ StreamFails(<<>>, "unavailable") /\ UNCHANGED <<ctx, reducer>>
          \* DecodeResponse refuses once the context has ended
          \/ /\ consume(c) = "ok" /\ c.usage # "none" /\ ctx # "live"
             /\ StreamFails(<<>>, ctx)
             /\ UNCHANGED <<ctx, reducer>>
          \/ /\ consume(c) # "ok" /\ (Forwarded(c) = <<>> \/ ctx = "live")
             /\ StreamFails(Forwarded(c), consume(c))
             /\ UNCHANGED <<ctx, reducer>>
    /\ UNCHANGED <<runtime, chatKind, phase>>

(* finishDone on [DONE]: the items of the held response, then the response.  *)
finishDone ==
    /\ Reading
    /\ \/ /\ terminal \/ ~reducer.usageSeen
          /\ StreamFails(<<>>, "conflict")
          /\ UNCHANGED ctx
       \/ /\ ~terminal /\ reducer.usageSeen
          /\ LET es == Append(ItemEvents(reducer.pending), CompletedEvent(reducer.pending))
             IN  \/ EmitsAll(es) /\ terminal' = TRUE
                 \/ EmissionFails(es)
    /\ UNCHANGED <<runtime, chatKind, phase, reducer, chunks>>

-----------------------------------------------------------------------------
(* Ollama: consume checks the binding and the time of the record, which does *)
(* not name the runtime's build.                                             *)
ollamaBinding(r) ==
    First(<< <<terminal, "conflict">>,
             <<r.created < reducer.lastCreated, "denied">> >>)

(* accumulateMessage: calls arrive whole and in index order.                 *)
accumulateMessage(r) ==
    IF \E i \in DOMAIN r.calls : <<r.calls[i][1]>> \notin Tools THEN "denied" ELSE "ok"

Accumulated(r) ==
    [reducer EXCEPT
        !.lastCreated = r.created,
        !.by = @ \cup {runtime},
        !.text = IF r.text # "" THEN Append(@, r.text) ELSE @,
        !.reasoning = IF r.thinking # "" THEN Append(@, r.thinking) ELSE @,
        !.toolCalls = @ \o [i \in 1..Len(r.calls) |->
            [id |-> 0, name |-> <<r.calls[i][1]>>, arguments |-> <<r.calls[i][2]>>]]]

(* finish: a done reason that ends the answer, and a response that is valid. *)
finish(r) ==
    First(<< <<r.done \notin {"stop", "length"}, "denied">>,
             <<mapMessage(Accumulated(r)) = <<>>, "invalid_input">>,
             <<TRUE, translateResponse(Accumulated(r))>> >>)

ollamaConsume(r) ==
    First(<< <<ollamaBinding(r) # "ok", ollamaBinding(r)>>,
             <<accumulateMessage(r) # "ok", accumulateMessage(r)>>,
             <<r.done = "" /\ r.text = "" /\ r.thinking = "" /\ r.calls = <<>>, "invalid_input">>,
             <<r.done # "", finish(r)>> >>)

(* The delta of a record is emitted before its calls and its end are looked  *)
(* at, so a refused record may already have released its text.               *)
ollamaDelta(r) ==
    IF r.text # "" /\ ollamaBinding(r) = "ok" THEN <<DeltaEvent(r.text)>> ELSE <<>>

ollamaEvents(r) ==
    ollamaDelta(r)
    \o (IF r.done = "" THEN <<>>
        ELSE LET items == mapMessage(Accumulated(r))
             IN  Append(ItemEvents(items), CompletedEvent(items)))

ReadRecord ==
    /\ phase = "stream" /\ result = "none" /\ chatKind = "ollama" /\ chunks < MaximumChunks
    /\ chunks' = chunks + 1
    /\ \E r \in Records :
          \/ /\ ollamaConsume(r) = "ok"
             /\ reducer' = Accumulated(r)
             /\ \/ ollamaEvents(r) # <<>> /\ EmitsAll(ollamaEvents(r))
                \/ ollamaEvents(r) = <<>> /\ UNCHANGED <<ctx, cohNext, events, result>>
             /\ terminal' = (r.done # "")
          \/ /\ ollamaConsume(r) = "ok" /\ EmissionFails(ollamaEvents(r))
             /\ UNCHANGED reducer
          \/ /\ ollamaConsume(r) = "ok" /\ r.done # "" /\ ctx = "live"
             /\ Accumulated(r).reasoning # <<>>
             /\ StreamFails(ollamaDelta(r), "unavailable")
             /\ UNCHANGED <<ctx, reducer>>
          \/ /\ ollamaConsume(r) # "ok"
             /\ \/ /\ ollamaDelta(r) = <<>> \/ ctx = "live"
                   /\ StreamFails(ollamaDelta(r), ollamaConsume(r)) /\ UNCHANGED ctx
                \/ EmissionFails(ollamaDelta(r))
             /\ UNCHANGED reducer
    /\ UNCHANGED <<runtime, chatKind, phase>>

-----------------------------------------------------------------------------
(* consumeSSE / consumeNDJSON at the end of the body: a read that fails is   *)
(* unavailable, also when it failed because the context ended.               *)
ReadFails ==
    /\ phase = "stream" /\ result = "none"
    /\ StreamFails(<<>>, "unavailable")
    /\ UNCHANGED <<ctx, runtime, chatKind, phase, reducer, chunks>>

(* A frame or a document that does not decode.                               *)
Malformed ==
    /\ phase = "stream" /\ result = "none"
    /\ StreamFails(<<>>, "invalid_input")
    /\ UNCHANGED <<ctx, runtime, chatKind, phase, reducer, chunks>>

(* The body ends: without a terminal record that is an error of its own.     *)
BodyEnds ==
    /\ phase = "stream" /\ result = "none"
    /\ \/ terminal /\ result' = "ok" /\ UNCHANGED <<cohNext, events, terminal>>
       \/ ~terminal /\ finishAdapterError(<<>>, "unavailable")
    /\ UNCHANGED <<ctx, runtime, chatKind, phase, reducer, chunks>>

ChatNext ==
    \/ Probe
    \/ Request
    \/ ReadChunk
    \/ finishDone
    \/ ReadRecord
    \/ ReadFails
    \/ Malformed
    \/ BodyEnds
    \/ ContextEnds /\ UNCHANGED cvars
    \/ RuntimeReplaced /\ UNCHANGED cvars

-----------------------------------------------------------------------------
(* Types of the reducer's state and of the stream.                           *)
ChatTypeOK ==
    /\ ctx \in {"live", "canceled", "timeout"} /\ runtime \in Revisions
    /\ phase \in {"probe", "request", "stream"}
    /\ cohNext = Len(events) /\ terminal \in BOOLEAN
    /\ result \in Codes \cup {"none", "ok"}
    /\ reducer.finishReason \in {"", "stop", "length", "tool_calls"}

(* A completed response is the stream the consumer saw: its items are the    *)
(* item events in order, its text is the concatenation of the deltas, every  *)
(* call names a tool of the request, and (llama.cpp, whose chunks all carry  *)
(* the build) every chunk came from the qualified runtime even if it was     *)
(* replaced after the probe; vLLM's usage chunk did (finishDone, finish,     *)
(* mapMessage, bindChunk, consumeUsage).                                     *)
CompletedAgrees ==
    \A i \in 1..Len(events) :
        LET e == events[i]
        IN  e.kind = "completed" =>
              /\ Released(events) = e.items
              /\ Deltas(events) =
                    (IF \E item \in {e.items[j] : j \in DOMAIN e.items} : item.kind = "text"
                     THEN e.items[1].text ELSE <<>>)
              /\ \A j \in DOMAIN e.items :
                    e.items[j].kind = "tool_call" => e.items[j].name \in Tools
              /\ chatKind = "llamacpp" => reducer.by = {Qualified}
              /\ chatKind = "vllm" => Qualified \in reducer.by

-----------------------------------------------------------------------------
(* The OpenAI Responses adapter (internal/provider/openairesponses): typed,   *)
(* numbered SSE events build output items, which are released when they are   *)
(* done, and a terminal event repeats them all.                               *)
CONSTANTS
    VendorEvents,               \* the events the vendor may send, unnumbered
    ParallelCalls,              \* Limits.MaximumParallelToolCalls
    MaximumEvents               \* bound on the events of one stream

VARIABLES stage, vendor

rvars == <<stage, vendor>>

ResponsesKinds == {"message", "function_call", "reasoning"}

(* An output item as the vendor reports it done.                              *)
Output(kind, name, text, refused) ==
    [kind |-> kind, name |-> name, text |-> text, refused |-> refused]

NoOutput == Output("", <<>>, <<>>, FALSE)

(* streamHeader and the event bodies: what they are about (response id, item  *)
(* index and id), a token or a complete value, and the item when it is done.  *)
VendorEvent(type, index, id, kind, tokens, output) ==
    [type |-> type, index |-> index, id |-> id, kind |-> kind, tokens |-> tokens,
     output |-> output]

EventTypes == {"progress", "item_added", "item_done", "part", "delta", "done",
               "refusal_delta", "refusal_done",
               "completed", "failed", "incomplete", "error", "unknown"}

ResponsesAssumption ==
    /\ \A e \in VendorEvents : e.type \in EventTypes /\ e.index \in Nat /\ e.id \in Nat
    /\ ParallelCalls \in Nat /\ MaximumEvents \in Nat

(* streamReducer: the items by output index with what was accumulated.        *)
ResponsesInit ==
    /\ StreamInit
    /\ stage = "request"
    /\ vendor = [started |-> FALSE, next |-> 0, responseID |-> 0, items |-> <<>>, read |-> 0]

FirstOf(checks) ==
    IF \E i \in 1..Len(checks) : checks[i][1]
    THEN checks[CHOOSE i \in 1..Len(checks) :
                  checks[i][1] /\ \A j \in 1..(i - 1) : ~checks[j][1]][2]
    ELSE "ok"

-----------------------------------------------------------------------------
(* translateOutput of one item.                                               *)
mapFunctionCall(o) == IF o.name \in Tools THEN "ok" ELSE "denied"

mapOutputMessage(o) == IF o.text # <<>> THEN <<TextItem(o.text)>> ELSE <<>>

mapReasoning(o) == <<ReasoningItem(o.text)>>

translateOutput(o) ==
    CASE o.kind = "message" -> mapOutputMessage(o)
      [] o.kind = "function_call" -> <<CallItem(o.name, o.text)>>
      [] o.kind = "reasoning" -> mapReasoning(o)

(* translateOutput of the whole output.                                       *)
ResponseItems(items) ==
    LET mapped == [i \in 1..Len(items) |-> translateOutput(items[i].final)]
        total[i \in 0..Len(items)] == IF i = 0 THEN <<>> ELSE total[i - 1] \o mapped[i]
    IN  total[Len(items)]

ResponsesKnown(e) == e.index < Len(vendor.items)
State(e) == vendor.items[e.index + 1]

(* correlated: the item is open and is the one the event names.               *)
correlated(e) ==
    /\ ResponsesKnown(e)
    /\ ResponsesKnown(e) => ~State(e).done /\ State(e).id = e.id /\ State(e).kind = e.kind

(* responseProgress: all progress events name one response.                   *)
responseProgress(e) ==
    IF vendor.responseID \in {0, e.id} THEN "ok" ELSE "conflict"

(* itemAdded: output indices are consecutive.                                 *)
itemAdded(e) ==
    FirstOf(<< <<e.index # Len(vendor.items), "conflict">>,
               <<e.kind \notin ResponsesKinds, "unsupported">> >>)

(* itemDone: the open item, once, and it must map.                            *)
itemDone(e) ==
    FirstOf(<< <<~correlated(e), "conflict">>,
               <<e.kind = "function_call", mapFunctionCall(e.output)>> >>)

(* contentPart and summaryPart.                                               *)
contentPart(e) == IF correlated(e) THEN "ok" ELSE "conflict"
summaryPart(e) == IF correlated(e) THEN "ok" ELSE "conflict"

(* textDelta, functionDelta, summaryDelta: one token for the open item.       *)
textDelta(e) == IF correlated(e) THEN "ok" ELSE "conflict"
functionDelta(e) == IF correlated(e) THEN "ok" ELSE "conflict"
summaryDelta(e) == IF correlated(e) THEN "ok" ELSE "conflict"

(* textDone, functionDone, summaryDone: the value is what was accumulated.    *)
textDone(e) ==
    IF correlated(e) THEN IF State(e).text = e.tokens THEN "ok" ELSE "conflict" ELSE "conflict"

functionDone(e) ==
    FirstOf(<< <<textDone(e) # "ok", "conflict">>,
               <<TRUE, mapFunctionCall(e.output)>> >>)

summaryDone(e) == textDone(e)

(* refusalDelta and refusalDone.                                              *)
refusalDelta(e) == IF correlated(e) /\ e.kind = "message" THEN "ok" ELSE "conflict"

refusalDone(e) ==
    IF refusalDelta(e) = "ok"
    THEN IF State(e).refusal = e.tokens THEN "ok" ELSE "conflict" ELSE "conflict"

(* responseTerminal: the response the progress events named repeats the items *)
(* (e.tokens = <<>>) byte for byte, all of them done; then translateResponse. *)
responseTerminal(e) ==
    LET calls == {i \in DOMAIN vendor.items : vendor.items[i].kind = "function_call"}
    IN  FirstOf(<< <<vendor.responseID # e.id \/ e.tokens # <<>>, "conflict">>,
                   <<\E i \in DOMAIN vendor.items : ~vendor.items[i].done, "conflict">>,
                   <<Cardinality(calls) > ParallelCalls, "denied">> >>)

(* consume: the dispatch on the type.                                         *)
Handler(e) ==
    CASE e.type = "progress" -> responseProgress(e)
      [] e.type = "item_added" -> itemAdded(e)
      [] e.type = "item_done" -> itemDone(e)
      [] e.type = "part" -> IF e.kind = "reasoning" THEN summaryPart(e) ELSE contentPart(e)
      [] e.type = "delta" -> (CASE e.kind = "message" -> textDelta(e)
                                [] e.kind = "function_call" -> functionDelta(e)
                                [] e.kind = "reasoning" -> summaryDelta(e))
      [] e.type = "done" -> (CASE e.kind = "message" -> textDone(e)
                               [] e.kind = "function_call" -> functionDone(e)
                               [] e.kind = "reasoning" -> summaryDone(e))
      [] e.type = "refusal_delta" -> refusalDelta(e)
      [] e.type = "refusal_done" -> refusalDone(e)
      [] e.type \in {"completed", "failed", "incomplete"} -> responseTerminal(e)
      [] e.type = "error" -> "ok"
      [] e.type = "unknown" -> "unsupported"

(* Event numbers start at zero or one and are consecutive.                    *)
Sequenced(number) ==
    IF vendor.started THEN number = vendor.next ELSE number <= 1

consumeEvent(e, number) ==
    FirstOf(<< <<terminal, "conflict">>,
               <<~Sequenced(number), "conflict">>,
               <<TRUE, Handler(e)>> >>)

Opened(e) == [id |-> e.id, kind |-> e.kind, done |-> FALSE, text |-> <<>>,
              refusal |-> <<>>, final |-> NoOutput]

After(e, number) ==
    LET counted == [vendor EXCEPT !.started = TRUE, !.next = number + 1, !.read = @ + 1]
    IN  CASE e.type = "progress" -> [counted EXCEPT !.responseID = e.id]
          [] e.type = "item_added" -> [counted EXCEPT !.items = Append(@, Opened(e))]
          [] e.type = "item_done" ->
               [counted EXCEPT !.items[e.index + 1].done = TRUE,
                               !.items[e.index + 1].final = e.output]
          [] e.type = "delta" -> [counted EXCEPT !.items[e.index + 1].text = @ \o e.tokens]
          [] e.type = "refusal_delta" ->
               [counted EXCEPT !.items[e.index + 1].refusal = @ \o e.tokens]
          [] OTHER -> counted

(* What an accepted event releases.                                           *)
Releases(e) ==
    CASE e.type = "delta" /\ e.kind = "message" -> <<DeltaEvent(e.tokens[1])>>
      [] e.type = "item_done" -> ItemEvents(translateOutput(e.output))
      [] e.type \in {"completed", "failed", "incomplete"} ->
           <<CompletedEvent(ResponseItems(vendor.items))>>
      [] OTHER -> <<>>

(* mapReasoning stores the item again each time it is translated.             *)
StoresReasoning(e) ==
    \/ e.type = "item_done" /\ e.kind = "reasoning"
    \/ /\ e.type \in {"completed", "failed", "incomplete"}
       /\ \E i \in DOMAIN vendor.items : vendor.items[i].kind = "reasoning"

Streaming == stage = "stream" /\ result = "none"

ConsumeEvent ==
    /\ Streaming /\ vendor.read < MaximumEvents
    /\ \E e \in VendorEvents, number \in {0, vendor.next, vendor.next + 1} :
          \/ /\ consumeEvent(e, number) = "ok" /\ e.type # "error"
             /\ vendor' = After(e, number)
             /\ \/ Releases(e) # <<>> /\ EmitsAll(Releases(e))
                \/ Releases(e) = <<>> /\ UNCHANGED <<ctx, cohNext, events, result>>
             /\ terminal' = (e.type \in {"completed", "failed", "incomplete"})
          \/ /\ consumeEvent(e, number) = "ok" /\ EmissionFails(Releases(e))
             /\ UNCHANGED vendor
          \/ /\ consumeEvent(e, number) = "ok" /\ StoresReasoning(e)
             /\ StreamFails(<<>>, "unavailable")
             /\ UNCHANGED <<ctx, vendor>>
          \/ /\ consumeEvent(e, number) # "ok"
             /\ StreamFails(<<>>, consumeEvent(e, number))
             /\ UNCHANGED <<ctx, vendor>>
    /\ UNCHANGED <<runtime, stage>>

(* errorTerminal: the vendor's error is the terminal event; when the consumer *)
(* refuses it, Stream offers another one.                                     *)
errorTerminal ==
    /\ Streaming /\ vendor.read < MaximumEvents /\ ~terminal
    /\ \E e \in VendorEvents, number \in {0, vendor.next} :
          /\ e.type = "error" /\ consumeEvent(e, number) = "ok"
          /\ \/ /\ emitCOH(<<ErrorEvent("unavailable")>>)
                /\ terminal' = TRUE
                /\ vendor' = After(e, number)
                /\ UNCHANGED result
             \/ StreamFails(<<>>, "unavailable") /\ UNCHANGED vendor
    /\ UNCHANGED <<ctx, runtime, stage>>

(* startRequest: every refusal is a terminal error event.                     *)
StartRequest ==
    /\ stage = "request" /\ result = "none"
    /\ \/ ctx = "live" /\ stage' = "stream" /\ UNCHANGED svars
       \/ /\ \E code \in (IF ctx = "live" THEN Codes \ {"canceled", "internal"} ELSE {ctx}) :
                finishAdapterError(<<>>, code)
          /\ UNCHANGED <<ctx, runtime, stage>>
    /\ UNCHANGED vendor

(* consumeSSE: [DONE] before the terminal event, a malformed frame, a read    *)
(* that fails, or the end of the body.                                        *)
consumeSSE ==
    /\ Streaming
    /\ \/ ~terminal /\ StreamFails(<<>>, "conflict")
       \/ StreamFails(<<>>, "invalid_input")
       \/ StreamFails(<<>>, "unavailable")
       \/ terminal /\ result' = "ok" /\ UNCHANGED <<cohNext, events, terminal>>
       \/ ~terminal /\ finishAdapterError(<<>>, "unavailable")
    /\ UNCHANGED <<ctx, runtime, stage, vendor>>

ResponsesNext ==
    \/ StartRequest
    \/ ConsumeEvent
    \/ errorTerminal
    \/ consumeSSE
    \/ ContextEnds /\ UNCHANGED rvars

-----------------------------------------------------------------------------
(* Types of the reducer's state.                                              *)
ResponsesTypeOK ==
    /\ stage \in {"request", "stream"} /\ vendor.started \in BOOLEAN
    /\ cohNext = Len(events) /\ result \in Codes \cup {"none", "ok"}
    /\ \A i \in DOMAIN vendor.items : vendor.items[i].kind \in ResponsesKinds

Occurrences(s, x) == Cardinality({i \in DOMAIN s : s[i] = x})

(* A completed response repeats what was released: the same items the same    *)
(* number of times, though items done out of index order are released out of  *)
(* order; every call names a tool of the request and there are no more calls  *)
(* than the capability allows (itemDone, responseTerminal, translateResponse).*)
CompletedReleased ==
    \A i \in 1..Len(events) :
        LET e == events[i]
            calls == {j \in DOMAIN e.items : e.items[j].kind = "tool_call"}
        IN  e.kind = "completed" =>
              /\ \A x \in {e.items[j] : j \in DOMAIN e.items} \cup
                          {Released(events)[j] : j \in DOMAIN Released(events)} :
                    Occurrences(e.items, x) = Occurrences(Released(events), x)
              /\ Cardinality(calls) <= ParallelCalls
              /\ \A j \in calls : e.items[j].name \in Tools

-----------------------------------------------------------------------------
(* The Codex runtime adapter (internal/provider/codexruntime).  The app      *)
(* server is driven over JSON-RPC: a handshake, then notifications and tool  *)
(* calls the adapter answers through the broker, until the turn completes.   *)
(* The batch mode parses the JSONL of one "codex exec".  Stream turns every  *)
(* error into a terminal error event and a response into items and           *)
(* "completed".                                                              *)
CONSTANTS
    Messages,           \* documents the app server may send during the turn
    ExecLogs,           \* JSONL outputs of the batch runner
    CallIDs,
    MaximumDocuments    \* bound on the documents of one turn

VARIABLES
    run,                \* runState
    brokered,           \* history: the calls of Tools.Call, in order
    interrupted         \* turn/interrupt was sent

xvars == <<run, brokered, interrupted>>

NoCall == "none"

(* toolLifecycle.                                                            *)
Lifecycle(name, arguments) ==
    [name |-> name, arguments |-> arguments, answered |-> FALSE, completed |-> FALSE,
     success |-> FALSE]

(* inboundEnvelope with its params: correlated says that thread and turn are *)
(* those of the run.                                                         *)
Message(method, matched, id, name, tokens, status) ==
    [method |-> method, correlated |-> matched, id |-> id, name |-> name,
     tokens |-> tokens, status |-> status]

Methods == {"response", "native_request", "tool_call", "thread_started", "turn_started",
            "delta", "tool_started", "native_started", "message_completed",
            "reasoning_completed", "tool_completed", "usage", "rerouted",
            "turn_completed", "unknown"}

CodexAssumption ==
    /\ \A m \in Messages : m.method \in Methods /\ m.correlated \in BOOLEAN
    /\ MaximumDocuments \in Nat

CodexInit ==
    /\ StreamInit
    /\ \E mode \in {"app-server", "exec"} :
          run = [mode |-> mode, step |-> "open", itemID |-> 0, text |-> <<>>,
                 reasoning |-> <<>>, items |-> <<>>, toolCalls |-> [c \in {} |-> 0],
                 usageSeen |-> FALSE, read |-> 0, call |-> NoCall,
                 response |-> <<>>]
    /\ brokered = <<>> /\ interrupted = FALSE

Running(step) == run.step = step /\ result = "none"

(* Stream when the invocation returned an error.                             *)
Fails(code) == finishAdapterError(<<>>, code) /\ UNCHANGED <<ctx, runtime>>

(* An operation on the transport: the code of its failure.                   *)
TransportError == IF ctx = "live" THEN "unavailable" ELSE ctx

-----------------------------------------------------------------------------
(* Factory.Open and verifyObservation: the launched runtime is attested.     *)
verifyObservation == runtime = Qualified

Open ==
    /\ Running("open") /\ run.mode = "app-server"
    /\ \/ /\ ctx = "live" /\ verifyObservation
          /\ run' = [run EXCEPT !.step = "initialize"]
          /\ UNCHANGED svars
       \/ /\ \/ ~verifyObservation /\ Fails("denied")
             \/ Fails("unavailable")
          /\ UNCHANGED run
    /\ UNCHANGED <<brokered, interrupted>>

(* handshake: initialize, thread/start, turn/start, each answered under its  *)
(* own id and checked.                                                       *)
NextStep == [initialize |-> "thread", thread |-> "turn", turn |-> "consume"]

handshake ==
    /\ run.step \in DOMAIN NextStep /\ result = "none"
    /\ \/ /\ ctx = "live"
          /\ run' = [run EXCEPT !.step = NextStep[run.step]]
          /\ UNCHANGED svars
       \/ /\ \E code \in {TransportError, "denied", "conflict", "unavailable", "invalid_input"} :
                Fails(code)
          /\ UNCHANGED run
    /\ UNCHANGED <<brokered, interrupted>>

-----------------------------------------------------------------------------
(* receiveDocument inside consume: a failure under an ended context is the   *)
(* only one that interrupts the turn.                                        *)
ReceiveFails ==
    /\ Running("consume")
    /\ \/ Fails(TransportError) /\ interrupted' = (ctx # "live")
       \/ Fails("invalid_input") /\ UNCHANGED interrupted
    /\ UNCHANGED <<run, brokered>>

CodexKnown(id) == id \in DOMAIN run.toolCalls

FirstRefusal(checks) ==
    IF \E i \in 1..Len(checks) : checks[i][1]
    THEN checks[CHOOSE i \in 1..Len(checks) :
                  checks[i][1] /\ \A j \in 1..(i - 1) : ~checks[j][1]][2]
    ELSE "ok"

(* handleServerRequest up to the broker: a started call, unchanged, that was *)
(* neither answered nor completed.                                           *)
handleServerRequest(m) ==
    FirstRefusal(<< <<m.method = "native_request", "denied">>,
                    <<~m.correlated, "conflict">>,
                    <<m.name \notin Tools, "denied">>,
                    <<~CodexKnown(m.id), "conflict">>,
                    <<CodexKnown(m.id) /\ LET l == run.toolCalls[m.id]
                                     IN  l.name # m.name \/ l.arguments # m.tokens
                                         \/ l.answered \/ l.completed, "conflict">> >>)

(* handleItem, one definition per kind of item.                              *)
startedItem(m) ==
    FirstRefusal(<< <<m.method = "native_started", "denied">>,
                    <<m.name \notin Tools, "denied">>,
                    <<CodexKnown(m.id), "conflict">> >>)

completedMessage(m) ==
    FirstRefusal(<< <<m.tokens = <<>>, "invalid_input">>,
                    <<run.itemID \notin {0, m.id}, "conflict">>,
                    <<run.text \notin {<<>>, m.tokens}, "conflict">> >>)

completedTool(m) ==
    IF ~CodexKnown(m.id) THEN "denied"
    ELSE LET l == run.toolCalls[m.id]
         IN  IF l.name = m.name /\ l.arguments = m.tokens /\ l.answered /\ ~l.completed
                /\ (m.status = "success") = l.success
             THEN "ok" ELSE "denied"

(* handleNotification: turn/completed.                                       *)
turnCompleted(m) ==
    FirstRefusal(<< <<~m.correlated, "conflict">>,
                    <<m.status = "interrupted", "canceled">>,
                    <<m.status # "completed", "unavailable">>,
                    <<~run.usageSeen, "conflict">>,
                    <<\E id \in DOMAIN run.toolCalls :
                         ~run.toolCalls[id].answered \/ ~run.toolCalls[id].completed,
                      "conflict">> >>)

(* handleNotification: the agent's delta.                                    *)
agentDelta(m) ==
    FirstRefusal(<< <<~m.correlated, "conflict">>,
                    <<run.itemID \notin {0, m.id}, "conflict">> >>)

(* handleNotification, and consume's refusal of an unsolicited response.     *)
handleNotification(m) ==
    CASE m.method = "response" -> "conflict"
      [] m.method = "unknown" -> "unsupported"
      [] m.method = "turn_completed" -> turnCompleted(m)
      [] m.method = "delta" -> agentDelta(m)
      [] ~m.correlated /\ m.method \notin {"turn_completed", "delta", "response", "unknown"} -> "conflict"
      [] m.correlated /\ m.method \in {"thread_started", "turn_started", "reasoning_completed"} -> "ok"
      [] m.correlated /\ m.method = "usage" -> IF m.status = "valid" THEN "ok" ELSE "denied"
      [] m.correlated /\ m.method = "rerouted" -> "denied"
      [] m.correlated /\ m.method \in {"tool_started", "native_started"} -> startedItem(m)
      [] m.correlated /\ m.method = "message_completed" -> completedMessage(m)
      [] m.correlated /\ m.method = "tool_completed" -> completedTool(m)

Handled(m) ==
    LET seen == [run EXCEPT !.read = @ + 1]
    IN  CASE m.method = "delta" -> [seen EXCEPT !.itemID = m.id, !.text = @ \o m.tokens]
          [] m.method = "message_completed" -> [seen EXCEPT !.text = m.tokens]
          [] m.method = "reasoning_completed" -> [seen EXCEPT !.reasoning = @ \o m.tokens]
          [] m.method = "tool_started" ->
               [seen EXCEPT !.toolCalls = [id \in DOMAIN @ \cup {m.id} |->
                   IF id = m.id THEN Lifecycle(m.name, m.tokens) ELSE @[id]]]
          [] m.method = "tool_completed" -> [seen EXCEPT !.toolCalls[m.id].completed = TRUE]
          [] m.method = "usage" -> [seen EXCEPT !.usageSeen = TRUE]
          [] m.method = "turn_completed" -> [seen EXCEPT !.step = "build"]
          [] OTHER -> seen

Requests == {"native_request", "tool_call"}

(* consume: one notification.  A delta is emitted at once.                   *)
ConsumeNotification ==
    /\ Running("consume") /\ run.read < MaximumDocuments
    /\ \E m \in {n \in Messages : n.method \notin Requests} :
          \/ /\ handleNotification(m) = "ok"
             /\ run' = Handled(m)
             /\ \/ m.method # "delta" /\ UNCHANGED svars
                \/ m.method = "delta" /\ EmitsAll(<<DeltaEvent(m.tokens[1])>>)
                   /\ UNCHANGED <<runtime, terminal>>
          \/ /\ handleNotification(m) = "ok" /\ m.method = "delta"
             /\ \/ Fails("unavailable")
                \/ ctx # "live" /\ Fails(ctx)
             /\ UNCHANGED run
          \/ handleNotification(m) # "ok" /\ Fails(handleNotification(m)) /\ UNCHANGED run
    /\ UNCHANGED <<brokered, interrupted>>

(* handleServerRequest: the broker is called.                                *)
CallBroker ==
    /\ Running("consume") /\ run.read < MaximumDocuments
    /\ \E m \in {n \in Messages : n.method \in Requests} :
          \/ /\ handleServerRequest(m) = "ok"
             /\ run' = [run EXCEPT !.step = "broker", !.call = m, !.read = @ + 1]
             /\ brokered' = Append(brokered, m.id)
             /\ UNCHANGED svars
          \/ /\ handleServerRequest(m) # "ok" /\ Fails(handleServerRequest(m))
             /\ UNCHANGED <<run, brokered>>
    /\ UNCHANGED interrupted

(* The broker answers; its answer is checked and sent, and only then the     *)
(* call counts as answered.                                                  *)
AnswerCall ==
    /\ Running("broker")
    /\ LET m == run.call IN
          \/ \E outcome \in {"succeeded", "failed"} :
                /\ ctx = "live"
                /\ run' = [run EXCEPT !.step = "consume", !.call = NoCall,
                       !.toolCalls[m.id].answered = TRUE,
                       !.toolCalls[m.id].success = (outcome = "succeeded"),
                       !.items = @ \o <<CallItem(m.name, m.tokens), ResultItem(outcome)>>]
                /\ UNCHANGED svars
          \/ \E code \in {"unavailable", "invalid_input", "denied", TransportError} :
                Fails(code) /\ UNCHANGED run
    /\ UNCHANGED <<brokered, interrupted>>

(* buildResponse: the text, the calls with their results, the reasoning.     *)
BuiltItems ==
    <<TextItem(run.text)>> \o run.items
    \o (IF run.reasoning # <<>> THEN <<ReasoningItem(run.reasoning)>> ELSE <<>>)

buildResponse ==
    /\ Running("build")
    /\ \/ /\ run.text # <<>> /\ ctx = "live"
          /\ run' = [run EXCEPT !.step = "emit", !.response = BuiltItems]
          /\ UNCHANGED svars
       \/ /\ \/ run.text = <<>> /\ Fails("conflict")
             \/ run.text # <<>> /\ Fails("denied")                   \* validateUsage
             \/ run.text # <<>> /\ run.reasoning # <<>> /\ Fails("unavailable")
             \/ run.text # <<>> /\ ctx # "live" /\ Fails(ctx)
          /\ UNCHANGED run
    /\ UNCHANGED <<brokered, interrupted>>

-----------------------------------------------------------------------------
(* parseExecJSONL: one event of the log.                                     *)
execEvent(s, e) ==
    IF s.code # "ok" THEN s
    ELSE CASE e.type = "thread.started" ->
                IF s.started THEN [s EXCEPT !.code = "conflict"] ELSE [s EXCEPT !.started = TRUE]
           [] e.type = "turn.started" ->
                IF ~s.started \/ s.turnStarted THEN [s EXCEPT !.code = "conflict"]
                ELSE [s EXCEPT !.turnStarted = TRUE]
           [] e.type = "item.completed" ->
                IF ~s.turnStarted \/ e.text = <<>> THEN [s EXCEPT !.code = "denied"]
                ELSE [s EXCEPT !.final = e.text]
           [] e.type = "turn.completed" ->
                IF ~s.turnStarted \/ s.completed THEN [s EXCEPT !.code = "conflict"]
                ELSE [s EXCEPT !.completed = TRUE]
           [] e.type \in {"turn.failed", "error"} -> [s EXCEPT !.code = "unavailable"]

parseExecJSONL(log) ==
    LET parsed[n \in 0..Len(log)] ==
            IF n = 0
            THEN [started |-> FALSE, turnStarted |-> FALSE, completed |-> FALSE,
                  final |-> <<>>, code |-> "ok"]
            ELSE execEvent(parsed[n - 1], log[n])
        end == parsed[Len(log)]
    IN  IF end.code = "ok" /\ (~end.completed \/ end.final = <<>>)
        THEN [end EXCEPT !.code = "conflict"] ELSE end

(* invokeBatch: the runner's output is attested, parsed and made a response; *)
(* tools are not supported and no delta is emitted.                          *)
invokeBatch ==
    /\ Running("open") /\ run.mode = "exec"
    /\ \/ \E log \in ExecLogs :
             LET parsed == parseExecJSONL(log)
             IN  \/ /\ verifyObservation /\ parsed.code = "ok" /\ ctx = "live"
                    /\ run' = [run EXCEPT !.step = "emit", !.text = parsed.final,
                                          !.response = <<TextItem(parsed.final)>>]
                    /\ UNCHANGED svars
                 \/ verifyObservation /\ parsed.code # "ok" /\ Fails(parsed.code) /\ UNCHANGED run
       \/ ~verifyObservation /\ Fails("denied") /\ UNCHANGED run
       \/ Fails(TransportError) /\ UNCHANGED run
    /\ UNCHANGED <<brokered, interrupted>>

(* Stream after a response: its items, then completed; an emission that      *)
(* fails here is returned without another event.                             *)
EmitResponse ==
    /\ Running("emit")
    /\ LET es == Append(ItemEvents(run.response), CompletedEvent(run.response)) IN
          \/ /\ ctx = "live" /\ emitCOH(es)
             /\ terminal' = TRUE /\ result' = "ok"
             /\ UNCHANGED ctx
          \/ \E n \in 0..(Len(es) - 1), why \in {"unavailable", "canceled", "timeout"} :
                /\ ctx = "live" \/ (n = 0 /\ why = ctx)
                /\ ctx' = IF why = "unavailable" THEN ctx ELSE why
                /\ emitCOH(SubSeq(es, 1, n))
                /\ result' = why
                /\ UNCHANGED terminal
    /\ UNCHANGED <<runtime, run, brokered, interrupted>>

CodexNext ==
    \/ Open
    \/ handshake
    \/ ReceiveFails
    \/ ConsumeNotification
    \/ CallBroker
    \/ AnswerCall
    \/ buildResponse
    \/ invokeBatch
    \/ EmitResponse
    \/ ContextEnds /\ UNCHANGED xvars
    \/ run.step = "open" /\ RuntimeReplaced /\ UNCHANGED xvars

-----------------------------------------------------------------------------
(* Types of the run.                                                         *)
CodexTypeOK ==
    /\ run.mode \in {"app-server", "exec"}
    /\ run.step \in {"open", "initialize", "thread", "turn", "consume", "broker", "build", "emit"}
    /\ DOMAIN run.toolCalls \subseteq CallIDs
    /\ cohNext = Len(events) /\ result \in Codes \cup {"none", "ok"}

Pairs(items) == SelectSeq(items, LAMBDA i : i.kind \in {"tool_call", "tool_result"})

(* Every call the runtime starts reaches the broker at most once, only for a *)
(* tool of the request, and a completed response carries exactly one call    *)
(* and one result, adjacent and in the order of the broker's calls, for      *)
(* every call the broker executed (handleServerRequest, handleItem,          *)
(* buildResponse).                                                           *)
CallsAnsweredOnce ==
    /\ \A i, j \in DOMAIN brokered : i # j => brokered[i] # brokered[j]
    /\ \A i \in DOMAIN brokered : run.toolCalls[brokered[i]].name \in Tools
    /\ \A e \in {events[i] : i \in DOMAIN events} :
          e.kind = "completed" =>
             LET pairs == Pairs(e.items)
             IN  /\ Len(pairs) = 2 * Len(brokered)
                 /\ \A i \in DOMAIN brokered :
                       /\ pairs[2 * i - 1].kind = "tool_call"
                       /\ pairs[2 * i - 1].text = run.toolCalls[brokered[i]].arguments
                       /\ pairs[2 * i].kind = "tool_result"

(* The text of a completed response ends with the deltas the consumer saw:   *)
(* nothing streamed is missing from it or comes in another order             *)
(* (handleNotification, handleItem, buildResponse, Stream).                  *)
DeltasInText ==
    \A e \in {events[i] : i \in DOMAIN events} :
        e.kind = "completed" =>
            LET text == e.items[1].text
                deltas == Deltas(events)
            IN  /\ Len(deltas) <= Len(text)
                /\ SubSeq(text, Len(text) - Len(deltas) + 1, Len(text)) = deltas
                /\ Released(events) = e.items

-----------------------------------------------------------------------------
(* From a signed qualification to a dispatch: VerifyQualification, the       *)
(* QualificationRegistry (internal/domain/providercontract), and what each   *)
(* adapter of internal/provider checks and translates before it sends a      *)
(* request to its vendor.                                                    *)
CONSTANTS
    Envelopes,          \* signed qualifications that circulate
    Capabilities,       \* capability snapshots, one per adapter kind
    InferenceRequests,  \* requests the callers submit
    Adapters,           \* the adapter kinds that are configured
    MaximumTime

VARIABLES
    now,
    authority,          \* the qualifier's authority as the operator keeps it
    verified,           \* the verified qualifications callers hold
    registry,           \* QualificationRegistry.records
    dispatched          \* history: what was sent, when and under what

qvars == <<now, authority, verified, registry, dispatched>>

DispatchKinds == {"openai_responses", "vllm", "llama_cpp", "ollama", "codex_runtime"}
Times == 0..MaximumTime

(* QualificationRecord in its SignedQualification.                           *)
Envelope == [id : Nat, provider : DispatchKinds, capability : Nat, issued : Int, expires : Int,
             cases : [1..6 -> {"passed", "failed"}], aggregate : {"passed", "failed"},
             keyRevision : Nat, approvalRevision : Nat, signed : BOOLEAN, digest : Nat]

(* CapabilitySnapshot: identity, validity, features, limits.                 *)
CapabilitySnapshot == [digest : Nat, provider : DispatchKinds, observed : Int, until : Int,
                       features : BOOLEAN, maximumMessages : Nat, maximumStream : Nat]

ItemKinds == {"text", "input_json", "output_json", "tool_call", "tool_result", "reasoning_ref"}

(* ContentItem of a message.                                                 *)
Content(kind, call, tool) == [kind |-> kind, call |-> call, tool |-> tool]

(* roleAllows: which items a message of a role may carry.                    *)
roleAllows(role) ==
    CASE role \in {"system", "developer", "user"} -> {"text", "input_json"}
      [] role = "assistant" -> {"text", "output_json", "tool_call", "reasoning_ref"}
      [] role = "tool" -> {"tool_result"}

validateMessage(m) ==
    /\ m.items # <<>>
    /\ \A i \in DOMAIN m.items : m.items[i].kind \in roleAllows(m.role)

(* ValidateRequest: what reaches a dispatch has been decoded and validated.  *)
ValidateRequest(r) ==
    /\ r.messages # <<>>
    /\ \A i \in DOMAIN r.messages : validateMessage(r.messages[i])
    /\ r.output \in {"text", "json_schema"} /\ r.provider \in DispatchKinds

(* ValidateCapability and ValidateQualification.                             *)
ValidateCapability(c) == c.until > c.observed /\ c.maximumMessages > 0 /\ c.maximumStream > 0

ValidateQualification(e) ==
    /\ e.expires > e.issued
    /\ (e.aggregate = "passed") = (\A i \in 1..6 : e.cases[i] = "passed")

DispatchAssumption ==
    /\ \A r \in InferenceRequests : ValidateRequest(r)
    /\ \A c \in Capabilities : ValidateCapability(c)
    /\ \A c, d \in Capabilities : c.provider = d.provider => c = d
    /\ Adapters \subseteq {c.provider : c \in Capabilities}
    /\ \A e \in Envelopes : e.signed \in BOOLEAN /\ e.provider \in DispatchKinds

DispatchInit ==
    /\ now = 0
    /\ authority = [active |-> TRUE, keyRevision |-> 1, approvalRevision |-> 1]
    /\ verified = {} /\ registry = [id \in {} |-> 0] /\ dispatched = {}

Tick == now < MaximumTime /\ now' = now + 1
        /\ UNCHANGED <<authority, verified, registry, dispatched>>

(* The operator revokes the qualifier or rotates its key or approval.        *)
AuthorityChanges ==
    /\ authority.active
    /\ \/ authority' = [authority EXCEPT !.active = FALSE]
       \/ authority.keyRevision = 1 /\ authority' = [authority EXCEPT !.keyRevision = 2]
    /\ UNCHANGED <<now, verified, registry, dispatched>>

(* VerifyQualification: a valid record under the current authority.          *)
VerifyQualification(e) ==
    /\ ValidateQualification(e)
    /\ authority.active /\ e.keyRevision = authority.keyRevision
    /\ e.approvalRevision = authority.approvalRevision
    /\ e.signed

Verify ==
    /\ \E e \in Envelopes \ verified :
          VerifyQualification(e) /\ verified' = verified \cup {e}
    /\ UNCHANGED <<now, authority, registry, dispatched>>

(* AdmitQualification: current, passed, and for this capability.             *)
AdmitQualification(c, e) ==
    /\ c.observed <= now /\ now < c.until /\ e.issued <= now /\ now < e.expires
    /\ e.aggregate = "passed" /\ e.capability = c.digest
    /\ e.provider = c.provider
    /\ c.features

CapabilityOf(kind) == CHOOSE c \in Capabilities : c.provider = kind

(* Admit: the first envelope of an id stays; another one collides.           *)
Admit ==
    /\ \E e \in verified :
          /\ AdmitQualification(CapabilityOf(e.provider), e)
          /\ e.id \notin DOMAIN registry
          /\ registry' = [id \in DOMAIN registry \cup {e.id} |->
                             IF id = e.id THEN e ELSE registry[id]]
    /\ UNCHANGED <<now, authority, verified, dispatched>>

(* Resolve: the record is admitted again at the time of the dispatch.        *)
Resolve(id, c) ==
    /\ id \in DOMAIN registry
    /\ id \in DOMAIN registry => AdmitQualification(c, registry[id])

-----------------------------------------------------------------------------
(* validateDispatch, one per adapter: the request is bound to the capability *)
(* and within its limits, its deadline is ahead, and the qualification holds.*)
(* The token counters and the fixed sampling of the Codex runtime are inputs *)
(* of the request.                                                           *)
Bound(r, c) ==
    /\ r.provider = c.provider /\ r.capability = c.digest
    /\ Len(r.messages) <= c.maximumMessages
    /\ now < r.deadline
    /\ Resolve(r.qualification, c)

openaiValidateDispatch(r, c) == Bound(r, c) /\ r.tokensFit
vllmValidateDispatch(r, c) == Bound(r, c) /\ r.tokensFit
llamacppValidateDispatch(r, c) == Bound(r, c) /\ r.tokensFit
ollamaValidateDispatch(r, c) == Bound(r, c) /\ r.tokensFit
codexValidateDispatch(r, c) == Bound(r, c) /\ r.seed = 0

validateDispatch(r, c) ==
    CASE c.provider = "openai_responses" -> openaiValidateDispatch(r, c)
      [] c.provider = "vllm" -> vllmValidateDispatch(r, c)
      [] c.provider = "llama_cpp" -> llamacppValidateDispatch(r, c)
      [] c.provider = "ollama" -> ollamaValidateDispatch(r, c)
      [] c.provider = "codex_runtime" -> codexValidateDispatch(r, c)

(* resolveSchema: every schema of the request is found and strict.           *)
resolveSchema(r) == r.schemasStrict

(* toolForCall: an allowed tool, and the one the call id had before.         *)
toolForCall(item, r, callTools) ==
    /\ item.tool \in r.tools
    /\ item.call \in DOMAIN callTools => callTools[item.call] = item.tool

Recorded(callTools, item) ==
    [c \in DOMAIN callTools \cup {item.call} |-> IF c = item.call THEN item.tool ELSE callTools[c]]

(* translateMessage of the chat adapters, one item: at most one content and  *)
(* one reasoning, calls are allowed tools, a result answers a known call.    *)
chatItem(s, item, m, r) ==
    CASE item.kind \in {"text", "input_json", "output_json"} ->
           [s EXCEPT !.content = @ + 1, !.ok = @ /\ s.content = 0]
      [] item.kind = "reasoning_ref" ->
           [s EXCEPT !.reasoning = @ + 1, !.ok = @ /\ s.reasoning = 0]
      [] item.kind = "tool_call" ->
           [s EXCEPT !.ok = @ /\ toolForCall(item, r, s.callTools),
                     !.callTools = Recorded(@, item)]
      [] item.kind = "tool_result" ->
           [s EXCEPT !.ok = @ /\ Len(m.items) = 1 /\ item.call \in DOMAIN s.callTools]

chatMessage(s, m, r) ==
    LET fold[n \in 0..Len(m.items)] ==
            IF n = 0 THEN [s EXCEPT !.content = 0, !.reasoning = 0]
            ELSE chatItem(fold[n - 1], m.items[n], m, r)
    IN  fold[Len(m.items)]

chatMessages(r) ==
    LET fold[n \in 0..Len(r.messages)] ==
            IF n = 0 THEN [ok |-> TRUE, callTools |-> [c \in {} |-> ""], content |-> 0, reasoning |-> 0]
            ELSE chatMessage(fold[n - 1], r.messages[n], r)
    IN  fold[Len(r.messages)]

SupportedRoles == {"assistant", "system", "tool", "user"}

vllmTranslateMessage(r) ==
    chatMessages(r).ok /\ \A i \in DOMAIN r.messages : r.messages[i].role \in SupportedRoles
llamacppTranslateMessage(r) == vllmTranslateMessage(r)
ollamaTranslateMessage(r) == vllmTranslateMessage(r)

(* translateRequest, one per adapter.                                        *)
openaiTranslateRequest(r) == resolveSchema(r) /\ r.seed = 0
vllmTranslateRequest(r) ==
    ~(r.tools # {} /\ r.output = "json_schema") /\ resolveSchema(r) /\ vllmTranslateMessage(r)
llamacppTranslateRequest(r) ==
    ~(r.tools # {} /\ r.output = "json_schema") /\ resolveSchema(r) /\ llamacppTranslateMessage(r)
ollamaTranslateRequest(r) == resolveSchema(r) /\ ollamaTranslateMessage(r)
codexTranslateRequest(r) == resolveSchema(r)

translateRequest(r, kind) ==
    CASE kind = "openai_responses" -> openaiTranslateRequest(r)
      [] kind = "vllm" -> vllmTranslateRequest(r)
      [] kind = "llama_cpp" -> llamacppTranslateRequest(r)
      [] kind = "ollama" -> ollamaTranslateRequest(r)
      [] kind = "codex_runtime" -> codexTranslateRequest(r)

(* The window of the stream: what is left of the deadline, at most the       *)
(* capability's ceiling.                                                     *)
Window(r, c) == IF c.maximumStream < r.deadline - now THEN c.maximumStream ELSE r.deadline - now

(* SurfaceGateway.Invoke and the adapter's Invoke or Stream.                 *)
Dispatch ==
    /\ \E kind \in Adapters, r \in InferenceRequests :
          LET c == CapabilityOf(kind)
          IN  /\ validateDispatch(r, c) /\ translateRequest(r, kind)
              /\ dispatched' = dispatched \cup
                     {[kind |-> kind, request |-> r, at |-> now, until |-> now + Window(r, c),
                       envelope |-> registry[r.qualification]]}
    /\ UNCHANGED <<now, authority, verified, registry>>

DispatchNext == Tick \/ AuthorityChanges \/ Verify \/ Admit \/ Dispatch

-----------------------------------------------------------------------------
(* Types of the registry and its surroundings.                               *)
DispatchTypeOK ==
    /\ now \in Times /\ verified \subseteq Envelopes
    /\ \A id \in DOMAIN registry : registry[id] \in verified /\ registry[id].id = id

Earlier(m, r, i) == \E j \in 1..(i - 1) : \E k \in DOMAIN r.messages[j].items :
    LET item == r.messages[j].items[k]
    IN  item.kind = "tool_call" /\ item.call = m.items[1].call /\ item.tool \in r.tools

(* Whatever was sent was qualified when it was sent, by an envelope whose    *)
(* signature was verified, for exactly this adapter's capability, and its    *)
(* window ends by its deadline; a chat vendor is never sent the result of a  *)
(* call that no earlier message made to an allowed tool (AdmitQualification, *)
(* Resolve, validateDispatch, translateMessage).                             *)
DispatchQualified ==
    \A d \in dispatched :
        LET e == d.envelope
            r == d.request
        IN  /\ e \in verified /\ e.signed /\ e.provider = d.kind
            /\ e.issued <= d.at /\ d.at < e.expires
            /\ \A i \in 1..6 : e.cases[i] = "passed"
            /\ d.until <= r.deadline /\ d.at < d.until
            /\ d.kind \in {"vllm", "llama_cpp", "ollama"} =>
                  \A i \in DOMAIN r.messages :
                     r.messages[i].role = "tool" => Earlier(r.messages[i], r, i)

(* A qualification id means one envelope for ever, though another one with   *)
(* the same id was signed and verified too (QualificationRegistry.Admit).    *)
QualificationStands ==
    \A id \in DOMAIN registry : id \in DOMAIN registry' /\ registry'[id] = registry[id]
=============================================================================
