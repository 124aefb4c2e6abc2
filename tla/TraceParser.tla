---------------------------- MODULE TraceParser ----------------------------
(***************************************************************************)
(* The pure part of tracelog/parser.go: what the data of events says about *)
(* a call, and how calls become rounds, for each of the log formats.       *)
(*                                                                         *)
(* An event is a record [type, ts, session, log, prompt, data]; its data   *)
(* is [size, value] with a JSON value. A call, an assistant's payload and  *)
(* a round are records; finish reason, HTTP status and cached tokens,      *)
(* which are only passed on, are left out, as is what a tool returned. Go  *)
(* visits the keys of a map in any order: the parameter keys is the order  *)
(* of one run, a sequence of all keys.                                     *)
(***************************************************************************)
EXTENDS TraceValues, TLC

NoBytes == [size |-> 0, value |-> Null]
Present(data) == data.size > 0

NoPayload == [model |-> <<>>, text |-> <<>>, reasoning |-> <<>>, tools |-> <<>>,
              in |-> 0, out |-> 0, reason |-> 0, duration |-> 0]
Speaks(payload) ==
    payload.text # <<>> \/ payload.reasoning # <<>> \/ payload.tools # <<>>

Call(log, start, end) ==
    Over([log |-> log, start |-> start, end |-> end, messages |-> <<>>], NoPayload)

\* A call with what a payload says, in place of what it knew.
With(call, payload) == Over(payload, call)

Assistants == {<<"assistant">>, <<"model">>}
ToolItems == {<<"function_call">>, <<"tool_call">>, <<"custom_tool_call">>}
ItemEnds == {<<"response.output_item.added">>, <<"response.output_item.done">>}

----------------------------------------------------------------------------
\* Pieces of payloads

Tool(id, tool, input, error) ==
    [id |-> id, tool |-> tool, input |-> input, failed |-> error # <<>>]
toolCallFromResponseOutputItem(item) ==
    Tool(stringAny(firstAny(item, <<"call_id", "callID", "id">>)),
         stringAny(firstAny(item, <<"name", "toolName">>)),
         firstAny(item, <<"arguments", "input">>),
         stringAny(firstAny(item, <<"error", "error_message">>)))

\* The function of a tool call may name it and hold what it is given.
ToolOf(item) ==
    LET function == Field(item, "function")
        Known(own, other) == IF own = Null THEN other ELSE own
    IN  Tool(stringAny(firstAny(item, <<"toolCallId", "callID", "id">>)),
             firstNonEmpty(stringAny(firstAny(item, <<"toolName", "name">>)),
                           stringAny(Field(function, "name"))),
             Known(firstAny(item, <<"arguments", "input">>), Field(function, "arguments")),
             stringAny(firstAny(item, <<"error", "error_message">>)))
ToolsOf(items) == [i \in DOMAIN items |-> ToolOf(items[i])]
extractToolCalls(v) ==
    ToolsOf(Filtered(Items(v), LAMBDA item : DOMAIN Fields(item) # {}))

UsageOf(usage) ==
    LET Count(names) == int64Any(FirstValue(usage, names))
        Detail(details) == int64Any(firstAny(details, <<"reasoning_tokens", "reasoningTokens">>))
    IN  [in |-> Count(<<"inputTokens", "prompt_tokens", "input_tokens">>),
         out |-> Count(<<"outputTokens", "completion_tokens", "output_tokens">>),
         reason |-> firstNonZero(
            Count(<<"reasoningTokens", "reasoning_tokens">>),
            Detail(FirstValue(usage, <<"output_tokens_details", "outputTokensDetails">>)))]
extractUsage(v) == UsageOf(Fields(firstAny(v, <<"usage", "token_usage">>)))
Counted(usage) == usage.in > 0 \/ usage.out > 0 \/ usage.reason > 0

payloadFromMessageMap(msg) ==
    [NoPayload EXCEPT
        !.text = contentStringAny(Field(msg, "content")),
        !.reasoning = stringAny(firstAny(msg, <<"reasoning", "reasoning_content">>)),
        !.tools = extractToolCalls(firstAny(msg, <<"toolCalls", "tool_calls">>))]

\* The first choice of a completion; NoPayload when there is none.
FirstItem(items) == IF items = <<>> THEN Null ELSE Head(items)
ChoiceMessage(v) == Field(FirstItem(Items(Field(v, "choices"))), "message")
HasChoice(v) == DOMAIN Fields(ChoiceMessage(v)) # {}
payloadFromChoices(v) ==
    Over(Over(extractUsage(v),
              [model |-> stringAny(firstAny(v, <<"model", "model_name">>)),
               duration |-> int64Any(firstAny(v, <<"durationMs", "duration_ms">>))]),
         payloadFromMessageMap(ChoiceMessage(v)))

payloadFromSimpleMap(v) ==
    Over(extractUsage(v),
         [model |-> stringAny(firstAny(v, <<"model", "model_name", "name">>)),
          text |-> contentStringAny(firstAny(v,
                      <<"content", "text", "output", "answer", "response">>)),
          reasoning |-> stringAny(firstAny(v,
                      <<"reasoning", "reasoning_content", "thought">>)),
          tools |-> extractToolCalls(firstAny(v, <<"toolCalls", "tool_calls", "tools">>)),
          duration |-> int64Any(firstAny(v, <<"durationMs", "duration_ms">>))])

\* What is known first stays.
mergeAssistantPayload(dst, src) ==
    [f \in DOMAIN dst |->
        IF f \in {"model", "text", "reasoning", "tools"}
        THEN firstNonEmpty(dst[f], src[f]) ELSE firstNonZero(dst[f], src[f])]

\* An output item of a response adds a message or a tool call to a payload.
isOutputMessage(item) ==
    /\ stringAny(Field(item, "type")) = <<"message">>
    /\ stringAny(Field(item, "role")) \in Assistants
WithOutputItem(payload, item) ==
    CASE isOutputMessage(item) ->
            mergeAssistantPayload(payload, payloadFromMessageMap(item))
      [] stringAny(Field(item, "type")) \in ToolItems ->
            [payload EXCEPT !.tools = Append(@, toolCallFromResponseOutputItem(item))]
      [] OTHER -> payload

payloadFromResponseMap(v) ==
    LET model == [model |-> stringAny(firstAny(v, <<"model", "model_name">>))]
    IN  FoldLeft(WithOutputItem, Over(Over(extractUsage(v), model), NoPayload),
                 Items(Field(v, "output")))

----------------------------------------------------------------------------
\* A call from the data of its events

\* A request body has lists of messages or it does not decode.
BodyFits(v) ==
    /\ v[1] = "obj"
    /\ \A key \in {"messages", "input"} : Field(v, key)[1] \in {"arr", "null"}
MessagesIn(items) ==
    [i \in DOMAIN items |-> [role |-> stringAny(Field(items[i], "role")),
                             content |-> Field(items[i], "content")]]
BodyMessages(v) ==
    MessagesIn(firstNonEmpty(Items(Field(v, "messages")), Items(Field(v, "input"))))
BodySays(v) ==
    BodyFits(v) /\ (stringAny(Field(v, "model")) # <<>> \/ BodyMessages(v) # <<>>)
applyRequestBody(v, call) ==
    IF BodySays(v)
    THEN [call EXCEPT !.model = stringAny(Field(v, "model")),
                      !.messages = BodyMessages(v)]
    ELSE call
\* The body itself, or what it holds under "body".
decodeRequest(data, call) ==
    applyRequestBody(IF BodySays(data.value) THEN data.value ELSE Field(data.value, "body"),
                     call)

\* The final block of an answer.
FinalOf(final) ==
    LET tools == Items(Field(final, "tools"))
        Count(name) == int64Any(Field(Field(final, "usage"), name))
    IN  [text |-> stringAny(Field(final, "text")),
         reasoning |-> stringAny(Field(final, "reasoning")),
         tools |-> [i \in DOMAIN tools |->
                      Tool(stringAny(Field(tools[i], "callID")),
                           stringAny(Field(tools[i], "tool")), Field(tools[i], "input"),
                           stringAny(Field(tools[i], "error")))],
         in |-> Count("inputTokens"), out |-> Count("outputTokens"),
         reason |-> Count("reasoningTokens")]
\* A final block that says nothing gives way to the choices, if there are any.
AnswerOf(v, final, call) ==
    IF Speaks(final) \/ final.in > 0 \/ final.out > 0 \/ ~HasChoice(v) THEN final
    ELSE [payloadFromChoices(v) EXCEPT !.model = firstNonEmpty(call.model, @),
                                       !.duration = call.duration]
decodeResponse(data, call) ==
    IF data.value[1] # "obj" THEN call
    ELSE With(call, AnswerOf(data.value, FinalOf(Field(data.value, "final")), call))
decodeMeta(data, call) ==
    IF data.value[1] # "obj" THEN call
    ELSE [call EXCEPT !.duration = int64Any(Field(data.value, "durationMs"))]

DecodedCall(buf) ==
    decodeMeta(buf.meta, decodeResponse(buf.resp,
        decodeRequest(buf.req, Call(buf.log, buf.start, buf.end))))

----------------------------------------------------------------------------
\* Rounds

NewRound(prompt, user) ==
    [prompt |-> prompt, user |-> user, start |-> 0, end |-> 0, calls |-> <<>>,
     in |-> 0, out |-> 0, reason |-> 0]
\* Mistake: a round keeps the start of the call that opened it.
JoinedAfter(round, call) ==
    [round EXCEPT
        !.start = IF @ = 0 THEN call.start ELSE @,
        !.end = IF call.end > @ THEN call.end ELSE @,
        !.calls = Append(@, call),
        !.in = @ + call.in, !.out = @ + call.out, !.reason = @ + call.reason]
Joined(round, call) ==
    [round EXCEPT
        !.start = IF @ = 0 \/ (call.start > 0 /\ call.start < @) THEN call.start ELSE @,
        !.end = IF call.end > @ THEN call.end ELSE @,
        !.calls = Append(@, call),
        !.in = @ + call.in, !.out = @ + call.out, !.reason = @ + call.reason]

\* Mistake: only the last round is looked at for the prompt id.
RoundAtLast(rounds, prompt) ==
    IF rounds # <<>> /\ Last(rounds).prompt = prompt THEN Len(rounds) ELSE Len(rounds) + 1
\* The place of the round of a prompt id, behind all others if there is none.
RoundAt(rounds, prompt) ==
    Min({i \in DOMAIN rounds : rounds[i].prompt = prompt} \cup {Len(rounds) + 1})

\* The rounds with a call added at a place, where a round is opened if need be.
WithCallAt(rounds, i, prompt, call) ==
    LET Asked(round) == [round EXCEPT !.user = firstNonEmpty(@, extractUserPrompt(call.messages))]
        known == IF i \in DOMAIN rounds THEN rounds
                 ELSE Append(rounds, NewRound(prompt, <<>>))
    IN  [known EXCEPT ![i] = Joined(Asked(@), call)]
(* A call joins the round of its prompt id, or opens it. Without request   *)
(* and answer it is noise.                                                 *)
AddCall(rounds, buf) ==
    IF ~Present(buf.req) /\ ~Present(buf.resp) THEN rounds
    ELSE WithCallAt(rounds, RoundAt(rounds, buf.prompt), buf.prompt, DecodedCall(buf))
RoundsOf(bufs) == FoldLeft(AddCall, <<>>, bufs)

FirstSession(events) ==
    LET known == {i \in DOMAIN events : events[i].session # ""}
    IN  IF known = {} THEN "" ELSE events[Min(known)].session

(* The events of one log id at once: the first prompt id, the earliest and *)
(* latest time, the last data of each kind.                                *)
Grouped(mine, log) ==
    LET times == {mine[i].ts : i \in DOMAIN mine} \ {0}
        Bound(t) == IF times = {} THEN 0 ELSE t
        LastData(types) ==
            LET found == {i \in DOMAIN mine : mine[i].type \in types}
            IN  IF found = {} THEN NoBytes ELSE mine[Max(found)].data
    IN  [log |-> log, prompt |-> mine[1].prompt,
         start |-> Bound(Min(times)), end |-> Bound(Max(times)),
         req |-> LastData({"REQUEST_BODY"}),
         resp |-> LastData({"RESPONSE_BODY_FINAL", "RESPONSE_BODY"}),
         meta |-> LastData({"RESPONSE_META"})]
LogsOf(events) ==
    FoldLeft(LAMBDA seen, ev : IF Contains(seen, ev.log) THEN seen ELSE Append(seen, ev.log),
             <<>>, events)
RoundsOfLogs(events, logs) ==
    RoundsOf([i \in DOMAIN logs |->
        Grouped(Filtered(events, LAMBDA ev : ev.log = logs[i]), logs[i])])
StructuredRounds(events) ==
    LET known == Filtered(events, LAMBDA ev : ev.log # "" /\ ev.prompt # "")
    IN  RoundsOfLogs(known, LogsOf(known))

\* sort.Slice by start, which keeps the order of equals in lists this short.
SortedByStart(rounds) ==
    LET Before(i, j) == \/ rounds[i].start < rounds[j].start
                        \/ rounds[i].start = rounds[j].start /\ i < j
        Rank(i) == Cardinality({j \in DOMAIN rounds : Before(j, i)}) + 1
    IN  [k \in DOMAIN rounds |-> rounds[CHOOSE i \in DOMAIN rounds : Rank(i) = k]]
=============================================================================
