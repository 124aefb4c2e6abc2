---------------------------- MODULE TraceFormats ----------------------------
(***************************************************************************)
(* The other log formats of tracelog/parser.go: events that wrap response  *)
(* items, arrays of anything that looks like a conversation, and the Neeko *)
(* log without ids; and Parse, which tries one format after the other.     *)
(***************************************************************************)
EXTENDS TraceParser

CONSTANTS
    Value,    \* the JSON values that occur in files, with all their parts
    Depth(_)  \* how deep a value is nested

\* Numbers are counts, times and durations.
ASSUME ValueAssumption ==
    /\ Null \in Value
    /\ \A v \in Value :
          /\ v[1] \in {"null", "str", "num", "arr", "obj"}
          /\ v[1] = "str" => v[2] \in Seq(STRING)
          /\ v[1] = "num" => v[2] \in Nat
          /\ v[1] = "arr" => v[2] \in Seq(Value)
          /\ v[1] = "obj" => DOMAIN v[2] \subseteq STRING /\ v[2] \in [DOMAIN v[2] -> Value]
          /\ Depth(v) \in Nat
          /\ v[1] \in {"arr", "obj"} => \A k \in DOMAIN v[2] : Depth(v[2][k]) < Depth(v)

\* The values of a map in the order Go happens to visit them.
ValuesAt(fields, present) == [i \in DOMAIN present |-> fields[present[i]]]
Children(v, keys) ==
    ValuesAt(Fields(v), Filtered(keys, LAMBDA key : key \in DOMAIN Fields(v)))
\* What a search goes into: the values of a map, the elements of a list.
Parts(v, keys) == IF v[1] = "obj" THEN Children(v, keys) ELSE Items(v)

\* What a value itself holds, or else the first of its parts that has it.
FirstFound(Own(_), v, keys) ==
    LET search[w \in Value] ==
            LET parts == Parts(w, keys)
            IN  firstNonEmpty(Own(w), FirstOf([i \in DOMAIN parts |-> search[parts[i]]]))
    IN  search[v]

\* What a message of the user says.
UserContent(msg) ==
    IF stringAny(Field(msg, "role")) = <<"user">> THEN contentStringAny(Field(msg, "content"))
    ELSE <<>>
LastUserContent(v) ==
    LET msgs == Items(Field(v, "messages"))
    IN  LastOf([i \in DOMAIN msgs |-> UserContent(msgs[i])])

PromptKeys == <<"user_prompt", "userPrompt", "prompt", "query", "input">>
PromptOf(v) ==
    FirstOf(<<LastUserContent(v)>>
            \o [i \in DOMAIN PromptKeys |-> contentStringAny(Field(v, PromptKeys[i]))]
            \o <<UserContent(v)>>)
extractPromptFromValue(v, keys) == FirstFound(PromptOf, v, keys)

Turn(prompt, payload) == [prompt |-> prompt, payload |-> payload]
turnsFromMessages(msgs) ==
    LET Answer(acc, payload) ==
            IF Speaks(payload)
            THEN [acc EXCEPT !.turns = Append(@, Turn(acc.prompt, payload))] ELSE acc
        Step(acc, msg) ==
            LET role == stringAny(Field(msg, "role"))
            IN  CASE role = <<"user">> ->
                        [acc EXCEPT !.prompt = firstNonEmpty(UserContent(msg), @)]
                  [] role \in Assistants -> Answer(acc, payloadFromMessageMap(msg))
                  [] OTHER -> acc
    IN  FoldLeft(Step, [prompt |-> <<>>, turns |-> <<>>], msgs).turns

\* The turns of the messages of a value, of a choice in it, or of its parts.
extractConversationTurns(v, keys) ==
    LET search[w \in Value] ==
            LET parts == Parts(w, keys)
                Other == IF HasChoice(w)
                         THEN <<Turn(extractPromptFromValue(w, keys), payloadFromChoices(w))>>
                         ELSE FlattenSeq([i \in DOMAIN parts |-> search[parts[i]]])
            IN  firstNonEmpty(turnsFromMessages(Items(Field(w, "messages"))), Other)
    IN  search[v]

\* At most one payload, as a sequence: an empty one is Go's false.
PayloadOf(v) ==
    LET Spoken(payload) == IF Speaks(payload) THEN <<payload>> ELSE <<>>
        choice == IF HasChoice(v) THEN <<payloadFromChoices(v)>> ELSE <<>>
        message == IF stringAny(Field(v, "role")) \in Assistants
                   THEN Spoken(payloadFromMessageMap(v)) ELSE <<>>
    IN  FirstOf(<<choice, message, Spoken(payloadFromSimpleMap(v))>>)
extractAssistantPayload(v, keys) == FirstFound(PayloadOf, v, keys)

UserMessage(text) ==
    IF text = <<>> THEN <<>> ELSE <<[role |-> <<"user">>, content |-> Str(text)]>>
\* A round of one call.
SingleRound(prompt, user, call) ==
    Joined(NewRound(prompt, user), [call EXCEPT !.messages = UserMessage(user)])

----------------------------------------------------------------------------
\* Events whose data is a list of response items

Remembered(seen, id) == IF id = <<>> \/ Contains(seen, id) THEN seen ELSE Append(seen, id)
TextAt(texts, id) == IF id \in DOMAIN texts THEN texts[id] ELSE <<>>

WithTextAt(acc, id, text) ==
    [acc EXCEPT !.seen = Remembered(@, id), !.texts = Over([i \in {id} |-> text], @)]

\* A message or a tool call; an answer's id counts as one that has a text.
WithItem(acc, raw) ==
    [acc EXCEPT !.payload = WithOutputItem(@, raw),
                !.seen = IF isOutputMessage(raw)
                         THEN Remembered(@, stringAny(firstAny(raw, <<"id", "item_id">>)))
                         ELSE @]
WithTimes(acc, created, completed) ==
    [acc EXCEPT !.start = IF @ = 0 \/ (created > 0 /\ created < @) THEN created ELSE @,
                !.end = IF completed > @ THEN completed ELSE @]
WithResponse(acc, resp) ==
    LET Ms(key) == int64Any(Field(resp, key)) * 1000
    IN  [WithTimes(acc, Ms("created_at"), Ms("completed_at")) EXCEPT
            !.id = firstNonEmpty(@, stringAny(Field(resp, "id"))),
            !.payload = mergeAssistantPayload(@, payloadFromResponseMap(resp))]

\* What one item adds to a round under construction.
TypedStep(acc, item, type, id) ==
    LET Text(key) == stringAny(Field(item, key))
    IN  CASE type \in ItemEnds /\ DOMAIN Fields(Field(item, "item")) # {} ->
                WithItem(acc, Field(item, "item"))
          [] type = <<"response.output_text.delta">> ->
                WithTextAt(acc, id, TextAt(acc.texts, id) \o Text("delta"))
          [] type = <<"response.output_text.done">> ->
                WithTextAt(acc, id, firstNonEmpty(Text("text"), TextAt(acc.texts, id)))
          [] type = <<"response.completed">> /\ DOMAIN Fields(Field(item, "response")) # {} ->
                WithResponse(acc, Field(item, "response"))
          [] OTHER -> acc
ItemStep(acc, item, keys) ==
    TypedStep([acc EXCEPT !.user = firstNonEmpty(@, extractPromptFromValue(item, keys))],
              item, stringAny(Field(item, "type")),
              stringAny(firstAny(item, <<"item_id", "itemId">>)))

\* The text pieced together from deltas, for want of one in a message.
PiecedText(acc) ==
    firstNonEmpty(FlattenSeq([i \in DOMAIN acc.seen |-> TextAt(acc.texts, acc.seen[i])]),
                  TextAt(acc.texts, <<>>))

\* At most one round, as a sequence: an empty one is Go's nil.
RoundOfItems(acc, payload, idx) ==
    LET prompt == IF acc.id # <<>> THEN Head(acc.id) ELSE "responses-" \o ToString(idx)
        start == firstNonZero(acc.start, idx * 1000)
        end == Max({start, acc.end})
        timed == [payload EXCEPT !.duration = firstNonZero(@, end - start)]
    IN  IF ~Speaks(payload) THEN <<>>
        ELSE <<SingleRound(prompt, acc.user, With(Call(prompt, start, end), timed))>>
WithPiecedText(acc) ==
    [acc EXCEPT !.payload.text = firstNonEmpty(@, PiecedText(acc))]
buildRoundFromResponseItems(ev, items, idx, keys) ==
    LET Step(acc, item) == ItemStep(acc, item, keys)
        Done(acc) == RoundOfItems(acc, acc.payload, idx)
    IN  Done(WithPiecedText(
            FoldLeft(Step, [id |-> <<>>, user |-> <<>>, payload |-> NoPayload,
                            texts |-> [i \in {} |-> <<>>], seen |-> <<>>,
                            start |-> ev.ts, end |-> ev.ts], items)))

\* The rounds of all such events, and the session of the first that has one.
parseResponsesWrappedEvents(events, keys) ==
    LET OneOf(i) ==
            LET items == Items(events[i].data.value)
            IN  IF items = <<>> \/ \E j \in DOMAIN items : items[j][1] # "obj" THEN <<>>
                ELSE buildRoundFromResponseItems(events[i], items, i, keys)
    IN  [session |-> FirstSession(events),
         rounds |-> SortedByStart(FlattenSeq([i \in DOMAIN events |-> OneOf(i)]))]

\* One parse, or the other when the first finds nothing.
Preferring(first, other) == IF first.rounds # <<>> THEN first ELSE other
parseStructuredEvents(events, keys) ==
    LET structured == [session |-> FirstSession(events), rounds |-> StructuredRounds(events)]
    IN  Preferring(structured, Preferring(parseResponsesWrappedEvents(events, keys),
                                          [structured EXCEPT !.rounds = <<>>]))

----------------------------------------------------------------------------
(* An array of maps in which nothing but turns of a conversation can be    *)
(* found. An element is an event with the keys the events do not have.     *)

ItemOf(ev) == Obj(Over([data |-> ev.data.value], ev.rest))

\* The search of the data, then of the whole element.
TurnsIn(ev, keys) ==
    FirstOf(<<extractConversationTurns(ev.data.value, keys),
              extractConversationTurns(ItemOf(ev), keys)>>)
PromptIn(ev, keys) ==
    FirstOf(<<extractPromptFromValue(ev.data.value, keys),
              extractPromptFromValue(ItemOf(ev), keys)>>)
PayloadIn(ev, keys) ==
    FirstOf(<<extractAssistantPayload(ev.data.value, keys),
              extractAssistantPayload(ItemOf(ev), keys)>>)

(* The turns of an element and the prompt it announces; announcement and   *)
(* answer are looked for only if it holds no turns.                        *)
Answering(prompt, payload) ==
    [prompt |-> prompt,
     turns |-> IF payload = <<>> THEN <<>> ELSE <<Turn(prompt, payload[1])>>]
Saying(turns, ev, prompt, keys) ==
    IF turns # <<>> THEN [prompt |-> prompt, turns |-> turns]
    ELSE Answering(firstNonEmpty(PromptIn(ev, keys), prompt), PayloadIn(ev, keys))

FallbackCall(id, start, payload) ==
    With(Call(id, start, start + Max({payload.duration, 1})),
         [payload EXCEPT !.duration = 0])

\* A turn without a prompt answers the one before.
WithTurn(acc, turn, id, start) ==
    LET user == firstNonEmpty(turn.prompt, acc.prompt)
    IN  [prompt |-> user,
         rounds |-> Append(acc.rounds,
            SingleRound(id, user, FallbackCall(id, start, turn.payload)))]
FallbackStep(rounds, said, ts, idx) ==
    LET TurnStep(acc, ti) ==
            WithTurn(acc, said.turns[ti],
                     "fallback-" \o ToString(idx) \o "-" \o ToString(ti), ts + ti - 1)
    IN  FoldLeftDomain(TurnStep, [prompt |-> said.prompt, rounds |-> rounds], said.turns)
parseJSONArrayFallback(events, keys) ==
    LET Step(acc, i) ==
            FallbackStep(acc.rounds,
                         Saying(TurnsIn(events[i], keys), events[i], acc.prompt, keys),
                         firstNonZero(events[i].ts, i * 1000), i)
    IN  [session |-> FirstSession(events),
         rounds |-> SortedByStart(FoldLeftDomain(Step, [prompt |-> <<>>, rounds |-> <<>>],
                                                 events).rounds)]

----------------------------------------------------------------------------
\* The Neeko log: a request and the stream that answers it, without ids

isNeekoResponsesLog(events) ==
    {"REQUEST_BODY", "STREAM_RESPONSE"} \subseteq {events[i].type : i \in DOMAIN events}

NeekoMessages(v) ==
    IF ~BodyFits(v) THEN <<>>
    ELSE MessagesIn(firstNonEmpty(Items(Field(v, "input")), Items(Field(v, "messages"))))
NeekoModel(v) == IF BodyFits(v) THEN stringAny(Field(v, "model")) ELSE <<>>
NeekoPrompt(msgs) ==
    firstNonEmpty(LastUserText(msgs, neekoContentText), extractUserPrompt(msgs))

\* What one chunk of a stream adds to a call.
Reporting(call, body, usage) ==
    [With(call, IF Counted(usage) THEN usage ELSE [in |-> call.in]) EXCEPT
        !.model = firstNonEmpty(@, stringAny(firstAny(body, <<"model", "model_name">>)))]
Telling(call, payload) ==
    [call EXCEPT !.text = firstNonEmpty(@, payload.text),
                 !.reasoning = firstNonEmpty(@, payload.reasoning),
                 !.tools = firstNonEmpty(@, payload.tools)]
ChunkStep(call, chunk) ==
    LET completed == stringAny(Field(chunk, "type")) = <<"response.completed">>
        body == IF completed THEN Field(chunk, "response") ELSE chunk
        reported == Reporting(call, body, extractUsage(body))
    IN  IF completed
        THEN IF DOMAIN Fields(body) = {} THEN call
             ELSE Telling(reported, payloadFromResponseMap(body))
        ELSE IF Field(chunk, "usage") = Null THEN call ELSE reported
decodeNeekoStream(v, call) ==
    LET id == stringAny(Field(v, "logId"))
        named == [call EXCEPT !.log = IF @ # "" \/ id = <<>> THEN @ ELSE Head(id),
                              !.duration = int64Any(Field(v, "durationMs"))]
    IN  IF v[1] # "obj" THEN call
        ELSE [FoldLeft(ChunkStep, named, Items(Field(v, "allChunks")))
              EXCEPT !.text = firstNonEmpty(@, stringAny(Field(v, "finalContent")))]

Started(call, start) == [call EXCEPT !.start = start, !.end = start + call.duration]
NeekoCall(model, msgs, reqTs, data, ts) ==
    Started(decodeNeekoStream(data.value, [Call("", reqTs, 0) EXCEPT !.model = model,
                                                                     !.messages = msgs]),
            firstNonZero(reqTs, ts))

\* Calls that follow one another on the same question are one round.
WithNeekoCall(rounds, user, call) ==
    IF rounds # <<>> /\ (user = <<>> \/ Last(rounds).user = user)
    THEN [rounds EXCEPT ![Len(rounds)] = Joined(@, call)]
    ELSE Append(rounds, Joined(NewRound("round-" \o ToString(Len(rounds) + 1), user), call))
Asking(rounds, model, msgs, reqTs, data, ts) ==
    WithNeekoCall(rounds, NeekoPrompt(msgs), NeekoCall(model, msgs, reqTs, data, ts))
\* The pending request, if any, with the stream that ends its wait.
flushPair(acc, data, ts) ==
    IF ~Present(acc.req) THEN acc.rounds
    ELSE Asking(acc.rounds, NeekoModel(acc.req.value), NeekoMessages(acc.req.value),
                acc.ts, data, ts)

\* Mistake: a request that is not answered is forgotten.
NeekoStepForgets(acc, ev) ==
    CASE ev.type = "REQUEST_BODY" -> [acc EXCEPT !.req = ev.data, !.ts = ev.ts]
      [] ev.type = "STREAM_RESPONSE" ->
            [rounds |-> flushPair(acc, ev.data, ev.ts), req |-> NoBytes, ts |-> 0]
      [] OTHER -> acc

\* A request waits for its stream; another request ends the wait.
NeekoStep(acc, ev) ==
    CASE ev.type = "REQUEST_BODY" ->
            [rounds |-> flushPair(acc, NoBytes, 0), req |-> ev.data, ts |-> ev.ts]
      [] ev.type = "STREAM_RESPONSE" ->
            [rounds |-> flushPair(acc, ev.data, ev.ts), req |-> NoBytes, ts |-> 0]
      [] OTHER -> acc
\* The end of the log ends the wait of the last request.
parseNeekoResponsesLog(events) ==
    [session |-> "",
     rounds |-> flushPair(FoldLeft(NeekoStep, [rounds |-> <<>>, req |-> NoBytes, ts |-> 0],
                                   events), NoBytes, 0)]

----------------------------------------------------------------------------
(* Parse. The lines of a file are events or Broken; a file may also be one *)
(* array, followed by noise.                                               *)
CONSTANT Broken

Intact(lines) == Filtered(lines, LAMBDA line : line # Broken)
\* Elements up to the first broken one; all or nothing is the strict decoder.
BeforeBroken(lines) ==
    SubSeq(lines, 1, Min({i \in DOMAIN lines : lines[i] = Broken} \cup {Len(lines) + 1}) - 1)

NoRounds == [session |-> "", rounds |-> <<>>]
NeekoParse(events) ==
    IF isNeekoResponsesLog(events) THEN parseNeekoResponsesLog(events) ELSE NoRounds
ParseEvents(events, keys) ==
    Preferring(NeekoParse(events), parseStructuredEvents(events, keys))
ParseLines(lines, keys) == ParseEvents(Intact(lines), keys)
\* Without rounds an array that is whole is searched once more.
ParseArray(lines, noise, keys) ==
    LET events == BeforeBroken(lines)
        Other(first) == IF events # lines \/ noise THEN first
                        ELSE Preferring(parseJSONArrayFallback(events, keys), first)
        Parsed(first) == IF first.rounds # <<>> THEN first ELSE Other(first)
    IN  Parsed(ParseEvents(events, keys))
=============================================================================
