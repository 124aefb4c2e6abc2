--------------------------- MODULE MCTraceParsing ---------------------------
(***************************************************************************)
(* Instances of TraceParsing: files of at most MaxLines lines, arrays of   *)
(* at most MaxElements elements. A file is made of the events of one       *)
(* family, so that the events that matter to each other meet in every      *)
(* order.                                                                  *)
(***************************************************************************)
EXTENDS SessionBundles

CONSTANTS MaxLines, MaxElements

VARIABLE family
mcvars == <<vars, family>>

Text(words) == Str(words)
Msg(role, content) == Obj([role |-> Text(<<role>>), content |-> content])
Data(n, v) == [size |-> n, value |-> v]
NoRest == [k \in {} |-> Null]
Ev(type, ts, log, prompt, data) ==
    [type |-> type, ts |-> ts, session |-> IF ts = 2 THEN "s" ELSE "", log |-> log,
     prompt |-> prompt, data |-> data, rest |-> NoRest]

Asks(n, words) == Data(n, Obj([model |-> Text(<<"m">>),
                               messages |-> Arr(<<Msg("user", Text(words))>>)]))
\* Ends with a list of texts, which are no parts and have no content.
AsksMixed(n, words) == Data(n, Obj([model |-> Text(<<"m">>), messages |-> Arr(<<
    Msg("user", Text(words)), Msg("user", Arr(<<Text(<<"q1">>)>>))>>)]))
AsksInput(n, words) == Data(n, Obj([body |-> Obj([input |-> Arr(<<
    Msg("user", Arr(<<Obj([text |-> Text(words)])>>)), Msg("assistant", Text(<<"a">>))>>)])]))
Final(n, words) == Data(n, Obj([final |-> Obj([text |-> Text(words),
    usage |-> Obj([inputTokens |-> Num(n), outputTokens |-> Num(1)])])]))
Choice(n) == Data(n, Obj([model |-> Text(<<"c">>), usage |-> Obj([prompt_tokens |-> Num(n)]),
    choices |-> Arr(<<Obj([message |-> Msg("assistant", Text(<<"a">>))])>>)]))
Meta == Data(1, Obj([durationMs |-> Num(7)]))

\* Calls with ids, whose events arrive in any order and more than once.
Structures == {
    Ev("REQUEST_BODY", 3, "l1", "p1", Asks(2, <<"q1">>)),
    Ev("RESPONSE_BODY_FINAL", 2, "l1", "p1", Final(2, <<"a">>)),
    Ev("RESPONSE_BODY", 1, "l2", "p1", Choice(1)),
    Ev("REQUEST_BODY", 0, "l2", "p2", AsksInput(1, <<"q2">>)),
    Ev("RESPONSE_BODY", 4, "l3", "p1", Choice(2)),
    Ev("RESPONSE_META", 2, "l1", "p1", Meta),
    Ev("REQUEST_BODY", 2, "", "p1", Asks(1, <<"q1">>))}

\* Data of which little fits, replaced by more and by less.
Sizes == {
    Ev("REQUEST_BODY", 1, "l1", "p1", Asks(4, <<"q1">>)),
    Ev("REQUEST_BODY", 1, "l1", "p1", Asks(1, <<"q1">>)),
    Ev("RESPONSE_BODY", 1, "l1", "p1", NoBytes),
    Ev("RESPONSE_BODY", 3, "l2", "p2", Final(3, <<"a">>)),
    Ev("", 1, "", "", Data(2, Arr(<<Obj([type |-> Text(<<"response.output_text.done">>),
        item_id |-> Text(<<"i">>), text |-> Text(<<"t">>)])>>)))}

\* Questions among what the framework writes into user messages.
Questions == {Ev("REQUEST_BODY", 1, "l1", "p1", Asks(1, words)) : words \in {
    <<"<reminder>", "x", "</ctx>", "q1", "</ctx>", "q2">>,
    <<"<ctx>", "synthetic", "</ctx>", "q1", "{qa}">>,
    <<"{qa}">>, <<"title">>, <<"<reminder>", "q1">>, <<"task", "objective", "q1">>,
    <<"query:", "q1", "batch:", "synthetic">>, <<"x", "synthetic">>}}
    \cup {Ev("STREAM_RESPONSE", 2, "", "", Data(1, Obj([finalContent |-> Text(<<"a">>)])))}

Chunks(n) == Arr(<<
    Obj([usage |-> Obj([prompt_tokens |-> Num(n)]), model |-> Text(<<"c">>)]),
    Obj([type |-> Text(<<"response.completed">>), response |-> Obj([
        usage |-> Obj([input_tokens |-> Num(n + 1)]),
        output |-> Arr(<<Msg("assistant", Text(<<"a">>)),
                         Obj([type |-> Text(<<"tool_call">>), name |-> Text(<<"t">>)])>>)])])>>)
\* Requests and streams without ids.
Neeko == {
    Ev("REQUEST_BODY", 1, "", "", Asks(1, <<"q1">>)),
    Ev("REQUEST_BODY", 0, "", "", AsksMixed(1, <<"q2">>)),
    Ev("REQUEST_BODY", 2, "", "", Asks(1, <<"synthetic">>)),
    Ev("REQUEST_BODY", 2, "", "", NoBytes),
    Ev("STREAM_RESPONSE", 3, "", "", Data(1, Obj([durationMs |-> Num(4), allChunks |-> Chunks(2)]))),
    Ev("STREAM_RESPONSE", 3, "l1", "p1", Data(1, Text(<<"x">>)))}

Items1 == Arr(<<
    Obj([type |-> Text(<<"response.output_text.delta">>), item_id |-> Text(<<"i">>),
         delta |-> Text(<<"t">>)]),
    Obj([type |-> Text(<<"response.output_item.done">>), item |-> Obj([
         type |-> Text(<<"function_call">>), name |-> Text(<<"f">>)])]),
    Obj([type |-> Text(<<"response.completed">>), response |-> Obj([
         id |-> Text(<<"r1">>), created_at |-> Num(1), completed_at |-> Num(2),
         input |-> Text(<<"q1">>)])])>>)
Items2 == Arr(<<
    Obj([type |-> Text(<<"response.output_item.added">>), item |-> Obj([
         type |-> Text(<<"message">>), role |-> Text(<<"user">>),
         content |-> Text(<<"q2">>)])]),
    Obj([type |-> Text(<<"response.output_item.done">>), item |-> Obj([id |-> Text(<<"i">>),
         type |-> Text(<<"message">>), role |-> Text(<<"assistant">>),
         content |-> Arr(<<Obj([text |-> Text(<<"a">>)])>>)])])>>)
Talk == Obj([messages |-> Arr(<<Msg("user", Text(<<"q1">>)), Msg("model", Text(<<"a">>)),
                                Msg("user", Text(<<"q2">>)), Msg("assistant", Text(<<"b">>))>>)])
\* Events that wrap items, and elements that only look like a conversation.
Wrapped == {
    Ev("", 3, "", "", Data(3, Items1)), Ev("", 1, "", "", Data(1, Items2)),
    Ev("", 0, "l1", "p1", Data(1, Items2)),
    Ev("RESPONSE_META", 2, "l1", "p1", Meta),
    Ev("", 2, "", "", Data(2, Talk)),
    [Ev("", 1, "", "", NoBytes) EXCEPT !.rest =
        [role |-> Text(<<"assistant">>), content |-> Text(<<"a">>)]],
    [Ev("", 0, "", "", NoBytes) EXCEPT !.rest =
        [role |-> Text(<<"user">>), content |-> Text(<<"q3">>)]]}

Asks2(own) == Data(1, Obj([model |-> Text(<<"m">>), messages |-> Arr(<<
    Msg("user", Text(<<"q1">>)), Msg("user", Arr(<<Text(<<own>>)>>))>>)]))
Answer(n, text, reasoning, tools) == Data(1, Obj([final |-> Obj([
    text |-> Text(text), reasoning |-> Text(reasoning), tools |-> Arr(tools),
    usage |-> Obj([inputTokens |-> Num(n)])])]))
Uses(name, path, error) == Obj([tool |-> Text(name), error |-> Text(error),
    input |-> Obj([path |-> Text(path)])])
\* Sessions that loop, fail, take long, read much, idle or leave things behind.
Sessions == {
    Ev("REQUEST_BODY", 1000, "l1", "p1", Asks(1, <<"q1">>)),
    Ev("REQUEST_BODY", 2000, "l2", "p1", Asks2("retry")),
    Ev("RESPONSE_BODY_FINAL", 3000, "l1", "p1", Answer(9, <<"plan", "1.", "2.">>, <<>>, <<>>)),
    Ev("RESPONSE_BODY_FINAL", 99000, "l2", "p1", Answer(9, <<"page">>, <<>>, <<>>)),
    Ev("RESPONSE_BODY_FINAL", 399000, "l3", "p1", Answer(400000, <<"a">>, <<"r">>,
        [i \in 1..3 |-> Uses(<<"write">>, <<"tmp">>, <<"e">>)])),
    Ev("RESPONSE_BODY_FINAL", 5000, "l3", "p1", Answer(9, <<>>, <<"r">>,
        [i \in 1..3 |-> Uses(<<"write">>, <<"tmp">>, <<>>)])),
    Ev("RESPONSE_BODY_FINAL", 4000, "l4", "p1", Answer(9, <<>>, <<>>,
        <<Uses(<<"read">>, <<"a">>, <<>>), Uses(<<"rm">>, <<"a">>, <<"e">>),
          Uses(<<"read">>, <<"b">>, <<>>), Uses(<<"list">>, <<>>, <<>>)>>)),
    Ev("RESPONSE_BODY_FINAL", 6000, "l5", "p2", Answer(99000, <<>>, <<>>, <<>>)),
    Ev("RESPONSE_BODY_FINAL", 7000, "l6", "p2", Answer(0, <<>>, <<"book">>, <<>>)),
    Ev("RESPONSE_BODY_FINAL", 7000, "l7", "p1", Answer(0, <<>>, <<"r">>, <<>>))}

Families == {Structures, Sizes, Questions, Neeko, Wrapped, Sessions}
MCEvent == UNION Families
MCPayload == {ev.data : ev \in MCEvent} \cup {NoBytes}
MCNoData == NoBytes

RECURSIVE Nested(_), MCDepth(_)
PartsOf(v) == IF v[1] \in {"arr", "obj"} THEN {v[2][k] : k \in DOMAIN v[2]} ELSE {}
Nested(v) == {v} \cup UNION {Nested(w) : w \in PartsOf(v)}
MCDepth(v) == Max({0} \cup {MCDepth(w) + 1 : w \in PartsOf(v)})
MCValue == {Null} \cup UNION {Nested(ItemOf(ev)) : ev \in MCEvent}
MCKeyOrders == LET keys == <<"messages", "content", "data", "item", "response", "output",
                             "choices", "message", "body", "final", "text", "role", "type",
                             "input", "usage", "delta", "id", "model">>
               IN  {keys, Reverse(keys)}

MCInit == Init /\ family \in Families
MCNext ==
    /\ phase = "reading" =>
          \/ Len(lines) < (IF form = "lines" THEN MaxLines ELSE MaxElements)
          \/ lines' = lines
    /\ \/ \E ev \in family : ReadLine(ev) \/ ReadElement(ev)
       \/ ReadBrokenLine \/ ReadBrokenElement
       \/ FinishLines \/ FinishArray
    /\ UNCHANGED family
MCSpec == MCInit /\ [][MCNext]_mcvars
=============================================================================
