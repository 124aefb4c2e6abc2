--------------------------- MODULE SessionBundles ---------------------------
(***************************************************************************)
(* What the pages show of a parsed session: the spans of its rounds, the   *)
(* five rules (deriveSessionSignals in handler.go) and the score with its  *)
(* five axes (efficiency_scores.go). Rules and score are computed apart    *)
(* from each other from the same spans.                                    *)
(*                                                                         *)
(* Times are milliseconds. Texts are sequences of words as in TraceValues; *)
(* "page" and "book" stand for texts of 5000 and 13000 bytes, any other    *)
(* word for one byte. "retry" is a phrase of the framework that only this  *)
(* package knows. The input of a tool is flat: a text or an object of      *)
(* texts.                                                                  *)
(***************************************************************************)
EXTENDS TraceParsing

Round(p, q) == (2 * p + q) \div (2 * q)
Clamp(n) == Min({n, 100})

----------------------------------------------------------------------------
\* Spans

assembleModelOutput(call) ==
    [text |-> call.text, reasoning |-> call.reasoning, tools |-> call.tools]
Silent(output) == output.text = <<>> /\ output.reasoning = <<>> /\ output.tools = <<>>

\* The first call of a round shows the question instead of its messages.
InputOf(round, ci) ==
    IF ci > 1 \/ round.user = <<>> THEN round.calls[ci].messages ELSE <<>>
DurationOf(call) ==
    IF call.duration = 0 /\ call.end > call.start THEN call.end - call.start
    ELSE call.duration

ModelSpan(round, ci) ==
    LET call == round.calls[ci]
    IN  [type |-> "model", id |-> <<round.prompt, ci>>, parent |-> <<round.prompt>>,
         name |-> call.model, start |-> call.start, duration |-> DurationOf(call),
         failed |-> FALSE, input |-> InputOf(round, ci), output |-> assembleModelOutput(call)]
\* Mistake: a tool hangs below its round instead of the call that asked for it.
ToolSpanOfRound(round, ci, ti) ==
    LET call == round.calls[ci]
        tool == call.tools[ti]
    IN  [type |-> "tool", id |-> <<round.prompt, ci, ti>>, parent |-> <<round.prompt>>,
         name |-> tool.tool, start |-> call.start, duration |-> 0,
         failed |-> tool.failed, input |-> tool.input]
ToolSpan(round, ci, ti) ==
    LET call == round.calls[ci]
        tool == call.tools[ti]
    IN  [type |-> "tool", id |-> <<round.prompt, ci, ti>>, parent |-> <<round.prompt, ci>>,
         name |-> tool.tool, start |-> call.start, duration |-> 0,
         failed |-> tool.failed, input |-> tool.input]
buildSpansFromRound(round) ==
    FlattenSeq([ci \in DOMAIN round.calls |->
        <<ModelSpan(round, ci)>>
        \o [ti \in DOMAIN round.calls[ci].tools |-> ToolSpan(round, ci, ti)]])

SpansOf(rounds, type) ==
    SortedByStart(Filtered(
        FlattenSeq([i \in DOMAIN rounds |-> buildSpansFromRound(rounds[i])]),
        LAMBDA sp : sp.type = type))
getModelSpansForBundle(rounds) == SpansOf(rounds, "model")
getToolSpansForBundle(rounds) == SpansOf(rounds, "tool")

\* The longest run of neighbours that fit to the first of them.
LongestRun(seq, Fits(_, _)) ==
    LET Runs(i) == {j \in i..Len(seq) : \A k \in i..j : Fits(seq[i], seq[k])}
    IN  Max({0} \cup UNION {{j - i + 1 : j \in Runs(i)} : i \in DOMAIN seq})
SameCall(a, b) == a.name = b.name /\ a.input = b.input
repeatedToolRun(tools) == LongestRun(tools, SameCall)

----------------------------------------------------------------------------
\* Texts

messageContentToText(v) ==
    LET TextOf(part) ==
            LET text == IF part[1] = "str" THEN part ELSE Field(part, "text")
            IN  IF text[1] = "str" THEN text[2] ELSE <<>>
    IN  IF v[1] = "str" THEN v[2]
        ELSE FlattenSeq([i \in DOMAIN Items(v) |-> TextOf(Items(v)[i])])
extractRawLastUserContent(msgs) ==
    LastOf([i \in DOMAIN msgs |->
        IF msgs[i].role = <<"user">> THEN messageContentToText(msgs[i].content) ELSE <<>>])

\* The copy of isSyntheticToolPrompt in this package knows more phrases.
FrameworkPrompt(text) == isSyntheticToolPrompt(text) \/ Contains(text, "retry")
\* The empty text is none of these prompts.
isSyntheticModelSpan(sp) ==
    FrameworkPrompt(stripInjectedContext(extractRawLastUserContent(sp.input)))

isControlLikePrompt(text) == text = <<"continue">>
cleanUserPrompt(text) ==
    LET Own(own) == IF isControlLikePrompt(own) \/ FrameworkPrompt(own) THEN <<>> ELSE own
    IN  Own(UserText(text))
\* Without a question the title is a number, which counts as a question.
countEffectiveRounds(rounds) ==
    Cardinality({i \in DOMAIN rounds :
        rounds[i].user = <<>> \/ cleanUserPrompt(rounds[i].user) # <<>>})

WordsIn(v) ==
    IF v[1] = "str" THEN Range(v[2])
    ELSE UNION {Range(stringAny(f)) : f \in Range(Fields(v))}
\* The text of an answer, or else the JSON it came in.
extractModelText(output) ==
    LET Args(tool) == tool.tool \o SetToSeq(WordsIn(tool.input))
    IN  CASE output.text # <<>> -> output.text
          [] Silent(output) -> <<>>
          [] OTHER -> <<"json">> \o output.reasoning
                      \o FlattenSeq([i \in DOMAIN output.tools |-> Args(output.tools[i])])
TextBytes(text) ==
    SumOf([i \in DOMAIN text |->
        CASE text[i] = "book" -> 13000 [] text[i] = "page" -> 5000 [] OTHER -> 1])

----------------------------------------------------------------------------
\* The rules

TotalDuration(rounds) ==
    SumOf([i \in DOMAIN rounds |->
        IF rounds[i].end > rounds[i].start THEN rounds[i].end - rounds[i].start ELSE 0])
TotalTokens(rounds) == SumOf([i \in DOMAIN rounds |-> rounds[i].in + rounds[i].out])

(* A call without an output has no choice: it neither prolongs nor ends an *)
(* idle streak.                                                            *)
RealModelSpans(models) == Filtered(models, LAMBDA sp : ~isSyntheticModelSpan(sp))
Heard(models) == Filtered(RealModelSpans(models), LAMBDA sp : ~Silent(sp.output))
Concludes(sp) == sp.output.text # <<>> /\ sp.output.tools = <<>>
IdlesAfter(first, sp) == sp.output.text = <<>> /\ sp.output.tools = <<>>

responseBucket(toolCalls) ==
    CASE toolCalls < 3 -> [full |-> 30, floor |-> 90]
      [] toolCalls \in 3..9 -> [full |-> 90, floor |-> 240]
      [] OTHER -> [full |-> 240, floor |-> 600]

TokensPerTurn(rounds, real) ==
    TotalTokens(rounds) \div (IF real = 0 THEN Max({1, Len(rounds)}) ELSE real)
SessionFeatures(rounds, models, tools) ==
    [toolCalls |-> Len(tools),
     uniqueTools |-> Cardinality({sp.name : sp \in Range(tools)} \ {<<>>}),
     maxSerialRun |-> repeatedToolRun(tools),
     toolFailures |-> Cardinality({i \in DOMAIN tools : tools[i].failed}),
     avgTokensPerTurn |-> TokensPerTurn(rounds, Len(RealModelSpans(models)))]

Rule(passed, label) == [passed |-> passed, label |-> label]
Answers(heard) == \E sp \in Range(heard) : Concludes(sp)
hasFinalAnswer(models) == Answers(Heard(models))
ComesToAnEnd(heard) == Answers(heard) /\ LongestRun(heard, IdlesAfter) < 3
deriveSessionSignals(rounds, models, features) ==
    <<Rule(ComesToAnEnd(Heard(models)), "no conclusion"),
      Rule(TotalDuration(rounds) \div 1000 <= responseBucket(features.toolCalls).floor, "too slow"),
      Rule(features.toolFailures = 0, "tool failure"),
      Rule(features.avgTokensPerTurn <= 76000, "context too long"),
      Rule(features.maxSerialRun < 3, "loop")>>
pickChip(rules) ==
    LET i == SelectInSeq(rules, LAMBDA rule : ~rule.passed)
    IN  IF i = 0 THEN "healthy" ELSE rules[i].label
\* No rule has this label.
hasExecutionFailureRule(rules) ==
    \E rule \in Range(rules) : ~rule.passed /\ rule.label = "execution failure"

----------------------------------------------------------------------------
\* The score

modelSignals(models, tools) ==
    LET Uses(sp) == \E tool \in Range(tools) : tool.parent = sp.id
        Says(sp) == extractModelText(sp.output) # <<>>
        Idles(first, sp) == ~Says(sp) /\ ~Uses(sp)
    IN  [final |-> \E sp \in Range(models) : Says(sp) /\ ~Uses(sp),
         noop |-> LongestRun(models, Idles)]

EditWords == {"write", "create", "edit", "rewrite", "save", "update", "append",
              "insert", "replace", "apply_patch"}
PathKeys == <<"filePath", "file_path", "path", "outputPath", "output_path", "target_path">>
toolPathFromInput(v) ==
    LET i == SelectInSeq(PathKeys, LAMBDA key : stringAny(Field(v, key)) # <<>>)
    IN  IF i = 0 THEN <<>> ELSE stringAny(Field(v, PathKeys[i]))
EditedPaths(tools) ==
    [i \in DOMAIN tools |-> IF Range(tools[i].name) \cap EditWords = {} THEN <<>>
                            ELSE toolPathFromInput(tools[i].input)]
OftenNamed(paths) ==
    \E path \in Range(paths) \ {<<>>} :
        Cardinality({i \in DOMAIN paths : paths[i] = path}) >= 3
hasRepetitiveEdits(tools) == OftenNamed(EditedPaths(tools))

StandsOut(longest, sizes) ==
    \/ longest > 12000
    \/ /\ Len(sizes) >= 3 /\ longest > 4000
       /\ longest > (SumOf(sizes) \div Len(sizes)) * 3
OneStandsOut(sizes) == sizes # <<>> /\ StandsOut(Max(Range(sizes)), sizes)
hasThinkingRedundancy(models) ==
    OneStandsOut([i \in DOMAIN models |-> TextBytes(extractModelText(models[i].output))])

\* The texts of the first three calls.
Opening(models) ==
    FlattenSeq([i \in DOMAIN models \cap 1..3 |-> extractModelText(models[i].output)])
hasPlan(models) == Contains(Opening(models), "plan")
planDeviation(models) ==
    LET Steps(text) == Cardinality({i \in DOMAIN text : text[i] \in {"1.", "2.", "3."}})
        Missed(planned) ==
            planned >= 2 /\ (Len(models) < planned \/ 2 * Len(models) > 3 * planned)
    IN  Missed(Steps(Opening(models)))

hasTestResidue(tools) ==
    LET Says(sp, words) == (Range(sp.name) \cup WordsIn(sp.input)) \cap words # {}
        last == SubSeq(tools, Max({1, Len(tools) - 2}), Len(tools))
    IN  /\ \E sp \in Range(tools) :
              /\ Says(sp, {"mkdir", "touch", "write", "create"})
              /\ Says(sp, {"tmp", "temp", "mock", "debug", "test"})
        /\ ~\E sp \in Range(last) : Says(sp, {"rm", "delete", "cleanup", "remove"})

Late(seconds, bucket) ==
    LET span == bucket.floor - bucket.full
    IN  IF seconds <= bucket.full THEN 100
        ELSE Round(100 * span - 70 * Min({seconds - bucket.full, span}), span)
If(cond, n) == IF cond THEN n ELSE 0
PenaltyOf(features, models, tools) ==
    If(features.maxSerialRun >= 3, 20) + If(hasRepetitiveEdits(tools), 20)
    + If(hasThinkingRedundancy(models), 10)
    + If(features.toolCalls >= 3 /\ ~hasPlan(models), 10)
    + If(planDeviation(models), 10) + If(hasTestResidue(tools), 5)
\* A score is capped at 50 after an execution failure.
Capped(score, rules) == IF hasExecutionFailureRule(rules) THEN Min({score, 50}) ELSE score
computeResponseScore(rounds, rules, features, models, tools) ==
    Round(4 * Capped(Late(Round(TotalDuration(rounds), 1000),
                          responseBucket(features.toolCalls)), rules)
          + 6 * (100 - PenaltyOf(features, models, tools)), 10)

computeStabilityScore(features, rules) ==
    LET kept == Round(100 * (features.toolCalls - features.toolFailures), features.toolCalls)
        lost == 5 * features.toolFailures
    IN  Capped(IF lost > kept THEN 0 ELSE kept - lost, rules)

computeThinkingScore(signals, features) ==
    100 - (IF signals.final THEN 0 ELSE 35) - Min({10 * signals.noop, 30})
        - (IF features.maxSerialRun >= 3 THEN 15 ELSE 0)

computeResourceScore(features) ==
    LET over == Max({features.avgTokensPerTurn, 76000}) - 76000
    IN  IF over >= 52000 THEN 60 ELSE Round(100 * 52000 - 40 * over, 52000)

computeOrchestrationScore(features) ==
    LET n == features.maxSerialRun
        loss == CASE n >= 7 -> 30 [] n \in 5..6 -> 20 [] n \in 3..4 -> 10 [] OTHER -> 0
        share == 10 * features.uniqueTools
        gain == CASE share >= 6 * features.toolCalls -> 20
                  [] share < 4 * features.toolCalls -> 0
                  [] OTHER -> 10
    IN  Clamp(100 - loss + gain)

\* Mistake: the level looks at the score alone.
LevelOfScore(score, chip) ==
    CASE score < 50 -> 2 [] score \in 50..84 -> 1 [] OTHER -> 0
AbnormalLevel(score, chip) ==
    CASE score < 50 -> 2
      [] score >= 50 /\ (score < 85 \/ chip # "healthy") -> 1
      [] OTHER -> 0

\* Two of the axes exist only for a session with tools.
AxesOf(rounds, models, tools, features, rules, signals) ==
    <<computeResponseScore(rounds, rules, features, models, tools),
      computeThinkingScore(signals, features), computeResourceScore(features)>>
    \o (IF tools = <<>> THEN <<>>
        ELSE <<computeStabilityScore(features, rules), computeOrchestrationScore(features)>>)
Scored(values, signals, rules) ==
    LET score == Capped(Round(SumOf(values), Len(values)), rules)
    IN  [values |-> values, score |-> score, final |-> signals.final, noop |-> signals.noop,
         rules |-> rules, level |-> AbnormalLevel(score, pickChip(rules))]
WithRules(rounds, models, tools, features, rules, signals) ==
    Scored(AxesOf(rounds, models, tools, features, rules, signals), signals, rules)
WithFeatures(rounds, models, tools, features) ==
    WithRules(rounds, models, tools, features,
              deriveSessionSignals(rounds, models, features), modelSignals(models, tools))
WithSpans(rounds, models, tools) ==
    WithFeatures(rounds, models, tools, SessionFeatures(rounds, models, tools))
computeBundlePrecomputedMetrics(rounds) ==
    WithSpans(rounds, getModelSpansForBundle(rounds), getToolSpansForBundle(rounds))

----------------------------------------------------------------------------
\* Properties

PromptsDiffer(rounds) ==
    \A i, j \in DOMAIN rounds : i # j => rounds[i].prompt # rounds[j].prompt

\* An answer that only the score takes for one.
OnlyForScore(sp) ==
    /\ sp.output.tools = <<>> /\ ~Silent(sp.output)
    /\ isSyntheticModelSpan(sp) \/ sp.output.text = <<>>
AgreeOnAnswers(some, tools) ==
    modelSignals(some, tools).final
        <=> hasFinalAnswer(some) \/ \E sp \in Range(some) : OnlyForScore(sp)

(* Rules and score agree on whether a session came to a final answer and   *)
(* on every single call, one from the tool calls in the output of a call,  *)
(* the other from the parents of all tool spans of the session. They       *)
(* differ in exactly one way: the score also takes a call without tools    *)
(* for an answer that has nothing but reasoning, or that the framework     *)
(* asked for.                                                              *)
AnswersAgree ==
    LET Compare(models, tools) ==
            /\ AgreeOnAnswers(models, tools)
            /\ \A sp \in Range(models) : AgreeOnAnswers(<<sp>>, tools)
    IN  phase = "done" /\ PromptsDiffer(out.rounds) =>
            Compare(getModelSpansForBundle(out.rounds), getToolSpansForBundle(out.rounds))

(* A session is red only if a rule failed, whose label then explains it,   *)
(* and it is green only if none did, although the score averages axes that *)
(* the rules do not look at, and other thresholds.                         *)
LevelIsExplained ==
    LET Explained(level, broken) == /\ level = 2 => broken # {}
                                    /\ broken # {} => level > 0
        Of(m) == Explained(m.level, {rule \in Range(m.rules) : ~rule.passed})
    IN  phase = "done" => Of(computeBundlePrecomputedMetrics(out.rounds))
=============================================================================
