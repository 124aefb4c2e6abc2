---------------------------- MODULE TraceParsing ----------------------------
(***************************************************************************)
(* ParseStream (tracelog/parser.go) at work on one file: it reads events   *)
(* line by line into the collector, or the elements of an array, and turns *)
(* them into rounds. The formats of TraceFormats define what Parse makes   *)
(* of the same file.                                                       *)
(***************************************************************************)
EXTENDS StreamCollector, TraceFormats

CONSTANT KeyOrders  \* orders in which the keys of a map may be visited

\* What events and files consist of.
ASSUME FileAssumption ==
    /\ \A d \in Payload : d.value \in Value
    /\ NoData = NoBytes
    /\ \A ev \in Event :
          {ev.log, ev.prompt, ev.session} \subseteq STRING /\ ItemOf(ev) \in Value
    /\ Broken \notin Event
    /\ \A keys \in KeyOrders : keys \in Seq(STRING)

VARIABLES
    form,   \* "lines" or "array"
    lines,  \* what has been read, events or Broken
    phase,  \* "reading", "done" or "failed"
    out     \* the result when done

vars == <<collector, form, lines, phase, out>>

NoResult == [session |-> "", rounds |-> <<>>, truncation |-> NoTruncation]

Init ==
    /\ NewCollector
    /\ form \in {"lines", "array"}
    /\ lines = <<>>
    /\ phase = "reading"
    /\ out = NoResult

Reads(f, line) ==
    /\ phase = "reading" /\ form = f
    /\ lines' = Append(lines, line)
    /\ UNCHANGED <<form, out>>

ReadLine(ev) == Reads("lines", ev) /\ Add(ev) /\ UNCHANGED phase

\* A line that is no event is skipped; one that is too long ends the parse.
ReadBrokenLine ==
    /\ Reads("lines", Broken)
    /\ truncation = NoTruncation
    /\ phase' \in {"reading", "failed"}
    /\ UNCHANGED collector

\* Elements of an array are decoded all or none.
ReadElement(ev) == Reads("array", ev) /\ UNCHANGED <<collector, phase>>
ReadBrokenElement ==
    Reads("array", Broken) /\ phase' = "failed" /\ UNCHANGED collector

Bufs == [i \in DOMAIN order |-> Over([log |-> order[i]], calls[order[i]])]

\* The collector's result.
Result(keys) ==
    LET Own(rounds) == [session |-> sessionID, rounds |-> rounds, truncation |-> truncation]
        Named(wrapped) == [session |-> IF wrapped.session = "" THEN sessionID ELSE wrapped.session,
                           rounds |-> wrapped.rounds, truncation |-> NoTruncation]
        Wrapped == Named(parseResponsesWrappedEvents(fallbackEvents, keys))
    IN  Preferring(Own(RoundsOf(Bufs)), Preferring(Wrapped, Own(<<>>)))

\* A result without rounds is an error.
Ends(result) ==
    /\ phase' = IF result.rounds = <<>> THEN "failed" ELSE "done"
    /\ out' = IF result.rounds = <<>> THEN NoResult ELSE result
    /\ UNCHANGED <<collector, form, lines>>

FinishLines ==
    /\ phase = "reading" /\ form = "lines"
    /\ \E keys \in KeyOrders : Ends(Result(keys))
FinishArray ==
    /\ phase = "reading" /\ form = "array"
    /\ \E keys \in KeyOrders : Ends(Over(ParseEvents(lines, keys), NoResult))

Next ==
    \/ \E ev \in Event : ReadLine(ev) \/ ReadElement(ev)
    \/ ReadBrokenLine \/ ReadBrokenElement
    \/ FinishLines \/ FinishArray
Spec == Init /\ [][Next]_vars

----------------------------------------------------------------------------
\* Properties

SumOf(seq) == FoldLeft(LAMBDA a, b : a + b, 0, seq)

Events == Intact(lines)
Structured ==
    StructuredRounds(Events) # <<>> /\ NeekoParse(Events).rounds = <<>>

(* A session that is read to its end as a stream has the session id and    *)
(* the rounds that Parse finds in the same file: the collector, which      *)
(* updates calls event by event, agrees with the grouping of all events at *)
(* once, whatever order the events of several calls come in.               *)
StreamMatchesParse ==
    phase = "done" /\ form = "lines" /\ truncation = NoTruncation /\ Structured =>
        \A keys \in KeyOrders : out = Over(ParseLines(lines, keys), NoResult)

AllCalls(rounds) == FlattenSeq([i \in DOMAIN rounds |-> rounds[i].calls])
Answered == {log \in DOMAIN calls : Present(calls[log].req) \/ Present(calls[log].resp)}

(* In a stream with ids every call with a request or an answer is in       *)
(* exactly one round, the one of the prompt id it came with first, and     *)
(* there is one round for a prompt id (a turn of the user).                *)
CallsAccounted ==
    phase = "done" /\ form = "lines" /\ Structured =>
        /\ Len(AllCalls(out.rounds)) = Cardinality(Answered)
        /\ \A i, j \in DOMAIN out.rounds :
              i # j => out.rounds[i].prompt # out.rounds[j].prompt
        /\ \A i \in DOMAIN out.rounds :
              {out.rounds[i].calls[k].log : k \in DOMAIN out.rounds[i].calls}
                  = {log \in Answered : calls[log].prompt = out.rounds[i].prompt}

Requests(events) ==
    Filtered(events, LAMBDA ev : ev.type = "REQUEST_BODY" /\ Present(ev.data))

\* A call sends the messages and has the model, if any, of its request.
AskedBy(call, v) ==
    call.messages = NeekoMessages(v) /\ NeekoModel(v) \in {<<>>, call.model}
\* A round is about the question of its first call, and no call asks another.
OneQuestion(round) ==
    /\ round.user = NeekoPrompt(round.calls[1].messages)
    /\ \A i \in DOMAIN round.calls :
          NeekoPrompt(round.calls[i].messages) \in {round.user, <<>>}

(* In a Neeko log every request is one call, in the order of the requests  *)
(* and with the model it asked for, whether it was answered or not. Rounds *)
(* are cut where another question is asked and nowhere else: the calls of  *)
(* a round ask its question or none, and the next round asks another one.  *)
NeekoCallsAccounted ==
    LET requests == Requests(Events)
        Accounted(rounds, inOrder) ==
            /\ Len(inOrder) = Len(requests)
            /\ \A i \in DOMAIN requests : AskedBy(inOrder[i], requests[i].data.value)
            /\ \A round \in Range(rounds) : OneQuestion(round)
            /\ \A i \in 1..(Len(rounds) - 1) :
                  rounds[i + 1].user \notin {rounds[i].user, <<>>}
        Holds(rounds) == Accounted(rounds, AllCalls(rounds))
    IN  Holds(parseNeekoResponsesLog(Events).rounds)

Sums(round, field) == SumOf([i \in DOMAIN round.calls |-> round.calls[i][field]])
StartsOf(round) == {round.calls[i].start : i \in DOMAIN round.calls} \ {0}
AddsUp(round) ==
    /\ round.calls # <<>>
    /\ \A f \in {"in", "out", "reason"} : round[f] = Sums(round, f)
    /\ round.start = IF StartsOf(round) = {} THEN 0 ELSE Min(StartsOf(round))
    /\ \A i \in DOMAIN round.calls : round.calls[i].end <= round.end

(* In every format a round has calls, begins with the earliest of them     *)
(* that has a time, is not over before one of them, and its token counts   *)
(* are theirs, no matter how many calls joined it and in which order.      *)
RoundsAddUp ==
    /\ \A round \in Range(out.rounds) : AddsUp(round)
    /\ form = "array" => \A keys \in KeyOrders :
          \A round \in Range(ParseArray(lines, FALSE, keys).rounds) : AddsUp(round)

\* Words that only the framework puts into a user's message.
Injected == {"</ctx>", "<reminder>", "synthetic"}

FromUser(rounds) ==
    \A i \in DOMAIN rounds : \A w \in Injected : ~Contains(rounds[i].user, w)

(* The question shown for a round with ids, or of a Neeko log, is never    *)
(* text that the framework put into the user's message.                    *)
QuestionIsTheUsers ==
    /\ phase = "done" /\ Structured => FromUser(out.rounds)
    /\ FromUser(NeekoParse(Events).rounds)
=============================================================================
