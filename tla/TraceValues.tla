---------------------------- MODULE TraceValues ----------------------------
(***************************************************************************)
(* JSON values as tracelog/parser.go looks at them, and what it makes of   *)
(* the messages of a request: the text a user really wrote.                *)
(*                                                                         *)
(* A text is a sequence of words. The words below are the ones the parser  *)
(* looks for; letter case and white space around texts are left out.       *)
(***************************************************************************)
EXTENDS Naturals, SequencesExt

Null == <<"null">>
Str(text) == <<"str", text>>
Num(n) == <<"num", n>>
Arr(seq) == <<"arr", seq>>
Obj(rec) == <<"obj", rec>>

\* A type assertion that fails leaves an empty map, or an empty slice.
Fields(v) == IF v[1] = "obj" THEN v[2] ELSE [k \in {} |-> Null]
Items(v) == IF v[1] = "arr" THEN v[2] ELSE <<>>
ValueAt(fields, key) == IF key \in DOMAIN fields THEN fields[key] ELSE Null
Field(v, key) == ValueAt(Fields(v), key)

\* The value of the first key that has one.
FirstValue(fields, keys) ==
    LET known == {i \in DOMAIN keys : ValueAt(fields, keys[i]) # Null}
    IN  IF known = {} THEN Null ELSE fields[keys[Min(known)]]
firstAny(v, keys) == FirstValue(Fields(v), keys)

stringAny(v) ==
    CASE v[1] = "str" -> v[2] [] v[1] = "num" -> <<"number">> [] OTHER -> <<>>
int64Any(v) == IF v[1] = "num" THEN v[2] ELSE 0

\* What one record says, and what another says besides.
Over(new, old) ==
    [f \in DOMAIN new \cup DOMAIN old |-> IF f \in DOMAIN new THEN new[f] ELSE old[f]]

\* The elements of a sequence that pass a test, in their order.
Filtered(seq, Test(_)) ==
    FoldLeft(LAMBDA kept, x : IF Test(x) THEN Append(kept, x) ELSE kept, <<>>, seq)

firstNonEmpty(a, b) == IF a # <<>> THEN a ELSE b
firstNonZero(a, b) == IF a # 0 THEN a ELSE b

\* The first and the last result of a search that is not empty.
FirstOf(found) ==
    LET known == {i \in DOMAIN found : found[i] # <<>>}
    IN  IF known = {} THEN <<>> ELSE found[Min(known)]
LastOf(found) ==
    LET known == {i \in DOMAIN found : found[i] # <<>>}
    IN  IF known = {} THEN <<>> ELSE found[Max(known)]

\* The text of a value, or of its parts one after the other.
contentStringAny(v) ==
    LET parts == IF v[1] = "arr" THEN v[2] ELSE <<v>>
        TextOf(part) ==
            CASE part[1] = "str" -> part[2]
              [] part[1] = "obj" ->
                    stringAny(firstAny(part, <<"text", "content", "value">>))
              [] OTHER -> <<>>
    IN  FlattenSeq([i \in DOMAIN parts |-> TextOf(parts[i])])

\* A list that can be decoded as parts, each with a type and a text.
HasParts(v) ==
    /\ v[1] = "arr"
    /\ \A i \in DOMAIN v[2] :
          /\ v[2][i][1] \in {"obj", "null"}
          /\ \A key \in {"type", "text"} : Field(v[2][i], key)[1] \in {"str", "null"}
\* The content of a message: a text, parts with a text, or else raw JSON.
contentText(v) ==
    CASE v[1] = "str" -> v[2]
      [] HasParts(v) ->
            FlattenSeq([i \in DOMAIN v[2] |-> stringAny(Field(v[2][i], "text"))])
      [] v[1] = "null" -> <<>>
      [] OTHER -> <<"json">>
neekoContentText(v) == IF v[1] = "str" \/ HasParts(v) THEN contentText(v) ELSE <<>>

----------------------------------------------------------------------------
(* The text of a user message. Words: "<ctx>", "<reminder>" open and       *)
(* "</ctx>" closes injected context; "{qa}" is a whole answer payload,     *)
(* "{qa" a broken one; "query:" announces the original query in a business *)
(* wrapper and "batch:" what follows it; "synthetic" is a phrase only the  *)
(* framework writes, "task" with "objective" its task briefing, "title"    *)
(* its request for a title.                                                *)

Closings(text) == {i \in DOMAIN text : text[i] = "</ctx>"}
\* Mistake: cut behind the first closing tag instead of the last.
stripInjectedContextFirst(text) ==
    IF Closings(text) = {} THEN text
    ELSE SubSeq(text, Min(Closings(text)) + 1, Len(text))
stripInjectedContext(text) ==
    IF Closings(text) = {} THEN text
    ELSE SubSeq(text, Max(Closings(text)) + 1, Len(text))

\* The place of the first answer payload, 0 if there is none or it is broken.
findQuestionAnswerResultPayload(text) ==
    LET found == {i \in DOMAIN text : text[i] \in {"{qa}", "{qa"}}
    IN  IF found # {} /\ text[Min(found)] = "{qa}" THEN Min(found) ELSE 0
Without(text, i) == IF i = 0 THEN text ELSE RemoveAt(text, i)
stripQuestionAnswerResultPayload(text) ==
    Without(text, findQuestionAnswerResultPayload(text))

(* What follows the first announcement, up to the batch. A batch right     *)
(* behind it is not recognized: its leading space is trimmed first.        *)
extractBusinessWrappedOriginalQuery(text) ==
    LET at == Min({i \in DOMAIN text : text[i] = "query:"})
        cuts == {i \in at + 2..Len(text) : text[i] = "batch:"}
    IN  IF ~Contains(Front(text), "query:") THEN text
        ELSE SubSeq(text, at + 1, Min(cuts \cup {Len(text) + 1}) - 1)

isSyntheticToolPrompt(text) ==
    \/ text = <<"{qa}">>
    \/ text = <<"title">>
    \/ \E w \in {"synthetic", "<reminder>"} : Contains(text, w)
    \/ text # <<>> /\ Head(text) = "task" /\ Contains(text, "objective")

UserText(text) ==
    extractBusinessWrappedOriginalQuery(
        stripQuestionAnswerResultPayload(stripInjectedContext(text)))

\* The last message of the user that leaves a text of its own.
LastUserText(msgs, TextOf(_)) ==
    LET Own(text) == IF isSyntheticToolPrompt(text) THEN <<>> ELSE text
    IN  LastOf([i \in DOMAIN msgs |->
                IF msgs[i].role = <<"user">> THEN Own(UserText(TextOf(msgs[i].content)))
                ELSE <<>>])

extractUserPrompt(msgs) == LastUserText(msgs, contentText)
=============================================================================
