------------------------ MODULE TraceParsingProofs -------------------------
(***************************************************************************)
(* Theorems about TraceParsing, for any limits, any order of the keys of   *)
(* maps and files of any length made of any events: the collector keeps    *)
(* its budget and counts what it keeps, a stream is parsed like the whole  *)
(* file, every call is in one round, and the questions shown are the       *)
(* users'. The operators of the parser are recursive functions and folds,  *)
(* whose steps are put into RecursionLemmas.                               *)
(***************************************************************************)
EXTENDS SessionBundles, SumLemmas

----------------------------------------------------------------------------
(* The collector: it keeps its budget, and it counts the bytes it keeps.   *)

\* The data kept of a call is data of events.
CallBuf == [prompt : {ev.prompt : ev \in Event} \cup {""}, start : Nat, end : Nat,
            req : Payload, resp : Payload, meta : Payload]

CollectorTypeOK ==
    /\ calls \in [DOMAIN calls -> CallBuf]
    /\ totalBytes \in Int
    /\ nextMemCheck \in Int
    /\ pressureBytes <= nextMemCheck

CollectorInv == CollectorTypeOK /\ WithinBudget

\* The pressure limit in force lies between one byte and the hard limit.
LEMMA PressureInRange == pressureBytes \in 1..HardLimit
BY LimitAssumption DEF pressureBytes

(* applyPayloadBudget keeps the budget, whatever count it starts from, as  *)
(* long as that count is not larger than the current one.                  *)
LEMMA BudgetKept ==
    ASSUME NEW kept \in Int, NEW delta \in Nat,
           CollectorInv, truncation = NoTruncation,
           kept <= totalBytes,
           applyPayloadBudget(kept, delta)
    PROVE  /\ totalBytes' \in Int /\ nextMemCheck' \in Int
           /\ pressureBytes <= nextMemCheck'
           /\ WithinBudget'
<1>1. totalBytes \in Int /\ nextMemCheck \in Int /\ pressureBytes \in Int
      /\ HardLimit \in Nat /\ CheckStep \in Nat \ {0}
      /\ pressureBytes <= nextMemCheck
  BY PressureInRange, LimitAssumption DEF CollectorInv, CollectorTypeOK
<1>0. pressureBytes' = pressureBytes /\ NoTruncation' = NoTruncation
  BY Zenon DEF pressureBytes, NoTruncation
<1>2. totalBytes' = kept + delta /\ totalBytes' \in Int
  BY <1>1 DEF applyPayloadBudget
<1>3. totalBytes <= HardLimit /\ (totalBytes < pressureBytes \/ totalBytes < nextMemCheck)
  BY DEF CollectorInv, WithinBudget
<1>4. ASSUME NEW reason \in {"session_size_limit", "memory_pressure"},
             markTruncated(reason)
      PROVE  WithinBudget'
  BY Zenon, <1>4 DEF markTruncated, WithinBudget, NoTruncation
<1>5. CASE /\ \/ delta = 0
              \/ totalBytes' <= HardLimit /\ totalBytes' < pressureBytes
              \/ totalBytes' <= HardLimit /\ totalBytes' < nextMemCheck
           /\ UNCHANGED <<nextMemCheck, truncation>>
  BY <1>0, <1>1, <1>2, <1>3, <1>5 DEF WithinBudget
<1>6. CASE markTruncated("session_size_limit") /\ UNCHANGED nextMemCheck
  BY <1>1, <1>2, <1>4, <1>6
<1>7. CASE /\ totalBytes' \in pressureBytes..HardLimit
           /\ nextMemCheck' = totalBytes' + CheckStep
           /\ UNCHANGED truncation \/ markTruncated("memory_pressure")
  <2>1. nextMemCheck' \in Int /\ totalBytes' < nextMemCheck' /\ pressureBytes <= nextMemCheck'
    BY <1>1, <1>2, <1>7
  <2>2. CASE UNCHANGED truncation
    BY <1>0, <1>1, <1>2, <1>7, <2>1, <2>2 DEF WithinBudget
  <2>3. CASE markTruncated("memory_pressure")
    BY <1>2, <1>4, <2>1, <2>3
  <2> QED BY <1>7, <2>2, <2>3
<1> QED BY <1>5, <1>6, <1>7 DEF applyPayloadBudget

\* A call under collection is well-formed whatever event changes it.
LEMMA BufTypes ==
    ASSUME CollectorTypeOK, NEW ev \in Event
    PROVE  /\ BufOf(ev) \in CallBuf
           /\ \A slot \in {"req", "resp", "meta"} : [BufOf(ev) EXCEPT ![slot] = ev.data] \in CallBuf
<1>1. ev.data \in Payload /\ ev.ts \in Nat /\ NoData \in Payload
  BY EventAssumption
<1>2. EmptyBuf(ev.prompt) \in CallBuf
  BY Zenon, <1>1 DEF EmptyBuf, CallBuf
<1>3. \A buf \in CallBuf : Timed(buf, ev.ts) \in CallBuf
  BY Zenon, <1>1 DEF Timed, CallBuf
<1>4. ev.log \in DOMAIN calls => calls[ev.log] \in CallBuf
  BY DEF CollectorTypeOK
<1>5. BufOf(ev) \in CallBuf
  BY <1>2, <1>3, <1>4 DEF BufOf
<1> QED BY Zenon, <1>1, <1>5 DEF CallBuf

\* The slot an event's data goes to holds data with a size.
LEMMA SlotSizes ==
    ASSUME NEW buf \in CallBuf, NEW slot \in {"req", "resp", "meta"}
    PROVE  buf[slot].size \in Nat
BY Zenon, EventAssumption DEF CallBuf

LEMMA SlotCases == ASSUME NEW ev PROVE Slot(ev) \in {"req", "resp", "meta", "none"}
BY DEF Slot

LEMMA AddKeepsBudget ==
    ASSUME CollectorInv, NEW ev \in Event, Add(ev)
    PROVE  CollectorInv'
<1>1. ev.data.size \in Nat /\ totalBytes \in Int
  BY EventAssumption DEF CollectorInv, CollectorTypeOK
<1>2. truncation = NoTruncation
  BY Zenon DEF Add
<1>3. CASE AddLoose(ev)
  <2>1. applyPayloadBudget(totalBytes, ev.data.size) /\ UNCHANGED calls
    BY Zenon, <1>3 DEF AddLoose
  <2>2. totalBytes <= totalBytes
    BY <1>1
  <2> QED BY <1>1, <1>2, <2>1, <2>2, BudgetKept, pressureBytes' = pressureBytes
       DEF CollectorInv, CollectorTypeOK, pressureBytes
<1>4. CASE AddToCall(ev)
  <2> DEFINE buf == BufOf(ev)
             slot == Slot(ev)
             new == IF slot = "none" THEN buf ELSE [buf EXCEPT ![slot] = ev.data]
  <2>1. buf \in CallBuf /\ new \in CallBuf
    BY Zenon, BufTypes, SlotCases DEF CollectorInv
  <2>2. calls' = [log \in DOMAIN calls \cup {ev.log} |->
                    IF log # ev.log THEN calls[log] ELSE new]
    BY Zenon, <1>4 DEF AddToCall
  <2>3. calls' \in [DOMAIN calls' -> CallBuf]
    BY <2>1, <2>2 DEF CollectorInv, CollectorTypeOK
  <2>4. CASE slot = "none"
    <3>1. UNCHANGED <<totalBytes, nextMemCheck, truncation>>
      BY Zenon, <1>4, <2>4 DEF AddToCall
    <3> QED BY Zenon, <2>3, <3>1 DEF CollectorInv, CollectorTypeOK, WithinBudget, pressureBytes, NoTruncation
  <2>5. CASE slot # "none"
    <3>1. buf[slot].size \in Nat
      BY <2>1, <2>5, SlotCases, SlotSizes
    <3>2. applyPayloadBudget(totalBytes - buf[slot].size, ev.data.size)
      BY Zenon, <1>4, <2>5 DEF AddToCall
    <3>3. totalBytes - buf[slot].size \in Int /\ totalBytes - buf[slot].size <= totalBytes
      BY <1>1, <3>1
    <3>4. /\ totalBytes' \in Int /\ nextMemCheck' \in Int
          /\ pressureBytes <= nextMemCheck' /\ WithinBudget'
      BY <1>1, <1>2, <3>2, <3>3, BudgetKept
    <3> QED BY <2>3, <3>4 DEF CollectorInv, CollectorTypeOK, pressureBytes
  <2> QED BY <2>4, <2>5
<1> QED BY Zenon, <1>3, <1>4 DEF Add

LEMMA NewCollectorBudget == ASSUME NewCollector PROVE CollectorInv
<1>1. pressureBytes \in 1..HardLimit /\ HardLimit \in Nat
  BY PressureInRange, LimitAssumption
<1>2. calls \in [DOMAIN calls -> CallBuf]
  BY Zenon DEF NewCollector
<1>3. WithinBudget
  <2>1. truncation = NoTruncation /\ totalBytes = 0
    BY Zenon DEF NewCollector
  <2>2. 0 <= HardLimit /\ 0 < pressureBytes
    BY <1>1
  <2> QED BY <2>1, <2>2 DEF WithinBudget
<1>4. totalBytes = 0 /\ nextMemCheck = pressureBytes
  BY Zenon DEF NewCollector
<1> QED BY <1>1, <1>2, <1>3, <1>4 DEF CollectorInv, CollectorTypeOK

-----------------------------------------------------------------------------
(* Every call has one place in the order of the calls, so the sum over the *)
(* order counts every call once.                                           *)
Ordered ==
    /\ order \in Seq(DOMAIN calls)
    /\ \A log \in DOMAIN calls : \E i \in DOMAIN order : order[i] = log
    /\ \A i, j \in DOMAIN order : order[i] = order[j] => i = j

CountInv ==
    /\ calls \in [DOMAIN calls -> CallBuf]
    /\ Ordered
    /\ fallbackEvents \in Seq(Event)
    /\ BytesCounted

\* A sum over a list grows by what is appended to the list.
LEMMA SumGrows ==
    ASSUME NEW n \in Nat, NEW f, NEW g,
           DOMAIN f = 1 .. n, DOMAIN g = 1 .. (n + 1),
           \A i \in 1 .. (n + 1) : g[i] \in Int,
           \A i \in 1 .. n : f[i] = g[i]
    PROVE  SumFunction(g) = SumFunction(f) + g[n + 1]
<1> DEFINE S == 1 .. n
<1>1. IsFiniteSet(S) /\ S \cup {n + 1} = 1 .. (n + 1) /\ n + 1 \notin S
  <2>1. IsFiniteSet(S)
    BY 1 \in Int, n \in Int, FS_Interval
  <2>2. QED
    BY <2>1
<1>2. \A i \in S : g[i] \in Int /\ f[i] \in Int /\ g[i] = f[i]
  OBVIOUS
<1>3. g[n + 1] \in Int
  OBVIOUS
<1>4. SumFunction(f) = SumFunctionOnSet(f, S) /\ SumFunction(g) = SumFunctionOnSet(g, S \cup {n + 1})
  BY Zenon, <1>1 DEF SumFunction
<1> HIDE DEF S
<1>5. SumFunctionOnSet(g, S \cup {n + 1}) = g[n + 1] + SumFunctionOnSet(g, S)
  BY <1>1, <1>2, <1>3, SumPutsIn
<1>6. SumFunctionOnSet(g, S) = SumFunctionOnSet(f, S) /\ SumFunctionOnSet(g, S) \in Int
  BY <1>1, <1>2, SumAgrees, SumIsInt
<1>7. QED
  BY <1>3, <1>4, <1>5, <1>6

\* The sum of a list of integers is one.
LEMMA SumOfListIsInt ==
    ASSUME NEW n \in Nat, NEW f, DOMAIN f = 1 .. n, \A i \in 1 .. n : f[i] \in Int
    PROVE  SumFunction(f) \in Int
BY FS_Interval, SumIsInt DEF SumFunction

\* The bytes kept with the calls, and those of the loose events.
Kept(cs, o) == SumFunction([i \in DOMAIN o |-> SizeOf(cs[o[i]])])
KeptLoose(l) == SumFunction([i \in DOMAIN l |-> l[i].data.size])

\* Sizes are numbers, and so are the bytes kept.
LEMMA SizeTypes ==
    ASSUME NEW buf \in CallBuf
    PROVE  /\ SizeOf(buf) \in Nat
           /\ \A slot \in {"req", "resp", "meta"} : buf[slot].size \in Nat
<1>1. buf.req \in Payload /\ buf.resp \in Payload /\ buf.meta \in Payload
  BY Zenon DEF CallBuf
<1>2. buf.req.size \in Nat /\ buf.resp.size \in Nat /\ buf.meta.size \in Nat
  BY <1>1, EventAssumption
<1>3. QED
  BY <1>2, SlotSizes DEF SizeOf

LEMMA KeptIsInt ==
    ASSUME NEW cs, cs \in [DOMAIN cs -> CallBuf], NEW o \in Seq(DOMAIN cs)
    PROVE  Kept(cs, o) \in Int
<1> DEFINE f == [i \in DOMAIN o |-> SizeOf(cs[o[i]])]
<1>1. Len(o) \in Nat /\ DOMAIN f = 1 .. Len(o)
  OBVIOUS
<1>2. ASSUME NEW i \in 1 .. Len(o) PROVE f[i] \in Int
  BY SizeTypes
<1> HIDE DEF f
<1>3. SumFunction(f) \in Int
  BY <1>1, <1>2, SumOfListIsInt
<1>4. QED
  BY <1>3 DEF Kept, f

LEMMA KeptLooseIsInt ==
    ASSUME NEW l \in Seq(Event)
    PROVE  KeptLoose(l) \in Int
<1> DEFINE f == [i \in DOMAIN l |-> l[i].data.size]
<1>1. Len(l) \in Nat /\ DOMAIN f = 1 .. Len(l)
  OBVIOUS
<1>2. ASSUME NEW i \in 1 .. Len(l) PROVE f[i] \in Int
  BY EventAssumption
<1> HIDE DEF f
<1>3. SumFunction(f) \in Int
  BY <1>1, <1>2, SumOfListIsInt
<1>4. QED
  BY <1>3 DEF KeptLoose, f

\* An event kept whole adds its size.
LEMMA KeptLooseGrows ==
    ASSUME NEW l \in Seq(Event), NEW ev \in Event
    PROVE  KeptLoose(Append(l, ev)) = KeptLoose(l) + ev.data.size
<1> DEFINE m == Append(l, ev)
           f == [i \in DOMAIN l |-> l[i].data.size]
           g == [i \in DOMAIN m |-> m[i].data.size]
           n == Len(l)
<1>1. n \in Nat /\ DOMAIN f = 1 .. n /\ DOMAIN g = 1 .. (n + 1)
  OBVIOUS
<1>2. (\A i \in 1 .. n : m[i] = l[i] /\ l[i] \in Event) /\ m[n + 1] = ev
  OBVIOUS
<1>3. \A i \in 1 .. n : f[i] = g[i]
  BY <1>1, <1>2
<1>4. ASSUME NEW i \in 1 .. (n + 1) PROVE g[i] \in Int
  <2>1. m[i] \in Event
    BY <1>1, <1>2
  <2>2. QED
    BY <1>1, <2>1, EventAssumption
<1>5. g[n + 1] = ev.data.size
  BY <1>1, <1>2
<1> HIDE DEF f, g, m, n
<1>6. SumFunction(g) = SumFunction(f) + g[n + 1]
  BY <1>1, <1>3, <1>4, SumGrows
<1>7. QED
  BY Zenon, <1>5, <1>6 DEF KeptLoose, f, g, m

(* What is kept changes by the difference between the call's old and new   *)
(* data, for a call has one place in the order.                            *)
LEMMA KeptWithCall ==
    ASSUME NEW cs, cs \in [DOMAIN cs -> CallBuf], NEW o \in Seq(DOMAIN cs),
           \A i, j \in DOMAIN o : o[i] = o[j] => i = j,
           NEW k \in DOMAIN o, NEW ds, DOMAIN ds = DOMAIN cs, ds \in [DOMAIN ds -> CallBuf],
           \A log \in DOMAIN cs : log # o[k] => ds[log] = cs[log]
    PROVE  Kept(ds, o) = Kept(cs, o) - SizeOf(cs[o[k]]) + SizeOf(ds[o[k]])
<1> DEFINE f == [i \in DOMAIN o |-> SizeOf(cs[o[i]])]
           g == [i \in DOMAIN o |-> SizeOf(ds[o[i]])]
           S == DOMAIN o
<1>1. IsFiniteSet(S) /\ k \in S /\ DOMAIN f = S /\ DOMAIN g = S
  <2>1. S = 1 .. Len(o) /\ Len(o) \in Int
    OBVIOUS
  <2>2. IsFiniteSet(S)
    BY <2>1, 1 \in Int, FS_Interval
  <2>3. QED
    BY <2>2
<1>2. ASSUME NEW i \in S PROVE f[i] \in Int /\ g[i] \in Int
  BY SizeTypes
<1>3. \A i \in S \ {k} : f[i] = g[i]
  OBVIOUS
<1>4. f[k] = SizeOf(cs[o[k]]) /\ g[k] = SizeOf(ds[o[k]])
  OBVIOUS
<1> HIDE DEF f, g, S
<1>5. SumFunctionOnSet(g, S) = SumFunctionOnSet(f, S) - f[k] + g[k]
  BY <1>1, <1>2, <1>3, SumChanges
<1>6. SumFunction(f) = SumFunctionOnSet(f, S) /\ SumFunction(g) = SumFunctionOnSet(g, S)
  BY <1>1 DEF SumFunction
<1>7. QED
  BY <1>4, <1>5, <1>6 DEF Kept, f, g

\* A call that comes last in the order, beside the calls of before.
NewCall(cs, o, ds, m, new) ==
    /\ cs \in [DOMAIN cs -> CallBuf] /\ o \in Seq(DOMAIN cs)
    /\ new \notin DOMAIN cs /\ DOMAIN ds = DOMAIN cs \cup {new}
    /\ ds \in [DOMAIN ds -> CallBuf]
    /\ \A log \in DOMAIN cs : ds[log] = cs[log]
    /\ DOMAIN m = 1 .. (Len(o) + 1) /\ m[Len(o) + 1] = new
    /\ \A i \in 1 .. Len(o) : m[i] = o[i]

LEMMA KeptWithNewCall ==
    ASSUME NEW cs, NEW o, NEW ds, NEW m, NEW new, NewCall(cs, o, ds, m, new)
    PROVE  Kept(ds, m) = Kept(cs, o) + SizeOf(ds[new])
<1> USE DEF NewCall
<1> DEFINE f == [i \in DOMAIN o |-> SizeOf(cs[o[i]])]
           g == [i \in DOMAIN m |-> SizeOf(ds[m[i]])]
           n == Len(o)
<1>1. n \in Nat /\ DOMAIN f = 1 .. n /\ DOMAIN g = 1 .. (n + 1)
  OBVIOUS
<1>2. (\A i \in 1 .. n : m[i] = o[i] /\ o[i] \in DOMAIN cs) /\ m[n + 1] = new
  OBVIOUS
<1>3. \A i \in 1 .. n : f[i] = g[i]
  BY <1>1, <1>2
<1>4. ASSUME NEW i \in 1 .. (n + 1) PROVE g[i] \in Int
  <2>1. m[i] \in DOMAIN ds
    BY <1>1, <1>2
  <2>2. QED
    BY <1>1, <2>1, SizeTypes
<1>5. g[n + 1] = SizeOf(ds[new])
  BY <1>1, <1>2
<1> HIDE DEF f, g, n
<1>6. SumFunction(g) = SumFunction(f) + g[n + 1]
  BY Zenon, <1>1, <1>3, <1>4, SumGrows
<1>7. QED
  BY <1>5, <1>6 DEF Kept, f, g

\* The times of a call weigh nothing.
LEMMA TimedKeeps ==
    ASSUME NEW buf \in CallBuf, NEW ms \in Nat
    PROVE  /\ Timed(buf, ms) \in CallBuf
           /\ SizeOf(Timed(buf, ms)) = SizeOf(buf)
BY Zenon DEF Timed, SizeOf, CallBuf

\* Data that replaces other data changes the size by the difference.
LEMMA StoredSize ==
    ASSUME NEW buf \in CallBuf, NEW slot \in {"req", "resp", "meta"}, NEW data \in Payload
    PROVE  /\ [buf EXCEPT ![slot] = data] \in CallBuf
           /\ SizeOf([buf EXCEPT ![slot] = data]) = SizeOf(buf) - buf[slot].size + data.size
<1> DEFINE new == [buf EXCEPT ![slot] = data]
<1>1. new \in CallBuf
  BY Zenon DEF CallBuf
<1>2. /\ buf.req.size \in Nat /\ buf.resp.size \in Nat /\ buf.meta.size \in Nat
      /\ data.size \in Nat
  BY Zenon, SizeTypes, EventAssumption DEF CallBuf
<1>3. CASE slot = "req"
  <2>1. new.req = data /\ new.resp = buf.resp /\ new.meta = buf.meta
    BY Zenon, <1>3 DEF CallBuf
  <2>2. QED
    BY <1>1, <1>2, <1>3, <2>1 DEF SizeOf
<1>4. CASE slot = "resp"
  <2>1. new.req = buf.req /\ new.resp = data /\ new.meta = buf.meta
    BY Zenon, <1>4 DEF CallBuf
  <2>2. QED
    BY <1>1, <1>2, <1>4, <2>1 DEF SizeOf
<1>5. CASE slot = "meta"
  <2>1. new.req = buf.req /\ new.resp = buf.resp /\ new.meta = data
    BY Zenon, <1>5 DEF CallBuf
  <2>2. QED
    BY <1>1, <1>2, <1>5, <2>1 DEF SizeOf
<1>6. QED
  BY <1>3, <1>4, <1>5

LEMMA AddLooseCounts ==
    ASSUME CountInv, NEW ev \in Event, AddLoose(ev)
    PROVE  CountInv'
<1>1. /\ fallbackEvents' = Append(fallbackEvents, ev)
      /\ totalBytes' = totalBytes + ev.data.size
      /\ calls' = calls /\ order' = order
  BY Zenon DEF AddLoose, applyPayloadBudget
<1>2. KeptLoose(fallbackEvents') = KeptLoose(fallbackEvents) + ev.data.size
  BY <1>1, KeptLooseGrows DEF CountInv
<1>3. /\ Kept(calls, order) \in Int /\ KeptLoose(fallbackEvents) \in Int
      /\ ev.data.size \in Nat
  BY Zenon, KeptIsInt, KeptLooseIsInt, EventAssumption DEF CountInv, Ordered
<1>4. totalBytes = Kept(calls, order) + KeptLoose(fallbackEvents)
  BY DEF CountInv, BytesCounted, Kept, KeptLoose
<1>5. totalBytes' = Kept(calls', order') + KeptLoose(fallbackEvents')
  BY <1>1, <1>2, <1>3, <1>4
<1>6. BytesCounted'
  BY <1>5 DEF BytesCounted, Kept, KeptLoose
<1>7. fallbackEvents' \in Seq(Event)
  BY <1>1 DEF CountInv
<1>8. QED
  BY <1>1, <1>6, <1>7 DEF CountInv, Ordered

LEMMA AddToCallCounts ==
    ASSUME CountInv, NEW ev \in Event, AddToCall(ev)
    PROVE  CountInv'
<1> DEFINE old == IF ev.log \in DOMAIN calls THEN calls[ev.log] ELSE EmptyBuf(ev.prompt)
           slot == Slot(ev)
           new == IF slot = "none" THEN BufOf(ev) ELSE [BufOf(ev) EXCEPT ![slot] = ev.data]
<1>1. ev.data \in Payload /\ ev.ts \in Nat /\ ev.data.size \in Nat
      /\ NoData \in Payload /\ NoData.size = 0
  BY EventAssumption
<1>2. old \in CallBuf
  BY Zenon, <1>1 DEF EmptyBuf, CallBuf, CountInv
<1>3. BufOf(ev) \in CallBuf /\ SizeOf(BufOf(ev)) = SizeOf(old)
  BY <1>1, <1>2, TimedKeeps DEF BufOf
<1>4. /\ calls' = [log \in DOMAIN calls \cup {ev.log} |->
                     IF log # ev.log THEN calls[log] ELSE new]
      /\ order' = IF ev.log \in DOMAIN calls THEN order ELSE Append(order, ev.log)
      /\ fallbackEvents' = fallbackEvents
  BY Zenon DEF AddToCall
<1>5. new \in CallBuf /\ totalBytes' = totalBytes - SizeOf(old) + SizeOf(new)
  <2>1. totalBytes \in Int /\ SizeOf(old) \in Nat
    <3>1. Kept(calls, order) \in Int /\ KeptLoose(fallbackEvents) \in Int
      BY KeptIsInt, KeptLooseIsInt DEF CountInv, Ordered
    <3>2. totalBytes = Kept(calls, order) + KeptLoose(fallbackEvents)
      BY DEF CountInv, BytesCounted, Kept, KeptLoose
    <3>3. QED
      BY <1>2, <3>1, <3>2, SizeTypes
  <2>2. CASE slot = "none"
    <3>1. totalBytes' = totalBytes
      BY Zenon, <2>2 DEF AddToCall
    <3>2. new = BufOf(ev)
      BY <2>2
    <3>3. QED
      BY <1>3, <2>1, <3>1, <3>2
  <2>3. CASE slot # "none"
    <3>1. slot \in {"req", "resp", "meta"} /\ new = [BufOf(ev) EXCEPT ![slot] = ev.data]
      BY <2>3, SlotCases
    <3>2. totalBytes' = totalBytes - BufOf(ev)[slot].size + ev.data.size
      BY Zenon, <2>3 DEF AddToCall, applyPayloadBudget
    <3> HIDE DEF slot, new, old
    <3>3. new \in CallBuf /\ SizeOf(new) = SizeOf(BufOf(ev)) - BufOf(ev)[slot].size + ev.data.size
      BY Zenon, <1>1, <1>3, <3>1, StoredSize
    <3>4. BufOf(ev)[slot].size \in Nat
      BY <1>3, <3>1, SizeTypes
    <3>5. QED
      BY <1>1, <1>3, <2>1, <3>2, <3>3, <3>4
  <2>4. QED
    BY <2>2, <2>3
<1> HIDE DEF new, slot
<1>6. /\ calls \in [DOMAIN calls -> CallBuf] /\ order \in Seq(DOMAIN calls)
      /\ \A i, j \in DOMAIN order : order[i] = order[j] => i = j
      /\ \A log \in DOMAIN calls : \E i \in DOMAIN order : order[i] = log
  BY DEF CountInv, Ordered
<1>7. /\ calls' \in [DOMAIN calls' -> CallBuf] /\ DOMAIN calls' = DOMAIN calls \cup {ev.log}
      /\ calls'[ev.log] = new /\ \A log \in DOMAIN calls : log # ev.log => calls'[log] = calls[log]
  BY <1>4, <1>5, <1>6
<1>8. Kept(calls', order') = Kept(calls, order) - SizeOf(old) + SizeOf(new)
  <2>1. CASE ev.log \in DOMAIN calls
    <3>1. PICK k \in DOMAIN order : order[k] = ev.log
      BY <1>6, <2>1
    <3>2. order' = order /\ old = calls[order[k]] /\ new = calls'[order[k]]
          /\ DOMAIN calls' = DOMAIN calls
      BY <1>4, <1>7, <2>1, <3>1
    <3>3. \A log \in DOMAIN calls : log # order[k] => calls'[log] = calls[log]
      BY <1>7, <3>1
    <3> HIDE DEF old
    <3>4. Kept(calls', order) = Kept(calls, order) - SizeOf(calls[order[k]])
                                + SizeOf(calls'[order[k]])
      BY <1>6, <1>7, <3>2, <3>3, KeptWithCall
    <3>5. QED
      BY <3>2, <3>4
  <2>2. CASE ev.log \notin DOMAIN calls
    <3>1. order' = Append(order, ev.log) /\ SizeOf(old) = 0
      BY <1>1, <1>4, <2>2 DEF EmptyBuf, SizeOf
    <3>2. \A log \in DOMAIN calls : calls'[log] = calls[log]
      BY <1>7, <2>2
    <3> HIDE DEF old
    <3>3. Kept(calls', Append(order, ev.log)) = Kept(calls, order) + SizeOf(calls'[ev.log])
      <4> DEFINE m == Append(order, ev.log)
      <4>1. /\ DOMAIN m = 1 .. (Len(order) + 1) /\ m[Len(order) + 1] = ev.log
            /\ \A i \in 1 .. Len(order) : m[i] = order[i]
        BY <1>6
      <4> HIDE DEF m
      <4>2. NewCall(calls, order, calls', m, ev.log)
        BY <1>6, <1>7, <2>2, <3>2, <4>1 DEF NewCall
      <4>3. Kept(calls', m) = Kept(calls, order) + SizeOf(calls'[ev.log])
        BY <4>2, KeptWithNewCall
      <4>4. QED
        BY <4>3 DEF m
    <3>4. Kept(calls, order) \in Int
      BY <1>6, KeptIsInt
    <3>5. QED
      BY <1>7, <3>1, <3>3, <3>4
  <2>3. QED
    BY <2>1, <2>2
<1>9. BytesCounted'
  <2>1. /\ Kept(calls, order) \in Int /\ KeptLoose(fallbackEvents) \in Int
        /\ SizeOf(old) \in Int /\ SizeOf(new) \in Int
    <3>1. SizeOf(old) \in Nat /\ SizeOf(new) \in Nat
      <4> HIDE DEF old
      <4>1. QED
        BY <1>2, <1>5, SizeTypes
    <3>2. Kept(calls, order) \in Int /\ KeptLoose(fallbackEvents) \in Int
      BY KeptIsInt, KeptLooseIsInt DEF CountInv, Ordered
    <3>3. QED
      BY <3>1, <3>2
  <2>2. totalBytes = Kept(calls, order) + KeptLoose(fallbackEvents)
    BY DEF CountInv, BytesCounted, Kept, KeptLoose
  <2> HIDE DEF old
  <2>3. totalBytes' = Kept(calls', order') + KeptLoose(fallbackEvents')
    BY <1>4, <1>5, <1>8, <2>1, <2>2
  <2>4. QED
    BY <2>3 DEF BytesCounted, Kept, KeptLoose
<1>10. Ordered'
  <2>1. CASE ev.log \in DOMAIN calls
    <3>1. order' = order /\ DOMAIN calls' = DOMAIN calls
      BY <1>4, <1>7, <2>1
    <3>2. QED
      BY <1>6, <3>1 DEF Ordered
  <2>2. CASE ev.log \notin DOMAIN calls
    <3> DEFINE n == Len(order)
               m == Append(order, ev.log)
    <3>1. order' = m /\ n \in Nat /\ DOMAIN order = 1 .. n /\ DOMAIN m = 1 .. (n + 1)
      BY <1>4, <1>6, <2>2
    <3>2. /\ \A i \in 1 .. n : m[i] = order[i] /\ order[i] \in DOMAIN calls
          /\ m[n + 1] = ev.log
      BY <1>6
    <3>3. m \in Seq(DOMAIN calls')
      <4>1. order \in Seq(DOMAIN calls') /\ ev.log \in DOMAIN calls'
        BY <1>6, <1>7
      <4>2. QED
        BY <4>1
    <3> HIDE DEF m, n
    <3>4. ASSUME NEW log \in DOMAIN calls' PROVE \E i \in DOMAIN m : m[i] = log
      <4>1. CASE log = ev.log
        BY <3>1, <3>2, <4>1, n + 1 \in 1 .. (n + 1)
      <4>2. CASE log # ev.log
        <5>1. PICK i \in DOMAIN order : order[i] = log
          BY <1>6, <1>7, <4>2
        <5>2. i \in DOMAIN m /\ m[i] = log
          BY <3>1, <3>2, <5>1
        <5>3. QED
          BY <5>2
      <4>3. QED
        BY <4>1, <4>2
    <3>5. ASSUME NEW i \in DOMAIN m, NEW j \in DOMAIN m, m[i] = m[j] PROVE i = j
      <4>1. \A x \in 1 .. (n + 1) : x \in 1 .. n \/ x = n + 1
        BY <3>1
      <4>2. \A x \in 1 .. n : m[x] # ev.log
        BY <2>2, <3>2
      <4>3. CASE i \in 1 .. n /\ j \in 1 .. n
        BY <1>6, <3>1, <3>2, <3>5, <4>3
      <4>4. CASE i = n + 1 /\ j = n + 1
        BY <4>4
      <4>5. QED
        BY <3>1, <3>2, <3>5, <4>1, <4>2, <4>3, <4>4
    <3>6. QED
      BY <3>1, <3>3, <3>4, <3>5 DEF Ordered
  <2>3. QED
    BY <2>1, <2>2
<1>11. QED
  BY <1>4, <1>7, <1>9, <1>10 DEF CountInv

LEMMA NewCollectorCounts == ASSUME NewCollector PROVE CollectorInv /\ CountInv
<1>1. /\ calls \in [DOMAIN calls -> CallBuf] /\ DOMAIN calls = {} /\ order = <<>>
      /\ fallbackEvents = <<>> /\ totalBytes = 0
  BY Zenon DEF NewCollector
<1>2. Kept(calls, order) = 0 /\ KeptLoose(fallbackEvents) = 0
  <2>1. /\ DOMAIN [i \in DOMAIN order |-> SizeOf(calls[order[i]])] = {}
        /\ DOMAIN [i \in DOMAIN fallbackEvents |-> fallbackEvents[i].data.size] = {}
    BY <1>1
  <2>2. \A f : DOMAIN f = {} => SumFunction(f) = 0
    BY SumOfNone DEF SumFunction
  <2>3. QED
    BY <2>1, <2>2 DEF Kept, KeptLoose
<1>3. BytesCounted
  BY <1>1, <1>2 DEF BytesCounted, Kept, KeptLoose
<1>4. Ordered
  BY <1>1 DEF Ordered
<1>5. QED
  BY <1>1, <1>3, <1>4, NewCollectorBudget DEF CountInv

LEMMA AddKeepsCount ==
    ASSUME CountInv, NEW ev \in Event, Add(ev)
    PROVE  CountInv'
BY Zenon, AddLooseCounts, AddToCallCounts DEF Add

LEMMA CollectorStutters ==
    ASSUME CollectorInv, CountInv, UNCHANGED collector
    PROVE  CollectorInv' /\ CountInv'
<1>1. CollectorInv'
  BY Zenon DEF collector, CollectorInv, CollectorTypeOK, WithinBudget, pressureBytes, NoTruncation
<1>2. CountInv'
  BY DEF collector, CountInv, Ordered, BytesCounted
<1>3. QED
  BY <1>1, <1>2

(* For all limits and every sequence of events, of any size and in any     *)
(* order: what the collector counts is within the budget until it stops,   *)
(* and the notice it then leaves gives what it retained.                   *)
THEOREM BudgetHonoured == CollectorSpec => []WithinBudget
<1>1. NewCollector => CollectorInv
  BY NewCollectorCounts
<1>2. CollectorInv /\ [\E ev \in Event : Add(ev)]_collector => CollectorInv'
  <2>1. CASE UNCHANGED collector
    BY Zenon, <2>1 DEF collector, CollectorInv, CollectorTypeOK, WithinBudget, pressureBytes, NoTruncation
  <2> QED BY <2>1, AddKeepsBudget
<1>3. CollectorInv => WithinBudget
  BY DEF CollectorInv
<1> QED BY <1>1, <1>2, <1>3, PTL DEF CollectorSpec

(* For all limits and every sequence of events, with data replaced as      *)
(* often as it likes: the count is the sum of the sizes of what is kept.   *)
THEOREM EveryByteCounted == CollectorSpec => []BytesCounted
<1>1. NewCollector => CountInv
  BY NewCollectorCounts
<1>2. CountInv /\ [\E ev \in Event : Add(ev)]_collector => CountInv'
  <2>1. CASE UNCHANGED collector
    BY <2>1 DEF collector, CountInv, Ordered, BytesCounted
  <2> QED BY <2>1, AddKeepsCount
<1>3. CountInv => BytesCounted
  BY DEF CountInv
<1> QED BY <1>1, <1>2, <1>3, PTL DEF CollectorSpec

----------------------------------------------------------------------------
(* The lists that the parser folds a file into: its events, those with     *)
(* ids, those of one log id, the log ids in their order.                   *)

IntactStep(c, kept, x) == IF x # Broken THEN Append(kept, x) ELSE kept
KnownStep(c, kept, x) == IF x.log # "" /\ x.prompt # "" THEN Append(kept, x) ELSE kept
LogStep(log, kept, x) == IF x.log = log THEN Append(kept, x) ELSE kept
SeenStep(c, seen, x) == IF Contains(seen, x.log) THEN seen ELSE Append(seen, x.log)

IntactFold == INSTANCE RecursionLemmas WITH Step <- IntactStep
KnownFold == INSTANCE RecursionLemmas WITH Step <- KnownStep
LogFold == INSTANCE RecursionLemmas WITH Step <- LogStep
SeenFold == INSTANCE RecursionLemmas WITH Step <- SeenStep

Known(events) == Filtered(events, LAMBDA ev : ev.log # "" /\ ev.prompt # "")
OfLog(events, log) == Filtered(events, LAMBDA ev : ev.log = log)

LEMMA IntactOfAppend ==
  ASSUME NEW Line, NEW seq \in Seq(Line), NEW x \in Line
  PROVE  Intact(Append(seq, x)) = IF x # Broken THEN Append(Intact(seq), x) ELSE Intact(seq)
<1>1. \A s : Intact(s) = IntactFold!Fold(0, <<>>, s)
  BY DEF Intact, Filtered, FoldLeft, MapThenFoldSet, Max, IntactFold!Fold, IntactFold!IsFold,
         IntactFold!Greatest, IntactStep
<1>2. \A c, base : IntactFold!Fold(c, base, Append(seq, x)) = IntactStep(c, IntactFold!Fold(c, base, seq), x)
  BY IntactFold!FoldOfAppend, LeastNumber DEF IntactFold!LeastNumbers
<1>3. IntactFold!Fold(0, <<>>, Append(seq, x)) = IntactStep(0, IntactFold!Fold(0, <<>>, seq), x)
  BY <1>2
<1>4. QED
  BY <1>1, <1>3 DEF IntactStep

LEMMA IntactType ==
  ASSUME NEW Line, NEW seq \in Seq(Line)
  PROVE  Intact(seq) \in Seq(Line \ {Broken})
<1>1. Intact(seq) = IntactFold!Fold(0, <<>>, seq)
  BY DEF Intact, Filtered, FoldLeft, MapThenFoldSet, Max, IntactFold!Fold, IntactFold!IsFold,
         IntactFold!Greatest, IntactStep
<1> DEFINE n == Len(seq)
           T == Seq(Line \ {Broken})
<1>2. n \in Nat /\ DOMAIN seq = 1..n /\ <<>> \in T
  OBVIOUS
<1>3. ASSUME NEW kept \in T, NEW i \in 1..n PROVE IntactStep(0, kept, seq[i]) \in T
  BY DEF IntactStep
<1> HIDE DEF n, T
<1>4. \A c, base : base \in T /\ (\A kept \in T : \A i \in 1..n : IntactStep(c, kept, seq[i]) \in T)
        => IntactFold!Fold(c, base, seq) \in T
  BY <1>2, IntactFold!FoldKeeps, LeastNumber DEF IntactFold!LeastNumbers
<1>5. IntactFold!Fold(0, <<>>, seq) \in T
  BY <1>2, <1>3, <1>4
<1>6. QED
  BY <1>1, <1>5 DEF T

LEMMA IntactOfNone == Intact(<<>>) = <<>>
<1>1. Intact(<<>>) = IntactFold!Fold(0, <<>>, <<>>)
  BY DEF Intact, Filtered, FoldLeft, MapThenFoldSet, Max, IntactFold!Fold, IntactFold!IsFold,
         IntactFold!Greatest, IntactStep
<1>2. \A c, base, seq : DOMAIN seq = 1..0 => IntactFold!Fold(c, base, seq) = base
  BY IntactFold!FoldOfNone, LeastNumber DEF IntactFold!LeastNumbers
<1>3. DOMAIN <<>> = 1..0
  OBVIOUS
<1>4. IntactFold!Fold(0, <<>>, <<>>) = <<>>
  BY <1>2, <1>3
<1>5. QED
  BY <1>1, <1>4

LEMMA KnownOfAppend ==
  ASSUME NEW Line, NEW seq \in Seq(Line), NEW x \in Line
  PROVE  Known(Append(seq, x)) = IF x.log # "" /\ x.prompt # "" THEN Append(Known(seq), x) ELSE Known(seq)
<1>1. \A s : Known(s) = KnownFold!Fold(0, <<>>, s)
  BY DEF Known, Filtered, FoldLeft, MapThenFoldSet, Max, KnownFold!Fold, KnownFold!IsFold,
         KnownFold!Greatest, KnownStep
<1>2. \A c, base : KnownFold!Fold(c, base, Append(seq, x)) = KnownStep(c, KnownFold!Fold(c, base, seq), x)
  BY KnownFold!FoldOfAppend, LeastNumber DEF KnownFold!LeastNumbers
<1>3. KnownFold!Fold(0, <<>>, Append(seq, x)) = KnownStep(0, KnownFold!Fold(0, <<>>, seq), x)
  BY <1>2
<1>4. QED
  BY Zenon, <1>1, <1>3 DEF KnownStep

LEMMA KnownType ==
  ASSUME NEW Line, NEW seq \in Seq(Line)
  PROVE  Known(seq) \in Seq({x \in Line : x.log # "" /\ x.prompt # ""})
<1>1. Known(seq) = KnownFold!Fold(0, <<>>, seq)
  BY DEF Known, Filtered, FoldLeft, MapThenFoldSet, Max, KnownFold!Fold, KnownFold!IsFold,
         KnownFold!Greatest, KnownStep
<1> DEFINE n == Len(seq)
           S == {x \in Line : x.log # "" /\ x.prompt # ""}
           T == Seq(S)
<1>2. n \in Nat /\ DOMAIN seq = 1..n /\ <<>> \in T /\ \A i \in 1..n : seq[i] \in Line
  OBVIOUS
<1>3. ASSUME NEW kept \in T, NEW i \in 1..n PROVE KnownStep(0, kept, seq[i]) \in T
  <2>1. seq[i] \in Line /\ (seq[i].log # "" /\ seq[i].prompt # "" => seq[i] \in S)
    BY Zenon, <1>2
  <2> HIDE DEF S
  <2>2. \A x \in S : Append(kept, x) \in T
    OBVIOUS
  <2>3. CASE seq[i].log # "" /\ seq[i].prompt # ""
    <3>1. Append(kept, seq[i]) \in T
      BY Zenon, <2>1, <2>2, <2>3
    <3>2. QED
      BY Zenon, <2>3, <3>1 DEF KnownStep
  <2>4. CASE ~(seq[i].log # "" /\ seq[i].prompt # "")
    BY Zenon, <2>4 DEF KnownStep
  <2>5. QED
    BY Zenon, <2>3, <2>4
<1> HIDE DEF n, T
<1>4. \A c, base : base \in T /\ (\A kept \in T : \A i \in 1..n : KnownStep(c, kept, seq[i]) \in T)
        => KnownFold!Fold(c, base, seq) \in T
  BY <1>2, KnownFold!FoldKeeps, LeastNumber DEF KnownFold!LeastNumbers
<1>5. KnownFold!Fold(0, <<>>, seq) \in T
  BY <1>2, <1>3, <1>4
<1>6. QED
  BY Zenon, <1>1, <1>5 DEF T

LEMMA KnownOfNone == Known(<<>>) = <<>>
<1>1. Known(<<>>) = KnownFold!Fold(0, <<>>, <<>>)
  BY DEF Known, Filtered, FoldLeft, MapThenFoldSet, Max, KnownFold!Fold, KnownFold!IsFold,
         KnownFold!Greatest, KnownStep
<1>2. \A c, base, seq : DOMAIN seq = 1..0 => KnownFold!Fold(c, base, seq) = base
  BY KnownFold!FoldOfNone, LeastNumber DEF KnownFold!LeastNumbers
<1>3. DOMAIN <<>> = 1..0
  OBVIOUS
<1>4. KnownFold!Fold(0, <<>>, <<>>) = <<>>
  BY <1>2, <1>3
<1>5. QED
  BY <1>1, <1>4

LEMMA OfLogOfAppend ==
  ASSUME NEW log, NEW Line, NEW seq \in Seq(Line), NEW x \in Line
  PROVE  OfLog(Append(seq, x), log) = IF x.log = log THEN Append(OfLog(seq, log), x) ELSE OfLog(seq, log)
<1>1. \A s : OfLog(s, log) = LogFold!Fold(log, <<>>, s)
  BY DEF OfLog, Filtered, FoldLeft, MapThenFoldSet, Max, LogFold!Fold, LogFold!IsFold,
         LogFold!Greatest, LogStep
<1>2. \A c, base : LogFold!Fold(c, base, Append(seq, x)) = LogStep(c, LogFold!Fold(c, base, seq), x)
  BY LogFold!FoldOfAppend, LeastNumber DEF LogFold!LeastNumbers
<1>3. LogFold!Fold(log, <<>>, Append(seq, x)) = LogStep(log, LogFold!Fold(log, <<>>, seq), x)
  BY <1>2
<1>4. QED
  BY <1>1, <1>3 DEF LogStep

LEMMA OfLogType ==
  ASSUME NEW log, NEW Line, NEW seq \in Seq(Line)
  PROVE  OfLog(seq, log) \in Seq({x \in Line : x.log = log})
<1>1. OfLog(seq, log) = LogFold!Fold(log, <<>>, seq)
  BY DEF OfLog, Filtered, FoldLeft, MapThenFoldSet, Max, LogFold!Fold, LogFold!IsFold,
         LogFold!Greatest, LogStep
<1> DEFINE n == Len(seq)
           T == Seq({x \in Line : x.log = log})
<1>2. n \in Nat /\ DOMAIN seq = 1..n /\ <<>> \in T
  OBVIOUS
<1>3. ASSUME NEW kept \in T, NEW i \in 1..n PROVE LogStep(log, kept, seq[i]) \in T
  BY DEF LogStep
<1> HIDE DEF n, T
<1>4. \A c, base : base \in T /\ (\A kept \in T : \A i \in 1..n : LogStep(c, kept, seq[i]) \in T)
        => LogFold!Fold(c, base, seq) \in T
  BY <1>2, LogFold!FoldKeeps, LeastNumber DEF LogFold!LeastNumbers
<1>5. LogFold!Fold(log, <<>>, seq) \in T
  BY <1>2, <1>3, <1>4
<1>6. QED
  BY <1>1, <1>5 DEF T

LEMMA OfLogOfNone == ASSUME NEW log PROVE OfLog(<<>>, log) = <<>>
<1>1. OfLog(<<>>, log) = LogFold!Fold(log, <<>>, <<>>)
  BY DEF OfLog, Filtered, FoldLeft, MapThenFoldSet, Max, LogFold!Fold, LogFold!IsFold,
         LogFold!Greatest, LogStep
<1>2. \A c, base, seq : DOMAIN seq = 1..0 => LogFold!Fold(c, base, seq) = base
  BY LogFold!FoldOfNone, LeastNumber DEF LogFold!LeastNumbers
<1>3. DOMAIN <<>> = 1..0
  OBVIOUS
<1>4. LogFold!Fold(log, <<>>, <<>>) = <<>>
  BY <1>2, <1>3
<1>5. QED
  BY <1>1, <1>4

LEMMA LogsOfAppend ==
  ASSUME NEW Line, NEW seq \in Seq(Line), NEW x \in Line
  PROVE  LogsOf(Append(seq, x)) = IF Contains(LogsOf(seq), x.log) THEN LogsOf(seq) ELSE Append(LogsOf(seq), x.log)
<1>1. \A s : LogsOf(s) = SeenFold!Fold(0, <<>>, s)
  BY DEF LogsOf, FoldLeft, MapThenFoldSet, Max, SeenFold!Fold, SeenFold!IsFold,
         SeenFold!Greatest, SeenStep
<1>2. \A c, base : SeenFold!Fold(c, base, Append(seq, x)) = SeenStep(c, SeenFold!Fold(c, base, seq), x)
  BY SeenFold!FoldOfAppend, LeastNumber DEF SeenFold!LeastNumbers
<1>3. SeenFold!Fold(0, <<>>, Append(seq, x)) = SeenStep(0, SeenFold!Fold(0, <<>>, seq), x)
  BY <1>2
<1>4. QED
  BY <1>1, <1>3 DEF SeenStep

LEMMA LogsOfType ==
  ASSUME NEW Line, NEW seq \in Seq(Line)
  PROVE  LogsOf(seq) \in Seq({x.log : x \in Line})
<1>1. LogsOf(seq) = SeenFold!Fold(0, <<>>, seq)
  BY DEF LogsOf, FoldLeft, MapThenFoldSet, Max, SeenFold!Fold, SeenFold!IsFold,
         SeenFold!Greatest, SeenStep
<1> DEFINE n == Len(seq)
           T == Seq({x.log : x \in Line})
<1>2. n \in Nat /\ DOMAIN seq = 1..n /\ <<>> \in T
  OBVIOUS
<1>3. ASSUME NEW kept \in T, NEW i \in 1..n PROVE SeenStep(0, kept, seq[i]) \in T
  BY DEF SeenStep
<1> HIDE DEF n, T
<1>4. \A c, base : base \in T /\ (\A kept \in T : \A i \in 1..n : SeenStep(c, kept, seq[i]) \in T)
        => SeenFold!Fold(c, base, seq) \in T
  BY <1>2, SeenFold!FoldKeeps, LeastNumber DEF SeenFold!LeastNumbers
<1>5. SeenFold!Fold(0, <<>>, seq) \in T
  BY <1>2, <1>3, <1>4
<1>6. QED
  BY <1>1, <1>5 DEF T

LEMMA LogsOfNone == LogsOf(<<>>) = <<>>
<1>1. LogsOf(<<>>) = SeenFold!Fold(0, <<>>, <<>>)
  BY DEF LogsOf, FoldLeft, MapThenFoldSet, Max, SeenFold!Fold, SeenFold!IsFold,
         SeenFold!Greatest, SeenStep
<1>2. \A c, base, seq : DOMAIN seq = 1..0 => SeenFold!Fold(c, base, seq) = base
  BY SeenFold!FoldOfNone, LeastNumber DEF SeenFold!LeastNumbers
<1>3. DOMAIN <<>> = 1..0
  OBVIOUS
<1>4. SeenFold!Fold(0, <<>>, <<>>) = <<>>
  BY <1>2, <1>3
<1>5. QED
  BY <1>1, <1>4

----------------------------------------------------------------------------
(* Earliest and latest of times, and what one more event changes in a      *)
(* group.                                                                  *)

LEMMA MinIs ==
  ASSUME NEW T \in SUBSET Int, NEW m \in T, \A t \in T : m <= t
  PROVE  Min(T) = m
<1>1. \E x \in T : \A y \in T : x <= y
  OBVIOUS
<1>2. Min(T) \in T /\ \A y \in T : Min(T) <= y
  BY Zenon, <1>1 DEF Min
<1>3. Min(T) \in Int /\ m \in Int /\ m <= Min(T) /\ Min(T) <= m
  BY Zenon, <1>2
<1>4. QED
  BY <1>3

LEMMA MaxIs ==
  ASSUME NEW T \in SUBSET Int, NEW m \in T, \A t \in T : t <= m
  PROVE  Max(T) = m
<1>1. \E x \in T : \A y \in T : x >= y
  OBVIOUS
<1>2. Max(T) \in T /\ \A y \in T : Max(T) >= y
  BY Zenon, <1>1 DEF Max
<1>3. Max(T) \in Int /\ m \in Int /\ m <= Max(T) /\ Max(T) <= m
  BY Zenon, <1>2
<1>4. QED
  BY <1>3

LEMMA MinOf ==
  ASSUME NEW T \in SUBSET Nat, T # {}
  PROVE  Min(T) \in T /\ \A t \in T : Min(T) <= t
<1>1. \E x \in T : \A y \in T : x <= y
  BY LeastNumber
<1>2. QED
  BY Zenon, <1>1 DEF Min

LEMMA MaxOf ==
  ASSUME NEW T \in SUBSET Nat, T # {}, IsFiniteSet(T)
  PROVE  Max(T) \in T /\ \A t \in T : t <= Max(T)
<1> DEFINE Bounded(S) == \E x \in S : \A y \in S : x >= y
           Bad == {S \in SUBSET T : S # {} /\ ~Bounded(S)}
<1>1. Bad = {}
  <2>1. SUFFICES ASSUME Bad # {} PROVE FALSE
    OBVIOUS
  <2>2. PICK S \in Bad : \A x \in S : S \ {x} \notin Bad
    <3>1. \A S \in Bad : IsFiniteSet(S)
      BY Zenon, FS_Subset
    <3> HIDE DEF Bad
    <3>2. QED
      BY Zenon, <2>1, <3>1, SmallestSet
  <2>3. S \in SUBSET Nat /\ ~Bounded(S)
    OBVIOUS
  <2>4. PICK x \in S : TRUE
    BY Zenon
  <2>5. CASE S \ {x} = {}
    BY <2>3, <2>4, <2>5
  <2>6. CASE S \ {x} # {}
    <3>1. Bounded(S \ {x})
      BY <2>2, <2>4, <2>6
    <3>2. PICK m \in S : m # x /\ \A y \in S \ {x} : m >= y
      BY <3>1
    <3>3. x \in Nat /\ m \in Nat
      BY <2>3, <2>4
    <3>4. (IF x >= m THEN x ELSE m) \in S
          /\ \A y \in S : (IF x >= m THEN x ELSE m) >= y
      <4>1. ASSUME NEW y \in S PROVE (IF x >= m THEN x ELSE m) >= y
        <5>1. y \in Nat /\ (y # x => m >= y)
          BY <2>3, <3>2
        <5>2. QED
          BY <3>3, <5>1
      <4>2. QED
        BY <2>4, <4>1
    <3>5. QED
      BY <2>3, <3>4
  <2>7. QED
    BY <2>5, <2>6
<1>2. Bounded(T)
  BY <1>1
<1>3. QED
  BY Zenon, <1>2 DEF Max

Times(mine) == {mine[i].ts : i \in DOMAIN mine} \ {0}
TypedAs(mine, types) == {i \in DOMAIN mine : mine[i].type \in types}
LastData(mine, types) ==
    IF TypedAs(mine, types) = {} THEN NoBytes ELSE mine[Max(TypedAs(mine, types))].data

LEMMA GroupedIs ==
  ASSUME NEW mine, NEW log
  PROVE  Grouped(mine, log) =
           [log |-> log, prompt |-> mine[1].prompt,
            start |-> IF Times(mine) = {} THEN 0 ELSE Min(Times(mine)),
            end |-> IF Times(mine) = {} THEN 0 ELSE Max(Times(mine)),
            req |-> LastData(mine, {"REQUEST_BODY"}),
            resp |-> LastData(mine, {"RESPONSE_BODY_FINAL", "RESPONSE_BODY"}),
            meta |-> LastData(mine, {"RESPONSE_META"})]
BY DEF Grouped, Times, TypedAs, LastData

LEMMA TimesAre ==
  ASSUME NEW mine \in Seq(Event)
  PROVE  Times(mine) \in SUBSET (Nat \ {0}) /\ IsFiniteSet(Times(mine))
<1> DEFINE f == [i \in DOMAIN mine |-> mine[i].ts]
           D == DOMAIN mine
<1>1. IsFiniteSet(D)
  <2>1. Len(mine) \in Nat /\ D = 1..Len(mine)
    OBVIOUS
  <2>2. QED
    BY <2>1, FS_Interval
<1> HIDE DEF D
<1>2. IsFiniteSet({f[i] : i \in D})
  <2> HIDE DEF f
  <2>1. QED
    BY <1>1, ImageIsFinite
<1>3. Times(mine) \subseteq {f[i] : i \in D}
  BY DEF Times, D
<1>4. IsFiniteSet(Times(mine))
  BY <1>2, <1>3, FS_Subset
<1>5. Times(mine) \in SUBSET (Nat \ {0})
  BY EventAssumption DEF Times
<1>6. QED
  BY <1>4, <1>5

\* The first and the last time of some events with another event.
LEMMA TimesOfAppend ==
  ASSUME NEW mine \in Seq(Event), NEW ev \in Event, NEW log
  PROVE  LET g == Grouped(mine, log)
             h == Grouped(Append(mine, ev), log)
         IN  /\ g.start \in Nat /\ g.end \in Nat
             /\ h.start = IF ev.ts # 0 /\ (g.start = 0 \/ ev.ts < g.start)
                          THEN ev.ts ELSE g.start
             /\ h.end = IF ev.ts # 0 /\ ev.ts > g.end THEN ev.ts ELSE g.end
<1> DEFINE A == Times(mine)
           B == Times(Append(mine, ev))
           t == ev.ts
           Lo(T) == IF T = {} THEN 0 ELSE Min(T)
           Hi(T) == IF T = {} THEN 0 ELSE Max(T)
<1>1. t \in Nat
  BY EventAssumption
<1>2. B = IF t = 0 THEN A ELSE A \cup {t}
  <2>1. Append(mine, ev) \in Seq(Event) /\ DOMAIN Append(mine, ev) = DOMAIN mine \cup {Len(mine) + 1}
        /\ Append(mine, ev)[Len(mine) + 1] = ev
        /\ \A i \in DOMAIN mine : Append(mine, ev)[i] = mine[i]
    OBVIOUS
  <2>2. B = (({mine[i].ts : i \in DOMAIN mine} \cup {t}) \ {0})
    BY <2>1 DEF Times
  <2>3. QED
    BY <2>2 DEF Times
<1>3. A \in SUBSET Nat /\ 0 \notin A /\ IsFiniteSet(A)
  BY TimesAre
<1>4. Grouped(mine, log).start = Lo(A) /\ Grouped(Append(mine, ev), log).start = Lo(B)
      /\ Grouped(mine, log).end = Hi(A) /\ Grouped(Append(mine, ev), log).end = Hi(B)
  BY GroupedIs
<1> HIDE DEF A, B, t
<1>5. A # {} => /\ Min(A) \in A /\ \A a \in A : Min(A) <= a
                /\ Max(A) \in A /\ \A a \in A : a <= Max(A)
  <2>1. A # {} => Min(A) \in A /\ \A a \in A : Min(A) <= a
    BY <1>3, MinOf
  <2>2. A # {} => Max(A) \in A /\ \A a \in A : a <= Max(A)
    BY <1>3, MaxOf
  <2>3. QED
    BY <2>1, <2>2
<1>6. Lo(A) \in Nat /\ Hi(A) \in Nat
  BY Zenon, <1>3, <1>5
<1>7. Lo(B) = IF t # 0 /\ (Lo(A) = 0 \/ t < Lo(A)) THEN t ELSE Lo(A)
  <2>1. CASE t = 0
    BY <1>2, <2>1
  <2>2. CASE t # 0
    <3> DEFINE m == IF A = {} \/ t < Min(A) THEN t ELSE Min(A)
    <3>1. B = A \cup {t} /\ B \in SUBSET Int /\ B # {}
      BY <1>1, <1>2, <1>3, <2>2
    <3>2. m \in B /\ \A b \in B : m <= b
      <4>1. ASSUME NEW b \in B PROVE m <= b
        <5>1. b = t \/ (b \in A /\ A # {})
          BY <3>1
        <5>2. A # {} => Min(A) \in Nat
          BY Zenon, <1>3, <1>5
        <5>3. b \in A => b \in Nat /\ Min(A) <= b
          BY <1>3, <1>5
        <5>4. QED
          BY <1>1, <5>1, <5>2, <5>3
      <4>2. m \in B
        BY <1>5, <3>1
      <4>3. QED
        BY <4>1, <4>2
    <3> HIDE DEF m
    <3>3. Min(B) = m
      BY Zenon, <3>1, <3>2, MinIs
    <3>4. Lo(A) = 0 <=> A = {}
      BY <1>3, <1>5
    <3>5. QED
      BY <2>2, <3>1, <3>3, <3>4 DEF m
  <2>3. QED
    BY <2>1, <2>2
<1>8. Hi(B) = IF t # 0 /\ t > Hi(A) THEN t ELSE Hi(A)
  <2>1. CASE t = 0
    BY <1>2, <2>1
  <2>2. CASE t # 0
    <3> DEFINE m == IF A = {} \/ t > Max(A) THEN t ELSE Max(A)
    <3>1. B = A \cup {t} /\ B \in SUBSET Int /\ B # {}
      BY <1>1, <1>2, <1>3, <2>2
    <3>2. m \in B /\ \A b \in B : b <= m
      <4>1. ASSUME NEW b \in B PROVE b <= m
        <5>1. b = t \/ (b \in A /\ A # {})
          BY <3>1
        <5>2. A # {} => Max(A) \in Nat
          BY Zenon, <1>3, <1>5
        <5>3. b \in A => b \in Nat /\ b <= Max(A)
          BY <1>3, <1>5
        <5>4. QED
          BY <1>1, <5>1, <5>2, <5>3
      <4>2. m \in B
        BY <1>5, <3>1
      <4>3. QED
        BY <4>1, <4>2
    <3> HIDE DEF m
    <3>3. Max(B) = m
      BY Zenon, <3>1, <3>2, MaxIs
    <3>4. t > 0
      BY <1>1, <2>2
    <3>5. QED
      BY <2>2, <3>1, <3>3, <3>4 DEF m
  <2>3. QED
    BY <2>1, <2>2
<1>9. QED
  BY <1>4, <1>6, <1>7, <1>8 DEF t

\* The last data of some types with another event.
LEMMA LastOfAppend ==
  ASSUME NEW mine \in Seq(Event), NEW ev \in Event, NEW types
  PROVE  LastData(Append(mine, ev), types) =
           IF ev.type \in types THEN ev.data ELSE LastData(mine, types)
<1> DEFINE n == Len(mine)
           more == Append(mine, ev)
           A == TypedAs(mine, types)
           B == TypedAs(more, types)
<1>1. n \in Nat /\ DOMAIN mine = 1..n /\ DOMAIN more = 1..(n + 1) /\ more[n + 1] = ev
      /\ \A i \in 1..n : more[i] = mine[i]
  OBVIOUS
<1> HIDE DEF n, more
<1>2. A \in SUBSET (1..n)
  BY <1>1 DEF TypedAs
<1>3. CASE ev.type \in types
  <2>1. n + 1 \in B /\ B \in SUBSET Int /\ \A b \in B : b <= n + 1
    BY <1>1, <1>3 DEF TypedAs
  <2> HIDE DEF B
  <2>2. Max(B) = n + 1
    BY <1>1, <2>1, MaxIs
  <2>3. QED
    BY <1>1, <1>3, <2>1, <2>2 DEF LastData, more, B
<1>4. CASE ev.type \notin types
  <2>1. A = B
    BY <1>1, <1>4 DEF TypedAs
  <2>2. A # {} => Max(A) \in 1..n
    <3> HIDE DEF A
    <3>1. A # {} => Max(A) \in A
      <4> DEFINE P == 1..n
      <4>1. IsFiniteSet(P) /\ A \subseteq P /\ P \subseteq Nat
        BY <1>1, <1>2, FS_Interval
      <4> HIDE DEF P
      <4>2. A \in SUBSET Nat /\ IsFiniteSet(A)
        BY Zenon, <4>1, FS_Subset
      <4>3. QED
        BY <4>2, MaxOf
    <3>2. QED
      BY Zenon, <1>2, <3>1
  <2>3. QED
    BY <1>1, <1>4, <2>1, <2>2 DEF LastData, more
<1>5. QED
  BY <1>3, <1>4

----------------------------------------------------------------------------
(* One more event, for the session and for the groups of a file.           *)

LEMMA FirstSessionOfAppend ==
  ASSUME NEW events \in Seq(Event), NEW ev \in Event
  PROVE  FirstSession(Append(events, ev)) =
           IF FirstSession(events) = "" THEN ev.session ELSE FirstSession(events)
<1> DEFINE n == Len(events)
           k == n + 1
           more == Append(events, ev)
           A == {i \in DOMAIN events : events[i].session # ""}
           B == {i \in DOMAIN more : more[i].session # ""}
<1>1. DOMAIN events = 1..n /\ DOMAIN more = (1..n) \cup {k} /\ more[k] = ev
      /\ (\A i \in 1..n : more[i] = events[i])
  OBVIOUS
<1>11. k \in Nat /\ k \notin 1..n /\ \A i \in 1..n : i \in Nat /\ i < k
  OBVIOUS
<1> HIDE DEF n, k, more
<1>2. B = IF ev.session # "" THEN A \cup {k} ELSE A
  <2>1. \A i : i \in B <=> (i \in A \/ (i = k /\ ev.session # ""))
    BY Zenon, <1>1, <1>11
  <2> HIDE DEF A, B
  <2>2. QED
    BY Zenon, <2>1
<1>3. A \in SUBSET Nat /\ \A i \in A : i \in 1..n /\ events[i].session # ""
  BY Zenon, <1>1, <1>11
<1>4. FirstSession(events) = (IF A = {} THEN "" ELSE events[Min(A)].session)
      /\ FirstSession(more) = (IF B = {} THEN "" ELSE more[Min(B)].session)
  BY DEF FirstSession
<1> HIDE DEF A, B
<1>5. CASE A = {}
  <2>1. CASE ev.session = ""
    BY Zenon, <1>2, <1>4, <1>5, <2>1 DEF more
  <2>2. CASE ev.session # ""
    <3>0. B = {k} /\ k \in Int /\ k <= k
      <4>1. k \in Nat
        BY <1>11
      <4>2. B = {k}
        BY Zenon, <1>2, <1>5, <2>2
      <4>3. QED
        BY <4>1, <4>2
    <3>1. k \in B /\ B \in SUBSET Int /\ \A b \in B : k <= b
      BY <3>0
    <3>2. Min(B) = k
      BY <3>1, MinIs
    <3>3. QED
      BY Zenon, <1>1, <1>4, <1>5, <3>0, <3>1, <3>2 DEF more
  <2>3. QED
    BY Zenon, <2>1, <2>2
<1>6. CASE A # {}
  <2>1. Min(A) \in A /\ \A a \in A : Min(A) <= a
    BY Zenon, <1>3, <1>6, MinOf
  <2>2. Min(A) \in 1..n /\ events[Min(A)].session # ""
    BY Zenon, <1>3, <2>1
  <2>3. Min(A) \in B /\ B \in SUBSET Int /\ \A b \in B : Min(A) <= b
    <3>1. \A b \in B : b \in A \/ b = k
      BY Zenon, <1>2
    <3>2. ASSUME NEW b \in B PROVE b \in Int /\ Min(A) <= b
      <4>1. CASE b \in A
        <5>1. b \in Nat
          BY Zenon, <1>3, <4>1
        <5>2. Min(A) <= b
          BY <2>1, <4>1
        <5>3. QED
          BY <5>1, <5>2
      <4>2. CASE b = k
        <5>1. Min(A) \in Nat /\ Min(A) < k /\ k \in Nat
          BY Zenon, <1>11, <2>2
        <5>2. QED
          BY <4>2, <5>1
      <4>3. QED
        BY <3>1, <4>1, <4>2
    <3>3. Min(A) \in B
      BY Zenon, <1>2, <2>1
    <3>4. QED
      BY <3>2, <3>3
  <2>4. Min(B) = Min(A)
    BY Zenon, <2>3, MinIs
  <2>5. QED
    BY Zenon, <1>1, <1>4, <1>6, <2>2, <2>3, <2>4 DEF more
<1>7. QED
  BY Zenon, <1>5, <1>6

-----------------------------------------------------------------------------
Mine(events, log) == OfLog(Known(events), log)
SameData(buf, g) ==
    /\ buf.start = g.start /\ buf.end = g.end
    /\ buf.req = g.req /\ buf.resp = g.resp /\ buf.meta = g.meta

(* What the collector knows of the events so far is what grouping all of   *)
(* them at once gives.                                                     *)
Collects(events) ==
    /\ order = LogsOf(Known(events))
    /\ \A log \in DOMAIN calls :
          /\ Mine(events, log) # <<>>
          /\ calls[log].prompt = Mine(events, log)[1].prompt
          /\ SameData(calls[log], Grouped(Mine(events, log), log))
    /\ \A log : log \notin DOMAIN calls => Mine(events, log) = <<>>
    /\ sessionID = FirstSession(events)

LEMMA MineType ==
  ASSUME NEW events \in Seq(Event), NEW log
  PROVE  Known(events) \in Seq(Event) /\ Mine(events, log) \in Seq(Event)
<1> DEFINE S == {x \in Event : x.log # "" /\ x.prompt # ""}
<1>1. Known(events) \in Seq(S)
  BY Zenon, KnownType
<1>2. \A s \in Seq(S) : s \in Seq(Event)
  <2>1. S \subseteq Event
    BY Zenon
  <2> HIDE DEF S
  <2>2. QED
    BY <2>1
<1>3. Known(events) \in Seq(Event)
  <2> HIDE DEF S
  <2>1. QED
    BY <1>1, <1>2
<1> DEFINE T == {x \in Event : x.log = log}
<1>4. OfLog(Known(events), log) \in Seq(T)
  BY <1>3, OfLogType
<1>5. \A s \in Seq(T) : s \in Seq(Event)
  <2>1. T \subseteq Event
    OBVIOUS
  <2> HIDE DEF T
  <2>2. QED
    BY <2>1
<1> HIDE DEF T
<1>6. QED
  BY <1>3, <1>4, <1>5 DEF Mine

LEMMA MineOfAppend ==
  ASSUME NEW events \in Seq(Event), NEW ev \in Event, NEW log
  PROVE  Mine(Append(events, ev), log) =
           IF ev.log # "" /\ ev.prompt # "" /\ ev.log = log
           THEN Append(Mine(events, log), ev) ELSE Mine(events, log)
<1>1. Known(Append(events, ev)) = IF ev.log # "" /\ ev.prompt # ""
                                  THEN Append(Known(events), ev) ELSE Known(events)
  BY Zenon, KnownOfAppend
<1>2. Known(events) \in Seq(Event)
  BY MineType
<1>3. OfLog(Append(Known(events), ev), log) =
        IF ev.log = log THEN Append(OfLog(Known(events), log), ev) ELSE OfLog(Known(events), log)
  BY <1>2, OfLogOfAppend
<1>4. QED
  BY Zenon, <1>1, <1>3 DEF Mine

\* A call that takes another event does what the grouping does.
LEMMA BufFollows ==
  ASSUME NEW mine \in Seq(Event), NEW ev \in Event, NEW log, NEW old,
         old \in CallBuf, SameData(old, Grouped(mine, log))
  PROVE  LET buf == Timed(old, ev.ts)
             new == IF Slot(ev) = "none" THEN buf ELSE [buf EXCEPT ![Slot(ev)] = ev.data]
         IN  /\ SameData(new, Grouped(Append(mine, ev), log))
             /\ new.prompt = old.prompt
<1> DEFINE g == Grouped(mine, log)
           h == Grouped(Append(mine, ev), log)
           buf == Timed(old, ev.ts)
           new == IF Slot(ev) = "none" THEN buf ELSE [buf EXCEPT ![Slot(ev)] = ev.data]
<1>1. ev.ts \in Nat /\ ev.type \in EventType
  BY EventAssumption
<1>2. /\ h.start = IF ev.ts # 0 /\ (g.start = 0 \/ ev.ts < g.start) THEN ev.ts ELSE g.start
      /\ h.end = IF ev.ts # 0 /\ ev.ts > g.end THEN ev.ts ELSE g.end
  BY TimesOfAppend
<1>3. /\ h.req = IF Slot(ev) = "req" THEN ev.data ELSE g.req
      /\ h.resp = IF Slot(ev) = "resp" THEN ev.data ELSE g.resp
      /\ h.meta = IF Slot(ev) = "meta" THEN ev.data ELSE g.meta
  <2>1. \A types : LastData(Append(mine, ev), types) =
                     IF ev.type \in types THEN ev.data ELSE LastData(mine, types)
    BY LastOfAppend
  <2>2. /\ Slot(ev) = "req" <=> ev.type \in {"REQUEST_BODY"}
        /\ Slot(ev) = "resp" <=> ev.type \in {"RESPONSE_BODY_FINAL", "RESPONSE_BODY"}
        /\ Slot(ev) = "meta" <=> ev.type \in {"RESPONSE_META"}
    BY DEF Slot
  <2>3. /\ g.req = LastData(mine, {"REQUEST_BODY"})
        /\ g.resp = LastData(mine, {"RESPONSE_BODY_FINAL", "RESPONSE_BODY"})
        /\ g.meta = LastData(mine, {"RESPONSE_META"})
        /\ h.req = LastData(Append(mine, ev), {"REQUEST_BODY"})
        /\ h.resp = LastData(Append(mine, ev), {"RESPONSE_BODY_FINAL", "RESPONSE_BODY"})
        /\ h.meta = LastData(Append(mine, ev), {"RESPONSE_META"})
    BY GroupedIs
  <2> HIDE DEF g, h
  <2>4. QED
    BY <2>1, <2>2, <2>3
<1>4. SameData(old, g)
  OBVIOUS
<1> HIDE DEF g, h
<1>5. /\ buf.start = h.start /\ buf.end = h.end /\ buf.prompt = old.prompt
      /\ buf.req = old.req /\ buf.resp = old.resp /\ buf.meta = old.meta
      /\ DOMAIN buf = {"prompt", "start", "end", "req", "resp", "meta"}
  BY Zenon, <1>1, <1>2, <1>4 DEF SameData, Timed, CallBuf
<1> HIDE DEF buf
<1>6. Slot(ev) \in {"req", "resp", "meta", "none"}
  BY SlotCases
<1>7. new.start = buf.start /\ new.end = buf.end /\ new.prompt = buf.prompt
      /\ new.req = (IF Slot(ev) = "req" THEN ev.data ELSE buf.req)
      /\ new.resp = (IF Slot(ev) = "resp" THEN ev.data ELSE buf.resp)
      /\ new.meta = (IF Slot(ev) = "meta" THEN ev.data ELSE buf.meta)
  BY <1>5, <1>6
<1> HIDE DEF new
<1>8. SameData(new, h) /\ new.prompt = old.prompt
  BY <1>3, <1>4, <1>5, <1>7 DEF SameData
<1>9. QED
  BY <1>8 DEF new, h, buf

LEMMA EmptyGroup ==
  ASSUME NEW log, NEW prompt
  PROVE  SameData(EmptyBuf(prompt), Grouped(<<>>, log))
<1>1. Times(<<>>) = {} /\ \A types : LastData(<<>>, types) = NoBytes
  BY DEF Times, LastData, TypedAs
<1>2. QED
  BY <1>1, GroupedIs, FileAssumption DEF EmptyBuf, SameData

----------------------------------------------------------------------------
(* The collector does to a call what one more event does to its group.     *)

LEMMA AddCollects ==
  ASSUME NEW events \in Seq(Event), NEW ev \in Event,
         Collects(events), CountInv, Add(ev)
  PROVE  Collects(Append(events, ev))'
<1> DEFINE more == Append(events, ev)
           known == Known(events)
           has == ev.log # "" /\ ev.prompt # ""
<1>1. known \in Seq(Event) /\ \A log : Mine(events, log) \in Seq(Event)
  BY MineType
<1>2. Known(more) = IF has THEN Append(known, ev) ELSE known
  BY Zenon, KnownOfAppend
<1>3. \A log : Mine(more, log) = IF has /\ ev.log = log
                                 THEN Append(Mine(events, log), ev) ELSE Mine(events, log)
  BY Zenon, MineOfAppend
<1>4. sessionID' = FirstSession(more)
  BY Zenon, FirstSessionOfAppend DEF Add, Collects
<1>5. CASE AddLoose(ev)
  <2>1. ~has /\ UNCHANGED <<calls, order>>
    BY Zenon, <1>5 DEF AddLoose
  <2>2. Known(more) = known /\ \A log : Mine(more, log) = Mine(events, log)
    BY Zenon, <1>2, <1>3, <2>1
  <2> HIDE DEF more, known
  <2>3. order' = LogsOf(Known(more))
    BY Zenon, <2>1, <2>2 DEF Collects, known
  <2>4. \A log \in DOMAIN calls' :
          /\ Mine(more, log) # <<>>
          /\ calls'[log].prompt = Mine(more, log)[1].prompt
          /\ SameData(calls'[log], Grouped(Mine(more, log), log))
    BY Zenon, <2>1, <2>2 DEF Collects
  <2>5. \A log : log \notin DOMAIN calls' => Mine(more, log) = <<>>
    BY Zenon, <2>1, <2>2 DEF Collects
  <2>6. Collects(more)'
    BY <1>4, <2>3, <2>4, <2>5 DEF Collects
  <2>7. QED
    BY <2>6 DEF more
<1>6. CASE AddToCall(ev)
  <2> DEFINE old == IF ev.log \in DOMAIN calls THEN calls[ev.log] ELSE EmptyBuf(ev.prompt)
             buf == Timed(old, ev.ts)
             new == IF Slot(ev) = "none" THEN buf ELSE [buf EXCEPT ![Slot(ev)] = ev.data]
             mine == Mine(events, ev.log)
  <2>1. has /\ Known(more) = Append(known, ev) /\ mine \in Seq(Event)
    BY Zenon, <1>1, <1>2, <1>6 DEF AddToCall
  <2>2. order' = LogsOf(Known(more))
    <3>1. LogsOf(Append(known, ev)) = IF Contains(LogsOf(known), ev.log)
                                      THEN LogsOf(known) ELSE Append(LogsOf(known), ev.log)
      BY <1>1, LogsOfAppend
    <3>2. order' = IF ev.log \in DOMAIN calls THEN order ELSE Append(order, ev.log)
      BY Zenon, <1>6 DEF AddToCall
    <3>3. order = LogsOf(known)
      BY DEF Collects
    <3>4. Contains(order, ev.log) <=> ev.log \in DOMAIN calls
      BY DEF CountInv, Ordered, Contains
    <3> HIDE DEF known, more
    <3>5. QED
      BY Zenon, <2>1, <3>1, <3>2, <3>3, <3>4
  <2>3. /\ DOMAIN calls' = DOMAIN calls \cup {ev.log}
        /\ \A log \in DOMAIN calls' :
             calls'[log] = IF log # ev.log THEN calls[log] ELSE new
    BY Zenon, <1>6 DEF AddToCall, BufOf
  <2>4. old \in CallBuf
    <3>1. EmptyBuf(ev.prompt) \in CallBuf
      BY Zenon, EventAssumption DEF EmptyBuf, CallBuf
    <3>2. QED
      BY <3>1 DEF CountInv
  <2>5. SameData(old, Grouped(mine, ev.log))
    <3>1. CASE ev.log \in DOMAIN calls
      BY <3>1 DEF Collects
    <3>2. CASE ev.log \notin DOMAIN calls
      <4>1. mine = <<>>
        BY <3>2 DEF Collects
      <4>2. QED
        BY <3>2, <4>1, EmptyGroup
    <3>3. QED
      BY <3>1, <3>2
  <2>6. /\ SameData(new, Grouped(Append(mine, ev), ev.log))
        /\ new.prompt = old.prompt
    <3> HIDE DEF old, mine, more, known, has
    <3>1. QED
      BY <2>1, <2>4, <2>5, BufFollows
  <2>7. Append(mine, ev) # <<>> /\ old.prompt = Append(mine, ev)[1].prompt
    <3>1. CASE ev.log \in DOMAIN calls
      <4>1. mine # <<>> /\ old.prompt = mine[1].prompt
        BY <3>1 DEF Collects
      <4>2. \A s \in Seq(Event) : s # <<>> => Append(s, ev) # <<>> /\ Append(s, ev)[1] = s[1]
        OBVIOUS
      <4> HIDE DEF mine, old
      <4>3. QED
        BY Zenon, <2>1, <4>1, <4>2
    <3>2. CASE ev.log \notin DOMAIN calls
      <4>1. mine = <<>> /\ old.prompt = ev.prompt
        BY <3>2 DEF Collects, EmptyBuf
      <4> HIDE DEF mine, old
      <4>2. QED
        BY <4>1
    <3>3. QED
      BY <3>1, <3>2
  <2>8. \A log : Mine(more, log) = IF ev.log = log THEN Append(mine, ev) ELSE Mine(events, log)
    BY Zenon, <1>3, <2>1
  <2> HIDE DEF more, mine, new, old, buf, has
  <2>9. ASSUME NEW log \in DOMAIN calls'
        PROVE  /\ Mine(more, log) # <<>>
               /\ calls'[log].prompt = Mine(more, log)[1].prompt
               /\ SameData(calls'[log], Grouped(Mine(more, log), log))
    <3>1. CASE log = ev.log
      BY Zenon, <2>3, <2>6, <2>7, <2>8, <3>1
    <3>2. CASE log # ev.log
      <4>1. log \in DOMAIN calls /\ calls'[log] = calls[log] /\ Mine(more, log) = Mine(events, log)
        BY <2>3, <2>8, <3>2
      <4>2. QED
        BY <4>1 DEF Collects
    <3>3. QED
      BY <3>1, <3>2
  <2>10. ASSUME NEW log, log \notin DOMAIN calls' PROVE Mine(more, log) = <<>>
    <3>1. log \notin DOMAIN calls /\ Mine(more, log) = Mine(events, log)
      BY <2>3, <2>8, <2>10
    <3>2. QED
      BY <3>1 DEF Collects
  <2>11. Collects(more)'
    BY <1>4, <2>2, <2>9, <2>10 DEF Collects
  <2>12. QED
    BY <2>11 DEF more
<1>7. QED
  BY Zenon, <1>5, <1>6 DEF Add

----------------------------------------------------------------------------
(* What a file leaves the parser with, and that the stream is parsed like  *)
(* the whole file.                                                         *)

GroupsOf(events, logs) == [i \in DOMAIN logs |-> Grouped(OfLog(events, logs[i]), logs[i])]

LEMMA GroupedRounds ==
  ASSUME NEW events
  PROVE  StructuredRounds(events) = RoundsOf(GroupsOf(Known(events), LogsOf(Known(events))))
<1>1. StructuredRounds(events) = RoundsOfLogs(Known(events), LogsOf(Known(events)))
  BY DEF StructuredRounds, Known
<1>2. ASSUME NEW known, NEW logs
      PROVE  RoundsOfLogs(known, logs) = RoundsOf(GroupsOf(known, logs))
  BY DEF RoundsOfLogs, OfLog, GroupsOf
<1>3. QED
  BY <1>1, <1>2

LEMMA BufsAreGroups ==
  ASSUME NEW events, Collects(events), CountInv
  PROVE  RoundsOf(Bufs) = StructuredRounds(events)
<1> DEFINE known == Known(events)
           groups == [i \in DOMAIN order |-> Grouped(OfLog(known, order[i]), order[i])]
<1>1. StructuredRounds(events) = RoundsOf(groups)
  <2>1. order = LogsOf(known)
    BY DEF Collects
  <2>2. GroupsOf(known, order) = groups
    BY DEF GroupsOf
  <2> HIDE DEF groups
  <2>3. QED
    BY <2>1, <2>2, GroupedRounds
<1>2. ASSUME NEW i \in DOMAIN order PROVE Bufs[i] = groups[i]
  <2> DEFINE log == order[i]
             g == Grouped(Mine(events, log), log)
  <2>1. log \in DOMAIN calls /\ calls[log] \in CallBuf
    BY DEF CountInv, Ordered
  <2>2. /\ SameData(calls[log], g) /\ calls[log].prompt = Mine(events, log)[1].prompt
    BY <2>1 DEF Collects
  <2>3. g = [log |-> log, prompt |-> g.prompt, start |-> g.start, end |-> g.end,
             req |-> g.req, resp |-> g.resp, meta |-> g.meta]
        /\ g.prompt = Mine(events, log)[1].prompt
    BY GroupedIs
  <2> HIDE DEF g, log
  <2>4. DOMAIN calls[log] = {"prompt", "start", "end", "req", "resp", "meta"}
    BY Zenon, <2>1 DEF CallBuf
  <2>5. Over([log |-> log], calls[log]) =
          [log |-> log, prompt |-> calls[log].prompt, start |-> calls[log].start,
           end |-> calls[log].end, req |-> calls[log].req, resp |-> calls[log].resp,
           meta |-> calls[log].meta]
    BY <2>4 DEF Over
  <2>6. Over([log |-> log], calls[log]) = g
    BY <2>2, <2>3, <2>5 DEF SameData
  <2>7. QED
    BY <2>6 DEF g, log, Bufs, Mine
<1>3. Bufs = [i \in DOMAIN order |-> Bufs[i]]
  BY DEF Bufs
<1>4. Bufs = groups
  <2>1. groups = [i \in DOMAIN order |-> groups[i]]
    OBVIOUS
  <2> HIDE DEF groups
  <2>2. QED
    BY <1>2, <1>3, <2>1
<1>5. QED
  BY <1>1, <1>4

ResultOf ==
    IF form = "lines" THEN \E keys \in KeyOrders : out = Result(keys)
    ELSE \E keys \in KeyOrders : out = Over(ParseEvents(lines, keys), NoResult)

(* What holds while a file is read: the collector's invariants; it knows   *)
(* what the lines say; and what has been parsed is the result of it.       *)
ParseInv ==
    /\ CollectorInv /\ CountInv
    /\ lines \in Seq(Event \cup {Broken})
    /\ form \in {"lines", "array"}
    /\ form = "lines" => Collects(Intact(lines))
    /\ form = "array" /\ phase # "failed" => Intact(lines) = lines
    /\ phase = "done" => ResultOf

LEMMA InitParses == ASSUME Init PROVE ParseInv
<1>1. NewCollector /\ lines = <<>> /\ phase = "reading" /\ form \in {"lines", "array"}
  BY DEF Init
<1>2. CollectorInv /\ CountInv
  BY <1>1, NewCollectorCounts
<1>3. Intact(lines) = <<>> /\ Known(<<>>) = <<>> /\ LogsOf(<<>>) = <<>>
      /\ \A log : OfLog(<<>>, log) = <<>>
  BY <1>1, IntactOfNone, KnownOfNone, LogsOfNone, OfLogOfNone
<1>4. FirstSession(<<>>) = ""
  BY DEF FirstSession
<1>5. Collects(Intact(lines))
  BY Zenon, <1>1, <1>3, <1>4 DEF Collects, Mine, NewCollector
<1>6. QED
  BY <1>1, <1>2, <1>3, <1>5 DEF ParseInv

LEMMA NextParses == ASSUME ParseInv, [Next]_vars PROVE ParseInv'
<1> DEFINE Line == Event \cup {Broken}
<1>0. lines \in Seq(Line) /\ \A x \in Line : Append(lines, x) \in Seq(Line)
  BY DEF ParseInv
<1>1. ASSUME NEW ev \in Event, ReadLine(ev) PROVE ParseInv'
  <2>1. Add(ev) /\ lines' = Append(lines, ev) /\ form = "lines" /\ phase = "reading"
        /\ UNCHANGED <<form, phase, out>>
    BY <1>1 DEF ReadLine, Reads
  <2>2. CollectorInv' /\ CountInv'
    BY <2>1, AddKeepsBudget, AddKeepsCount DEF ParseInv
  <2>3. Intact(lines) \in Seq(Event)
    <3>1. Intact(lines) \in Seq(Line \ {Broken})
      BY <1>0, IntactType
    <3>2. Line \ {Broken} \subseteq Event
      OBVIOUS
    <3> DEFINE S == Line \ {Broken}
    <3>3. S \subseteq Event /\ Intact(lines) \in Seq(S)
      BY <3>1, <3>2
    <3> HIDE DEF S
    <3>4. QED
      BY <3>3
  <2>4. \A e : e = Intact(lines) => Collects(Append(e, ev))'
    <3> DEFINE events == Intact(lines)
    <3>1. events \in Seq(Event) /\ Collects(events) /\ CountInv /\ Add(ev)
      BY <2>1, <2>3 DEF ParseInv
    <3> HIDE DEF events
    <3>2. \A e \in Seq(Event) : Collects(e) => Collects(Append(e, ev))'
      BY <3>1, AddCollects
    <3>3. QED
      BY <3>1, <3>2 DEF events
  <2>5. Intact(lines') = Append(Intact(lines), ev)
    <3>1. ev # Broken /\ ev \in Line
      BY FileAssumption
    <3> HIDE DEF Line
    <3>2. QED
      BY <1>0, <2>1, <3>1, IntactOfAppend
  <2>6. Collects(Intact(lines))'
    <3>1. \A m : m = Intact(lines') => Collects(m)'
      BY <2>4, <2>5
    <3>2. QED
      BY <3>1 DEF Collects
  <2>7. QED
    BY <1>0, <2>1, <2>2, <2>6 DEF ParseInv
<1>2. CASE UNCHANGED vars
  <2>1. UNCHANGED collector
    BY <1>2 DEF vars
  <2>2. CollectorInv' /\ CountInv'
    BY <2>1, CollectorStutters DEF ParseInv
  <2>3. QED
    BY Zenon, <1>2, <2>1, <2>2 DEF vars, collector, ParseInv, Collects, ResultOf, Result, Bufs
<1>3. CASE ReadBrokenLine
  <2>1. lines' = Append(lines, Broken) /\ phase' \in {"reading", "failed"}
        /\ UNCHANGED <<form, out>> /\ UNCHANGED collector /\ form = "lines"
    BY <1>3 DEF ReadBrokenLine, Reads
  <2>2. CollectorInv' /\ CountInv'
    BY <2>1, CollectorStutters DEF ParseInv
  <2>3. Intact(lines') = Intact(lines)
    <3>1. Broken \in Line
      OBVIOUS
    <3> HIDE DEF Line
    <3>2. QED
      BY <1>0, <2>1, <3>1, IntactOfAppend
  <2>4. QED
    BY <1>0, <2>1, <2>2, <2>3 DEF collector, ParseInv, Collects
<1>4. ASSUME form = "array", phase' \in {"reading", "failed"}, lines' \in Seq(Line),
             UNCHANGED form, UNCHANGED collector,
             phase' # "failed" => Intact(lines') = lines'
      PROVE  ParseInv'
  <2>1. CollectorInv' /\ CountInv'
    BY <1>4, CollectorStutters DEF ParseInv
  <2>2. QED
    BY <1>4, <2>1 DEF ParseInv
<1>5. ASSUME NEW ev \in Event, ReadElement(ev) PROVE ParseInv'
  <2>1. /\ lines' = Append(lines, ev) /\ form = "array" /\ phase = "reading"
        /\ UNCHANGED <<form, phase>> /\ UNCHANGED collector
    BY <1>5 DEF ReadElement, Reads
  <2>2. Intact(lines) = lines
    BY <2>1 DEF ParseInv
  <2>3. Intact(lines') = lines'
    <3>1. ev # Broken /\ ev \in Line
      BY FileAssumption
    <3> HIDE DEF Line
    <3>2. Intact(Append(lines, ev)) = Append(Intact(lines), ev)
      BY <1>0, <3>1, IntactOfAppend
    <3>3. QED
      BY <2>1, <2>2, <3>2
  <2>4. QED
    BY <1>0, <1>4, <2>1, <2>3
<1>6. CASE ReadBrokenElement
  BY <1>0, <1>4, <1>6 DEF ReadBrokenElement, Reads
<1>7. ASSUME UNCHANGED <<collector, form, lines>>, phase = "reading",
             phase' = "done" => ResultOf'
      PROVE  ParseInv'
  <2>1. CollectorInv' /\ CountInv'
    BY <1>7, CollectorStutters DEF ParseInv
  <2>2. QED
    BY <1>7, <2>1 DEF collector, ParseInv, Collects
<1>8. CASE FinishLines
  <2>1. PICK keys \in KeyOrders : Ends(Result(keys))
    BY <1>8 DEF FinishLines
  <2>2. UNCHANGED <<collector, form, lines>> /\ form = "lines" /\ phase = "reading"
        /\ (phase' = "done" => out' = Result(keys))
    BY <1>8, <2>1 DEF Ends, FinishLines
  <2>3. Result(keys)' = Result(keys)
    BY Zenon, <2>2 DEF collector, Result, Bufs
  <2>4. phase' = "done" => ResultOf'
    BY <2>2, <2>3 DEF ResultOf
  <2>5. QED
    BY <1>7, <2>2, <2>4
<1>9. CASE FinishArray
  <2>1. PICK keys \in KeyOrders : Ends(Over(ParseEvents(lines, keys), NoResult))
    BY <1>9 DEF FinishArray
  <2>2. UNCHANGED <<collector, form, lines>> /\ form = "array" /\ phase = "reading"
        /\ (phase' = "done" => out' = Over(ParseEvents(lines, keys), NoResult))
    BY <1>9, <2>1 DEF Ends, FinishArray
  <2>3. phase' = "done" => ResultOf'
    BY <2>2 DEF ResultOf
  <2>4. QED
    BY <1>7, <2>2, <2>3
<1>10. QED
  BY <1>1, <1>2, <1>3, <1>5, <1>6, <1>8, <1>9 DEF Next

LEMMA StructuredResult ==
  ASSUME ParseInv, phase = "done", form = "lines", Structured
  PROVE  out = [session |-> FirstSession(Intact(lines)),
                rounds |-> StructuredRounds(Intact(lines)), truncation |-> truncation]
<1>1. PICK keys \in KeyOrders : out = Result(keys)
  BY DEF ParseInv, ResultOf
<1>2. RoundsOf(Bufs) = StructuredRounds(Intact(lines)) /\ sessionID = FirstSession(Intact(lines))
  BY BufsAreGroups DEF ParseInv, Collects
<1>3. RoundsOf(Bufs) # <<>>
  BY <1>2 DEF Structured, Events
<1>4. Result(keys) = [session |-> sessionID, rounds |-> RoundsOf(Bufs), truncation |-> truncation]
  BY <1>3 DEF Result, Preferring
<1>5. QED
  BY <1>1, <1>2, <1>4

(* However long the stream and in whatever order the events of its calls   *)
(* come, with data that is replaced and times that go back and forth:      *)
(* reading a session to its end event by event gives what grouping all     *)
(* events at once gives.                                                   *)
THEOREM StreamsParseAlike == Spec => []StreamMatchesParse
<1>1. ParseInv => StreamMatchesParse
  <2> SUFFICES ASSUME ParseInv, phase = "done", form = "lines", truncation = NoTruncation,
                      Structured, NEW keys \in KeyOrders
               PROVE  out = Over(ParseLines(lines, keys), NoResult)
    BY DEF StreamMatchesParse
  <2> DEFINE events == Intact(lines)
             parsed == [session |-> FirstSession(events), rounds |-> StructuredRounds(events)]
  <2>1. out = [session |-> FirstSession(events), rounds |-> StructuredRounds(events),
               truncation |-> NoTruncation]
    BY StructuredResult
  <2>2. StructuredRounds(events) # <<>> /\ NeekoParse(events).rounds = <<>>
    BY DEF Structured, Events
  <2>3. ParseLines(lines, keys) = parsed
    <3>1. ParseLines(lines, keys) = parseStructuredEvents(events, keys)
      BY <2>2 DEF ParseLines, ParseEvents, Preferring
    <3>2. parseStructuredEvents(events, keys) = parsed
      BY <2>2 DEF parseStructuredEvents, Preferring
    <3>3. QED
      BY <3>1, <3>2
  <2>4. Over(parsed, NoResult) = [session |-> FirstSession(events),
                                  rounds |-> StructuredRounds(events),
                                  truncation |-> NoTruncation]
    <3>1. \A session, rounds, t :
            Over([session |-> session, rounds |-> rounds],
                 [session |-> "", rounds |-> <<>>, truncation |-> t])
              = [session |-> session, rounds |-> rounds, truncation |-> t]
      <4> TAKE session, rounds, t
      <4> DEFINE new == [session |-> session, rounds |-> rounds]
                 old == [session |-> "", rounds |-> <<>>, truncation |-> t]
                 D == DOMAIN new \cup DOMAIN old
                 both == [f \in D |-> IF f \in DOMAIN new THEN new[f] ELSE old[f]]
                 result == [session |-> session, rounds |-> rounds, truncation |-> t]
      <4>1. D = {"session", "rounds", "truncation"} /\ DOMAIN new = {"session", "rounds"}
        OBVIOUS
      <4>2. new.session = session /\ new.rounds = rounds /\ old.truncation = t
        OBVIOUS
      <4> HIDE DEF D, new, old
      <4>3. both.session = session /\ both.rounds = rounds /\ both.truncation = t
        BY <4>1, <4>2
      <4>4. DOMAIN both = DOMAIN result
        BY <4>1
      <4>5. both = [f \in DOMAIN both |-> both[f]] /\ result = [f \in DOMAIN result |-> result[f]]
        OBVIOUS
      <4>6. \A f \in DOMAIN result : both[f] = result[f]
        BY <4>3
      <4> HIDE DEF both, result
      <4>7. both = result
        BY <4>4, <4>5, <4>6
      <4>8. Over(new, old) = both
        BY DEF Over, both, D
      <4>9. QED
        BY Zenon, <4>7, <4>8 DEF new, old, result
    <3>2. QED
      BY Zenon, <3>1 DEF NoResult
  <2>5. QED
    BY <2>1, <2>3, <2>4
<1>2. QED
  BY <1>1, InitParses, NextParses, PTL DEF Spec

(* A parse, of lines or of an array, broken or not, never retains more     *)
(* than the hard limit allows without having stopped, and the bytes its    *)
(* collector counts are those it retains.                                  *)
THEOREM FilesStayWithinBudget == Spec => [](WithinBudget /\ BytesCounted)
<1>1. ParseInv => WithinBudget /\ BytesCounted
  BY DEF ParseInv, CollectorInv, CountInv
<1>2. QED
  BY <1>1, InitParses, NextParses, PTL DEF Spec

----------------------------------------------------------------------------
(* Lists of lists.                                                         *)

FlatStep(seqs, f, i) == IF i = 1 THEN seqs[i] ELSE f[i - 1] \o seqs[i]
Flat == INSTANCE RecursionLemmas WITH Step <- FlatStep

\* The parts of a flattened list come one after the other.
LEMMA FlattenRuns ==
  ASSUME NEW X, NEW seqs \in Seq(X), seqs # <<>>
  PROVE  \E f : /\ FlattenSeq(seqs) = f[Len(seqs)]
                /\ \A i \in 1..Len(seqs) :
                     f[i] = IF i = 1 THEN seqs[i] ELSE f[i - 1] \o seqs[i]
<1> DEFINE n == Len(seqs)
           D == 1..n
           depth == [i \in D |-> i]
           h == CHOOSE f : Flat!Solves(seqs, f, D)
<1>1. n \in Nat /\ n # 0
  OBVIOUS
<1>2. \A v \in D : depth[v] \in Nat
  OBVIOUS
<1>3. Flat!Descends(seqs, D, depth)
  <2> SUFFICES ASSUME NEW v \in D, NEW f, NEW g,
                      \A w \in D : depth[w] < depth[v] => f[w] = g[w]
               PROVE  FlatStep(seqs, f, v) = FlatStep(seqs, g, v)
    BY Zenon DEF Flat!Descends
  <2>1. CASE v = 1
    BY <2>1 DEF FlatStep
  <2>2. CASE v # 1
    <3>1. v - 1 \in D /\ depth[v - 1] < depth[v]
      BY <1>1, <2>2
    <3>2. f[v - 1] = g[v - 1]
      BY <3>1
    <3>3. QED
      BY <2>2, <3>2 DEF FlatStep
  <2>3. QED
    BY <2>1, <2>2
<1> HIDE DEF D, depth
<1>4. Flat!Solves(seqs, h, D)
  BY <1>2, <1>3, Flat!RecursionSolves, LeastNumber DEF Flat!LeastNumbers
<1>5. FlattenSeq(seqs) = h[n]
  BY <1>1 DEF FlattenSeq, Flat!Solves, FlatStep, D
<1> HIDE DEF h
<1>6. \A i \in D : h[i] = IF i = 1 THEN seqs[i] ELSE h[i - 1] \o seqs[i]
  BY Zenon, <1>4 DEF Flat!Solves, FlatStep
<1>7. QED
  BY <1>5, <1>6 DEF D

LEMMA FlattenOfNone == FlattenSeq(<<>>) = <<>>
BY DEF FlattenSeq

LEMMA FlattenOfOne ==
  ASSUME NEW X, NEW x \in X
  PROVE  FlattenSeq(<<x>>) = x
<1>1. <<x>> \in Seq(X) /\ <<x>> # <<>> /\ Len(<<x>>) = 1 /\ <<x>>[1] = x
  OBVIOUS
<1> DEFINE s == <<x>>
<1> HIDE DEF s
<1>2. PICK f : /\ FlattenSeq(s) = f[Len(s)]
               /\ \A i \in 1..Len(s) : f[i] = IF i = 1 THEN s[i] ELSE f[i - 1] \o s[i]
  BY Zenon, <1>1, FlattenRuns DEF s
<1>3. 1 \in 1..1
  OBVIOUS
<1>4. QED
  BY <1>1, <1>2, <1>3 DEF s

LEMMA FlattenOfAppend ==
  ASSUME NEW T, NEW seqs \in Seq(Seq(T)), NEW x \in Seq(T)
  PROVE  FlattenSeq(Append(seqs, x)) = FlattenSeq(seqs) \o x
<1> DEFINE n == Len(seqs)
           more == Append(seqs, x)
           S == Seq(T)
<1>1. CASE seqs = <<>>
  <2>1. Append(seqs, x) = <<x>>
    BY <1>1
  <2>2. <<>> \o x = x
    OBVIOUS
  <2>3. QED
    BY <1>1, <2>1, <2>2, FlattenOfNone, FlattenOfOne
<1>2. CASE seqs # <<>>
  <2>1. n \in Nat /\ n # 0 /\ more \in Seq(S) /\ more # <<>> /\ Len(more) = n + 1
        /\ more[n + 1] = x /\ \A i \in 1..n : more[i] = seqs[i]
    <3> HIDE DEF S
    <3>1. seqs \in Seq(S) /\ x \in S
      BY DEF S
    <3>2. n \in Nat /\ n # 0
      BY <1>2, <3>1
    <3>3. more \in Seq(S) /\ Len(more) = n + 1 /\ more[n + 1] = x
          /\ \A i \in 1..n : more[i] = seqs[i]
      BY <3>1
    <3>4. more # <<>>
      BY <3>1
    <3>5. QED
      BY <3>2, <3>3, <3>4
  <2> HIDE DEF n, more, S
  <2>2. PICK f : /\ FlattenSeq(seqs) = f[n]
                 /\ \A i \in 1..n : f[i] = IF i = 1 THEN seqs[i] ELSE f[i - 1] \o seqs[i]
    BY <1>2, FlattenRuns DEF n
  <2>3. PICK g : /\ FlattenSeq(more) = g[Len(more)]
                 /\ \A i \in 1..Len(more) : g[i] = IF i = 1 THEN more[i] ELSE g[i - 1] \o more[i]
    BY Zenon, <2>1, FlattenRuns
  <2> DEFINE P == {i \in 0..n : i = 0 \/ f[i] = g[i]}
  <2>4. P \in SUBSET (0..n) /\ 0 \in P
    BY <2>1
  <2>5. ASSUME NEW i \in 1..n, i - 1 \in P PROVE i \in P
    <3>1. f[i] = (IF i = 1 THEN seqs[i] ELSE f[i - 1] \o seqs[i])
          /\ more[i] = seqs[i]
      BY <2>1, <2>2
    <3>2. g[i] = IF i = 1 THEN more[i] ELSE g[i - 1] \o more[i]
      BY <2>1, <2>3
    <3>3. i = 1 \/ f[i - 1] = g[i - 1]
      BY <2>5
    <3>4. f[i] = g[i]
      BY <3>1, <3>2, <3>3
    <3>5. QED
      BY <2>1, <3>4
  <2> HIDE DEF P
  <2>6. P = 0..n
    BY Zenon, <2>1, <2>4, <2>5, Flat!HoldsAlong, LeastNumber DEF Flat!LeastNumbers
  <2>7. f[n] = g[n]
    <3>1. n \in 0..n /\ n # 0
      BY <2>1
    <3>2. n \in P
      BY <2>6, <3>1
    <3>3. QED
      BY <3>1, <3>2 DEF P
  <2>8. g[n + 1] = g[n] \o x
    <3>1. n + 1 \in 1..(n + 1) /\ n + 1 # 1 /\ (n + 1) - 1 = n
      BY <2>1
    <3>2. Len(more) = n + 1 /\ more[n + 1] = x
      BY <2>1
    <3>3. QED
      BY Zenon, <2>3, <3>1, <3>2
  <2>9. QED
    BY <2>1, <2>2, <2>3, <2>7, <2>8 DEF more
<1>3. QED
  BY <1>1, <1>2

\* A flattened list is as long as its parts together.
LEMMA FlattenLen ==
  ASSUME NEW T, NEW seqs \in Seq(Seq(T))
  PROVE  /\ FlattenSeq(seqs) \in Seq(T)
         /\ Len(FlattenSeq(seqs))
              = SumFunctionOnSet([i \in 1..Len(seqs) |-> Len(seqs[i])], 1..Len(seqs))
<1> DEFINE n == Len(seqs)
           D == 1..n
           lens == [i \in D |-> Len(seqs[i])]
           S == Seq(T)
<1>1. n \in Nat /\ (n = 0 <=> seqs = <<>>)
  OBVIOUS
<1>2. CASE seqs = <<>>
  <2>1. 1..n = {}
    BY <1>1, <1>2
  <2>2. <<>> \in Seq(T) /\ Len(<<>>) = 0
    OBVIOUS
  <2> HIDE DEF lens
  <2>3. SumFunctionOnSet(lens, 1..n) = 0
    BY Zenon, <2>1, SumOfNone
  <2>4. QED
    BY Zenon, <1>2, <2>2, <2>3, FlattenOfNone DEF lens
<1>3. CASE seqs # <<>>
  <2>1. PICK f : /\ FlattenSeq(seqs) = f[n]
                 /\ \A i \in D : f[i] = IF i = 1 THEN seqs[i] ELSE f[i - 1] \o seqs[i]
    <3> HIDE DEF S
    <3>1. seqs \in Seq(S)
      BY DEF S
    <3>2. QED
      BY <1>3, <3>1, FlattenRuns
  <2>2. \A i \in D : seqs[i] \in Seq(T) /\ Len(seqs[i]) \in Nat /\ lens[i] = Len(seqs[i])
    OBVIOUS
  <2> DEFINE P == {i \in 0..n : i = 0 \/ (/\ f[i] \in Seq(T)
                                          /\ Len(f[i]) = SumFunctionOnSet(lens, 1..i))}
  <2>3. P \in SUBSET (0..n) /\ 0 \in P
    BY <1>1
  <2> HIDE DEF lens
  <2>4. ASSUME NEW i \in 1..n, i - 1 \in P PROVE i \in P
    <3>1. f[i] = IF i = 1 THEN seqs[i] ELSE f[i - 1] \o seqs[i]
      BY <2>1
    <3>2. SumFunctionOnSet(lens, 1..i) = lens[i] + SumFunctionOnSet(lens, 1..(i - 1))
      <4> DEFINE I == 1..(i - 1)
      <4>1. IsFiniteSet(I)
        BY <1>1, FS_Interval
      <4>2. \A x \in I : lens[x] \in Int
        BY <1>1, <2>2
      <4>3. i \notin I /\ 1..i = I \cup {i} /\ lens[i] \in Int
        BY <1>1, <2>2
      <4> HIDE DEF I
      <4>4. QED
        BY Zenon, <4>1, <4>2, <4>3, SumPutsIn DEF I
    <3>3. CASE i = 1
      <4>1. 1..(i - 1) = {}
        BY <3>3
      <4>2. SumFunctionOnSet(lens, 1..i) = lens[i]
        <5>1. lens[i] \in Nat
          BY Zenon, <2>2
        <5>2. SumFunctionOnSet(lens, 1..(i - 1)) = 0
          BY Zenon, <4>1, SumOfNone
        <5>3. QED
          BY <3>2, <5>1, <5>2
      <4>3. QED
        BY <2>2, <3>1, <3>3, <4>2
    <3>4. CASE i # 1
      <4>1. f[i - 1] \in Seq(T) /\ Len(f[i - 1]) = SumFunctionOnSet(lens, 1..(i - 1))
        BY <2>4, <3>4, <1>1
      <4>2. f[i] \in Seq(T) /\ Len(f[i]) = Len(f[i - 1]) + Len(seqs[i])
        <5>1. f[i] = f[i - 1] \o seqs[i] /\ seqs[i] \in Seq(T) /\ f[i - 1] \in Seq(T)
          BY Zenon, <2>2, <3>1, <3>4, <4>1
        <5>2. \A a, b \in Seq(T) : a \o b \in Seq(T) /\ Len(a \o b) = Len(a) + Len(b)
          OBVIOUS
        <5>3. QED
          BY <5>1, <5>2
      <4>3. Len(f[i - 1]) \in Nat
        BY <4>1
      <4>4. Len(f[i]) = SumFunctionOnSet(lens, 1..i)
        BY <2>2, <3>2, <4>1, <4>2, <4>3
      <4>5. QED
        BY <4>2, <4>4
    <3>5. QED
      BY <3>3, <3>4
  <2> HIDE DEF P
  <2>5. P = 0..n
    BY <1>1, <2>3, <2>4, Flat!HoldsAlong, LeastNumber DEF Flat!LeastNumbers
  <2>6. f[n] \in Seq(T) /\ Len(f[n]) = SumFunctionOnSet(lens, 1..n)
    BY <1>1, <1>3, <2>5 DEF P
  <2>7. QED
    BY <2>1, <2>6 DEF lens
<1>4. QED
  BY <1>2, <1>3

----------------------------------------------------------------------------
(* What is read of JSON values.                                            *)

(* The words of texts.  The provers do not know of a literal that it is a  *)
(* string.                                                                 *)
Word == STRING \cup {"number", "json", "user"}
Text == Seq(Word)

LEMMA LargerSeq ==
  ASSUME NEW A, NEW B, A \subseteq B, NEW s \in Seq(A)
  PROVE  s \in Seq(B)
OBVIOUS

LEMMA ListOfOne == ASSUME NEW S, NEW x \in S PROVE <<x>> \in Seq(S) /\ <<>> \in Seq(S)
OBVIOUS

LEMMA ListOfTwo == ASSUME NEW x, NEW y PROVE <<x, y>> \in Seq({x, y})
OBVIOUS

LEMMA ListOfThree == ASSUME NEW x, NEW y, NEW z PROVE <<x, y, z>> \in Seq({x, y, z})
OBVIOUS

LEMMA WordTexts ==
  /\ <<>> \in Text /\ <<"number">> \in Text /\ <<"json">> \in Text /\ <<"user">> \in Text
  /\ \A s \in Seq(STRING) : s \in Text
<1>1. "number" \in Word /\ "json" \in Word /\ "user" \in Word /\ STRING \subseteq Word
  BY DEF Word
<1> HIDE DEF Word
<1>2. QED
  BY Zenon, <1>1, ListOfOne, LargerSeq DEF Text

LEMMA FieldsType ==
  ASSUME NEW v \in Value
  PROVE  \A k \in DOMAIN Fields(v) : Fields(v)[k] \in Value
<1>1. CASE v[1] = "obj"
  <2>1. Fields(v) = v[2]
    BY <1>1 DEF Fields
  <2>2. v[2] \in [DOMAIN v[2] -> Value]
    BY <1>1, ValueAssumption
  <2>3. \A k \in DOMAIN v[2] : v[2][k] \in Value
    BY <2>2
  <2>4. QED
    BY <2>1, <2>3
<1>2. CASE v[1] # "obj"
  BY <1>2 DEF Fields
<1>3. QED
  BY <1>1, <1>2

LEMMA FieldType ==
  ASSUME NEW v \in Value, NEW key
  PROVE  Field(v, key) \in Value
BY FieldsType, ValueAssumption DEF Field, ValueAt

LEMMA FirstValueType ==
  ASSUME NEW fields, \A k \in DOMAIN fields : fields[k] \in Value,
         NEW X, NEW keys \in Seq(X)
  PROVE  FirstValue(fields, keys) \in Value
<1> DEFINE known == {i \in DOMAIN keys : ValueAt(fields, keys[i]) # Null}
<1>1. FirstValue(fields, keys) = IF known = {} THEN Null ELSE fields[keys[Min(known)]]
  BY DEF FirstValue
<1>2. CASE known = {}
  BY <1>1, <1>2, ValueAssumption
<1>3. CASE known # {}
  <2>1. known \in SUBSET Nat
    OBVIOUS
  <2>2. Min(known) \in known
    <3> HIDE DEF known
    <3>1. QED
      BY <1>3, <2>1, MinOf
  <2>3. ValueAt(fields, keys[Min(known)]) # Null
    BY <2>2
  <2>4. keys[Min(known)] \in DOMAIN fields
    BY <2>3 DEF ValueAt
  <2>5. QED
    BY <1>1, <1>3, <2>4
<1>4. QED
  BY <1>2, <1>3

LEMMA FirstAnyType ==
  ASSUME NEW v \in Value, NEW X, NEW keys \in Seq(X)
  PROVE  firstAny(v, keys) \in Value
BY FieldsType, FirstValueType DEF firstAny

LEMMA Int64Type == ASSUME NEW v \in Value PROVE int64Any(v) \in Nat
BY ValueAssumption DEF int64Any

LEMMA StringType == ASSUME NEW v \in Value PROVE stringAny(v) \in Text
BY WordTexts, ValueAssumption DEF stringAny

LEMMA ItemsType == ASSUME NEW v \in Value PROVE Items(v) \in Seq(Value)
<1>1. <<>> \in Seq(Value)
  OBVIOUS
<1>2. QED
  BY <1>1, ValueAssumption DEF Items

LEMMA ListFromMap ==
  ASSUME NEW X, NEW seq \in Seq(X), NEW Y, NEW f, \A i \in DOMAIN seq : f[i] \in Y
  PROVE  [i \in DOMAIN seq |-> f[i]] \in Seq(Y)
OBVIOUS

LEMMA FirstNonEmptyType ==
  ASSUME NEW T, NEW a \in T, NEW b \in T
  PROVE  firstNonEmpty(a, b) \in T
BY DEF firstNonEmpty

LEMMA ContentStringType == ASSUME NEW v \in Value PROVE contentStringAny(v) \in Text
<1> DEFINE parts == IF v[1] = "arr" THEN v[2] ELSE <<v>>
           TextOf(part) ==
            CASE part[1] = "str" -> part[2]
              [] part[1] = "obj" ->
                    stringAny(firstAny(part, <<"text", "content", "value">>))
              [] OTHER -> <<>>
           texts == [i \in DOMAIN parts |-> TextOf(parts[i])]
<1>1. parts \in Seq(Value)
  BY ValueAssumption
<1>2. ASSUME NEW part \in Value PROVE TextOf(part) \in Text
  <2>1. <<"text", "content", "value">> \in Seq({"text", "content", "value"})
    BY ListOfThree
  <2> DEFINE keys == <<"text", "content", "value">>
  <2> HIDE DEF keys
  <2>2. stringAny(firstAny(part, keys)) \in Text
    BY Zenon, <2>1, FirstAnyType, StringType DEF keys
  <2>3. <<>> \in Text
    BY WordTexts
  <2>4. part[1] = "str" => part[2] \in Text
    BY WordTexts, ValueAssumption
  <2>5. QED
    BY <2>2, <2>3, <2>4 DEF keys
<1> HIDE DEF TextOf, parts
<1>3. texts \in Seq(Text)
  BY <1>1, <1>2
<1> HIDE DEF texts
<1>4. FlattenSeq(texts) \in Text
  BY Zenon, <1>3, FlattenLen DEF Text
<1>5. QED
  BY <1>4 DEF contentStringAny, texts, TextOf, parts

(* What a message says is a value of the log, or a text that the parser    *)
(* has put together.                                                       *)
Content == Value \cup {Str(t) : t \in Text}

LEMMA ContentTextType == ASSUME NEW v \in Content PROVE contentText(v) \in Text
<1> DEFINE texts == [i \in DOMAIN v[2] |-> stringAny(Field(v[2][i], "text"))]
<1>1. CASE HasParts(v)
  <2>1. v[1] = "arr" /\ v[2] \in Seq(Value)
    BY <1>1, ValueAssumption DEF Content, Str, HasParts
  <2>2. texts \in Seq(Text)
    BY <2>1, FieldType, StringType
  <2> HIDE DEF texts
  <2>3. FlattenSeq(texts) \in Text
    BY Zenon, <2>2, FlattenLen DEF Text
  <2>4. QED
    BY <1>1, <2>1, <2>3 DEF contentText, texts
<1>2. CASE ~HasParts(v)
  BY <1>2, WordTexts, ValueAssumption DEF contentText, Content, Str
<1>3. QED
  BY <1>1, <1>2

LEMMA NeekoContentTextType == ASSUME NEW v \in Content PROVE neekoContentText(v) \in Text
BY WordTexts, ContentTextType DEF neekoContentText
-----------------------------------------------------------------------------
ToolSet == [id : Text, tool : Text, input : Value, failed : BOOLEAN]

LEMMA ToolType ==
  ASSUME NEW id \in Text, NEW tool \in Text, NEW input \in Value, NEW error
  PROVE  Tool(id, tool, input, error) \in ToolSet
BY DEF Tool, ToolSet

LEMMA KeyedText ==
  ASSUME NEW v \in Value, NEW X, NEW keys \in Seq(X)
  PROVE  stringAny(firstAny(v, keys)) \in Text
BY FirstAnyType, StringType

LEMMA ToolOfType == ASSUME NEW item \in Value PROVE ToolOf(item) \in ToolSet
<1> DEFINE function == Field(item, "function")
           K1 == <<"toolCallId", "callID", "id">>
           K2 == <<"toolName", "name">>
           K3 == <<"arguments", "input">>
           K4 == <<"error", "error_message">>
           args == firstAny(item, K3)
           own == stringAny(firstAny(item, K2))
           input == IF args = Null THEN Field(function, "arguments") ELSE args
           name == firstNonEmpty(own, stringAny(Field(function, "name")))
           id == stringAny(firstAny(item, K1))
           error == stringAny(firstAny(item, K4))
<1>1. ToolOf(item) = Tool(id, name, input, error)
  BY DEF ToolOf
<1>2. K1 \in Seq({"toolCallId", "callID", "id"}) /\ K2 \in Seq({"toolName", "name"})
      /\ K3 \in Seq({"arguments", "input"})
  BY ListOfTwo, ListOfThree
<1> HIDE DEF K1, K2, K3, K4
<1>3. function \in Value
  BY FieldType
<1> HIDE DEF function
<1>4. id \in Text /\ own \in Text /\ args \in Value
  BY <1>2, KeyedText, FirstAnyType
<1>5. Field(function, "arguments") \in Value /\ stringAny(Field(function, "name")) \in Text
  BY <1>3, FieldType, StringType
<1>6. input \in Value /\ name \in Text
  BY <1>4, <1>5, FirstNonEmptyType
<1> HIDE DEF id, name, input, error
<1>7. QED
  BY <1>1, <1>4, <1>6, ToolType

LEMMA OutputToolType ==
  ASSUME NEW item \in Value PROVE toolCallFromResponseOutputItem(item) \in ToolSet
<1> DEFINE K1 == <<"call_id", "callID", "id">>
           K2 == <<"name", "toolName">>
           K3 == <<"arguments", "input">>
           K4 == <<"error", "error_message">>
           error == stringAny(firstAny(item, K4))
<1>1. toolCallFromResponseOutputItem(item)
        = Tool(stringAny(firstAny(item, K1)), stringAny(firstAny(item, K2)), firstAny(item, K3), error)
  BY DEF toolCallFromResponseOutputItem
<1>2. K1 \in Seq({"call_id", "callID", "id"}) /\ K2 \in Seq({"name", "toolName"})
      /\ K3 \in Seq({"arguments", "input"})
  BY ListOfTwo, ListOfThree
<1> HIDE DEF K1, K2, K3, K4, error
<1>3. stringAny(firstAny(item, K1)) \in Text /\ stringAny(firstAny(item, K2)) \in Text
      /\ firstAny(item, K3) \in Value
  BY <1>2, KeyedText, FirstAnyType
<1>4. QED
  BY <1>1, <1>3, ToolType

ItemStepF(c, kept, item) == IF DOMAIN Fields(item) # {} THEN Append(kept, item) ELSE kept
ItemFold == INSTANCE RecursionLemmas WITH Step <- ItemStepF

LEMMA ToolCallsType == ASSUME NEW v \in Value PROVE extractToolCalls(v) \in Seq(ToolSet)
<1> DEFINE items == Items(v)
           kept == Filtered(items, LAMBDA item : DOMAIN Fields(item) # {})
<1>1. extractToolCalls(v) = ToolsOf(kept)
  BY DEF extractToolCalls
<1>2. items \in Seq(Value)
  BY ItemsType
<1>3. kept = ItemFold!Fold(0, <<>>, items)
  BY DEF Filtered, FoldLeft, MapThenFoldSet, Max, ItemFold!Fold, ItemFold!IsFold,
         ItemFold!Greatest, ItemStepF
<1>4. kept \in Seq(Value)
  <2> DEFINE n == Len(items)
             T == Seq(Value)
  <2> HIDE DEF items
  <2>1. n \in Nat /\ DOMAIN items = 1..n /\ <<>> \in T /\ \A i \in 1..n : items[i] \in Value
    BY <1>2
  <2>2. \A s \in T : \A x \in Value : Append(s, x) \in T
    OBVIOUS
  <2> HIDE DEF n, T
  <2>3. \A s \in T : \A i \in 1..n : ItemStepF(0, s, items[i]) \in T
    BY <2>1, <2>2 DEF ItemStepF
  <2>4. \A c, base : base \in T /\ (\A s \in T : \A i \in 1..n : ItemStepF(c, s, items[i]) \in T)
          => ItemFold!Fold(c, base, items) \in T
    BY <2>1, ItemFold!FoldKeeps, LeastNumber DEF ItemFold!LeastNumbers
  <2>5. ItemFold!Fold(0, <<>>, items) \in T
    BY <2>1, <2>3, <2>4
  <2>6. QED
    BY <1>3, <2>5 DEF T
<1> HIDE DEF kept
<1>5. ToolsOf(kept) \in Seq(ToolSet)
  BY <1>4, ToolOfType DEF ToolsOf
<1>6. QED
  BY <1>1, <1>5

----------------------------------------------------------------------------
(* Payloads.                                                               *)

UsageSet == [in : Nat, out : Nat, reason : Nat]
PayloadSet == [model : Text, text : Text, reasoning : Text, tools : Seq(ToolSet),
               in : Nat, out : Nat, reason : Nat, duration : Nat]

LEMMA KeyedNumber ==
  ASSUME NEW fields, \A k \in DOMAIN fields : fields[k] \in Value,
         NEW X, NEW keys \in Seq(X)
  PROVE  int64Any(FirstValue(fields, keys)) \in Nat
BY Zenon, FirstValueType, Int64Type

LEMMA UsageOfType ==
  ASSUME NEW usage, \A k \in DOMAIN usage : usage[k] \in Value
  PROVE  UsageOf(usage) \in UsageSet
<1> DEFINE K1 == <<"inputTokens", "prompt_tokens", "input_tokens">>
           K2 == <<"outputTokens", "completion_tokens", "output_tokens">>
           K3 == <<"reasoningTokens", "reasoning_tokens">>
           K4 == <<"output_tokens_details", "outputTokensDetails">>
           K5 == <<"reasoning_tokens", "reasoningTokens">>
           a == int64Any(FirstValue(usage, K1))
           b == int64Any(FirstValue(usage, K2))
           c == int64Any(FirstValue(usage, K3))
           d == int64Any(firstAny(FirstValue(usage, K4), K5))
<1>1. UsageOf(usage) = [in |-> a, out |-> b, reason |-> firstNonZero(c, d)]
  BY DEF UsageOf
<1>2. /\ K1 \in Seq({"inputTokens", "prompt_tokens", "input_tokens"})
      /\ K2 \in Seq({"outputTokens", "completion_tokens", "output_tokens"})
      /\ K3 \in Seq({"reasoningTokens", "reasoning_tokens"})
      /\ K4 \in Seq({"output_tokens_details", "outputTokensDetails"})
      /\ K5 \in Seq({"reasoning_tokens", "reasoningTokens"})
  BY ListOfTwo, ListOfThree
<1> HIDE DEF K1, K2, K3, K4, K5
<1>3. a \in Nat /\ b \in Nat /\ c \in Nat
  BY Zenon, <1>2, KeyedNumber
<1>4. d \in Nat
  <2>1. FirstValue(usage, K4) \in Value
    BY Zenon, <1>2, FirstValueType
  <2>2. QED
    BY <1>2, <2>1, FirstAnyType, Int64Type
<1> HIDE DEF a, b, c, d
<1>5. QED
  BY <1>1, <1>3, <1>4 DEF firstNonZero, UsageSet

LEMMA UsageType == ASSUME NEW v \in Value PROVE extractUsage(v) \in UsageSet
<1> DEFINE K == <<"usage", "token_usage">>
<1>1. extractUsage(v) = UsageOf(Fields(firstAny(v, K)))
  BY DEF extractUsage
<1>2. K \in Seq({"usage", "token_usage"})
  BY ListOfTwo
<1> HIDE DEF K
<1>3. firstAny(v, K) \in Value
  BY <1>2, FirstAnyType
<1>4. QED
  BY <1>1, <1>3, FieldsType, UsageOfType

LEMMA NoPayloadType == NoPayload \in PayloadSet
<1>1. <<>> \in Text /\ <<>> \in Seq(ToolSet)
  BY WordTexts
<1>2. QED
  BY <1>1 DEF NoPayload, PayloadSet

LEMMA MessageMapType == ASSUME NEW v \in Value PROVE payloadFromMessageMap(v) \in PayloadSet
<1> DEFINE K1 == <<"reasoning", "reasoning_content">>
           K2 == <<"toolCalls", "tool_calls">>
           text == contentStringAny(Field(v, "content"))
           reasoning == stringAny(firstAny(v, K1))
           tools == extractToolCalls(firstAny(v, K2))
<1>1. payloadFromMessageMap(v)
        = [NoPayload EXCEPT !.text = text, !.reasoning = reasoning, !.tools = tools]
  BY DEF payloadFromMessageMap
<1>2. K1 \in Seq({"reasoning", "reasoning_content"}) /\ K2 \in Seq({"toolCalls", "tool_calls"})
  BY ListOfTwo
<1> HIDE DEF K1, K2
<1>3. text \in Text
  BY FieldType, ContentStringType
<1>4. reasoning \in Text
  BY <1>2, KeyedText
<1>5. tools \in Seq(ToolSet)
  BY <1>2, FirstAnyType, ToolCallsType
<1> HIDE DEF text, reasoning, tools
<1>6. QED
  BY Zenon, <1>1, <1>3, <1>4, <1>5, NoPayloadType DEF PayloadSet

LEMMA NullValue == Null \in Value
BY ValueAssumption

LEMMA ChoiceMessageType == ASSUME NEW v \in Value PROVE ChoiceMessage(v) \in Value
<1>1. Items(Field(v, "choices")) \in Seq(Value)
  BY FieldType, ItemsType
<1>2. ASSUME NEW items \in Seq(Value) PROVE FirstItem(items) \in Value
  BY NullValue DEF FirstItem
<1>3. QED
  BY <1>1, <1>2, FieldType DEF ChoiceMessage

\* Three records over one another make a payload.
LEMMA OverThree ==
  ASSUME NEW usage \in UsageSet, NEW model \in Text, NEW duration \in Nat,
         NEW payload \in PayloadSet
  PROVE  Over(Over(usage, [model |-> model, duration |-> duration]), payload) \in PayloadSet
<1> DEFINE md == [model |-> model, duration |-> duration]
           D == DOMAIN usage \cup DOMAIN md
           um == [f \in D |-> IF f \in DOMAIN usage THEN usage[f] ELSE md[f]]
           E == DOMAIN um \cup DOMAIN payload
           all == [f \in E |-> IF f \in DOMAIN um THEN um[f] ELSE payload[f]]
<1>1. DOMAIN usage = {"in", "out", "reason"} /\ usage.in \in Nat /\ usage.out \in Nat
      /\ usage.reason \in Nat
  BY DEF UsageSet
<1>2. DOMAIN md = {"model", "duration"} /\ md.model = model /\ md.duration = duration
  OBVIOUS
<1> HIDE DEF md
<1>3. D = {"in", "out", "reason", "model", "duration"}
  BY <1>1, <1>2
<1> HIDE DEF D
<1>4. /\ DOMAIN um = {"in", "out", "reason", "model", "duration"}
      /\ um.in \in Nat /\ um.out \in Nat /\ um.reason \in Nat
      /\ um.model \in Text /\ um.duration \in Nat
  BY <1>1, <1>2, <1>3
<1>5. Over(usage, md) = um
  BY DEF Over, D
<1> HIDE DEF um
<1>6. DOMAIN payload = {"model", "text", "reasoning", "tools", "in", "out", "reason", "duration"}
      /\ payload.text \in Text /\ payload.reasoning \in Text /\ payload.tools \in Seq(ToolSet)
  BY DEF PayloadSet
<1>7. E = {"model", "text", "reasoning", "tools", "in", "out", "reason", "duration"}
  BY <1>4, <1>6
<1> HIDE DEF E
<1>8. all \in PayloadSet
  BY <1>4, <1>6, <1>7 DEF PayloadSet
<1>9. Over(um, payload) = all
  BY DEF Over, E
<1>10. QED
  BY <1>5, <1>8, <1>9 DEF md

LEMMA ChoicesType == ASSUME NEW v \in Value PROVE payloadFromChoices(v) \in PayloadSet
<1> DEFINE K1 == <<"model", "model_name">>
           K2 == <<"durationMs", "duration_ms">>
           model == stringAny(firstAny(v, K1))
           duration == int64Any(firstAny(v, K2))
<1>1. payloadFromChoices(v)
        = Over(Over(extractUsage(v), [model |-> model, duration |-> duration]),
               payloadFromMessageMap(ChoiceMessage(v)))
  BY DEF payloadFromChoices
<1>2. K1 \in Seq({"model", "model_name"}) /\ K2 \in Seq({"durationMs", "duration_ms"})
  BY ListOfTwo
<1> HIDE DEF K1, K2
<1>3. model \in Text
  BY <1>2, KeyedText
<1>4. duration \in Nat
  BY <1>2, FirstAnyType, Int64Type
<1> HIDE DEF model, duration
<1>5. QED
  BY <1>1, <1>3, <1>4, UsageType, ChoiceMessageType, MessageMapType, OverThree

LEMMA OverSimple ==
  ASSUME NEW usage \in UsageSet, NEW simple,
         simple \in [model : Text, text : Text, reasoning : Text, tools : Seq(ToolSet),
                     duration : Nat]
  PROVE  Over(usage, simple) \in PayloadSet
<1> DEFINE D == DOMAIN usage \cup DOMAIN simple
           both == [f \in D |-> IF f \in DOMAIN usage THEN usage[f] ELSE simple[f]]
<1>1. DOMAIN usage = {"in", "out", "reason"} /\ usage.in \in Nat /\ usage.out \in Nat
      /\ usage.reason \in Nat
  BY DEF UsageSet
<1>2. /\ DOMAIN simple = {"model", "text", "reasoning", "tools", "duration"}
      /\ simple.model \in Text /\ simple.text \in Text /\ simple.reasoning \in Text
      /\ simple.tools \in Seq(ToolSet) /\ simple.duration \in Nat
  OBVIOUS
<1>3. D = {"model", "text", "reasoning", "tools", "in", "out", "reason", "duration"}
  BY <1>1, <1>2
<1> HIDE DEF D
<1>4. both \in PayloadSet
  BY <1>1, <1>2, <1>3 DEF PayloadSet
<1>5. Over(usage, simple) = both
  BY DEF Over, D
<1>6. QED
  BY <1>4, <1>5

LEMMA ListOfFive == ASSUME NEW a, NEW b, NEW c, NEW d, NEW e PROVE <<a, b, c, d, e>> \in Seq({a, b, c, d, e})
OBVIOUS

LEMMA SimpleMapType == ASSUME NEW v \in Value PROVE payloadFromSimpleMap(v) \in PayloadSet
<1> DEFINE K1 == <<"model", "model_name", "name">>
           K2 == <<"content", "text", "output", "answer", "response">>
           K3 == <<"reasoning", "reasoning_content", "thought">>
           K4 == <<"toolCalls", "tool_calls", "tools">>
           K5 == <<"durationMs", "duration_ms">>
           model == stringAny(firstAny(v, K1))
           text == contentStringAny(firstAny(v, K2))
           reasoning == stringAny(firstAny(v, K3))
           tools == extractToolCalls(firstAny(v, K4))
           duration == int64Any(firstAny(v, K5))
<1>1. payloadFromSimpleMap(v)
        = Over(extractUsage(v), [model |-> model, text |-> text, reasoning |-> reasoning,
                                 tools |-> tools, duration |-> duration])
  BY DEF payloadFromSimpleMap
<1>2. /\ K1 \in Seq({"model", "model_name", "name"})
      /\ K2 \in Seq({"content", "text", "output", "answer", "response"})
      /\ K3 \in Seq({"reasoning", "reasoning_content", "thought"})
      /\ K4 \in Seq({"toolCalls", "tool_calls", "tools"})
      /\ K5 \in Seq({"durationMs", "duration_ms"})
  BY ListOfTwo, ListOfThree, ListOfFive
<1> HIDE DEF K1, K2, K3, K4, K5
<1>3. model \in Text /\ reasoning \in Text
  BY <1>2, KeyedText
<1>4. duration \in Nat
  BY <1>2, FirstAnyType, Int64Type
<1>5. text \in Text
  BY <1>2, FirstAnyType, ContentStringType
<1>6. tools \in Seq(ToolSet)
  BY <1>2, FirstAnyType, ToolCallsType
<1> HIDE DEF model, text, reasoning, tools, duration
<1>7. QED
  BY <1>1, <1>3, <1>4, <1>5, <1>6, UsageType, OverSimple

LEMMA MergedType ==
  ASSUME NEW dst \in PayloadSet, NEW src \in PayloadSet
  PROVE  mergeAssistantPayload(dst, src) \in PayloadSet
BY Zenon DEF PayloadSet, mergeAssistantPayload, firstNonEmpty, firstNonZero

LEMMA WithOutputItemType ==
  ASSUME NEW payload \in PayloadSet, NEW item \in Value
  PROVE  WithOutputItem(payload, item) \in PayloadSet
<1>1. mergeAssistantPayload(payload, payloadFromMessageMap(item)) \in PayloadSet
  BY MessageMapType, MergedType
<1>2. [payload EXCEPT !.tools = Append(@, toolCallFromResponseOutputItem(item))] \in PayloadSet
  <2>1. Append(payload.tools, toolCallFromResponseOutputItem(item)) \in Seq(ToolSet)
    <3>1. \A tools \in Seq(ToolSet) : \A t \in ToolSet : Append(tools, t) \in Seq(ToolSet)
      <4> DEFINE S == ToolSet
      <4> HIDE DEF S
      <4>1. \A tools \in Seq(S) : \A t \in S : Append(tools, t) \in Seq(S)
        OBVIOUS
      <4>2. QED
        BY <4>1 DEF S
    <3>2. payload.tools \in Seq(ToolSet)
      BY DEF PayloadSet
    <3>3. QED
      BY <3>1, <3>2, OutputToolType
  <2>2. QED
    BY Zenon, <2>1 DEF PayloadSet
<1>3. QED
  BY <1>1, <1>2 DEF WithOutputItem

OutputStep(c, payload, item) == WithOutputItem(payload, item)
OutputFold == INSTANCE RecursionLemmas WITH Step <- OutputStep

LEMMA ResponseMapType == ASSUME NEW v \in Value PROVE payloadFromResponseMap(v) \in PayloadSet
<1> DEFINE K1 == <<"model", "model_name">>
           model == stringAny(firstAny(v, K1))
           base == Over(Over(extractUsage(v), [model |-> model]), NoPayload)
           items == Items(Field(v, "output"))
<1>1. payloadFromResponseMap(v) = OutputFold!Fold(0, base, items)
  BY DEF payloadFromResponseMap, FoldLeft, MapThenFoldSet, Max, OutputFold!Fold,
         OutputFold!IsFold, OutputFold!Greatest, OutputStep
<1>2. K1 \in Seq({"model", "model_name"})
  BY ListOfTwo
<1> HIDE DEF K1
<1>3. model \in Text
  BY <1>2, KeyedText
<1> HIDE DEF model
<1>4. base \in PayloadSet
  <2>1. ASSUME NEW usage \in UsageSet, NEW payload \in PayloadSet
        PROVE  Over(Over(usage, [model |-> model]), payload) \in PayloadSet
    <3> DEFINE m == [model |-> model]
               D == DOMAIN usage \cup DOMAIN m
               um == [f \in D |-> IF f \in DOMAIN usage THEN usage[f] ELSE m[f]]
               E == DOMAIN um \cup DOMAIN payload
               all == [f \in E |-> IF f \in DOMAIN um THEN um[f] ELSE payload[f]]
    <3>1. DOMAIN usage = {"in", "out", "reason"} /\ usage.in \in Nat /\ usage.out \in Nat
          /\ usage.reason \in Nat
      BY DEF UsageSet
    <3>2. DOMAIN m = {"model"} /\ m.model = model
      OBVIOUS
    <3> HIDE DEF m
    <3>3. D = {"in", "out", "reason", "model"}
      BY <3>1, <3>2
    <3> HIDE DEF D
    <3>4. /\ DOMAIN um = {"in", "out", "reason", "model"}
          /\ um.in \in Nat /\ um.out \in Nat /\ um.reason \in Nat /\ um.model \in Text
      BY <1>3, <3>1, <3>2, <3>3
    <3>5. Over(usage, m) = um
      BY DEF Over, D
    <3> HIDE DEF um
    <3>6. DOMAIN payload = {"model", "text", "reasoning", "tools", "in", "out", "reason", "duration"}
          /\ payload.text \in Text /\ payload.reasoning \in Text /\ payload.tools \in Seq(ToolSet)
          /\ payload.duration \in Nat
      BY DEF PayloadSet
    <3>7. E = {"model", "text", "reasoning", "tools", "in", "out", "reason", "duration"}
      BY <3>4, <3>6
    <3> HIDE DEF E
    <3>8. all \in PayloadSet
      BY <3>4, <3>6, <3>7 DEF PayloadSet
    <3>9. Over(um, payload) = all
      BY DEF Over, E
    <3>10. QED
      BY <3>5, <3>8, <3>9 DEF m
  <2>2. QED
    BY <2>1, UsageType, NoPayloadType
<1>5. items \in Seq(Value)
  BY FieldType, ItemsType
<1> HIDE DEF base, items
<1> DEFINE n == Len(items)
           T == PayloadSet
<1>6. n \in Nat /\ DOMAIN items = 1..n /\ \A i \in 1..n : items[i] \in Value
  BY <1>5
<1>7. \A p \in T : \A i \in 1..n : OutputStep(0, p, items[i]) \in T
  BY <1>6, WithOutputItemType DEF OutputStep
<1> HIDE DEF n, T
<1>8. \A c, b : b \in T /\ (\A p \in T : \A i \in 1..n : OutputStep(c, p, items[i]) \in T)
        => OutputFold!Fold(c, b, items) \in T
  BY <1>6, OutputFold!FoldKeeps, LeastNumber DEF OutputFold!LeastNumbers
<1>9. OutputFold!Fold(0, base, items) \in T
  BY <1>4, <1>7, <1>8 DEF T
<1>10. QED
  BY <1>1, <1>9 DEF T

----------------------------------------------------------------------------
(* Calls.                                                                  *)

Ids == Word \cup {""} \cup {"round-" \o ToString(n) : n \in Nat}
       \cup {"responses-" \o ToString(n) : n \in Nat}
       \cup {"fallback-" \o ToString(p[1]) \o "-" \o ToString(p[2]) : p \in Nat \X Nat}
MessageSet == [role : Text, content : Content]
CallSet == [log : Ids, start : Nat, end : Nat, messages : Seq(MessageSet),
            model : Text, text : Text, reasoning : Text, tools : Seq(ToolSet),
            in : Nat, out : Nat, reason : Nat, duration : Nat]
SameTimes(c, d) == c.log = d.log /\ c.start = d.start /\ c.end = d.end

PayloadFields == {"model", "text", "reasoning", "tools", "in", "out", "reason", "duration"}

LEMMA CallType ==
  ASSUME NEW log \in Ids, NEW start \in Nat, NEW end \in Nat
  PROVE  /\ Call(log, start, end) \in CallSet
         /\ Call(log, start, end).log = log
         /\ Call(log, start, end).start = start
         /\ Call(log, start, end).end = end
         /\ Call(log, start, end).messages = <<>>
         /\ Call(log, start, end).in = 0
<1> DEFINE own == [log |-> log, start |-> start, end |-> end, messages |-> <<>>]
           D == DOMAIN own \cup DOMAIN NoPayload
           both == [f \in D |-> IF f \in DOMAIN own THEN own[f] ELSE NoPayload[f]]
<1>1. DOMAIN own = {"log", "start", "end", "messages"} /\ own.log = log /\ own.start = start
      /\ own.end = end /\ own.messages = <<>>
  OBVIOUS
<1> HIDE DEF own
<1>2. /\ DOMAIN NoPayload = PayloadFields /\ NoPayload.in = 0 /\ NoPayload.out = 0
      /\ NoPayload.reason = 0 /\ NoPayload.duration = 0 /\ NoPayload.model \in Text
      /\ NoPayload.text \in Text /\ NoPayload.reasoning \in Text
      /\ NoPayload.tools \in Seq(ToolSet)
  BY NoPayloadType DEF NoPayload, PayloadFields, PayloadSet
<1>3. D = {"log", "start", "end", "messages"} \cup PayloadFields
  BY <1>1, <1>2
<1> HIDE DEF D
<1>4. <<>> \in Seq(MessageSet)
  OBVIOUS
<1>5. both \in CallSet
  <2>1. /\ both.log \in Ids /\ both.start \in Nat /\ both.end \in Nat
        /\ both.messages \in Seq(MessageSet)
    BY Zenon, <1>1, <1>3, <1>4
  <2>2. /\ both.model \in Text /\ both.text \in Text /\ both.reasoning \in Text
        /\ both.tools \in Seq(ToolSet) /\ both.in \in Nat /\ both.out \in Nat
        /\ both.reason \in Nat /\ both.duration \in Nat
    BY <1>1, <1>2, <1>3 DEF PayloadFields
  <2>3. both = [f \in {"log", "start", "end", "messages"} \cup PayloadFields |-> both[f]]
    BY <1>3
  <2> HIDE DEF both
  <2>4. QED
    BY <2>1, <2>2, <2>3 DEF CallSet, PayloadFields
<1>6. both.log = log /\ both.start = start /\ both.end = end /\ both.messages = <<>> /\ both.in = 0
  BY <1>1, <1>2, <1>3 DEF PayloadFields
<1>7. Call(log, start, end) = both
  BY DEF Call, Over, own, D
<1> HIDE DEF both
<1>8. QED
  BY <1>5, <1>6, <1>7

\* What a payload says of a call leaves its times and its messages alone.
LEMMA WithType ==
  ASSUME NEW call \in CallSet, NEW payload, NEW full \in PayloadSet,
         DOMAIN payload \subseteq PayloadFields,
         \A f \in DOMAIN payload : payload[f] = full[f]
  PROVE  /\ With(call, payload) \in CallSet
         /\ SameTimes(With(call, payload), call)
         /\ With(call, payload).messages = call.messages
<1> DEFINE D == DOMAIN payload \cup DOMAIN call
           both == [f \in D |-> IF f \in DOMAIN payload THEN payload[f] ELSE call[f]]
<1>1. DOMAIN call = {"log", "start", "end", "messages"} \cup PayloadFields
  BY DEF CallSet, PayloadFields
<1>2. D = {"log", "start", "end", "messages"} \cup PayloadFields
  BY <1>1
<1> HIDE DEF D
<1>3. /\ both = [f \in {"log", "start", "end", "messages"} \cup PayloadFields |-> both[f]]
      /\ \A f \in PayloadFields : both[f] = full[f] \/ both[f] = call[f]
      /\ \A f \in {"log", "start", "end", "messages"} : both[f] = call[f]
  BY <1>2 DEF PayloadFields
<1>4. With(call, payload) = both
  BY DEF With, Over, D
<1> HIDE DEF both
<1>5. both.log = call.log /\ both.start = call.start /\ both.end = call.end
      /\ both.messages = call.messages
  BY <1>3
<1>6. /\ both.model = full.model \/ both.model = call.model
      /\ both.text = full.text \/ both.text = call.text
      /\ both.reasoning = full.reasoning \/ both.reasoning = call.reasoning
      /\ both.tools = full.tools \/ both.tools = call.tools
      /\ both.in = full.in \/ both.in = call.in
      /\ both.out = full.out \/ both.out = call.out
      /\ both.reason = full.reason \/ both.reason = call.reason
      /\ both.duration = full.duration \/ both.duration = call.duration
  BY <1>3 DEF PayloadFields
<1>7. /\ both.model \in Text /\ both.text \in Text /\ both.reasoning \in Text
      /\ both.tools \in Seq(ToolSet) /\ both.in \in Nat /\ both.out \in Nat
      /\ both.reason \in Nat /\ both.duration \in Nat
  BY Zenon, <1>6 DEF PayloadSet, CallSet
<1>8. both \in CallSet
  <2>1. both.log \in Ids /\ both.start \in Nat /\ both.end \in Nat
        /\ both.messages \in Seq(MessageSet)
    BY <1>5 DEF CallSet
  <2>2. both = [f \in {"log", "start", "end", "messages"} \cup PayloadFields |-> both[f]]
    BY <1>3
  <2>3. QED
    BY <1>7, <2>1, <2>2 DEF CallSet, PayloadFields
<1>9. QED
  BY <1>4, <1>5, <1>8 DEF SameTimes

LEMMA WithPayloadType ==
  ASSUME NEW call \in CallSet, NEW payload \in PayloadSet
  PROVE  /\ With(call, payload) \in CallSet
         /\ SameTimes(With(call, payload), call)
         /\ With(call, payload).messages = call.messages
<1>1. DOMAIN payload = PayloadFields
  BY DEF PayloadSet, PayloadFields
<1>2. QED
  BY <1>1, WithType

LEMMA MessagesInType ==
  ASSUME NEW items \in Seq(Value)
  PROVE  MessagesIn(items) \in Seq(MessageSet)
<1>1. \A i \in DOMAIN items : [role |-> stringAny(Field(items[i], "role")),
                               content |-> Field(items[i], "content")] \in MessageSet
  BY FieldType, StringType DEF MessageSet, Content
<1>2. QED
  BY <1>1 DEF MessagesIn

LEMMA BodyMessagesType == ASSUME NEW v \in Value PROVE BodyMessages(v) \in Seq(MessageSet)
<1>1. Items(Field(v, "messages")) \in Seq(Value) /\ Items(Field(v, "input")) \in Seq(Value)
  BY FieldType, ItemsType
<1>2. firstNonEmpty(Items(Field(v, "messages")), Items(Field(v, "input"))) \in Seq(Value)
  BY <1>1, FirstNonEmptyType
<1>3. QED
  BY <1>2, MessagesInType DEF BodyMessages

LEMMA RequestType ==
  ASSUME NEW call \in CallSet, NEW data, data.value \in Value
  PROVE  decodeRequest(data, call) \in CallSet /\ SameTimes(decodeRequest(data, call), call)
<1>1. ASSUME NEW v \in Value
      PROVE  applyRequestBody(v, call) \in CallSet /\ SameTimes(applyRequestBody(v, call), call)
  <2>1. stringAny(Field(v, "model")) \in Text
    BY FieldType, StringType
  <2>2. BodyMessages(v) \in Seq(MessageSet)
    BY BodyMessagesType
  <2>3. \A m \in Text : \A s \in Seq(MessageSet) :
          LET c == [call EXCEPT !.model = m, !.messages = s]
          IN  c \in CallSet /\ SameTimes(c, call)
    BY Zenon DEF CallSet, SameTimes
  <2>4. SameTimes(call, call)
    BY DEF SameTimes
  <2>5. QED
    BY Zenon, <2>1, <2>2, <2>3, <2>4 DEF applyRequestBody
<1>2. QED
  BY <1>1, FieldType DEF decodeRequest

LEMMA ResponseType ==
  ASSUME NEW call \in CallSet, NEW data, data.value \in Value
  PROVE  decodeResponse(data, call) \in CallSet /\ SameTimes(decodeResponse(data, call), call)
<1> DEFINE v == data.value
           last == Field(v, "final")
           final == FinalOf(last)
           answer == AnswerOf(v, final, call)
<1>1. SameTimes(call, call)
  BY DEF SameTimes
<1>2. decodeResponse(data, call) = IF v[1] # "obj" THEN call ELSE With(call, answer)
  BY DEF decodeResponse
<1>3. last \in Value
  BY FieldType
<1> HIDE DEF last
<1>4. /\ final.text \in Text /\ final.reasoning \in Text /\ final.tools \in Seq(ToolSet)
      /\ final.in \in Nat /\ final.out \in Nat /\ final.reason \in Nat
      /\ DOMAIN final = {"text", "reasoning", "tools", "in", "out", "reason"}
  <2> DEFINE tools == Items(Field(last, "tools"))
             listed == [i \in DOMAIN tools |->
                      Tool(stringAny(Field(tools[i], "callID")),
                           stringAny(Field(tools[i], "tool")), Field(tools[i], "input"),
                           stringAny(Field(tools[i], "error")))]
             Count(name) == int64Any(Field(Field(last, "usage"), name))
             text == stringAny(Field(last, "text"))
             reasoning == stringAny(Field(last, "reasoning"))
  <2>1. final = [text |-> text, reasoning |-> reasoning, tools |-> listed,
                 in |-> Count("inputTokens"), out |-> Count("outputTokens"),
                 reason |-> Count("reasoningTokens")]
    BY DEF FinalOf
  <2>2. tools \in Seq(Value)
    BY <1>3, FieldType, ItemsType
  <2> HIDE DEF tools
  <2>3. \A item \in Value : Tool(stringAny(Field(item, "callID")),
                           stringAny(Field(item, "tool")), Field(item, "input"),
                           stringAny(Field(item, "error"))) \in ToolSet
    BY FieldType, StringType, ToolType
  <2>4. listed \in Seq(ToolSet)
    BY <2>2, <2>3
  <2>5. \A name : Count(name) \in Nat
    BY <1>3, FieldType, Int64Type
  <2>6. text \in Text /\ reasoning \in Text
    BY <1>3, FieldType, StringType
  <2> HIDE DEF listed, Count, text, reasoning, final
  <2>7. QED
    BY <2>1, <2>4, <2>5, <2>6
<1> HIDE DEF final
<1>5. With(call, final) \in CallSet /\ SameTimes(With(call, final), call)
  <2> DEFINE full == [model |-> <<>>, text |-> final.text, reasoning |-> final.reasoning,
                      tools |-> final.tools, in |-> final.in, out |-> final.out,
                      reason |-> final.reason, duration |-> 0]
  <2>1. full \in PayloadSet
    BY <1>4, WordTexts DEF PayloadSet
  <2>2. DOMAIN final \subseteq PayloadFields /\ \A f \in DOMAIN final : final[f] = full[f]
    BY <1>4 DEF PayloadFields
  <2> HIDE DEF full
  <2>3. QED
    BY <2>1, <2>2, WithType
<1>6. ASSUME NEW model \in Text, NEW p \in PayloadSet
      PROVE  LET q == [p EXCEPT !.model = firstNonEmpty(model, @), !.duration = call.duration]
             IN  With(call, q) \in CallSet /\ SameTimes(With(call, q), call)
  <2>1. [p EXCEPT !.model = firstNonEmpty(model, @), !.duration = call.duration] \in PayloadSet
    BY Zenon DEF PayloadSet, CallSet, firstNonEmpty
  <2>2. QED
    BY <2>1, WithPayloadType
<1>7. answer = IF Speaks(final) \/ final.in > 0 \/ final.out > 0 \/ ~HasChoice(v) THEN final
               ELSE [payloadFromChoices(v) EXCEPT !.model = firstNonEmpty(call.model, @),
                                                  !.duration = call.duration]
  BY DEF AnswerOf
<1> HIDE DEF answer
<1>8. call.model \in Text /\ payloadFromChoices(v) \in PayloadSet
  BY ChoicesType DEF CallSet
<1>9. With(call, answer) \in CallSet /\ SameTimes(With(call, answer), call)
  BY Zenon, <1>5, <1>6, <1>7, <1>8
<1>10. QED
  BY <1>1, <1>2, <1>9

LEMMA MetaType ==
  ASSUME NEW call \in CallSet, NEW data, data.value \in Value
  PROVE  decodeMeta(data, call) \in CallSet /\ SameTimes(decodeMeta(data, call), call)
<1>1. int64Any(Field(data.value, "durationMs")) \in Nat
  BY FieldType, Int64Type
<1>2. \A d \in Nat : [call EXCEPT !.duration = d] \in CallSet
                     /\ SameTimes([call EXCEPT !.duration = d], call)
  BY Zenon DEF CallSet, SameTimes
<1>3. SameTimes(call, call)
  BY DEF SameTimes
<1>4. QED
  BY <1>1, <1>2, <1>3 DEF decodeMeta

LEMMA DecodedCallType ==
  ASSUME NEW buf, buf.log \in Ids, buf.start \in Nat, buf.end \in Nat,
         buf.req.value \in Value, buf.resp.value \in Value, buf.meta.value \in Value
  PROVE  /\ DecodedCall(buf) \in CallSet
         /\ DecodedCall(buf).log = buf.log
<1> DEFINE a == Call(buf.log, buf.start, buf.end)
           b == decodeRequest(buf.req, a)
           c == decodeResponse(buf.resp, b)
           d == decodeMeta(buf.meta, c)
<1>1. a \in CallSet /\ a.log = buf.log
  BY CallType
<1> HIDE DEF a
<1>2. b \in CallSet /\ SameTimes(b, a)
  BY <1>1, RequestType
<1> HIDE DEF b
<1>3. c \in CallSet /\ SameTimes(c, b)
  BY <1>2, ResponseType
<1> HIDE DEF c
<1>4. d \in CallSet /\ SameTimes(d, c)
  BY <1>3, MetaType
<1> HIDE DEF d
<1>5. DecodedCall(buf) = d
  BY DEF DecodedCall, a, b, c, d
<1>6. QED
  BY <1>1, <1>2, <1>3, <1>4, <1>5 DEF SameTimes

----------------------------------------------------------------------------
(* What is left of a user's message.                                       *)

PlainWord == Word \ {"</ctx>"}
CleanText == {t \in Text : \A w \in Injected : ~Contains(t, w)}

LEMMA PartOfSeq ==
  ASSUME NEW S, NEW s \in Seq(S), NEW m \in Nat, m >= 1, NEW n \in Int, n <= Len(s)
  PROVE  SubSeq(s, m, n) \in Seq(S)
OBVIOUS

LEMMA RestOfSeq ==
  ASSUME NEW S, NEW s \in Seq(S), NEW m \in 1..Len(s)
  PROVE  /\ Len(SubSeq(s, m + 1, Len(s))) = Len(s) - m
         /\ \A i \in 1..(Len(s) - m) : SubSeq(s, m + 1, Len(s))[i] = s[m + i]
<1> DEFINE n == Len(s)
<1>1. n \in Nat /\ m \in Nat /\ m >= 1 /\ m <= n
  OBVIOUS
<1>2. Len(SubSeq(s, m + 1, n)) = n - m
  BY <1>1
<1>3. ASSUME NEW i \in 1..(n - m) PROVE SubSeq(s, m + 1, n)[i] = s[m + i]
  <2>1. i \in Nat /\ i >= 1 /\ i <= n - m
    BY <1>1
  <2>2. SubSeq(s, m + 1, n)[i] = s[(m + 1) + i - 1]
    BY <1>1, <2>1
  <2>3. (m + 1) + i - 1 = m + i
    BY <1>1, <2>1
  <2>4. QED
    BY <2>2, <2>3
<1>4. QED
  BY <1>2, <1>3

LEMMA PositionsAreFinite ==
  ASSUME NEW X, NEW seq \in Seq(X), NEW T, T \subseteq DOMAIN seq
  PROVE  T \in SUBSET Nat /\ IsFiniteSet(T)
<1> DEFINE I == 1..Len(seq)
<1>1. I \subseteq Nat /\ T \subseteq I
  OBVIOUS
<1>2. IsFiniteSet(I)
  <2>1. Len(seq) \in Nat
    OBVIOUS
  <2>2. QED
    BY <2>1, FS_Interval
<1> HIDE DEF I
<1>3. QED
  BY <1>1, <1>2, FS_Subset

LEMMA StrippedContext ==
  ASSUME NEW text \in Text
  PROVE  stripInjectedContext(text) \in Seq(PlainWord)
<1> DEFINE n == Len(text)
           closings == Closings(text)
           W == Word
           P == PlainWord
<1>1. n \in Nat /\ DOMAIN text = 1..n /\ \A i \in 1..n : text[i] \in W
  BY DEF Text
<1>2. \A i \in 1..n : i \notin closings => text[i] \in P
  BY <1>1 DEF Closings, PlainWord
<1>3. closings \in SUBSET Nat /\ IsFiniteSet(closings) /\ \A i \in closings : i \in 1..n
  <2>1. closings \subseteq 1..n
    BY <1>1 DEF Closings
  <2>2. closings \subseteq DOMAIN text /\ text \in Seq(W)
    BY DEF Closings, Text
  <2> HIDE DEF closings, W
  <2>3. QED
    BY <2>1, <2>2, PositionsAreFinite
<1>4. CASE closings = {}
  <2>1. \A s \in Seq(W) : (\A i \in 1..Len(s) : s[i] \in P) => s \in Seq(P)
    <3> HIDE DEF W, P
    <3>1. QED
      OBVIOUS
  <2>2. text \in Seq(W)
    BY DEF Text
  <2>3. text \in Seq(P)
    BY <1>2, <1>4, <2>1, <2>2
  <2>4. QED
    BY <1>4, <2>3 DEF stripInjectedContext
<1>5. CASE closings # {}
  <2> DEFINE m == Max(closings)
             rest == SubSeq(text, m + 1, n)
  <2>1. m \in closings /\ \A i \in closings : i <= m
    <3> HIDE DEF closings
    <3>1. QED
      BY <1>3, <1>5, MaxOf
  <2>2. m \in 1..n
    BY <1>3, <2>1
  <2> HIDE DEF m, W, P, closings
  <2>3. Len(rest) = n - m /\ \A i \in 1..(n - m) : rest[i] = text[m + i]
    <3>1. text \in Seq(W)
      BY DEF Text, W
    <3>2. QED
      BY <2>2, <3>1, RestOfSeq
  <2>4. ASSUME NEW i \in 1..(n - m) PROVE text[m + i] \in P
    <3>1. m + i \in 1..n /\ m + i > m
      BY <1>1, <2>2
    <3>2. m + i \notin closings
      <4>1. m \in Int /\ i \in Int
        BY <1>1, <2>2
      <4>2. ~(m + i <= m)
        BY <3>1, <4>1
      <4>3. QED
        BY <2>1, <4>2
    <3>3. QED
      BY <1>2, <3>1, <3>2
  <2>5. rest \in Seq(P)
    <3>1. \A s \in Seq(W) : (\A i \in 1..Len(s) : s[i] \in P) => s \in Seq(P)
      OBVIOUS
    <3>2. rest \in Seq(W)
      <4>1. text \in Seq(W)
        BY DEF Text, W
      <4>2. m + 1 \in Nat /\ m + 1 >= 1 /\ n \in Int /\ n <= Len(text)
        BY <1>1, <2>2
      <4>3. QED
        BY <4>1, <4>2, PartOfSeq
    <3>3. \A i \in 1..Len(rest) : rest[i] \in P
      BY Zenon, <2>3, <2>4
    <3> HIDE DEF rest
    <3>4. QED
      BY <3>1, <3>2, <3>3
  <2>6. stripInjectedContext(text) = rest
    BY Zenon, <1>5 DEF stripInjectedContext, closings, m
  <2>7. QED
    BY <2>5, <2>6 DEF P
<1>6. QED
  BY <1>4, <1>5

LEMMA StrippedPayload ==
  ASSUME NEW S, NEW text \in Seq(S)
  PROVE  stripQuestionAnswerResultPayload(text) \in Seq(S)
<1> DEFINE found == {i \in DOMAIN text : text[i] \in {"{qa}", "{qa"}}
           at == findQuestionAnswerResultPayload(text)
<1>1. at = IF found # {} /\ text[Min(found)] = "{qa}" THEN Min(found) ELSE 0
  BY DEF findQuestionAnswerResultPayload
<1>2. at = 0 \/ at \in DOMAIN text
  <2>1. found \in SUBSET Nat /\ \A i \in found : i \in DOMAIN text
    <3>1. found \subseteq DOMAIN text
      BY Zenon
    <3> HIDE DEF found
    <3>2. QED
      BY <3>1, PositionsAreFinite
  <2> HIDE DEF found
  <2>2. found # {} => Min(found) \in found
    BY <2>1, MinOf
  <2>3. QED
    BY Zenon, <1>1, <2>1, <2>2
<1> HIDE DEF at
<1>3. CASE at = 0
  BY <1>3 DEF stripQuestionAnswerResultPayload, Without, at
<1>4. CASE at # 0
  <2>1. at \in 1..Len(text)
    BY <1>2, <1>4
  <2>2. SubSeq(text, 1, at - 1) \in Seq(S)
    BY <2>1, PartOfSeq
  <2>3. SubSeq(text, at + 1, Len(text)) \in Seq(S)
    <3>1. at + 1 \in Nat /\ at + 1 >= 1 /\ Len(text) \in Int /\ Len(text) <= Len(text)
      BY <2>1
    <3>2. QED
      BY <3>1, PartOfSeq
  <2>4. \A a, b \in Seq(S) : a \o b \in Seq(S)
    OBVIOUS
  <2>5. RemoveAt(text, at) \in Seq(S)
    BY <2>2, <2>3, <2>4 DEF RemoveAt
  <2>6. QED
    BY <1>4, <2>5 DEF stripQuestionAnswerResultPayload, Without, at
<1>5. QED
  BY <1>3, <1>4

LEMMA WrappedQuery ==
  ASSUME NEW S, NEW text \in Seq(S)
  PROVE  extractBusinessWrappedOriginalQuery(text) \in Seq(S)
<1> DEFINE n == Len(text)
           marks == {i \in DOMAIN text : text[i] = "query:"}
           at == Min(marks)
           cuts == {i \in at + 2..n : text[i] = "batch:"}
           ends == cuts \cup {n + 1}
           cut == Min(ends)
<1>1. extractBusinessWrappedOriginalQuery(text) =
        IF ~Contains(Front(text), "query:") THEN text ELSE SubSeq(text, at + 1, cut - 1)
  BY DEF extractBusinessWrappedOriginalQuery
<1>2. ASSUME Contains(Front(text), "query:") PROVE SubSeq(text, at + 1, cut - 1) \in Seq(S)
  <2>1. marks # {}
    <3>1. PICK i \in 1..Len(Front(text)) : Front(text)[i] = "query:"
      BY <1>2 DEF Contains
    <3>2. i \in 1..Len(SubSeq(text, 1, n - 1)) /\ SubSeq(text, 1, n - 1)[i] = "query:"
      BY <3>1 DEF Front
    <3>3. i \in DOMAIN text /\ text[i] = "query:"
      BY <3>2
    <3>4. QED
      BY <3>3
  <2>2. marks \in SUBSET Nat /\ \A i \in marks : i \in 1..n
    OBVIOUS
  <2> HIDE DEF marks
  <2>3. at \in 1..n
    BY Zenon, <2>1, <2>2, MinOf
  <2> HIDE DEF at
  <2>4. ends \in SUBSET Nat /\ ends # {} /\ \A i \in ends : i <= n + 1
    BY <2>3
  <2> HIDE DEF ends
  <2>5. cut \in Nat /\ cut <= n + 1
    BY Zenon, <2>4, MinOf
  <2> HIDE DEF cut
  <2>6. at + 1 \in Nat /\ at + 1 >= 1 /\ cut - 1 \in Int /\ cut - 1 <= n
    BY <2>3, <2>5
  <2>7. QED
    BY <2>6, PartOfSeq
<1>3. QED
  BY Zenon, <1>1, <1>2

\* What is left of a message of the user.
LEMMA UserTextIsPlain ==
  ASSUME NEW text \in Text
  PROVE  UserText(text) \in Seq(PlainWord)
BY StrippedContext, StrippedPayload, WrappedQuery DEF UserText

LEMMA PlainText ==
  ASSUME NEW t \in Seq(PlainWord)
  PROVE  t \in Text /\ ~Contains(t, "</ctx>")
<1>1. PlainWord \subseteq Word /\ "</ctx>" \notin PlainWord
  BY DEF PlainWord
<1> HIDE DEF PlainWord
<1>2. t \in Text
  BY <1>1, LargerSeq DEF Text
<1>3. \A i \in 1..Len(t) : t[i] \in PlainWord
  OBVIOUS
<1>4. QED
  BY <1>1, <1>2, <1>3 DEF Contains

LEMMA EmptyIsClean == <<>> \in CleanText
<1>1. \A w : ~Contains(<<>>, w)
  BY DEF Contains
<1>2. QED
  BY <1>1, WordTexts DEF CleanText

LEMMA LastOfType ==
  ASSUME NEW T, <<>> \in T, NEW X, NEW seq \in Seq(X), NEW found,
         DOMAIN found = DOMAIN seq, \A i \in DOMAIN found : found[i] \in T
  PROVE  LastOf(found) \in T
<1> DEFINE known == {i \in DOMAIN found : found[i] # <<>>}
<1>1. LastOf(found) = IF known = {} THEN <<>> ELSE found[Max(known)]
  BY DEF LastOf
<1>2. known \in SUBSET Nat /\ IsFiniteSet(known) /\ \A i \in known : i \in DOMAIN found
  <2>1. known \subseteq DOMAIN seq /\ \A i \in known : i \in DOMAIN found
    OBVIOUS
  <2> HIDE DEF known
  <2>2. QED
    BY <2>1, PositionsAreFinite
<1> HIDE DEF known
<1>3. CASE known = {}
  BY <1>1, <1>3
<1>4. CASE known # {}
  <2>1. Max(known) \in known
    BY <1>2, <1>4, MaxOf
  <2>2. QED
    BY Zenon, <1>1, <1>2, <1>4, <2>1
<1>5. QED
  BY <1>3, <1>4

LEMMA FirstOfType ==
  ASSUME NEW T, <<>> \in T, NEW X, NEW seq \in Seq(X), NEW found,
         DOMAIN found = DOMAIN seq, \A i \in DOMAIN found : found[i] \in T
  PROVE  FirstOf(found) \in T
<1> DEFINE known == {i \in DOMAIN found : found[i] # <<>>}
<1>1. FirstOf(found) = IF known = {} THEN <<>> ELSE found[Min(known)]
  BY DEF FirstOf
<1>2. known \in SUBSET Nat /\ \A i \in known : i \in DOMAIN found
  OBVIOUS
<1> HIDE DEF known
<1>3. CASE known = {}
  BY <1>1, <1>3
<1>4. CASE known # {}
  <2>1. Min(known) \in known
    BY <1>2, <1>4, MinOf
  <2>2. QED
    BY Zenon, <1>1, <1>2, <1>4, <2>1
<1>5. QED
  BY <1>3, <1>4

\* The text of a user's message, or nothing if the framework wrote it.
LEMMA OwnTextIsClean ==
  ASSUME NEW text \in Text
  PROVE  (IF isSyntheticToolPrompt(UserText(text)) THEN <<>> ELSE UserText(text)) \in CleanText
<1> DEFINE t == UserText(text)
<1>1. t \in Text /\ ~Contains(t, "</ctx>")
  BY UserTextIsPlain, PlainText
<1> HIDE DEF t
<1>2. ASSUME ~isSyntheticToolPrompt(t) PROVE t \in CleanText
  <2>1. ~Contains(t, "synthetic") /\ ~Contains(t, "<reminder>")
    BY Zenon, <1>2 DEF isSyntheticToolPrompt
  <2>2. QED
    BY <1>1, <2>1 DEF CleanText, Injected
<1>3. QED
  BY <1>2, EmptyIsClean DEF t

LEMMA MessageContent ==
  ASSUME NEW msgs \in Seq(MessageSet), NEW i \in DOMAIN msgs
  PROVE  msgs[i].content \in Content
<1> DEFINE M == MessageSet
<1>1. \A m \in M : m.content \in Content
  BY DEF MessageSet
<1> HIDE DEF M
<1>2. msgs \in Seq(M)
  BY DEF M
<1>3. msgs[i] \in M
  BY <1>2
<1>4. QED
  BY <1>1, <1>3

LEMMA UserPromptIsClean ==
  ASSUME NEW msgs \in Seq(MessageSet)
  PROVE  extractUserPrompt(msgs) \in CleanText
<1> DEFINE Own(text) == IF isSyntheticToolPrompt(text) THEN <<>> ELSE text
           found == [i \in DOMAIN msgs |->
                IF msgs[i].role = <<"user">> THEN Own(UserText(contentText(msgs[i].content)))
                ELSE <<>>]
<1>1. extractUserPrompt(msgs) = LastOf(found)
  BY DEF extractUserPrompt, LastUserText
<1>2. \A i \in DOMAIN msgs : msgs[i].content \in Content
  BY MessageContent
<1>3. \A i \in DOMAIN msgs : found[i] \in CleanText
  BY <1>2, ContentTextType, OwnTextIsClean, EmptyIsClean
<1>4. DOMAIN found = DOMAIN msgs
  OBVIOUS
<1> HIDE DEF found
<1>5. QED
  BY <1>1, <1>3, <1>4, EmptyIsClean, LastOfType

LEMMA NeekoPromptIsClean ==
  ASSUME NEW msgs \in Seq(MessageSet)
  PROVE  NeekoPrompt(msgs) \in CleanText
<1> DEFINE Own(text) == IF isSyntheticToolPrompt(text) THEN <<>> ELSE text
           found == [i \in DOMAIN msgs |->
                IF msgs[i].role = <<"user">> THEN Own(UserText(neekoContentText(msgs[i].content)))
                ELSE <<>>]
<1>1. NeekoPrompt(msgs) = firstNonEmpty(LastOf(found), extractUserPrompt(msgs))
  BY DEF NeekoPrompt, LastUserText
<1>2. \A i \in DOMAIN msgs : msgs[i].content \in Content
  BY MessageContent
<1>3. \A i \in DOMAIN msgs : found[i] \in CleanText
  BY <1>2, NeekoContentTextType, OwnTextIsClean, EmptyIsClean
<1>4. DOMAIN found = DOMAIN msgs
  OBVIOUS
<1> HIDE DEF found
<1>5. LastOf(found) \in CleanText
  BY <1>3, <1>4, EmptyIsClean, LastOfType
<1>6. QED
  BY <1>1, <1>5, UserPromptIsClean, FirstNonEmptyType

----------------------------------------------------------------------------
(* Rounds that add up, and what a call that joins one changes.             *)

RoundsIn(U) == [prompt : Ids, user : U, start : Nat, end : Nat, calls : Seq(CallSet),
                in : Nat, out : Nat, reason : Nat]
Fits(round) ==
    /\ \A f \in {"in", "out", "reason"} : round[f] = Sums(round, f)
    /\ round.start = IF StartsOf(round) = {} THEN 0 ELSE Min(StartsOf(round))
    /\ \A i \in DOMAIN round.calls : round.calls[i].end <= round.end
OpenRounds(U) == {r \in RoundsIn(U) : Fits(r)}
WholeRounds(U) == {r \in OpenRounds(U) : r.calls # <<>>}

PlusStep(c, a, b) == a + b
PlusFold == INSTANCE RecursionLemmas WITH Step <- PlusStep

LEMMA SumOfIs == ASSUME NEW seq PROVE SumOf(seq) = PlusFold!Fold(0, 0, seq)
BY DEF SumOf, FoldLeft, MapThenFoldSet, Max, PlusFold!Fold, PlusFold!IsFold,
       PlusFold!Greatest, PlusStep

LEMMA SumOfAppend ==
  ASSUME NEW seq \in Seq(Nat), NEW x \in Nat
  PROVE  SumOf(Append(seq, x)) = SumOf(seq) + x
<1>1. \A c, base : PlusFold!Fold(c, base, Append(seq, x)) = PlusStep(c, PlusFold!Fold(c, base, seq), x)
  BY PlusFold!FoldOfAppend, LeastNumber DEF PlusFold!LeastNumbers
<1>2. PlusFold!Fold(0, 0, Append(seq, x)) = PlusStep(0, PlusFold!Fold(0, 0, seq), x)
  BY <1>1
<1>3. QED
  BY <1>2, SumOfIs DEF PlusStep

LEMMA SumOfNothing == ASSUME NEW seq, DOMAIN seq = {} PROVE SumOf(seq) = 0
<1>1. DOMAIN seq = 1..0
  OBVIOUS
<1>2. \A c, base, s : DOMAIN s = 1..0 => PlusFold!Fold(c, base, s) = base
  BY PlusFold!FoldOfNone, LeastNumber DEF PlusFold!LeastNumbers
<1>3. PlusFold!Fold(0, 0, seq) = 0
  BY <1>1, <1>2
<1>4. QED
  BY <1>3, SumOfIs

LEMMA NewRoundFits ==
  ASSUME NEW U, NEW prompt \in Ids, NEW user \in U
  PROVE  /\ NewRound(prompt, user) \in OpenRounds(U)
         /\ NewRound(prompt, user).calls = <<>>
         /\ NewRound(prompt, user).prompt = prompt
         /\ NewRound(prompt, user).user = user
<1> DEFINE r == NewRound(prompt, user)
<1>1. /\ r.prompt = prompt /\ r.user = user /\ r.start = 0 /\ r.end = 0 /\ r.calls = <<>>
      /\ r.in = 0 /\ r.out = 0 /\ r.reason = 0
  BY DEF NewRound
<1>2. r \in RoundsIn(U)
  <2>1. <<>> \in Seq(CallSet)
    OBVIOUS
  <2>2. QED
    BY <2>1 DEF NewRound, RoundsIn
<1> HIDE DEF r
<1>3. DOMAIN r.calls = {}
  BY <1>1
<1>4. \A f : Sums(r, f) = 0
  <2>1. \A f : DOMAIN [i \in DOMAIN r.calls |-> r.calls[i][f]] = {}
    BY <1>3
  <2>2. QED
    BY Zenon, <2>1, SumOfNothing DEF Sums
<1>5. StartsOf(r) = {}
  BY <1>3 DEF StartsOf
<1>6. Fits(r)
  BY <1>1, <1>3, <1>4, <1>5 DEF Fits
<1>7. QED
  BY <1>1, <1>2, <1>6 DEF r, OpenRounds

LEMMA AskedFits ==
  ASSUME NEW U, NEW r \in OpenRounds(U), NEW user \in U
  PROVE  /\ [r EXCEPT !.user = user] \in OpenRounds(U)
         /\ [r EXCEPT !.user = user].calls = r.calls
         /\ [r EXCEPT !.user = user].prompt = r.prompt
         /\ [r EXCEPT !.user = user].user = user
<1> DEFINE s == [r EXCEPT !.user = user]
<1>1. r \in RoundsIn(U) /\ Fits(r)
  BY DEF OpenRounds
<1>2. /\ s.calls = r.calls /\ s.prompt = r.prompt /\ s.user = user /\ s.start = r.start
      /\ s.end = r.end /\ s.in = r.in /\ s.out = r.out /\ s.reason = r.reason
  BY <1>1 DEF RoundsIn
<1>3. s \in RoundsIn(U)
  BY <1>1 DEF RoundsIn
<1> HIDE DEF s
<1>4. \A f : Sums(s, f) = Sums(r, f)
  BY <1>2 DEF Sums
<1>5. StartsOf(s) = StartsOf(r)
  BY <1>2 DEF StartsOf
<1>6. Fits(s)
  BY <1>1, <1>2, <1>4, <1>5 DEF Fits
<1>7. QED
  BY <1>2, <1>3, <1>6 DEF s, OpenRounds

\* The totals and the times of a round follow the calls that join it.
LEMMA JoinedFits ==
  ASSUME NEW U, NEW r \in OpenRounds(U), NEW call \in CallSet
  PROVE  /\ Joined(r, call) \in WholeRounds(U)
         /\ Joined(r, call).calls = Append(r.calls, call)
         /\ Joined(r, call).prompt = r.prompt
         /\ Joined(r, call).user = r.user
<1> DEFINE s == Joined(r, call)
           C == CallSet
           n == Len(r.calls)
           old == r.calls
           more == Append(old, call)
<1>1. r \in RoundsIn(U) /\ Fits(r)
  BY DEF OpenRounds
<1>2. /\ r.start \in Nat /\ r.end \in Nat /\ r.in \in Nat /\ r.out \in Nat /\ r.reason \in Nat
      /\ old \in Seq(C) /\ r.prompt \in Ids /\ r.user \in U
      /\ DOMAIN r = {"prompt", "user", "start", "end", "calls", "in", "out", "reason"}
  BY <1>1 DEF RoundsIn
<1>3. /\ call.start \in Nat /\ call.end \in Nat /\ call.in \in Nat /\ call.out \in Nat
      /\ call.reason \in Nat /\ call \in C
  BY DEF CallSet
<1>4. \A c \in C : c.in \in Nat /\ c.out \in Nat /\ c.reason \in Nat /\ c.start \in Nat /\ c.end \in Nat
  BY DEF CallSet
<1> HIDE DEF C
<1>5. /\ s.start = IF r.start = 0 \/ (call.start > 0 /\ call.start < r.start)
                   THEN call.start ELSE r.start
      /\ s.end = (IF call.end > r.end THEN call.end ELSE r.end)
      /\ s.calls = more
      /\ s.in = r.in + call.in /\ s.out = r.out + call.out /\ s.reason = r.reason + call.reason
      /\ s.prompt = r.prompt /\ s.user = r.user
      /\ DOMAIN s = {"prompt", "user", "start", "end", "calls", "in", "out", "reason"}
      /\ s = [f \in DOMAIN s |-> s[f]]
  BY Zenon, <1>2 DEF Joined
<1>6. /\ more \in Seq(C) /\ more # <<>> /\ n \in Nat /\ DOMAIN old = 1..n
      /\ DOMAIN more = (1..n) \cup {n + 1}
      /\ more[n + 1] = call /\ \A i \in 1..n : more[i] = old[i] /\ old[i] \in C
  BY <1>2, <1>3
<1> HIDE DEF s, more, old, n
<1>7. s \in RoundsIn(U)
  <2>1. s.start \in Nat /\ s.end \in Nat /\ s.in \in Nat /\ s.out \in Nat /\ s.reason \in Nat
    <3>1. s.start \in Nat
      BY <1>2, <1>3, <1>5
    <3>2. s.end \in Nat
      BY <1>2, <1>3, <1>5
    <3>3. s.in \in Nat
      BY <1>2, <1>3, <1>5
    <3>4. s.out \in Nat
      BY <1>2, <1>3, <1>5
    <3>5. s.reason \in Nat
      BY <1>2, <1>3, <1>5
    <3>6. QED
      BY <3>1, <3>2, <3>3, <3>4, <3>5
  <2>2. s.calls \in Seq(CallSet)
    BY <1>5, <1>6 DEF C
  <2>3. QED
    BY Zenon, <1>2, <1>5, <2>1, <2>2 DEF RoundsIn
<1>8. ASSUME NEW f \in {"in", "out", "reason"} PROVE s[f] = Sums(s, f)
  <2> DEFINE a == [i \in DOMAIN old |-> old[i][f]]
             b == [i \in DOMAIN more |-> more[i][f]]
  <2>0. \A c \in C : c[f] \in Nat
    BY <1>4
  <2>1. a \in Seq(Nat)
    BY <1>6, <2>0
  <2>2. b = Append(a, call[f])
    <3>1. Len(a) = n /\ DOMAIN a = 1..n /\ \A i \in 1..n : a[i] = old[i][f]
      BY <1>6, <2>1
    <3>2. DOMAIN b = (1..n) \cup {n + 1} /\ b[n + 1] = call[f] /\ \A i \in 1..n : b[i] = old[i][f]
      BY <1>6
    <3>3. b = [i \in DOMAIN b |-> b[i]]
      OBVIOUS
    <3> HIDE DEF b
    <3>4. DOMAIN Append(a, call[f]) = (1..n) \cup {n + 1}
          /\ Append(a, call[f])[n + 1] = call[f]
          /\ (\A i \in 1..n : Append(a, call[f])[i] = a[i])
          /\ Append(a, call[f]) = [i \in DOMAIN Append(a, call[f]) |-> Append(a, call[f])[i]]
      <4> HIDE DEF a
      <4>1. call[f] \in Nat
        BY <1>3, <2>0
      <4>2. QED
        BY <1>6, <2>1, <3>1, <4>1
    <3> HIDE DEF a
    <3>5. QED
      BY <3>1, <3>2, <3>3, <3>4
  <2>3. Sums(r, f) = SumOf(a) /\ Sums(s, f) = SumOf(b)
    BY <1>5 DEF Sums, old
  <2> HIDE DEF a, b
  <2>4. call[f] \in Nat
    BY <1>3, <2>0
  <2>5. SumOf(b) = SumOf(a) + call[f]
    BY <2>1, <2>2, <2>4, SumOfAppend
  <2>6. r[f] = SumOf(a)
    BY <1>1, <2>3 DEF Fits
  <2>7. s[f] = r[f] + call[f]
    BY <1>5
  <2>8. QED
    BY <2>3, <2>5, <2>6, <2>7
<1>9. StartsOf(s) = StartsOf(r) \cup ({call.start} \ {0})
  <2>1. StartsOf(s) = {more[i].start : i \in DOMAIN more} \ {0}
        /\ StartsOf(r) = {old[i].start : i \in DOMAIN old} \ {0}
    BY <1>5 DEF StartsOf, old
  <2>2. {more[i].start : i \in DOMAIN more} = {old[i].start : i \in DOMAIN old} \cup {call.start}
    <3>1. \A x : x \in {more[i].start : i \in DOMAIN more} <=>
                 (x \in {old[i].start : i \in DOMAIN old} \/ x = call.start)
      <4>1. ASSUME NEW i \in DOMAIN more
            PROVE  more[i].start \in {old[j].start : j \in DOMAIN old} \/ more[i].start = call.start
        BY <1>6
      <4>2. ASSUME NEW i \in DOMAIN old
            PROVE  old[i].start \in {more[j].start : j \in DOMAIN more}
        BY <1>6
      <4>3. call.start \in {more[j].start : j \in DOMAIN more}
        BY <1>6
      <4>4. QED
        BY <4>1, <4>2, <4>3
    <3>2. QED
      BY <3>1
  <2>3. QED
    BY <2>1, <2>2
<1>10. StartsOf(r) \in SUBSET (Nat \ {0})
  BY <1>4, <1>6 DEF StartsOf, old
<1>11. s.start = IF StartsOf(s) = {} THEN 0 ELSE Min(StartsOf(s))
  <2> DEFINE A == StartsOf(r)
             B == StartsOf(s)
  <2>1. r.start = IF A = {} THEN 0 ELSE Min(A)
    BY <1>1 DEF Fits
  <2>2. B = A \cup ({call.start} \ {0}) /\ A \in SUBSET (Nat \ {0})
    BY <1>9, <1>10
  <2> HIDE DEF A, B
  <2>3. A # {} => Min(A) \in A /\ \A t \in A : Min(A) <= t
    <3>1. A \in SUBSET Nat
      BY <2>2
    <3>2. QED
      BY <3>1, MinOf
  <2>4. CASE call.start = 0
    <3>1. B = A
      BY <2>2, <2>4
    <3>2. s.start = r.start
      BY <1>2, <1>5, <2>4
    <3>3. QED
      BY <2>1, <3>1, <3>2 DEF B
  <2>5. CASE call.start # 0
    <3>1. B = A \cup {call.start} /\ call.start > 0
      BY <1>3, <2>2, <2>5
    <3>2. CASE A = {}
      <4>1. B = {call.start} /\ s.start = call.start
        BY <1>5, <2>1, <3>1, <3>2
      <4>2. B \in SUBSET Int /\ call.start \in B /\ \A t \in B : call.start <= t
        BY <1>3, <4>1
      <4>3. Min(B) = call.start
        BY Zenon, <4>2, MinIs
      <4>4. QED
        BY <4>1, <4>2, <4>3 DEF B
    <3>3. CASE A # {}
      <4>1. r.start = Min(A) /\ r.start \in A /\ r.start # 0 /\ \A t \in A : r.start <= t
        BY Zenon, <2>1, <2>2, <2>3, <3>3
      <4>2. s.start = IF call.start < r.start THEN call.start ELSE r.start
        BY Zenon, <1>2, <1>3, <1>5, <3>1, <4>1
      <4>3. B \in SUBSET Int /\ s.start \in B
        <5>1. \A t \in B : t \in Int
          BY <1>3, <2>2, <3>1
        <5>2. QED
          BY <3>1, <4>1, <4>2, <5>1
      <4>4. ASSUME NEW t \in B PROVE s.start <= t
        <5>1. CASE t \in A
          <6>1. r.start <= t /\ t \in Nat
            BY <2>2, <4>1, <5>1
          <6>2. QED
            BY <1>2, <1>3, <4>2, <6>1
        <5>2. CASE t = call.start
          BY <1>2, <1>3, <4>2, <5>2
        <5>3. QED
          BY <3>1, <5>1, <5>2
      <4>5. Min(B) = s.start
        BY Zenon, <4>3, <4>4, MinIs
      <4>6. QED
        BY <4>3, <4>5 DEF B
    <3>4. QED
      BY <3>2, <3>3
  <2>6. QED
    BY <2>4, <2>5
<1>12. \A i \in DOMAIN s.calls : s.calls[i].end <= s.end
  <2>1. \A i \in 1..n : old[i].end <= r.end
    BY <1>1, <1>6 DEF Fits, old
  <2>2. ASSUME NEW i \in DOMAIN more PROVE more[i].end <= s.end
    <3>1. CASE i \in 1..n
      <4>1. more[i].end <= r.end /\ more[i].end \in Nat
        BY <1>4, <1>6, <2>1, <3>1
      <4>2. QED
        BY <1>2, <1>3, <1>5, <4>1
    <3>2. CASE i = n + 1
      <4>1. more[i].end = call.end
        BY <1>6, <3>2
      <4>2. QED
        BY <1>2, <1>3, <1>5, <4>1
    <3>3. QED
      BY <1>6, <3>1, <3>2
  <2>3. QED
    BY <1>5, <2>2
<1>13. Fits(s)
  BY <1>8, <1>11, <1>12 DEF Fits
<1>14. s \in WholeRounds(U)
  BY <1>5, <1>6, <1>7, <1>13 DEF WholeRounds, OpenRounds
<1>15. s.calls = Append(r.calls, call) /\ s.prompt = r.prompt /\ s.user = r.user
  BY <1>5 DEF more, old
<1>16. QED
  BY <1>14, <1>15 DEF s

LEMMA WholeAddsUp ==
  ASSUME NEW U, NEW r \in WholeRounds(U)
  PROVE  AddsUp(r)
BY DEF WholeRounds, OpenRounds, Fits, AddsUp

----------------------------------------------------------------------------
(* The round a call joins.                                                 *)

AskedRounds == WholeRounds(CleanText)

\* A call more at a place.
Grown(rounds, new, k, prompt, call) ==
    /\ new \in Seq(AskedRounds)
    /\ DOMAIN new = IF k \in DOMAIN rounds THEN DOMAIN rounds ELSE DOMAIN rounds \cup {k}
    /\ \A i \in DOMAIN new : i # k => new[i] = rounds[i]
    /\ new[k].prompt = IF k \in DOMAIN rounds THEN rounds[k].prompt ELSE prompt
    /\ new[k].calls = IF k \in DOMAIN rounds THEN Append(rounds[k].calls, call) ELSE <<call>>

LEMMA WithCallAtFits ==
  ASSUME NEW rounds \in Seq(AskedRounds), NEW k \in 1..(Len(rounds) + 1),
         NEW prompt \in Ids, NEW call \in CallSet
  PROVE  Grown(rounds, WithCallAt(rounds, k, prompt, call), k, prompt, call)
<1> DEFINE n == Len(rounds)
           R == AskedRounds
           O == OpenRounds(CleanText)
           known == IF k \in DOMAIN rounds THEN rounds ELSE Append(rounds, NewRound(prompt, <<>>))
           asked == [known[k] EXCEPT !.user = firstNonEmpty(@, extractUserPrompt(call.messages))]
           new == [known EXCEPT ![k] = Joined(asked, call)]
<1>1. WithCallAt(rounds, k, prompt, call) = new
  BY DEF WithCallAt
<1>2. n \in Nat /\ DOMAIN rounds = 1..n /\ k \in 1..(n + 1) /\ \A i \in 1..n : rounds[i] \in R
  OBVIOUS
<1>3. R \subseteq O /\ NewRound(prompt, <<>>) \in O
      /\ NewRound(prompt, <<>>).calls = <<>> /\ NewRound(prompt, <<>>).prompt = prompt
  BY EmptyIsClean, NewRoundFits DEF AskedRounds, WholeRounds
<1> DEFINE opened == NewRound(prompt, <<>>)
<1> HIDE DEF R, O, opened
<1>4. /\ known \in Seq(O)
      /\ k \in DOMAIN known
      /\ DOMAIN known = IF k \in 1..n THEN 1..n ELSE (1..n) \cup {k}
      /\ \A i \in 1..n : known[i] = rounds[i]
      /\ k \notin 1..n => known[k] = opened
  <2>1. rounds \in Seq(R)
    BY DEF R
  <2>2. rounds \in Seq(O)
    BY <1>3, <2>1, LargerSeq
  <2>3. CASE k \in 1..n
    BY <1>2, <2>2, <2>3
  <2>4. CASE k \notin 1..n
    <3>1. k = n + 1
      BY <1>2, <2>4
    <3>2. known = Append(rounds, opened)
      BY Zenon, <1>2, <2>4 DEF opened
    <3>3. opened \in O
      BY <1>3 DEF opened
    <3>4. \A s \in Seq(O) : \A x \in O :
            /\ Append(s, x) \in Seq(O) /\ DOMAIN Append(s, x) = (1..Len(s)) \cup {Len(s) + 1}
            /\ Append(s, x)[Len(s) + 1] = x
            /\ \A i \in 1..Len(s) : Append(s, x)[i] = s[i]
      OBVIOUS
    <3>5. /\ Append(rounds, opened) \in Seq(O) /\ DOMAIN Append(rounds, opened) = (1..n) \cup {n + 1}
          /\ Append(rounds, opened)[n + 1] = opened
          /\ \A i \in 1..n : Append(rounds, opened)[i] = rounds[i]
      BY <2>2, <3>3, <3>4
    <3> HIDE DEF known, n
    <3>6. QED
      BY <2>4, <3>1, <3>2, <3>5
  <2>5. QED
    BY <2>3, <2>4
<1>5. known[k] \in O
  BY <1>4
<1> HIDE DEF known
<1>6. known[k].user \in CleanText
  BY <1>5 DEF O, OpenRounds, RoundsIn
<1>7. call.messages \in Seq(MessageSet)
  BY DEF CallSet
<1>8. firstNonEmpty(known[k].user, extractUserPrompt(call.messages)) \in CleanText
  BY <1>6, <1>7, UserPromptIsClean, FirstNonEmptyType
<1>9. asked \in O /\ asked.calls = known[k].calls /\ asked.prompt = known[k].prompt
  BY <1>5, <1>8, AskedFits DEF O
<1> HIDE DEF asked
<1>10. Joined(asked, call) \in R /\ Joined(asked, call).calls = Append(known[k].calls, call)
       /\ Joined(asked, call).prompt = known[k].prompt
  BY Zenon, <1>9, JoinedFits DEF R, O, AskedRounds
<1> DEFINE joined == Joined(asked, call)
<1> HIDE DEF joined
<1>11. /\ DOMAIN new = DOMAIN known /\ new[k] = joined
       /\ \A i \in DOMAIN known : i # k => new[i] = known[i]
  BY <1>4 DEF joined
<1>12. \A i \in DOMAIN known : i # k => known[i] = rounds[i] /\ known[i] \in R
  BY <1>2, <1>4
<1>13. new \in Seq(R)
  <2>1. \A i \in DOMAIN new : new[i] \in R
    BY <1>10, <1>11, <1>12 DEF joined
  <2>2. \E m \in Nat : DOMAIN new = 1..m
    <3>1. DOMAIN known = 1..Len(known) /\ Len(known) \in Nat
      BY <1>4
    <3>2. QED
      BY Zenon, <1>11, <3>1
  <2>3. new = [i \in DOMAIN new |-> new[i]]
    OBVIOUS
  <2> HIDE DEF new
  <2>4. QED
    BY <2>1, <2>2, <2>3
<1>14. new[k].prompt = (IF k \in DOMAIN rounds THEN rounds[k].prompt ELSE prompt)
       /\ new[k].calls = (IF k \in DOMAIN rounds THEN Append(rounds[k].calls, call) ELSE <<call>>)
  <2>1. Append(<<>>, call) = <<call>>
    OBVIOUS
  <2>2. CASE k \in DOMAIN rounds
    BY <1>2, <1>4, <1>10, <1>11, <2>2 DEF joined
  <2>3. CASE k \notin DOMAIN rounds
    BY Zenon, <1>2, <1>3, <1>4, <1>10, <1>11, <2>1, <2>3 DEF joined, opened
  <2>4. QED
    BY <2>2, <2>3
<1> HIDE DEF new
<1>15. QED
  BY <1>1, <1>2, <1>4, <1>11, <1>12, <1>13, <1>14 DEF R, Grown

LEMMA RoundAtIs ==
  ASSUME NEW X, NEW rounds \in Seq(X), NEW prompt
  PROVE  LET k == RoundAt(rounds, prompt)
         IN  /\ k \in 1..(Len(rounds) + 1)
             /\ k \in DOMAIN rounds => rounds[k].prompt = prompt
             /\ k \notin DOMAIN rounds => \A i \in DOMAIN rounds : rounds[i].prompt # prompt
<1> DEFINE n == Len(rounds)
           same == {i \in DOMAIN rounds : rounds[i].prompt = prompt}
           places == same \cup {n + 1}
           k == Min(places)
<1>1. n \in Nat /\ DOMAIN rounds = 1..n
  OBVIOUS
<1>2. \A i \in same : i \in 1..n /\ rounds[i].prompt = prompt
  BY <1>1
<1>3. \A i \in 1..n : rounds[i].prompt = prompt => i \in same
  BY <1>1
<1> HIDE DEF same, n
<1>4. places \in SUBSET Nat /\ places # {} /\ \A i \in places : i \in same \/ i = n + 1
  BY <1>1, <1>2
<1>5. \A i \in same : i \in places
  OBVIOUS
<1> HIDE DEF places
<1>6. k \in places /\ \A i \in places : k <= i
  BY <1>4, MinOf
<1>7. RoundAt(rounds, prompt) = k
  BY DEF RoundAt, places, same, n
<1> HIDE DEF k
<1>8. k \in 1..(n + 1)
  BY <1>1, <1>2, <1>4, <1>6
<1>9. k \in 1..n => rounds[k].prompt = prompt
  <2>1. SUFFICES ASSUME k \in 1..n PROVE rounds[k].prompt = prompt
    OBVIOUS
  <2>2. k # n + 1
    BY <1>1, <2>1
  <2>3. QED
    BY <1>2, <1>4, <1>6, <2>2
<1>10. ASSUME k \notin 1..n, NEW i \in 1..n, rounds[i].prompt = prompt PROVE FALSE
  <2>1. k = n + 1
    BY <1>1, <1>8, <1>10
  <2>2. k <= i
    BY <1>3, <1>5, <1>6, <1>10
  <2>3. QED
    BY <1>1, <2>1, <2>2
<1>11. QED
  BY <1>1, <1>7, <1>8, <1>9, <1>10 DEF n

----------------------------------------------------------------------------
(* Every call is in one round: one more call.                              *)

Spoken(buf) == Present(buf.req) \/ Present(buf.resp)
BufFits(buf) ==
    /\ buf.log \in Ids /\ buf.prompt \in Ids /\ buf.start \in Nat /\ buf.end \in Nat
    /\ buf.req.value \in Value /\ buf.resp.value \in Value /\ buf.meta.value \in Value
SpokenIn(bufs, i) == {j \in 1..i : Spoken(bufs[j])}
LogsIn(round) == {round.calls[k].log : k \in DOMAIN round.calls}
CallsIn(rounds) ==
    SumFunctionOnSet([r \in DOMAIN rounds |-> Len(rounds[r].calls)], DOMAIN rounds)

(* The rounds made of the first i calls hold just those that were spoken   *)
(* in, each in the round of its prompt id.                                 *)
Accounts(rounds, bufs, i) ==
    /\ rounds \in Seq(AskedRounds)
    /\ \A a, b \in DOMAIN rounds : a # b => rounds[a].prompt # rounds[b].prompt
    /\ \A r \in DOMAIN rounds :
          LogsIn(rounds[r]) = {bufs[j].log : j \in {x \in SpokenIn(bufs, i) :
                                                      bufs[x].prompt = rounds[r].prompt}}
    /\ \A j \in SpokenIn(bufs, i) : \E r \in DOMAIN rounds : rounds[r].prompt = bufs[j].prompt
    /\ CallsIn(rounds) = Cardinality(SpokenIn(bufs, i))

LEMMA LenCalls ==
  ASSUME NEW rounds \in Seq(AskedRounds), NEW r \in DOMAIN rounds
  PROVE  rounds[r].calls \in Seq(CallSet) /\ Len(rounds[r].calls) \in Nat
<1> DEFINE R == AskedRounds
           C == Seq(CallSet)
<1>1. \A x \in R : x.calls \in C
  BY DEF AskedRounds, WholeRounds, OpenRounds, RoundsIn
<1> HIDE DEF R
<1>2. rounds[r] \in R
  <2>1. rounds \in Seq(R)
    BY DEF R
  <2>2. QED
    BY <2>1
<1>3. rounds[r].calls \in C
  BY <1>1, <1>2
<1>4. QED
  BY <1>3

LEMMA LogsOfCalls ==
  ASSUME NEW a, NEW b, NEW call \in CallSet, a.calls \in Seq(CallSet),
         b.calls = Append(a.calls, call)
  PROVE  LogsIn(b) = LogsIn(a) \cup {call.log}
<1> DEFINE n == Len(a.calls)
           C == CallSet
           old == a.calls
           more == Append(old, call)
<1>1. old \in Seq(C) /\ call \in C
  OBVIOUS
<1> HIDE DEF C, old
<1>2. /\ n \in Nat /\ DOMAIN old = 1..n /\ DOMAIN more = (1..n) \cup {n + 1}
      /\ more[n + 1] = call /\ \A i \in 1..n : more[i] = old[i]
  BY <1>1 DEF old
<1> HIDE DEF more, n
<1>3. LogsIn(b) = {more[k].log : k \in DOMAIN more} /\ LogsIn(a) = {old[k].log : k \in DOMAIN old}
  BY DEF LogsIn, more, old
<1>4. ASSUME NEW k \in DOMAIN more PROVE more[k].log \in {old[j].log : j \in DOMAIN old} \cup {call.log}
  BY <1>2
<1>5. ASSUME NEW k \in DOMAIN old PROVE old[k].log \in {more[j].log : j \in DOMAIN more}
  BY <1>2
<1>6. call.log \in {more[j].log : j \in DOMAIN more}
  BY <1>2
<1>7. \A x : x \in {more[k].log : k \in DOMAIN more}
             <=> x \in {old[k].log : k \in DOMAIN old} \cup {call.log}
  BY <1>4, <1>5, <1>6
<1>8. QED
  BY Zenon, <1>3, <1>7

(* g on E is f on D with one more at k.                                     *)
MoreAt(f, D, g, E, k) ==
    /\ k \in D => E = D /\ g[k] = f[k] + 1
    /\ k \notin D => E = D \cup {k} /\ g[k] = 1
    /\ \A x \in D : f[x] \in Nat
    /\ \A x \in E : g[x] \in Nat
    /\ \A x \in D : x # k => g[x] = f[x]

LEMMA OneMore ==
  ASSUME NEW D, IsFiniteSet(D), NEW E, NEW f, NEW g, NEW k, MoreAt(f, D, g, E, k)
  PROVE  SumFunctionOnSet(g, E) = SumFunctionOnSet(f, D) + 1
<1> USE DEF MoreAt
<1>0. \A x \in D : f[x] \in Int /\ g[x] \in Int
  OBVIOUS
<1>1. CASE k \in D
  <2>1. \A x \in D \ {k} : f[x] = g[x]
    OBVIOUS
  <2>2. SumFunctionOnSet(g, D) = SumFunctionOnSet(f, D) - f[k] + g[k]
    BY <1>0, <1>1, <2>1, SumChanges
  <2>3. SumFunctionOnSet(f, D) \in Int /\ f[k] \in Int
    BY <1>0, <1>1, SumIsInt
  <2>4. QED
    BY <1>1, <2>2, <2>3
<1>2. CASE k \notin D
  <2>1. E = D \cup {k} /\ g[k] = 1
    BY <1>2
  <2>2. \A x \in D : g[x] \in Int /\ f[x] \in Int /\ f[x] = g[x]
    BY <1>0, <1>2
  <2>3. SumFunctionOnSet(g, D \cup {k}) = g[k] + SumFunctionOnSet(g, D)
    BY <1>2, <2>1, <2>2, SumPutsIn
  <2>4. SumFunctionOnSet(f, D) = SumFunctionOnSet(g, D) /\ SumFunctionOnSet(f, D) \in Int
    BY <2>2, SumAgrees, SumIsInt
  <2>5. SumFunctionOnSet(g, E) = SumFunctionOnSet(g, D \cup {k})
    BY <2>1
  <2>6. g[k] = 1
    BY <2>1
  <2> DEFINE a == SumFunctionOnSet(f, D)
             b == SumFunctionOnSet(g, D)
             c == SumFunctionOnSet(g, D \cup {k})
  <2>7. c = 1 + b /\ a = b /\ a \in Int
    BY <2>3, <2>4, <2>6
  <2> HIDE DEF a, b, c
  <2>8. c = a + 1
    BY <2>7
  <2>9. QED
    BY <2>5, <2>8 DEF a, c
<1>3. QED
  BY <1>1, <1>2

LEMMA CallsInGrow ==
  ASSUME NEW rounds \in Seq(AskedRounds), NEW k \in 1..(Len(rounds) + 1),
         NEW prompt \in Ids, NEW call \in CallSet
  PROVE  CallsIn(WithCallAt(rounds, k, prompt, call)) = CallsIn(rounds) + 1
<1> DEFINE new == WithCallAt(rounds, k, prompt, call)
           D == DOMAIN rounds
           E == DOMAIN new
           f == [r \in D |-> Len(rounds[r].calls)]
           g == [r \in E |-> Len(new[r].calls)]
<1>1. /\ new \in Seq(AskedRounds)
      /\ E = (IF k \in D THEN D ELSE D \cup {k})
      /\ \A i \in E : i # k => new[i] = rounds[i]
      /\ new[k].calls = IF k \in D THEN Append(rounds[k].calls, call) ELSE <<call>>
  <2>1. Grown(rounds, new, k, prompt, call)
    BY WithCallAtFits
  <2> HIDE DEF new
  <2>2. QED
    BY <2>1 DEF Grown
<1>2. IsFiniteSet(D)
  BY PositionsAreFinite
<1>3. CallsIn(new) = SumFunctionOnSet(g, E) /\ CallsIn(rounds) = SumFunctionOnSet(f, D)
  BY DEF CallsIn
<1>4. \A r \in D : f[r] \in Nat /\ f[r] = Len(rounds[r].calls) /\ rounds[r].calls \in Seq(CallSet)
  BY LenCalls
<1>5. \A r \in E : g[r] \in Nat /\ g[r] = Len(new[r].calls)
  BY <1>1, LenCalls
<1> HIDE DEF new, D, E, f, g
<1>6. \A r \in D : r # k => g[r] = f[r]
  BY Zenon, <1>1, <1>4, <1>5
<1>7. k \in D => g[k] = f[k] + 1
  <2>0. SUFFICES ASSUME k \in D PROVE g[k] = f[k] + 1
    OBVIOUS
  <2>1. g[k] = f[k] + 1
    <3>1. g[k] = Len(Append(rounds[k].calls, call)) /\ f[k] = Len(rounds[k].calls)
          /\ rounds[k].calls \in Seq(CallSet)
      BY Zenon, <1>1, <1>4, <1>5, <2>0
    <3>2. \A s \in Seq(CallSet) : Len(Append(s, call)) = Len(s) + 1
      <4> DEFINE C == CallSet
      <4>1. call \in C
        OBVIOUS
      <4> HIDE DEF C
      <4>2. \A s \in Seq(C) : Len(Append(s, call)) = Len(s) + 1
        BY <4>1
      <4>3. QED
        BY <4>2 DEF C
    <3>3. QED
      BY <3>1, <3>2
  <2>2. QED
    BY <2>1
<1>8. k \notin D => g[k] = 1
  <2>0. SUFFICES ASSUME k \notin D PROVE g[k] = 1
    OBVIOUS
  <2>1. g[k] = 1
    <3>1. k \in E /\ g[k] = Len(<<call>>)
      BY Zenon, <1>1, <1>5, <2>0
    <3>2. QED
      BY <3>1
  <2>2. QED
    BY <2>1
<1>9. SumFunctionOnSet(g, E) = SumFunctionOnSet(f, D) + 1
  <2>1. k \in D => E = D /\ g[k] = f[k] + 1
    BY <1>1, <1>7
  <2>2. k \notin D => E = D \cup {k} /\ g[k] = 1
    BY <1>1, <1>8
  <2>3. (\A x \in D : f[x] \in Nat) /\ \A x \in E : g[x] \in Nat
    BY <1>4, <1>5
  <2>4. MoreAt(f, D, g, E, k)
    BY <1>6, <2>1, <2>2, <2>3 DEF MoreAt
  <2>5. QED
    BY <1>2, <2>4, OneMore
<1>10. QED
  BY <1>3, <1>9 DEF new

LEMMA AddCallAccounts ==
  ASSUME NEW rounds, NEW bufs, NEW i \in Nat \ {0}, Accounts(rounds, bufs, i - 1),
         BufFits(bufs[i])
  PROVE  Accounts(AddCall(rounds, bufs[i]), bufs, i)
<1> DEFINE buf == bufs[i]
           old == SpokenIn(bufs, i - 1)
           now == SpokenIn(bufs, i)
<1>1. now = (IF Spoken(buf) THEN old \cup {i} ELSE old) /\ i \notin old
  <2>1. \A j : j \in 1..i <=> (j \in 1..(i - 1) \/ j = i)
    OBVIOUS
  <2>2. \A j : j \in now <=> (j \in old \/ (j = i /\ Spoken(buf)))
    BY <2>1 DEF SpokenIn
  <2>3. i \notin old
    BY DEF SpokenIn
  <2> HIDE DEF now, old
  <2>4. QED
    BY <2>2, <2>3
<1>2. CASE ~Spoken(buf)
  <2>1. AddCall(rounds, buf) = rounds /\ now = old
    BY <1>1, <1>2 DEF AddCall, Spoken
  <2>2. QED
    BY <2>1 DEF Accounts
<1>3. CASE Spoken(buf)
  <2> DEFINE prompt == buf.prompt
             k == RoundAt(rounds, prompt)
             call == DecodedCall(buf)
             new == WithCallAt(rounds, k, prompt, call)
             D == DOMAIN rounds
  <2>1. AddCall(rounds, buf) = new
    BY <1>3 DEF AddCall, Spoken
  <2>2. call \in CallSet /\ call.log = buf.log /\ prompt \in Ids
    BY DecodedCallType DEF BufFits
  <2>3. rounds \in Seq(AskedRounds)
    BY DEF Accounts
  <2>4. /\ k \in 1..(Len(rounds) + 1)
        /\ k \in D => rounds[k].prompt = prompt
        /\ k \notin D => \A r \in D : rounds[r].prompt # prompt
    BY <2>3, RoundAtIs
  <2> HIDE DEF k, call
  <2>5. /\ new \in Seq(AskedRounds)
        /\ DOMAIN new = IF k \in D THEN D ELSE D \cup {k}
        /\ \A r \in DOMAIN new : r # k => new[r] = rounds[r]
        /\ new[k].prompt = IF k \in D THEN rounds[k].prompt ELSE prompt
        /\ new[k].calls = IF k \in D THEN Append(rounds[k].calls, call) ELSE <<call>>
    <3>1. Grown(rounds, new, k, prompt, call)
      <4> HIDE DEF D, prompt
      <4>1. QED
        BY <2>2, <2>3, <2>4, WithCallAtFits
    <3> HIDE DEF new
    <3>2. QED
      BY <3>1 DEF Grown
  <2>6. CallsIn(new) = CallsIn(rounds) + 1
    BY <2>2, <2>3, <2>4, CallsInGrow
  <2> DEFINE N == DOMAIN new
             Of(S, p) == {bufs[j].log : j \in {x \in S : bufs[x].prompt = p}}
  <2> HIDE DEF new, prompt
  <2>7. new[k].prompt = prompt /\ k \in N
    BY <2>4, <2>5
  <2>8. \A r \in N : r # k => r \in D /\ new[r] = rounds[r] /\ rounds[r].prompt # prompt
    <3>1. ASSUME NEW r \in N, r # k PROVE r \in D /\ new[r] = rounds[r]
      BY <2>5, <3>1
    <3>2. ASSUME NEW r \in N, r # k PROVE rounds[r].prompt # prompt
      <4>1. CASE k \in D
        <5>1. rounds[k].prompt = prompt
          BY <2>4, <4>1
        <5>2. rounds[r].prompt # rounds[k].prompt
          BY <3>1, <3>2, <4>1 DEF Accounts
        <5>3. QED
          BY <5>1, <5>2
      <4>2. CASE k \notin D
        BY <2>4, <3>1, <3>2, <4>2
      <4>3. QED
        BY <4>1, <4>2
    <3>3. QED
      BY <3>1, <3>2
  <2>9. \A a, b \in N : a # b => new[a].prompt # new[b].prompt
    <3>1. SUFFICES ASSUME NEW a \in N, NEW b \in N, a # b PROVE new[a].prompt # new[b].prompt
      OBVIOUS
    <3>2. CASE a # k /\ b # k
      BY <2>8, <3>1, <3>2 DEF Accounts
    <3>3. CASE a = k \/ b = k
      BY <2>7, <2>8, <3>1, <3>3
    <3>4. QED
      BY <3>2, <3>3
  <2>10. ASSUME NEW r \in N PROVE LogsIn(new[r]) = Of(now, new[r].prompt)
    <3>1. now = old \cup {i} /\ bufs[i].prompt = prompt /\ bufs[i].log = call.log
      BY <1>1, <1>3, <2>2 DEF prompt
    <3> HIDE DEF now, old
    <3>2. \A p : Of(now, p) = IF p = prompt THEN Of(old, p) \cup {call.log} ELSE Of(old, p)
      <4> TAKE p
      <4>1. \A x : x \in Of(now, p) <=> \E j \in now : bufs[j].prompt = p /\ x = bufs[j].log
        OBVIOUS
      <4>2. \A x : x \in Of(old, p) <=> \E j \in old : bufs[j].prompt = p /\ x = bufs[j].log
        OBVIOUS
      <4>3. \A x : x \in Of(now, p) <=> (x \in Of(old, p) \/ (prompt = p /\ x = call.log))
        BY <3>1, <4>1, <4>2
      <4> HIDE DEF Of
      <4>4. CASE p = prompt
        <5>1. \A x : x \in Of(now, p) <=> x \in Of(old, p) \cup {call.log}
          BY <4>3, <4>4
        <5>2. Of(now, p) = Of(old, p) \cup {call.log}
          BY <5>1, SetExtensionality
        <5>3. QED
          BY <4>4, <5>2
      <4>5. CASE p # prompt
        <5>1. \A x : x \in Of(now, p) <=> x \in Of(old, p)
          BY <4>3, <4>5
        <5>2. Of(now, p) = Of(old, p)
          BY <5>1, SetExtensionality
        <5>3. QED
          BY <4>5, <5>2
      <4>6. QED
        BY <4>4, <4>5
    <3>3. \A q \in D : LogsIn(rounds[q]) = Of(old, rounds[q].prompt)
      BY DEF Accounts, old
    <3>4. CASE r # k
      <4>1. r \in D /\ new[r] = rounds[r] /\ rounds[r].prompt # prompt
        BY <2>8, <3>4
      <4> HIDE DEF Of
      <4>2. QED
        BY <3>2, <3>3, <4>1
    <3>5. CASE r = k /\ k \in D
      <4>1. rounds[k].calls \in Seq(CallSet) /\ new[k].calls = Append(rounds[k].calls, call)
        <5>1. new[k].calls = Append(rounds[k].calls, call)
          BY <2>5, <3>5
        <5>2. rounds[k].calls \in Seq(CallSet)
          BY <2>3, <3>5, LenCalls
        <5>3. QED
          BY <5>1, <5>2
      <4>2. LogsIn(new[k]) = LogsIn(rounds[k]) \cup {call.log}
        <5>1. \A a, b : a.calls \in Seq(CallSet) /\ b.calls = Append(a.calls, call)
                          => LogsIn(b) = LogsIn(a) \cup {call.log}
          BY <2>2, LogsOfCalls
        <5> HIDE DEF D
        <5>2. QED
          BY Zenon, <4>1, <5>1
      <4>3. rounds[k].prompt = prompt
        BY <2>4, <3>5
      <4> HIDE DEF Of
      <4>4. QED
        BY <2>7, <3>2, <3>3, <3>5, <4>2, <4>3
    <3>6. CASE r = k /\ k \notin D
      <4>1. LogsIn(new[k]) = {call.log}
        <5>1. new[k].calls = <<call>>
          BY <2>5, <3>6
        <5>2. QED
          BY <5>1 DEF LogsIn
      <4>2. Of(old, prompt) = {}
        <5>1. \A j \in old : \E q \in D : rounds[q].prompt = bufs[j].prompt
          BY DEF Accounts, old
        <5>2. \A j \in old : bufs[j].prompt # prompt
          BY <2>4, <3>6, <5>1
        <5>3. QED
          BY <5>2
      <4> HIDE DEF Of
      <4>3. QED
        BY <2>7, <3>2, <3>6, <4>1, <4>2
    <3>7. QED
      BY <3>4, <3>5, <3>6
  <2>11. ASSUME NEW j \in now PROVE \E r \in N : new[r].prompt = bufs[j].prompt
    <3>1. CASE j = i
      BY <2>7, <3>1 DEF prompt
    <3>2. CASE j \in old
      <4>1. PICK q \in D : rounds[q].prompt = bufs[j].prompt
        BY <3>2 DEF Accounts
      <4>2. CASE q = k
        BY <2>4, <2>7, <4>1, <4>2
      <4>3. CASE q # k
        <5>1. q \in N /\ new[q] = rounds[q]
          BY <2>5, <4>3
        <5>2. QED
          BY <4>1, <5>1
      <4>4. QED
        BY <4>2, <4>3
    <3>3. QED
      BY <1>1, <3>1, <3>2
  <2>12. CallsIn(new) = Cardinality(now)
    <3>1. IsFiniteSet(old)
      <4> DEFINE I == 1..(i - 1)
      <4>1. IsFiniteSet(I)
        BY FS_Interval
      <4>2. old \subseteq I
        BY DEF SpokenIn
      <4> HIDE DEF I, old
      <4>3. QED
        BY <4>1, <4>2, FS_Subset
    <3>2. Cardinality(old \cup {i}) = Cardinality(old) + 1
      <4> HIDE DEF old
      <4>1. QED
        BY <1>1, <3>1, FS_AddElement
    <3>3. CallsIn(rounds) = Cardinality(old)
      BY DEF Accounts
    <3>4. QED
      BY <1>1, <1>3, <2>6, <3>2, <3>3
  <2>13. Accounts(new, bufs, i)
    BY Zenon, <2>5, <2>9, <2>10, <2>11, <2>12 DEF Accounts
  <2>14. QED
    BY <2>1, <2>13
<1>4. QED
  BY <1>2, <1>3

----------------------------------------------------------------------------
(* Every call is in one round: the calls of a file.                        *)

CallStep(c, rounds, buf) == AddCall(rounds, buf)
CallFold == INSTANCE RecursionLemmas WITH Step <- CallStep

LEMMA RoundsOfIs == ASSUME NEW bufs PROVE RoundsOf(bufs) = CallFold!Fold(0, <<>>, bufs)
BY DEF RoundsOf, FoldLeft, MapThenFoldSet, Max, CallFold!Fold, CallFold!IsFold,
       CallFold!Greatest, CallStep

LEMMA NoneAccounted == ASSUME NEW bufs PROVE Accounts(<<>>, bufs, 0)
<1>1. SpokenIn(bufs, 0) = {}
  <2>1. 1..0 = {}
    OBVIOUS
  <2>2. QED
    BY <2>1 DEF SpokenIn
<1>2. DOMAIN <<>> = {} /\ <<>> \in Seq(AskedRounds)
  OBVIOUS
<1>3. CallsIn(<<>>) = 0
  <2>1. \A f : SumFunctionOnSet(f, {}) = 0
    BY SumOfNone
  <2> DEFINE e == <<>>
             f == [r \in DOMAIN e |-> Len(e[r].calls)]
  <2>2. CallsIn(e) = SumFunctionOnSet(f, DOMAIN e)
    BY DEF CallsIn
  <2> HIDE DEF f
  <2>3. QED
    BY <1>2, <2>1, <2>2
<1>4. Cardinality({}) = 0
  BY FS_EmptySet
<1>5. QED
  BY Zenon, <1>1, <1>2, <1>3, <1>4 DEF Accounts

LEMMA AllAccounted ==
  ASSUME NEW bufs, NEW n \in Nat, DOMAIN bufs = 1..n, \A i \in 1..n : BufFits(bufs[i])
  PROVE  Accounts(RoundsOf(bufs), bufs, n)
<1>1. PICK run : CallFold!IsRun(0, <<>>, bufs, n, run) /\ RoundsOf(bufs) = run[n]
  BY RoundsOfIs, CallFold!FoldRuns, LeastNumber DEF CallFold!LeastNumbers
<1>2. run[0] = <<>> /\ \A i \in 1..n : run[i] = AddCall(run[i - 1], bufs[i])
  BY <1>1 DEF CallFold!IsRun, CallStep
<1> DEFINE P == {i \in 0..n : Accounts(run[i], bufs, i)}
<1>3. P \in SUBSET (0..n) /\ 0 \in P
  BY <1>2, NoneAccounted
<1>4. ASSUME NEW i \in 1..n, i - 1 \in P PROVE i \in P
  <2>1. Accounts(run[i - 1], bufs, i - 1) /\ i \in Nat \ {0} /\ i \in 0..n
    BY <1>4
  <2>2. Accounts(AddCall(run[i - 1], bufs[i]), bufs, i)
    BY <2>1, AddCallAccounts
  <2>3. QED
    BY <1>2, <2>1, <2>2
<1> HIDE DEF P
<1>5. P = 0..n
  BY <1>3, <1>4, CallFold!HoldsAlong, LeastNumber DEF CallFold!LeastNumbers
<1>6. QED
  BY <1>1, <1>5 DEF P

LEMMA LogsKnown ==
  ASSUME ParseInv, form = "lines", NEW i \in DOMAIN order
  PROVE  /\ order[i] \in DOMAIN calls /\ calls[order[i]] \in CallBuf
         /\ order[i] \in Ids /\ calls[order[i]].prompt \in Ids
<1> DEFINE events == Intact(lines)
           S == {x.log : x \in Event}
<1>1. \A x \in STRING : x \in Ids
  BY Zenon DEF Ids, Word
<1>2. Known(events) \in Seq(Event)
  <2>1. events \in Seq(Event)
    <3> DEFINE Line == Event \cup {Broken}
    <3>1. lines \in Seq(Line)
      BY DEF ParseInv
    <3> HIDE DEF Line
    <3>2. events \in Seq(Line \ {Broken})
      BY <3>1, IntactType
    <3>3. Line \ {Broken} \subseteq Event
      BY DEF Line
    <3> HIDE DEF events
    <3>4. QED
      BY <3>2, <3>3, LargerSeq
  <2> HIDE DEF events
  <2>2. QED
    BY <2>1, MineType
<1>3. order = LogsOf(Known(events))
  BY DEF ParseInv, Collects
<1> HIDE DEF events
<1>4. order \in Seq(S)
  BY <1>2, <1>3, LogsOfType
<1>5. \A log \in S : log \in STRING
  BY FileAssumption
<1>6. order[i] \in STRING
  <2> HIDE DEF S
  <2>1. order[i] \in S
    BY <1>4
  <2>2. QED
    BY <1>5, <2>1
<1>7. order[i] \in DOMAIN calls /\ calls[order[i]] \in CallBuf
  BY DEF ParseInv, CountInv, Ordered
<1>8. calls[order[i]].prompt \in Ids
  <2>1. calls[order[i]].prompt \in {ev.prompt : ev \in Event} \cup {""}
    BY Zenon, <1>7 DEF CallBuf
  <2>2. "" \in Ids
    BY DEF Ids
  <2>3. QED
    BY Zenon, <1>1, <2>1, <2>2, FileAssumption
<1>9. QED
  BY Zenon, <1>1, <1>6, <1>7, <1>8

LEMMA BufsAre ==
  ASSUME ParseInv, form = "lines", NEW i \in DOMAIN order
  PROVE  /\ BufFits(Bufs[i])
         /\ Bufs[i].log = order[i]
         /\ Bufs[i].prompt = calls[order[i]].prompt
         /\ Bufs[i].req = calls[order[i]].req
         /\ Bufs[i].resp = calls[order[i]].resp
<1> DEFINE log == order[i]
           c == calls[order[i]]
<1>1. log \in Ids /\ c \in CallBuf /\ c.prompt \in Ids
  BY LogsKnown
<1>2. Bufs[i] = Over([log |-> log], c)
  BY DEF Bufs
<1> HIDE DEF log, c
<1>3. DOMAIN c = {"prompt", "start", "end", "req", "resp", "meta"}
  BY Zenon, <1>1 DEF CallBuf
<1>4. Over([log |-> log], c) =
        [log |-> log, prompt |-> c.prompt, start |-> c.start, end |-> c.end,
         req |-> c.req, resp |-> c.resp, meta |-> c.meta]
  BY <1>3 DEF Over
<1>5. c.start \in Nat /\ c.end \in Nat /\ c.req \in Payload /\ c.resp \in Payload /\ c.meta \in Payload
  BY Zenon, <1>1 DEF CallBuf
<1>6. c.req.value \in Value /\ c.resp.value \in Value /\ c.meta.value \in Value
  BY <1>5, FileAssumption
<1> DEFINE b == Bufs[i]
<1>7. /\ b.log = log /\ b.prompt = c.prompt /\ b.start = c.start /\ b.end = c.end
      /\ b.req = c.req /\ b.resp = c.resp /\ b.meta = c.meta
  BY <1>2, <1>4
<1> HIDE DEF b
<1>8. BufFits(b)
  BY <1>1, <1>5, <1>6, <1>7 DEF BufFits
<1>9. QED
  BY <1>7, <1>8 DEF b, log, c

\* The calls answered are those of the places that were spoken in.
LEMMA AnsweredAre ==
  ASSUME ParseInv, form = "lines"
  PROVE  LET n == Len(order)
             S == SpokenIn(Bufs, n)
         IN  /\ Answered = {order[j] : j \in S}
             /\ Cardinality(Answered) = Cardinality(S)
             /\ S \subseteq DOMAIN order
<1> DEFINE n == Len(order)
           S == SpokenIn(Bufs, n)
           im == {order[j] : j \in S}
<1>1. /\ order \in Seq(DOMAIN calls)
      /\ \A log \in DOMAIN calls : \E i \in DOMAIN order : order[i] = log
      /\ \A i, j \in DOMAIN order : order[i] = order[j] => i = j
  BY DEF ParseInv, CountInv, Ordered
<1>2. n \in Nat /\ DOMAIN order = 1..n
  BY <1>1
<1>3. \A j \in DOMAIN order : j \in S <=> Present(calls[order[j]].req) \/ Present(calls[order[j]].resp)
  <2>1. \A j \in DOMAIN order : Bufs[j].req = calls[order[j]].req /\ Bufs[j].resp = calls[order[j]].resp
    BY BufsAre
  <2>2. QED
    BY <1>2, <2>1 DEF SpokenIn, Spoken
<1>4. S \subseteq DOMAIN order
  BY <1>2 DEF SpokenIn
<1> HIDE DEF S
<1>5. \A log : log \in Answered <=> log \in im
  <2>1. ASSUME NEW log \in Answered PROVE log \in im
    <3>1. log \in DOMAIN calls /\ (Present(calls[log].req) \/ Present(calls[log].resp))
      BY DEF Answered
    <3>2. PICK j \in DOMAIN order : order[j] = log
      BY <1>1, <3>1
    <3>3. j \in S
      BY <1>3, <3>1, <3>2
    <3>4. QED
      BY <3>2, <3>3
  <2>2. ASSUME NEW j \in S PROVE order[j] \in Answered
    <3>1. j \in DOMAIN order /\ order[j] \in DOMAIN calls
      BY <1>1, <1>4
    <3>2. QED
      BY <1>3, <3>1 DEF Answered
  <2>3. QED
    BY <2>1, <2>2
<1>6. IsFiniteSet(S)
  <2>1. IsFiniteSet(1..n)
    BY <1>2, FS_Interval
  <2>2. QED
    BY <1>2, <1>4, <2>1, FS_Subset
<1>7. Cardinality(im) = Cardinality(S)
  <2>1. \A x, y \in S : order[x] = order[y] => x = y
    BY <1>1, <1>4
  <2>2. QED
    BY <1>6, <2>1, ImageIsFinite
<1>8. Answered = im
  <2> HIDE DEF im
  <2>1. QED
    BY <1>5
<1>9. QED
  BY <1>4, <1>7, <1>8 DEF S

LEMMA AllCallsLen ==
  ASSUME NEW rounds \in Seq(AskedRounds)
  PROVE  Len(AllCalls(rounds)) = CallsIn(rounds)
<1> DEFINE D == DOMAIN rounds
           n == Len(rounds)
           seqs == [i \in D |-> rounds[i].calls]
           f == [i \in D |-> Len(rounds[i].calls)]
           g == [i \in 1..Len(seqs) |-> Len(seqs[i])]
<1>1. n \in Nat /\ D = 1..n
  OBVIOUS
<1>2. \A i \in D : rounds[i].calls \in Seq(CallSet)
  BY LenCalls
<1> DEFINE C == CallSet
<1> HIDE DEF C
<1>3. seqs \in Seq(Seq(C)) /\ Len(seqs) = n
  <2>1. \A i \in 1..n : seqs[i] \in Seq(C)
    BY <1>1, <1>2 DEF C
  <2>2. seqs = [i \in 1..n |-> seqs[i]]
    BY <1>1
  <2> HIDE DEF seqs, n
  <2>3. QED
    BY <1>1, <2>1, <2>2
<1>4. f = g
  BY <1>1, <1>3
<1>5. Len(FlattenSeq(seqs)) = SumFunctionOnSet(g, 1..Len(seqs))
  <2> HIDE DEF seqs
  <2>1. QED
    BY <1>3, FlattenLen
<1>6. AllCalls(rounds) = FlattenSeq(seqs) /\ CallsIn(rounds) = SumFunctionOnSet(f, D)
  BY DEF AllCalls, CallsIn
<1> HIDE DEF f, g, seqs
<1>7. QED
  BY <1>1, <1>3, <1>4, <1>5, <1>6

(* However the events of the calls of a stream are interleaved: each call  *)
(* that was asked or answered is in one round, that of the prompt id it    *)
(* came with first, and no prompt id has two rounds.                       *)
THEOREM CallsAreAccounted == Spec => []CallsAccounted
<1>1. ParseInv => CallsAccounted
  <2> SUFFICES ASSUME ParseInv, phase = "done", form = "lines", Structured
               PROVE  /\ Len(AllCalls(out.rounds)) = Cardinality(Answered)
                      /\ \A i, j \in DOMAIN out.rounds :
                            i # j => out.rounds[i].prompt # out.rounds[j].prompt
                      /\ \A i \in DOMAIN out.rounds :
                            LogsIn(out.rounds[i])
                              = {log \in Answered : calls[log].prompt = out.rounds[i].prompt}
    BY DEF CallsAccounted, LogsIn
  <2> DEFINE rounds == out.rounds
             n == Len(order)
             S == SpokenIn(Bufs, n)
  <2>1. rounds = RoundsOf(Bufs)
    <3>1. out.rounds = StructuredRounds(Intact(lines))
      BY StructuredResult
    <3>2. RoundsOf(Bufs) = StructuredRounds(Intact(lines))
      BY BufsAreGroups DEF ParseInv
    <3>3. QED
      BY <3>1, <3>2
  <2>2. n \in Nat /\ DOMAIN order = 1..n /\ DOMAIN Bufs = 1..n
    BY DEF ParseInv, CountInv, Ordered, Bufs
  <2>3. Accounts(rounds, Bufs, n)
    <3>1. \A i \in 1..n : BufFits(Bufs[i])
      BY <2>2, BufsAre
    <3> HIDE DEF n
    <3>2. QED
      BY <2>1, <2>2, <3>1, AllAccounted
  <2>4. /\ Answered = {order[j] : j \in S} /\ Cardinality(Answered) = Cardinality(S)
        /\ S \subseteq DOMAIN order
    BY AnsweredAre
  <2> HIDE DEF rounds
  <2>5. Len(AllCalls(rounds)) = Cardinality(Answered)
    BY <2>3, <2>4, AllCallsLen DEF Accounts
  <2>6. \A i, j \in DOMAIN rounds : i # j => rounds[i].prompt # rounds[j].prompt
    BY <2>3 DEF Accounts
  <2>7. ASSUME NEW i \in DOMAIN rounds
        PROVE  LogsIn(rounds[i]) = {log \in Answered : calls[log].prompt = rounds[i].prompt}
    <3> DEFINE p == rounds[i].prompt
               T == {x \in S : Bufs[x].prompt = p}
               A == {Bufs[j].log : j \in T}
               B == {log \in Answered : calls[log].prompt = p}
    <3>1. LogsIn(rounds[i]) = A
      BY <2>3 DEF Accounts
    <3>2. \A j \in S : Bufs[j].log = order[j] /\ Bufs[j].prompt = calls[order[j]].prompt
      BY <2>4, BufsAre
    <3> HIDE DEF S, p
    <3>3. \A log \in A : log \in B
      BY <2>4, <3>2
    <3>4. \A log \in B : log \in A
      BY <2>4, <3>2
    <3>5. A = B
      <4> HIDE DEF A, B
      <4>1. A \subseteq B /\ B \subseteq A
        BY <3>3, <3>4
      <4>2. QED
        BY <4>1
    <3>6. QED
      BY <3>1, <3>5 DEF p
  <2>8. QED
    BY <2>5, <2>6, <2>7 DEF rounds
<1>2. QED
  BY <1>1, InitParses, NextParses, PTL DEF Spec

----------------------------------------------------------------------------
(* Calls of a Neeko log.                                                   *)

\* A call that is told more keeps its messages, and its model if it has one.
Keeps(c, d) == d.model \in {<<>>, c.model}
StillAsks(c, d) == c \in CallSet /\ c.messages = d.messages /\ Keeps(c, d)

LEMMA NeekoMessagesType ==
  ASSUME NEW v \in Value
  PROVE  NeekoMessages(v) \in Seq(MessageSet) /\ NeekoModel(v) \in Text
<1> DEFINE items == firstNonEmpty(Items(Field(v, "input")), Items(Field(v, "messages")))
<1>1. items \in Seq(Value)
  <2>1. Items(Field(v, "messages")) \in Seq(Value) /\ Items(Field(v, "input")) \in Seq(Value)
    BY FieldType, ItemsType
  <2>2. QED
    BY <2>1, FirstNonEmptyType
<1>2. NeekoMessages(v) = IF ~BodyFits(v) THEN <<>> ELSE MessagesIn(items)
  BY DEF NeekoMessages
<1> HIDE DEF items
<1>3. MessagesIn(items) \in Seq(MessageSet) /\ <<>> \in Seq(MessageSet)
  BY <1>1, MessagesInType
<1>4. stringAny(Field(v, "model")) \in Text /\ <<>> \in Text
  BY FieldType, StringType, WordTexts
<1>5. QED
  BY <1>2, <1>3, <1>4 DEF NeekoModel

LEMMA ReportingType ==
  ASSUME NEW call \in CallSet, NEW body \in Value, NEW usage \in UsageSet
  PROVE  StillAsks(Reporting(call, body, usage), call)
<1> DEFINE K == <<"model", "model_name">>
           name == stringAny(firstAny(body, K))
           said == IF Counted(usage) THEN usage ELSE [in |-> call.in]
           full == [NoPayload EXCEPT !.in = IF Counted(usage) THEN usage.in ELSE call.in,
                                     !.out = usage.out, !.reason = usage.reason]
           told == With(call, said)
<1>1. K \in Seq({"model", "model_name"})
  BY ListOfTwo
<1>2. Reporting(call, body, usage) = [told EXCEPT !.model = firstNonEmpty(@, name)]
  BY DEF Reporting
<1> HIDE DEF K
<1>3. name \in Text
  BY <1>1, KeyedText
<1>4. full \in PayloadSet
  BY Zenon, NoPayloadType DEF PayloadSet, UsageSet, CallSet
<1>5. /\ full.in = (IF Counted(usage) THEN usage.in ELSE call.in)
      /\ full.out = usage.out /\ full.reason = usage.reason
  BY NoPayloadType DEF PayloadSet
<1>6. /\ DOMAIN said \subseteq PayloadFields
      /\ \A f \in DOMAIN said : said[f] = full[f]
  <2>1. CASE Counted(usage)
    <3>1. said = usage /\ DOMAIN usage = {"in", "out", "reason"}
      BY <2>1 DEF UsageSet
    <3>2. \A f \in {"in", "out", "reason"} : usage[f] = full[f]
      BY Zenon, <1>5, <2>1
    <3> HIDE DEF said, full
    <3>3. QED
      BY <3>1, <3>2 DEF PayloadFields
  <2>2. CASE ~Counted(usage)
    <3>1. DOMAIN said = {"in"} /\ said.in = call.in
      BY <2>2
    <3>2. full.in = call.in
      BY <1>5, <2>2
    <3> HIDE DEF said, full
    <3>3. QED
      BY <3>1, <3>2 DEF PayloadFields
  <2>3. QED
    BY <2>1, <2>2
<1> HIDE DEF said, full
<1>7. told \in CallSet /\ told.messages = call.messages
  BY <1>4, <1>6, WithType
<1>11. told.model = call.model
  <2>1. told = [f \in DOMAIN said \cup DOMAIN call |-> IF f \in DOMAIN said THEN said[f] ELSE call[f]]
    BY DEF With, Over
  <2>2. "model" \notin DOMAIN said
    <3>1. usage \in UsageSet => DOMAIN usage = {"in", "out", "reason"}
      BY DEF UsageSet
    <3>2. CASE Counted(usage)
      <4>1. said = usage
        BY <3>2 DEF said
      <4>2. QED
        BY <3>1, <4>1
    <3>3. CASE ~Counted(usage)
      <4>1. said = [in |-> call.in]
        BY <3>3 DEF said
      <4>2. QED
        BY <4>1
    <3>4. QED
      BY <3>2, <3>3
  <2>3. "model" \in DOMAIN call
    BY DEF CallSet
  <2> HIDE DEF told, said
  <2>4. QED
    BY <2>1, <2>2, <2>3
<1> HIDE DEF told, name
<1>8. firstNonEmpty(told.model, name) \in Text
  BY <1>3, <1>7, FirstNonEmptyType DEF CallSet
<1>9. \A m \in Text : LET c == [told EXCEPT !.model = m]
                      IN  c \in CallSet /\ c.messages = told.messages /\ c.model = m
  BY Zenon, <1>7 DEF CallSet
<1>12. call.model \in {<<>>, firstNonEmpty(told.model, name)}
  BY <1>11 DEF firstNonEmpty
<1>10. QED
  BY <1>2, <1>7, <1>8, <1>9, <1>12 DEF StillAsks, Keeps

LEMMA TellingType ==
  ASSUME NEW call \in CallSet, NEW payload \in PayloadSet
  PROVE  StillAsks(Telling(call, payload), call)
<1> DEFINE a == firstNonEmpty(call.text, payload.text)
           b == firstNonEmpty(call.reasoning, payload.reasoning)
           c == firstNonEmpty(call.tools, payload.tools)
<1>1. a \in Text /\ b \in Text /\ c \in Seq(ToolSet)
  BY Zenon, FirstNonEmptyType DEF CallSet, PayloadSet
<1>2. Telling(call, payload) = [call EXCEPT !.text = a, !.reasoning = b, !.tools = c]
  BY DEF Telling, CallSet
<1> HIDE DEF a, b, c
<1>3. [call EXCEPT !.text = a, !.reasoning = b, !.tools = c] \in CallSet
      /\ [call EXCEPT !.text = a, !.reasoning = b, !.tools = c].messages = call.messages
      /\ [call EXCEPT !.text = a, !.reasoning = b, !.tools = c].model = call.model
  BY Zenon, <1>1 DEF CallSet
<1>4. QED
  BY <1>2, <1>3 DEF StillAsks, Keeps

LEMMA ChunkType ==
  ASSUME NEW call \in CallSet, NEW chunk \in Value
  PROVE  StillAsks(ChunkStep(call, chunk), call)
<1> DEFINE completed == stringAny(Field(chunk, "type")) = <<"response.completed">>
           body == IF completed THEN Field(chunk, "response") ELSE chunk
           reported == Reporting(call, body, extractUsage(body))
<1>1. ChunkStep(call, chunk)
        = IF completed
          THEN IF DOMAIN Fields(body) = {} THEN call
               ELSE Telling(reported, payloadFromResponseMap(body))
          ELSE IF Field(chunk, "usage") = Null THEN call ELSE reported
  BY DEF ChunkStep
<1>2. body \in Value
  BY FieldType
<1> HIDE DEF completed, body
<1>3. StillAsks(reported, call)
  BY <1>2, UsageType, ReportingType
<1> HIDE DEF reported
<1>4. StillAsks(Telling(reported, payloadFromResponseMap(body)), reported)
  BY <1>2, <1>3, ResponseMapType, TellingType DEF StillAsks
<1>5. StillAsks(call, call)
  BY DEF StillAsks, Keeps
<1>6. QED
  BY <1>1, <1>3, <1>4, <1>5 DEF StillAsks, Keeps

ChunkedStep(c, call, chunk) == ChunkStep(call, chunk)
ChunkFold == INSTANCE RecursionLemmas WITH Step <- ChunkedStep

LEMMA NeekoStreamType ==
  ASSUME NEW call \in CallSet, NEW v \in Value
  PROVE  StillAsks(decodeNeekoStream(v, call), call)
<1> DEFINE id == stringAny(Field(v, "logId"))
           log == IF call.log # "" \/ id = <<>> THEN call.log ELSE Head(id)
           duration == int64Any(Field(v, "durationMs"))
           named == [call EXCEPT !.log = log, !.duration = duration]
           chunks == Items(Field(v, "allChunks"))
           done == FoldLeft(ChunkStep, named, chunks)
           content == stringAny(Field(v, "finalContent"))
           T == {c \in CallSet : c.messages = call.messages /\ Keeps(c, call)}
<1>1. decodeNeekoStream(v, call)
        = IF v[1] # "obj" THEN call ELSE [done EXCEPT !.text = firstNonEmpty(@, content)]
  BY DEF decodeNeekoStream, CallSet
<1>2. id \in Text /\ duration \in Nat /\ chunks \in Seq(Value) /\ content \in Text
  BY FieldType, StringType, Int64Type, ItemsType
<1>3. log \in Ids
  <2>1. call.log \in Ids
    BY DEF CallSet
  <2>2. id # <<>> => Head(id) \in Word
    <3> DEFINE W == Word
    <3>1. id \in Seq(W)
      BY <1>2 DEF Text
    <3> HIDE DEF W, id
    <3>2. id # <<>> => Head(id) \in W
      BY <3>1
    <3>3. QED
      BY <3>2 DEF W
  <2>3. \A w \in Word : w \in Ids
    BY Zenon DEF Ids
  <2>4. QED
    BY Zenon, <2>1, <2>2, <2>3
<1> HIDE DEF log, duration, chunks, content
<1>4. named \in T
  <2>1. named \in CallSet /\ named.messages = call.messages /\ named.model = call.model
    BY Zenon, <1>2, <1>3 DEF CallSet
  <2> HIDE DEF named
  <2>2. QED
    BY <2>1 DEF Keeps
<1>5. done = ChunkFold!Fold(0, named, chunks)
  BY DEF FoldLeft, MapThenFoldSet, Max, ChunkFold!Fold, ChunkFold!IsFold,
         ChunkFold!Greatest, ChunkedStep
<1> DEFINE n == Len(chunks)
<1>6. n \in Nat /\ DOMAIN chunks = 1..n /\ \A i \in 1..n : chunks[i] \in Value
  BY <1>2
<1> HIDE DEF named, done, n
<1>7. ASSUME NEW c \in T, NEW i \in 1..n PROVE ChunkedStep(0, c, chunks[i]) \in T
  BY <1>6, ChunkType DEF ChunkedStep, StillAsks, Keeps
<1> HIDE DEF T
<1>8. \A k, base : base \in T /\ (\A c \in T : \A i \in 1..n : ChunkedStep(k, c, chunks[i]) \in T)
        => ChunkFold!Fold(k, base, chunks) \in T
  BY <1>6, ChunkFold!FoldKeeps, LeastNumber DEF ChunkFold!LeastNumbers
<1>9. done \in T
  BY <1>4, <1>5, <1>7, <1>8
<1>10. firstNonEmpty(done.text, content) \in Text
  BY <1>2, <1>9, FirstNonEmptyType DEF CallSet, T
<1>11. \A t \in Text : LET c == [done EXCEPT !.text = t]
                       IN  c \in CallSet /\ c.messages = done.messages /\ c.model = done.model
  BY Zenon, <1>9 DEF CallSet, T
<1>12. done.messages = call.messages /\ Keeps(done, call)
  BY <1>9 DEF T
<1>13. QED
  BY <1>1, <1>10, <1>11, <1>12 DEF StillAsks, Keeps

LEMMA NeekoCallType ==
  ASSUME NEW model \in Text, NEW msgs \in Seq(MessageSet), NEW reqTs \in Nat,
         NEW data, data.value \in Value, NEW ts \in Nat
  PROVE  /\ NeekoCall(model, msgs, reqTs, data, ts) \in CallSet
         /\ NeekoCall(model, msgs, reqTs, data, ts).messages = msgs
         /\ model \in {<<>>, NeekoCall(model, msgs, reqTs, data, ts).model}
<1> DEFINE asked == [Call("", reqTs, 0) EXCEPT !.model = model, !.messages = msgs]
           told == decodeNeekoStream(data.value, asked)
           start == firstNonZero(reqTs, ts)
           end == start + told.duration
<1>1. asked \in CallSet /\ asked.messages = msgs /\ asked.model = model
  <2>1. "" \in Ids /\ 0 \in Nat
    BY DEF Ids
  <2>2. Call("", reqTs, 0) \in CallSet
    BY Zenon, <2>1, CallType
  <2>3. \A c \in CallSet : LET d == [c EXCEPT !.model = model, !.messages = msgs]
                           IN  d \in CallSet /\ d.messages = msgs /\ d.model = model
    BY Zenon DEF CallSet
  <2>4. QED
    BY Zenon, <2>2, <2>3
<1> HIDE DEF asked
<1>2. told \in CallSet /\ told.messages = msgs /\ model \in {<<>>, told.model}
  BY <1>1, NeekoStreamType DEF StillAsks, Keeps
<1>3. NeekoCall(model, msgs, reqTs, data, ts) = [told EXCEPT !.start = start, !.end = end]
  BY DEF NeekoCall, Started, asked
<1> HIDE DEF told
<1>4. start \in Nat /\ end \in Nat
  <2>1. told.duration \in Nat
    BY <1>2 DEF CallSet
  <2>2. start \in Nat
    BY DEF firstNonZero
  <2> HIDE DEF start
  <2>3. QED
    BY <2>1, <2>2
<1> HIDE DEF start, end
<1>5. [told EXCEPT !.start = start, !.end = end] \in CallSet
      /\ [told EXCEPT !.start = start, !.end = end].messages = told.messages
      /\ [told EXCEPT !.start = start, !.end = end].model = told.model
  BY Zenon, <1>2, <1>4 DEF CallSet
<1>6. QED
  BY <1>2, <1>3, <1>5

----------------------------------------------------------------------------
(* A call of a Neeko log joins the last round or opens one.                *)

LEMMA CallsType ==
  ASSUME NEW r \in AskedRounds
  PROVE  r.calls \in Seq(CallSet) /\ r.user \in CleanText /\ r \in OpenRounds(CleanText)
BY DEF AskedRounds, WholeRounds, OpenRounds, RoundsIn

LEMMA RoundAmong ==
  ASSUME NEW rounds \in Seq(AskedRounds), NEW i \in DOMAIN rounds
  PROVE  rounds[i] \in AskedRounds
<1> DEFINE R == AskedRounds
<1> HIDE DEF R
<1>1. rounds \in Seq(R) => rounds[i] \in R
  OBVIOUS
<1>2. QED
  BY <1>1 DEF R

LEMMA AllCallsOfAppend ==
  ASSUME NEW rounds \in Seq(AskedRounds), NEW r \in AskedRounds
  PROVE  /\ AllCalls(rounds) \in Seq(CallSet)
         /\ AllCalls(Append(rounds, r)) = AllCalls(rounds) \o r.calls
<1> DEFINE R == AskedRounds
           C == CallSet
           n == Len(rounds)
           more == Append(rounds, r)
           old == [i \in DOMAIN rounds |-> rounds[i].calls]
           new == [i \in DOMAIN more |-> more[i].calls]
<1>1. \A x \in R : x.calls \in Seq(C)
  BY CallsType
<1>2. rounds \in Seq(R) /\ r \in R
  OBVIOUS
<1>3. AllCalls(rounds) = FlattenSeq(old) /\ AllCalls(more) = FlattenSeq(new)
  BY DEF AllCalls
<1> HIDE DEF R, C
<1>4. /\ n \in Nat /\ DOMAIN rounds = 1..n /\ DOMAIN more = (1..n) \cup {n + 1} /\ more[n + 1] = r
      /\ \A i \in 1..n : more[i] = rounds[i] /\ rounds[i] \in R
  BY <1>2
<1>5. old \in Seq(Seq(C)) /\ Len(old) = n
  <2>1. \A i \in 1..n : old[i] \in Seq(C)
    BY <1>1, <1>4
  <2>2. old = [i \in 1..n |-> old[i]]
    BY <1>4
  <2> HIDE DEF old
  <2>3. QED
    BY <1>4, <2>1, <2>2
<1> DEFINE appended == Append(old, r.calls)
<1>6. r.calls \in Seq(C)
  BY <1>1, <1>2
<1>7. new = appended
  <2>1. DOMAIN new = (1..n) \cup {n + 1} /\ new = [i \in DOMAIN new |-> new[i]]
        /\ new[n + 1] = r.calls /\ \A i \in 1..n : new[i] = rounds[i].calls
    BY <1>4
  <2>2. \A i \in 1..n : old[i] = rounds[i].calls
    BY <1>4
  <2> HIDE DEF new, old
  <2>3. DOMAIN appended = (1..n) \cup {n + 1} /\ appended = [i \in DOMAIN appended |-> appended[i]]
        /\ appended[n + 1] = r.calls /\ \A i \in 1..n : appended[i] = old[i]
    BY <1>4, <1>5, <1>6
  <2> HIDE DEF appended
  <2>4. QED
    BY <2>1, <2>2, <2>3
<1> HIDE DEF old, new
<1>8. FlattenSeq(appended) = FlattenSeq(old) \o r.calls
  BY Zenon, <1>5, <1>6, FlattenOfAppend
<1>9. FlattenSeq(old) \in Seq(C)
  BY Zenon, <1>5, FlattenLen
<1>10. QED
  BY <1>3, <1>7, <1>8, <1>9 DEF C

\* The last element of a sequence, replaced.
LEMMA LastReplaced ==
  ASSUME NEW R, NEW s \in Seq(R), s # <<>>, NEW x \in R
  PROVE  LET n == Len(s)
             front == SubSeq(s, 1, n - 1)
             new == [s EXCEPT ![n] = x]
         IN  /\ front \in Seq(R) /\ s[n] \in R
             /\ s = Append(front, s[n]) /\ new = Append(front, x)
             /\ Len(new) = n /\ new[n] = x
             /\ \A i \in 1..(n - 1) : new[i] = s[i]
<1> DEFINE n == Len(s)
           front == SubSeq(s, 1, n - 1)
           new == [s EXCEPT ![n] = x]
<1>1. n \in Nat /\ n >= 1 /\ DOMAIN s = 1..n /\ \A i \in 1..n : s[i] \in R
  <2>1. n \in Nat /\ DOMAIN s = 1..n /\ \A i \in 1..n : s[i] \in R
    OBVIOUS
  <2>2. n # 0
    OBVIOUS
  <2> HIDE DEF n
  <2>3. QED
    BY <2>1, <2>2
<1>2. front \in Seq(R) /\ Len(front) = n - 1 /\ \A i \in 1..(n - 1) : front[i] = s[i]
  <2>1. n - 1 \in Nat /\ \A i \in 1..(n - 1) : i \in 1..n
    <3> HIDE DEF n
    <3>1. QED
      BY <1>1
  <2>2. \A S, t, m : t \in Seq(S) /\ m \in Nat /\ m <= Len(t)
          => /\ SubSeq(t, 1, m) \in Seq(S) /\ Len(SubSeq(t, 1, m)) = m
             /\ \A i \in 1..m : SubSeq(t, 1, m)[i] = t[i]
    OBVIOUS
  <2>3. n - 1 <= Len(s)
    <3> HIDE DEF n
    <3>1. Len(s) = n
      BY DEF n
    <3>2. QED
      BY <1>1, <3>1
  <2>4. QED
    BY <2>1, <2>2, <2>3
<1>3. /\ DOMAIN new = 1..n /\ new[n] = x /\ (\A i \in 1..(n - 1) : new[i] = s[i])
      /\ new = [i \in DOMAIN new |-> new[i]]
  <2> HIDE DEF n
  <2>1. DOMAIN new = DOMAIN s
    OBVIOUS
  <2>2. n \in 1..n /\ \A i \in 1..(n - 1) : i \in 1..n /\ i # n
    BY <1>1
  <2>3. new = [i \in DOMAIN s |-> IF i = n THEN x ELSE s[i]]
    OBVIOUS
  <2> HIDE DEF new
  <2>4. DOMAIN new = 1..n /\ new = [i \in DOMAIN new |-> new[i]]
    BY <1>1, <2>3
  <2>5. \A i \in 1..n : new[i] = IF i = n THEN x ELSE s[i]
    BY <1>1, <2>3
  <2>6. QED
    BY <2>2, <2>4, <2>5
<1> HIDE DEF front, new, n
<1>4. new \in Seq(R) /\ Len(new) = n
  <2>1. \A i \in 1..n : new[i] \in R
    BY <1>1, <1>3
  <2>2. QED
    BY <1>1, <1>3, <2>1
<1>5. ASSUME NEW y \in R, NEW t \in Seq(R), DOMAIN t = 1..n, t[n] = y,
             \A i \in 1..(n - 1) : t[i] = s[i]
      PROVE  t = Append(front, y)
  <2> DEFINE b == Append(front, y)
  <2>1. /\ DOMAIN b = 1..n /\ b[n] = y /\ (\A i \in 1..(n - 1) : b[i] = front[i])
        /\ b = [i \in DOMAIN b |-> b[i]]
    <3> DEFINE m == Len(front)
    <3>1. /\ DOMAIN b = 1..(m + 1) /\ b[m + 1] = y /\ (\A i \in 1..m : b[i] = front[i])
          /\ b = [i \in DOMAIN b |-> b[i]]
      <4>1. \A S : \A u \in Seq(S) : \A z \in S :
              /\ DOMAIN Append(u, z) = 1..(Len(u) + 1) /\ Append(u, z)[Len(u) + 1] = z
              /\ \A i \in 1..Len(u) : Append(u, z)[i] = u[i]
              /\ Append(u, z) \in Seq(S)
        OBVIOUS
      <4>2. front \in Seq(R)
        BY <1>2
      <4>3. b \in Seq(R) => b = [i \in DOMAIN b |-> b[i]]
        <5> HIDE DEF b
        <5>1. QED
          OBVIOUS
      <4>4. QED
        BY <4>1, <4>2, <4>3
    <3>2. m = n - 1 /\ m + 1 = n
      BY <1>1, <1>2
    <3> HIDE DEF b, m
    <3>3. QED
      BY <3>1, <3>2
  <2>2. t = [i \in DOMAIN t |-> t[i]]
    OBVIOUS
  <2> HIDE DEF b
  <2>3. \A i \in 1..n : i \in 1..(n - 1) \/ i = n
    BY <1>1
  <2>4. \A i \in 1..n : t[i] = b[i]
    BY Zenon, <1>2, <1>5, <2>1, <2>3
  <2>5. QED
    BY Zenon, <1>5, <2>1, <2>2, <2>4 DEF b
<1>6. s[n] \in R
  BY <1>1
<1>7. s = Append(front, s[n])
  BY <1>1, <1>5, <1>6
<1>8. new = Append(front, x)
  BY <1>3, <1>4, <1>5
<1>9. QED
  BY <1>2, <1>3, <1>4, <1>6, <1>7, <1>8 DEF front, new, n

\* Rounds are cut where the question changes, and nowhere else.
CutRight(rounds) ==
    /\ \A i \in DOMAIN rounds : OneQuestion(rounds[i])
    /\ \A i \in 1..(Len(rounds) - 1) : rounds[i + 1].user \notin {rounds[i].user, <<>>}

\* A round with one call more is about one question if the call fits.
LEMMA AsksNoOther ==
  ASSUME NEW old \in Seq(CallSet), NEW call \in CallSet, NEW s, NEW user,
         s.calls = Append(old, call), s.user = user,
         old = <<>> => NeekoPrompt(call.messages) = user,
         old # <<>> => /\ NeekoPrompt(old[1].messages) = user
                       /\ \A i \in DOMAIN old : NeekoPrompt(old[i].messages) \in {user, <<>>}
                       /\ NeekoPrompt(call.messages) \in {user, <<>>}
  PROVE  OneQuestion(s)
<1> DEFINE n == Len(old)
           more == Append(old, call)
           C == CallSet
<1>1. old \in Seq(C) /\ call \in C
  OBVIOUS
<1> HIDE DEF C
<1>2. /\ n \in Nat /\ DOMAIN old = 1..n /\ DOMAIN more = (1..n) \cup {n + 1}
      /\ more[n + 1] = call /\ \A i \in 1..n : more[i] = old[i]
  BY <1>1
<1>3. (old = <<>>) <=> (n = 0)
  BY <1>1
<1>4. more = s.calls
  OBVIOUS
<1> HIDE DEF more, n
<1>5. more[1] = IF n = 0 THEN call ELSE old[1]
  BY <1>2
<1>6. NeekoPrompt(more[1].messages) = user
  BY <1>3, <1>5
<1>7. \A i \in DOMAIN more : NeekoPrompt(more[i].messages) \in {user, <<>>}
  BY <1>2, <1>3
<1>8. QED
  BY <1>4, <1>6, <1>7 DEF OneQuestion

LEMMA AppendedBehind ==
  ASSUME NEW S, NEW a \in Seq(S), NEW b \in Seq(S), NEW x \in S
  PROVE  a \o Append(b, x) = Append(a \o b, x)
<1> DEFINE m == Len(a)
           n == Len(b)
           l == a \o Append(b, x)
           r == Append(a \o b, x)
<1>1. m \in Nat /\ n \in Nat /\ a \o b \in Seq(S) /\ Len(a \o b) = m + n
      /\ Append(b, x) \in Seq(S) /\ Len(Append(b, x)) = n + 1
  OBVIOUS
<1>2. l \in Seq(S) /\ Len(l) = m + (n + 1) /\ r \in Seq(S) /\ Len(r) = (m + n) + 1
  BY <1>1
<1>3. ASSUME NEW i \in 1..(m + n + 1) PROVE l[i] = r[i]
  <2>1. l[i] = IF i <= m THEN a[i] ELSE Append(b, x)[i - m]
    BY <1>1, <1>3
  <2>2. r[i] = IF i <= m + n THEN (a \o b)[i] ELSE x
    BY <1>1, <1>3
  <2>3. i <= m + n => (a \o b)[i] = IF i <= m THEN a[i] ELSE b[i - m]
    BY <1>1, <1>3
  <2>4. i > m => Append(b, x)[i - m] = IF i <= m + n THEN b[i - m] ELSE x
    BY <1>1, <1>3
  <2>5. i > m + n => i > m
    BY <1>1, <1>3
  <2> HIDE DEF l, r, m, n
  <2>6. QED
    BY <1>1, <2>1, <2>2, <2>3, <2>4, <2>5
<1> HIDE DEF l, r, m, n
<1>4. Len(l) = m + n + 1 /\ Len(r) = m + n + 1
  BY <1>1, <1>2
<1>5. DOMAIN l = 1..(m + n + 1) /\ DOMAIN r = 1..(m + n + 1)
      /\ l = [i \in DOMAIN l |-> l[i]] /\ r = [i \in DOMAIN r |-> r[i]]
  BY <1>2, <1>4
<1>6. l = r
  BY Zenon, <1>3, <1>5
<1>7. QED
  BY <1>6 DEF l, r

\* Another call, in the last round or in one of its own.
Called(rounds, new, call) ==
    /\ new \in Seq(AskedRounds)
    /\ CutRight(new)
    /\ AllCalls(new) = Append(AllCalls(rounds), call)

LEMMA NeekoCallJoins ==
  ASSUME NEW rounds \in Seq(AskedRounds), CutRight(rounds), NEW user \in CleanText,
         NEW call \in CallSet, NeekoPrompt(call.messages) = user
  PROVE  Called(rounds, WithNeekoCall(rounds, user, call), call)
<1> DEFINE R == AskedRounds
           n == Len(rounds)
           C == CallSet
<1>1. n \in Nat /\ DOMAIN rounds = 1..n /\ \A i \in 1..n : rounds[i] \in R
  BY RoundAmong
<1>2. AllCalls(rounds) \in Seq(CallSet)
  <2>1. CASE rounds = <<>>
    <3>1. AllCalls(rounds) = FlattenSeq(<<>>)
      <4>1. [i \in DOMAIN rounds |-> rounds[i].calls] = <<>>
        BY <2>1
      <4>2. QED
        BY <4>1 DEF AllCalls
    <3>2. <<>> \in Seq(CallSet)
      OBVIOUS
    <3>3. QED
      BY Zenon, <3>1, <3>2, FlattenOfNone
  <2>2. CASE rounds # <<>>
    <3>1. PICK r : r \in R
      BY <1>1, <2>2
    <3>2. QED
      BY <3>1, AllCallsOfAppend
  <2>3. QED
    BY <2>1, <2>2
<1>3. CASE rounds # <<>> /\ (user = <<>> \/ Last(rounds).user = user)
  <2> DEFINE r == rounds[n]
             joined == Joined(r, call)
             front == SubSeq(rounds, 1, n - 1)
             new == [rounds EXCEPT ![n] = joined]
  <2>1. WithNeekoCall(rounds, user, call) = new
    BY <1>3 DEF WithNeekoCall
  <2>2. n \in 1..n /\ r \in R
    BY <1>1, <1>3
  <2> HIDE DEF r
  <2>3. joined \in R /\ joined.calls = Append(r.calls, call) /\ joined.user = r.user
    <3>1. r \in OpenRounds(CleanText)
      BY <2>2, CallsType
    <3>2. QED
      BY <3>1, JoinedFits DEF AskedRounds
  <2>10. OneQuestion(joined)
    <3>1. OneQuestion(r) /\ r.calls # <<>> /\ r.calls \in Seq(CallSet)
      BY <1>1, <2>2, CallsType DEF CutRight, r, AskedRounds, WholeRounds
    <3>2. NeekoPrompt(call.messages) \in {r.user, <<>>}
      BY <1>3, <1>1 DEF Last, r
    <3> HIDE DEF joined
    <3>3. QED
      BY <2>3, <3>1, <3>2, AsksNoOther DEF OneQuestion
  <2> HIDE DEF joined, R
  <2>4. /\ front \in Seq(R)
        /\ rounds = Append(front, r) /\ new = Append(front, joined)
        /\ Len(new) = n /\ new[n] = joined
        /\ \A i \in 1..(n - 1) : new[i] = rounds[i]
    <3>1. rounds \in Seq(R) /\ rounds # <<>>
      BY <1>3 DEF R
    <3>2. QED
      BY <2>3, <3>1, LastReplaced DEF r
  <2> HIDE DEF front, n
  <2>5. \A x \in R : AllCalls(Append(front, x)) = AllCalls(front) \o x.calls
                     /\ AllCalls(front) \in Seq(CallSet)
    BY <2>4, AllCallsOfAppend DEF R
  <2>11. DOMAIN new = 1..n
    <3>1. DOMAIN new = DOMAIN rounds
      OBVIOUS
    <3>2. QED
      BY <1>1, <3>1
  <2>6. AllCalls(new) = Append(AllCalls(rounds), call)
    <3>1. AllCalls(new) = AllCalls(front) \o Append(r.calls, call)
          /\ AllCalls(rounds) = AllCalls(front) \o r.calls
          /\ AllCalls(front) \in Seq(CallSet)
      BY Zenon, <2>2, <2>3, <2>4, <2>5
    <3>2. r.calls \in Seq(CallSet)
      BY <2>2, CallsType DEF R
    <3>3. \A a, b \in Seq(CallSet) : \A x \in CallSet : a \o Append(b, x) = Append(a \o b, x)
      <4> DEFINE K == CallSet
      <4> HIDE DEF K
      <4>1. \A a, b \in Seq(K) : \A x \in K : a \o Append(b, x) = Append(a \o b, x)
        BY AppendedBehind
      <4>2. QED
        BY <4>1 DEF K
    <3>4. QED
      BY <3>1, <3>2, <3>3
  <2>7. new \in Seq(AskedRounds)
    <3>1. \A s \in Seq(R) : \A x \in R : Append(s, x) \in Seq(R)
      OBVIOUS
    <3>2. QED
      BY <2>3, <2>4, <3>1 DEF R
  <2>8. CutRight(new)
    <3>1. \A i \in 1..n : new[i].user = rounds[i].user
      <4>1. \A i \in 1..n : i \in 1..(n - 1) \/ i = n
        BY <1>1
      <4> HIDE DEF new
      <4>2. QED
        BY <2>3, <2>4, <4>1 DEF r
    <3>2. \A i \in 1..(n - 1) : i \in 1..n /\ i + 1 \in 1..n
      BY <1>1
    <3>3. Len(new) = n
      BY <2>4
    <3> HIDE DEF new
    <3>4. ASSUME NEW i \in 1..(n - 1) PROVE new[i + 1].user \notin {new[i].user, <<>>}
      <4>1. rounds[i + 1].user \notin {rounds[i].user, <<>>}
        BY <3>4 DEF CutRight, n
      <4>2. new[i].user = rounds[i].user /\ new[i + 1].user = rounds[i + 1].user
        BY <3>1, <3>2
      <4>3. QED
        BY <4>1, <4>2
    <3>5. ASSUME NEW i \in DOMAIN new PROVE OneQuestion(new[i])
      <4>1. i \in 1..n
        BY <3>3, <3>5, <2>11
      <4>2. i # n => i \in 1..(n - 1)
        BY <1>1, <4>1
      <4>3. i # n => OneQuestion(rounds[i])
        BY <1>1, <4>1 DEF CutRight
      <4>4. QED
        BY <2>4, <2>10, <4>2, <4>3
    <3>6. QED
      BY <3>3, <3>4, <3>5 DEF CutRight
  <2> HIDE DEF new
  <2>9. QED
    BY <2>1, <2>6, <2>7, <2>8 DEF Called
<1>4. CASE ~(rounds # <<>> /\ (user = <<>> \/ Last(rounds).user = user))
  <2> DEFINE id == "round-" \o ToString(n + 1)
             opened == NewRound(id, user)
             joined == Joined(opened, call)
             new == Append(rounds, joined)
  <2>1. WithNeekoCall(rounds, user, call) = new
    <3>1. ~(rounds # <<>> /\ (user = <<>> \/ Last(rounds).user = user))
      BY <1>4
    <3> DEFINE same == rounds # <<>> /\ (user = <<>> \/ Last(rounds).user = user)
               kept == [rounds EXCEPT ![n] = Joined(@, call)]
    <3>2. WithNeekoCall(rounds, user, call) = IF same THEN kept ELSE new
      BY DEF WithNeekoCall
    <3> HIDE DEF new, kept, same
    <3>3. QED
      BY <3>1, <3>2 DEF same
  <2>2. id \in Ids
    <3>1. \A m \in Nat : "round-" \o ToString(m) \in Ids
      BY Zenon DEF Ids
    <3>2. n + 1 \in Nat
      BY <1>1
    <3> HIDE DEF n
    <3>3. QED
      BY <3>1, <3>2
  <2> HIDE DEF id
  <2>3. opened \in OpenRounds(CleanText) /\ opened.calls = <<>> /\ opened.user = user
    BY <2>2, NewRoundFits
  <2> HIDE DEF opened
  <2>4. joined \in R /\ joined.calls = Append(opened.calls, call) /\ joined.user = user
    BY <2>3, JoinedFits DEF AskedRounds
  <2> HIDE DEF joined
  <2>10. OneQuestion(joined)
    <3>1. opened.calls \in Seq(CallSet)
      BY <2>3
    <3>2. QED
      BY <2>3, <2>4, <3>1, AsksNoOther
  <2>5. AllCalls(new) = Append(AllCalls(rounds), call)
    <3>1. AllCalls(new) = AllCalls(rounds) \o joined.calls
      BY Zenon, <2>4, AllCallsOfAppend
    <3>2. joined.calls = <<call>>
      BY <2>3, <2>4
    <3> DEFINE a == AllCalls(rounds)
    <3>3. a \in Seq(C) /\ call \in C
      BY <1>2
    <3> HIDE DEF a, C
    <3>4. a \o <<call>> = Append(a, call)
      BY <3>3
    <3>5. QED
      BY <3>1, <3>2, <3>4 DEF a
  <2> HIDE DEF R
  <2>6. /\ new \in Seq(R) /\ Len(new) = n + 1 /\ new[n + 1] = joined
        /\ \A i \in 1..n : new[i] = rounds[i]
    <3>1. rounds \in Seq(R)
      BY DEF R
    <3>2. QED
      BY <2>4, <3>1
  <2>7. n # 0 => rounds[n].user # user /\ user # <<>>
    BY <1>1, <1>4 DEF Last
  <2> HIDE DEF new
  <2>8. CutRight(new)
    <3>1. ASSUME NEW i \in 1..n PROVE new[i + 1].user \notin {new[i].user, <<>>}
      <4>1. CASE i = n
        BY <1>1, <2>4, <2>6, <2>7, <4>1
      <4>2. CASE i # n
        <5>1. i \in 1..(n - 1) /\ i + 1 \in 1..n
          <6> HIDE DEF n
          <6>1. QED
            BY <1>1, <4>2
        <5>2. rounds[i + 1].user \notin {rounds[i].user, <<>>}
          BY <5>1 DEF CutRight
        <5>3. QED
          BY <2>6, <5>1, <5>2
      <4>3. QED
        BY <4>1, <4>2
    <3>2. Len(new) - 1 = n /\ DOMAIN new = 1..(n + 1)
      BY <1>1, <2>6
    <3> HIDE DEF n
    <3>3. ASSUME NEW i \in DOMAIN new PROVE OneQuestion(new[i])
      <4>1. i \in 1..n \/ i = n + 1
        BY <1>1, <3>2, <3>3
      <4>2. i \in 1..n => OneQuestion(rounds[i])
        BY <1>1 DEF CutRight
      <4>3. QED
        BY <2>6, <2>10, <4>1, <4>2
    <3>4. QED
      BY <3>1, <3>2, <3>3 DEF CutRight
  <2>9. QED
    BY <2>1, <2>5, <2>6, <2>8 DEF Called, R
<1>5. QED
  BY <1>3, <1>4

----------------------------------------------------------------------------
(* Requests of a Neeko log wait for what ends their wait.                  *)

AskedIn(inOrder) == [i \in DOMAIN inOrder |-> inOrder[i].messages]
Wanted(requests) == [i \in DOMAIN requests |-> NeekoMessages(requests[i].data.value)]

\* The calls have the models of the requests at their places.
ModelsKept(requests, inOrder) ==
    \A i \in DOMAIN inOrder : NeekoModel(requests[i].data.value) \in {<<>>, inOrder[i].model}

(* The calls made so far are the requests but the one that still waits.    *)
Waits(acc, requests) ==
    /\ acc.rounds \in Seq(AskedRounds)
    /\ CutRight(acc.rounds)
    /\ acc.req \in Payload /\ acc.ts \in Nat
    /\ requests \in Seq(Event)
    /\ Wanted(requests) = IF Present(acc.req)
                          THEN Append(AskedIn(AllCalls(acc.rounds)), NeekoMessages(acc.req.value))
                          ELSE AskedIn(AllCalls(acc.rounds))
    /\ Present(acc.req) => requests[Len(requests)].data = acc.req
    /\ ModelsKept(requests, AllCalls(acc.rounds))
AnswersFor(rounds, requests) ==
    /\ rounds \in Seq(AskedRounds)
    /\ CutRight(rounds)
    /\ Wanted(requests) = AskedIn(AllCalls(rounds))
    /\ ModelsKept(requests, AllCalls(rounds))

LEMMA ImageOfAppend ==
  ASSUME NEW X, NEW s \in Seq(X), NEW x \in X, NEW f
  PROVE  [i \in DOMAIN Append(s, x) |-> f[Append(s, x)[i]]]
           = Append([i \in DOMAIN s |-> f[s[i]]], f[x])
<1> DEFINE n == Len(s)
           old == [i \in DOMAIN s |-> f[s[i]]]
           l == [i \in DOMAIN Append(s, x) |-> f[Append(s, x)[i]]]
           r == Append(old, f[x])
           Y == {f[y] : y \in X}
<1>1. n \in Nat /\ DOMAIN s = 1..n /\ \A i \in 1..n : s[i] \in X
  OBVIOUS
<1>2. DOMAIN Append(s, x) = (1..n) \cup {n + 1} /\ Append(s, x)[n + 1] = x
      /\ \A i \in 1..n : Append(s, x)[i] = s[i]
  OBVIOUS
<1>3. DOMAIN l = (1..n) \cup {n + 1} /\ l[n + 1] = f[x] /\ (\A i \in 1..n : l[i] = f[s[i]])
      /\ l = [i \in DOMAIN l |-> l[i]]
  BY <1>2
<1>4. old \in Seq(Y) /\ Len(old) = n /\ f[x] \in Y /\ \A i \in 1..n : old[i] = f[s[i]]
  <2>1. \A i \in 1..n : f[s[i]] \in Y
    BY <1>1
  <2>2. old = [i \in 1..n |-> f[s[i]]]
    BY <1>1
  <2>3. f[x] \in Y
    OBVIOUS
  <2> HIDE DEF old, Y, n
  <2>4. QED
    BY <1>1, <2>1, <2>2, <2>3
<1> HIDE DEF old, l, Y, n
<1>5. DOMAIN r = (1..n) \cup {n + 1} /\ r[n + 1] = f[x] /\ (\A i \in 1..n : r[i] = old[i])
      /\ r = [i \in DOMAIN r |-> r[i]]
  <2>1. \A S : \A t \in Seq(S) : \A z \in S :
          /\ DOMAIN Append(t, z) = 1..(Len(t) + 1) /\ Append(t, z)[Len(t) + 1] = z
          /\ \A i \in 1..Len(t) : Append(t, z)[i] = t[i]
          /\ Append(t, z) \in Seq(S)
    OBVIOUS
  <2>2. DOMAIN r = 1..(n + 1) /\ r[n + 1] = f[x] /\ (\A i \in 1..n : r[i] = old[i]) /\ r \in Seq(Y)
    BY <1>4, <2>1
  <2> HIDE DEF r
  <2>3. 1..(n + 1) = (1..n) \cup {n + 1}
    BY <1>1
  <2>4. r = [i \in DOMAIN r |-> r[i]]
    BY <2>2
  <2>5. QED
    BY <2>2, <2>3, <2>4
<1> HIDE DEF r
<1>6. l = r
  BY <1>3, <1>4, <1>5
<1>7. QED
  BY <1>6 DEF l, r, old

LEMMA AskedInAppend ==
  ASSUME NEW inOrder \in Seq(CallSet), NEW call \in CallSet
  PROVE  AskedIn(Append(inOrder, call)) = Append(AskedIn(inOrder), call.messages)
<1> DEFINE C == CallSet
           f == [c \in C |-> c.messages]
           more == Append(inOrder, call)
<1>1. inOrder \in Seq(C) /\ call \in C /\ f[call] = call.messages
  OBVIOUS
<1>2. more \in Seq(C)
  <2> HIDE DEF C
  <2>1. QED
    BY <1>1
<1> HIDE DEF C
<1>3. \A i \in DOMAIN inOrder : f[inOrder[i]] = inOrder[i].messages
  BY <1>1
<1>4. \A i \in DOMAIN more : f[more[i]] = more[i].messages
  <2> HIDE DEF more
  <2>1. QED
    BY <1>2
<1>5. AskedIn(inOrder) = [i \in DOMAIN inOrder |-> f[inOrder[i]]]
      /\ AskedIn(more) = [i \in DOMAIN more |-> f[more[i]]]
  BY <1>3, <1>4 DEF AskedIn
<1> HIDE DEF f
<1>6. [i \in DOMAIN more |-> f[more[i]]] = Append([i \in DOMAIN inOrder |-> f[inOrder[i]]], f[call])
  BY <1>1, ImageOfAppend
<1>7. QED
  BY <1>1, <1>5, <1>6

LEMMA WantedAppend ==
  ASSUME NEW requests \in Seq(Event), NEW ev \in Event
  PROVE  Wanted(Append(requests, ev)) = Append(Wanted(requests), NeekoMessages(ev.data.value))
<1> DEFINE f == [e \in Event |-> NeekoMessages(e.data.value)]
           more == Append(requests, ev)
<1>1. f[ev] = NeekoMessages(ev.data.value) /\ more \in Seq(Event)
  OBVIOUS
<1>2. \A i \in DOMAIN requests : f[requests[i]] = NeekoMessages(requests[i].data.value)
  OBVIOUS
<1>3. \A i \in DOMAIN more : f[more[i]] = NeekoMessages(more[i].data.value)
  <2> HIDE DEF more
  <2>1. QED
    BY <1>1
<1>4. Wanted(requests) = [i \in DOMAIN requests |-> f[requests[i]]]
      /\ Wanted(more) = [i \in DOMAIN more |-> f[more[i]]]
  BY <1>2, <1>3 DEF Wanted
<1> HIDE DEF f
<1>5. [i \in DOMAIN more |-> f[more[i]]] = Append([i \in DOMAIN requests |-> f[requests[i]]], f[ev])
  BY ImageOfAppend
<1>6. QED
  BY <1>1, <1>4, <1>5

\* A request more, and a call more that answers it.
LEMMA ModelsOfMoreRequests ==
  ASSUME NEW requests \in Seq(Event), NEW ev \in Event, NEW inOrder,
         DOMAIN inOrder = DOMAIN requests, ModelsKept(requests, inOrder)
  PROVE  ModelsKept(Append(requests, ev), inOrder)
<1>1. \A i \in DOMAIN requests : Append(requests, ev)[i] = requests[i]
  OBVIOUS
<1>2. QED
  BY <1>1 DEF ModelsKept

LEMMA ModelsOfMoreCalls ==
  ASSUME NEW requests \in Seq(Event), NEW inOrder \in Seq(CallSet), NEW call \in CallSet,
         ModelsKept(requests, inOrder), Len(requests) = Len(inOrder) + 1,
         NeekoModel(requests[Len(requests)].data.value) \in {<<>>, call.model}
  PROVE  ModelsKept(requests, Append(inOrder, call))
<1> DEFINE n == Len(inOrder)
           more == Append(inOrder, call)
           C == CallSet
<1>1. inOrder \in Seq(C) /\ call \in C
  OBVIOUS
<1> HIDE DEF C
<1>2. /\ DOMAIN inOrder = 1..n /\ DOMAIN more = (1..n) \cup {n + 1}
      /\ more[n + 1] = call /\ \A i \in 1..n : more[i] = inOrder[i]
  BY <1>1
<1>3. Len(requests) = n + 1
  OBVIOUS
<1> HIDE DEF more, n
<1>4. \A i \in 1..n : NeekoModel(requests[i].data.value) \in {<<>>, inOrder[i].model}
  BY <1>2 DEF ModelsKept
<1>5. QED
  BY <1>2, <1>3, <1>4 DEF ModelsKept, more

LEMMA FirstAmong == ASSUME NEW S, NEW s \in Seq(S), s # <<>> PROVE 1 \in DOMAIN s /\ s[1] \in S
OBVIOUS

LEMMA AllCallsType ==
  ASSUME NEW rounds \in Seq(AskedRounds)
  PROVE  AllCalls(rounds) \in Seq(CallSet)
<1>1. CASE rounds = <<>>
  <2>1. [i \in DOMAIN rounds |-> rounds[i].calls] = <<>>
    BY <1>1
  <2>2. AllCalls(rounds) = FlattenSeq(<<>>)
    BY <2>1 DEF AllCalls
  <2>3. <<>> \in Seq(CallSet)
    OBVIOUS
  <2>4. QED
    BY Zenon, <2>2, <2>3, FlattenOfNone
<1>2. CASE rounds # <<>>
  <2>1. PICK r : r \in AskedRounds
    BY <1>2, FirstAmong
  <2>2. QED
    BY <2>1, AllCallsOfAppend
<1>3. QED
  BY <1>1, <1>2

LEMMA FlushAnswers ==
  ASSUME NEW acc, NEW requests, Waits(acc, requests), NEW data \in Payload, NEW ts \in Nat
  PROVE  AnswersFor(flushPair(acc, data, ts), requests)
<1>1. CASE ~Present(acc.req)
  BY <1>1 DEF Waits, AnswersFor, flushPair
<1>2. CASE Present(acc.req)
  <2> DEFINE v == acc.req.value
             model == NeekoModel(v)
             msgs == NeekoMessages(v)
             call == NeekoCall(model, msgs, acc.ts, data, ts)
             new == WithNeekoCall(acc.rounds, NeekoPrompt(msgs), call)
  <2>1. v \in Value /\ data.value \in Value /\ acc.ts \in Nat
    BY FileAssumption DEF Waits
  <2>2. flushPair(acc, data, ts) = new
    BY <1>2 DEF flushPair, Asking
  <2>3. model \in Text /\ msgs \in Seq(MessageSet)
    BY <2>1, NeekoMessagesType
  <2> HIDE DEF v, model, msgs
  <2>4. call \in CallSet /\ call.messages = msgs /\ model \in {<<>>, call.model}
    BY <2>1, <2>3, NeekoCallType
  <2> HIDE DEF call
  <2>5. Called(acc.rounds, new, call)
    BY <2>3, <2>4, NeekoPromptIsClean, NeekoCallJoins DEF Waits
  <2> HIDE DEF new
  <2>6. AskedIn(AllCalls(new)) = Append(AskedIn(AllCalls(acc.rounds)), msgs)
    BY Zenon, <2>4, <2>5, AskedInAppend, AllCallsType DEF Called, Waits
  <2>7. Wanted(requests) = Append(AskedIn(AllCalls(acc.rounds)), msgs)
    BY <1>2 DEF Waits, msgs, v
  <2>9. ModelsKept(requests, AllCalls(new))
    <3> DEFINE inOrder == AllCalls(acc.rounds)
               asked == AskedIn(inOrder)
    <3>1. AllCalls(new) = Append(inOrder, call)
      BY <2>5 DEF Called
    <3>2. inOrder \in Seq(CallSet) /\ requests \in Seq(Event) /\ ModelsKept(requests, inOrder)
      BY AllCallsType DEF Waits
    <3>3. NeekoModel(requests[Len(requests)].data.value) \in {<<>>, call.model}
      BY <1>2, <2>4 DEF Waits, model, v
    <3> HIDE DEF inOrder
    <3>4. Len(requests) = Len(inOrder) + 1
      <4> DEFINE C == CallSet
                 k == Len(inOrder)
      <4>1. inOrder \in Seq(C)
        BY <3>2
      <4> HIDE DEF C
      <4>2. k \in Nat /\ DOMAIN inOrder = 1..k
        BY <4>1
      <4>3. DOMAIN asked = 1..k /\ asked = [i \in 1..k |-> inOrder[i].messages]
        BY <4>2 DEF AskedIn
      <4>4. asked \in Seq({inOrder[i].messages : i \in 1..k}) /\ Len(asked) = k
        <5>1. \A i \in 1..k : inOrder[i].messages \in {inOrder[j].messages : j \in 1..k}
          OBVIOUS
        <5> HIDE DEF asked, k
        <5>2. QED
          BY <4>2, <4>3, <5>1
      <4> HIDE DEF asked, k
      <4>5. DOMAIN Append(asked, msgs) = 1..(k + 1)
        <5>1. \A X, s : s \in Seq(X) => DOMAIN Append(s, msgs) = 1..(Len(s) + 1)
          OBVIOUS
        <5>2. QED
          BY <4>4, <5>1
      <4>6. DOMAIN requests = DOMAIN Wanted(requests)
        BY DEF Wanted
      <4>7. DOMAIN requests = 1..(k + 1)
        BY <2>7, <4>5, <4>6 DEF asked, inOrder
      <4>8. DOMAIN requests = 1..Len(requests) /\ Len(requests) \in Nat
        BY <3>2
      <4>9. \A m, l \in Nat : 1..m = 1..l => m = l
        OBVIOUS
      <4>10. QED
        BY <4>2, <4>7, <4>8, <4>9 DEF k
    <3>5. QED
      BY <2>4, <3>1, <3>2, <3>3, <3>4, ModelsOfMoreCalls
  <2>8. QED
    BY <2>2, <2>5, <2>6, <2>7, <2>9 DEF Called, AnswersFor
<1>3. QED
  BY <1>1, <1>2

RequestStep(c, kept, x) ==
    IF x.type = "REQUEST_BODY" /\ Present(x.data) THEN Append(kept, x) ELSE kept
PairStep(c, acc, ev) == NeekoStep(acc, ev)
RequestFold == INSTANCE RecursionLemmas WITH Step <- RequestStep
PairFold == INSTANCE RecursionLemmas WITH Step <- PairStep

LEMMA NeekoStepWaits ==
  ASSUME NEW acc, NEW requests, Waits(acc, requests), NEW ev \in Event
  PROVE  Waits(NeekoStep(acc, ev), RequestStep(0, requests, ev))
<1>1. ev.data \in Payload /\ ev.ts \in Nat /\ NoBytes \in Payload /\ ~Present(NoBytes)
  BY EventAssumption, FileAssumption DEF Present, NoBytes
<1>2. CASE ev.type = "REQUEST_BODY"
  <2> DEFINE rounds == flushPair(acc, NoBytes, 0)
             new == [rounds |-> rounds, req |-> ev.data, ts |-> ev.ts]
  <2>1. NeekoStep(acc, ev) = new
    BY <1>2 DEF NeekoStep
  <2>2. AnswersFor(rounds, requests)
    BY <1>1, FlushAnswers
  <2>3. new.rounds = rounds /\ new.req = ev.data /\ new.ts = ev.ts
    OBVIOUS
  <2> HIDE DEF rounds, new
  <2>4. CASE Present(ev.data)
    <3>1. RequestStep(0, requests, ev) = Append(requests, ev) /\ Append(requests, ev) \in Seq(Event)
      BY <1>2, <2>4 DEF RequestStep, Waits
    <3>2. Wanted(Append(requests, ev)) = Append(AskedIn(AllCalls(rounds)), NeekoMessages(ev.data.value))
      BY <2>2, WantedAppend DEF AnswersFor, Waits
    <3>4. ModelsKept(Append(requests, ev), AllCalls(rounds))
      <4>1. DOMAIN requests = DOMAIN AllCalls(rounds)
        <5>1. DOMAIN Wanted(requests) = DOMAIN AskedIn(AllCalls(rounds))
          BY <2>2 DEF AnswersFor
        <5>2. QED
          BY <5>1 DEF Wanted, AskedIn
      <4>2. QED
        BY <2>2, <4>1, ModelsOfMoreRequests DEF AnswersFor, Waits
    <3>5. LET more == Append(requests, ev) IN more[Len(more)].data = ev.data
      BY <3>1 DEF Waits
    <3>3. QED
      BY Zenon, <1>1, <2>1, <2>2, <2>3, <2>4, <3>1, <3>2, <3>4, <3>5 DEF AnswersFor, Waits
  <2>5. CASE ~Present(ev.data)
    <3>1. RequestStep(0, requests, ev) = requests
      BY <2>5 DEF RequestStep
    <3>2. QED
      BY <1>1, <2>1, <2>2, <2>3, <2>5, <3>1 DEF AnswersFor, Waits
  <2>6. QED
    BY <2>4, <2>5
<1>3. CASE ev.type = "STREAM_RESPONSE"
  <2> DEFINE rounds == flushPair(acc, ev.data, ev.ts)
             new == [rounds |-> rounds, req |-> NoBytes, ts |-> 0]
  <2>1. NeekoStep(acc, ev) = new
    BY <1>3 DEF NeekoStep
  <2>2. AnswersFor(rounds, requests)
    BY <1>1, FlushAnswers
  <2>3. new.rounds = rounds /\ new.req = NoBytes /\ new.ts = 0
    OBVIOUS
  <2> HIDE DEF rounds, new
  <2>4. RequestStep(0, requests, ev) = requests
    BY <1>3 DEF RequestStep
  <2>5. QED
    BY <1>1, <2>1, <2>2, <2>3, <2>4 DEF AnswersFor, Waits
<1>4. CASE ev.type \notin {"REQUEST_BODY", "STREAM_RESPONSE"}
  <2>1. NeekoStep(acc, ev) = acc /\ RequestStep(0, requests, ev) = requests
    BY <1>4 DEF NeekoStep, RequestStep
  <2>2. QED
    BY <2>1
<1>5. QED
  BY <1>2, <1>3, <1>4

----------------------------------------------------------------------------
(* Every request of a Neeko log is a call.                                 *)

LEMMA RequestsAre == ASSUME NEW events PROVE Requests(events) = RequestFold!Fold(0, <<>>, events)
BY DEF Requests, Filtered, FoldLeft, MapThenFoldSet, Max, RequestFold!Fold, RequestFold!IsFold,
       RequestFold!Greatest, RequestStep

NoPair == [rounds |-> <<>>, req |-> NoBytes, ts |-> 0]

LEMMA NeekoIs ==
  ASSUME NEW events
  PROVE  parseNeekoResponsesLog(events)
           = [session |-> "",
              rounds |-> flushPair(PairFold!Fold(0, NoPair, events), NoBytes, 0)]
BY DEF parseNeekoResponsesLog, NoPair, FoldLeft, MapThenFoldSet, Max, PairFold!Fold,
       PairFold!IsFold, PairFold!Greatest, PairStep

LEMMA NobodyWaits == Waits(NoPair, <<>>)
<1>1. NoBytes \in Payload /\ ~Present(NoBytes)
  BY EventAssumption, FileAssumption DEF Present, NoBytes
<1>2. NoPair.rounds = <<>> /\ NoPair.req = NoBytes /\ NoPair.ts = 0
  BY DEF NoPair
<1>3. <<>> \in Seq(AskedRounds) /\ <<>> \in Seq(Event) /\ CutRight(<<>>)
  BY DEF CutRight
<1>4. AskedIn(AllCalls(<<>>)) = <<>> /\ Wanted(<<>>) = <<>>
  <2>1. AllCalls(<<>>) = <<>>
    <3>1. \A s : s = <<>> => [i \in DOMAIN s |-> s[i].calls] = <<>>
      OBVIOUS
    <3>2. AllCalls(<<>>) = FlattenSeq(<<>>)
      BY <3>1 DEF AllCalls
    <3>3. QED
      BY <3>2, FlattenOfNone
  <2>2. \A s : s = <<>> => [i \in DOMAIN s |-> s[i].messages] = <<>>
    OBVIOUS
  <2>3. \A s : s = <<>> => [i \in DOMAIN s |-> NeekoMessages(s[i].data.value)] = <<>>
    OBVIOUS
  <2>4. QED
    BY <2>1, <2>2, <2>3 DEF AskedIn, Wanted
<1>6. ModelsKept(<<>>, AllCalls(<<>>))
  <2>1. DOMAIN AskedIn(AllCalls(<<>>)) = {}
    BY <1>4
  <2>2. QED
    BY <2>1 DEF AskedIn, ModelsKept
<1>5. QED
  BY <1>1, <1>2, <1>3, <1>4, <1>6 DEF Waits

LEMMA NeekoAnswers ==
  ASSUME NEW events \in Seq(Event)
  PROVE  AnswersFor(parseNeekoResponsesLog(events).rounds, Requests(events))
<1> DEFINE n == Len(events)
<1>1. n \in Nat /\ DOMAIN events = 1..n /\ \A i \in 1..n : events[i] \in Event
  OBVIOUS
<1> HIDE DEF n
<1>2. PICK run : PairFold!IsRun(0, NoPair, events, n, run)
                 /\ PairFold!Fold(0, NoPair, events) = run[n]
  BY <1>1, PairFold!FoldRuns, LeastNumber DEF PairFold!LeastNumbers
<1>3. PICK reqs : RequestFold!IsRun(0, <<>>, events, n, reqs)
                  /\ RequestFold!Fold(0, <<>>, events) = reqs[n]
  BY <1>1, RequestFold!FoldRuns, LeastNumber DEF RequestFold!LeastNumbers
<1>4. /\ run[0] = NoPair /\ reqs[0] = <<>>
      /\ \A i \in 1..n : /\ run[i] = NeekoStep(run[i - 1], events[i])
                         /\ reqs[i] = RequestStep(0, reqs[i - 1], events[i])
  BY <1>2, <1>3 DEF PairFold!IsRun, RequestFold!IsRun, PairStep
<1> DEFINE P == {i \in 0..n : Waits(run[i], reqs[i])}
<1>5. P \in SUBSET (0..n) /\ 0 \in P
  BY <1>1, <1>4, NobodyWaits
<1>6. ASSUME NEW i \in 1..n, i - 1 \in P PROVE i \in P
  <2>1. Waits(run[i - 1], reqs[i - 1]) /\ i \in 0..n
    BY <1>1, <1>6
  <2>2. Waits(NeekoStep(run[i - 1], events[i]), RequestStep(0, reqs[i - 1], events[i]))
    BY <1>1, <2>1, NeekoStepWaits
  <2>3. QED
    BY <1>4, <2>1, <2>2
<1> HIDE DEF P
<1>7. P = 0..n
  BY <1>1, <1>5, <1>6, PairFold!HoldsAlong, LeastNumber DEF PairFold!LeastNumbers
<1>8. Waits(run[n], reqs[n])
  BY <1>1, <1>7 DEF P
<1>9. NoBytes \in Payload
  BY EventAssumption, FileAssumption
<1>10. AnswersFor(flushPair(run[n], NoBytes, 0), reqs[n])
  BY <1>8, <1>9, FlushAnswers
<1>11. parseNeekoResponsesLog(events).rounds = flushPair(run[n], NoBytes, 0)
       /\ Requests(events) = reqs[n]
  BY Zenon, <1>2, <1>3, RequestsAre, NeekoIs
<1>12. QED
  BY <1>10, <1>11

LEMMA EventsType == ASSUME ParseInv PROVE Events \in Seq(Event)
<1> DEFINE Line == Event \cup {Broken}
<1>1. lines \in Seq(Line)
  BY DEF ParseInv
<1> HIDE DEF Line
<1>2. Events \in Seq(Line \ {Broken})
  BY <1>1, IntactType DEF Events
<1>3. Line \ {Broken} \subseteq Event
  BY DEF Line
<1>4. QED
  BY <1>2, <1>3, LargerSeq

(* Whatever requests and streams follow each other in a Neeko log: each    *)
(* request becomes one call with its messages and its model, in the order  *)
(* of the requests, whether it was answered or not; the calls of a round   *)
(* ask one question at most, and the next round asks another one.          *)
THEOREM NeekoCallsAreAccounted == Spec => []NeekoCallsAccounted
<1>1. ParseInv => NeekoCallsAccounted
  <2> SUFFICES ASSUME ParseInv PROVE NeekoCallsAccounted
    OBVIOUS
  <2> DEFINE requests == Requests(Events)
             rounds == parseNeekoResponsesLog(Events).rounds
             inOrder == AllCalls(rounds)
  <2>1. AnswersFor(rounds, requests)
    BY EventsType, NeekoAnswers
  <2>2. requests \in Seq(Event)
    <3>1. \A x, seq : seq \in Seq(x) => Requests(seq) \in Seq(x)
      <4> SUFFICES ASSUME NEW X, NEW seq \in Seq(X) PROVE Requests(seq) \in Seq(X)
        OBVIOUS
      <4> DEFINE n == Len(seq)
                 T == Seq(X)
      <4>1. n \in Nat /\ DOMAIN seq = 1..n /\ <<>> \in T
        OBVIOUS
      <4>2. ASSUME NEW kept \in T, NEW i \in 1..n PROVE RequestStep(0, kept, seq[i]) \in T
        BY DEF RequestStep
      <4> HIDE DEF n, T
      <4>3. \A c, base : base \in T /\ (\A kept \in T : \A i \in 1..n : RequestStep(c, kept, seq[i]) \in T)
              => RequestFold!Fold(c, base, seq) \in T
        BY <4>1, RequestFold!FoldKeeps, LeastNumber DEF RequestFold!LeastNumbers
      <4>4. RequestFold!Fold(0, <<>>, seq) \in T
        BY <4>1, <4>2, <4>3
      <4>5. QED
        BY <4>4, RequestsAre DEF T
    <3>2. QED
      BY <3>1, EventsType
  <2> HIDE DEF requests, rounds
  <2>3. inOrder \in Seq(CallSet) /\ rounds \in Seq(AskedRounds)
    BY <2>1, AllCallsType DEF AnswersFor
  <2> HIDE DEF inOrder
  <2>4. Wanted(requests) = AskedIn(inOrder)
    BY <2>1 DEF AnswersFor, inOrder
  <2>5. DOMAIN requests = DOMAIN inOrder
    BY <2>4 DEF Wanted, AskedIn
  <2>6. Len(inOrder) = Len(requests)
    <3>1. DOMAIN requests = 1..Len(requests) /\ Len(requests) \in Nat
      BY <2>2
    <3>2. DOMAIN inOrder = 1..Len(inOrder) /\ Len(inOrder) \in Nat
      <4> DEFINE C == CallSet
      <4>1. inOrder \in Seq(C)
        BY <2>3
      <4> HIDE DEF C
      <4>2. QED
        BY <4>1
    <3>3. \A m, k \in Nat : 1..m = 1..k => m = k
      OBVIOUS
    <3>4. QED
      BY Zenon, <2>5, <3>1, <3>2, <3>3
  <2>7. ASSUME NEW i \in DOMAIN requests
        PROVE  AskedBy(inOrder[i], requests[i].data.value)
    <3>1. Wanted(requests)[i] = NeekoMessages(requests[i].data.value)
      BY DEF Wanted
    <3>2. AskedIn(inOrder)[i] = inOrder[i].messages
      BY <2>5 DEF AskedIn
    <3>4. ModelsKept(requests, inOrder)
      BY <2>1 DEF AnswersFor, inOrder
    <3>3. QED
      BY <2>4, <2>5, <3>1, <3>2, <3>4 DEF AskedBy, ModelsKept
  <2>8. CutRight(rounds)
    BY <2>1 DEF AnswersFor
  <2>10. \A round \in Range(rounds) : OneQuestion(round)
    BY <2>8 DEF CutRight, Range
  <2>9. QED
    BY <2>6, <2>7, <2>8, <2>10 DEF NeekoCallsAccounted, CutRight, requests, rounds, inOrder
<1>2. QED
  BY <1>1, InitParses, NextParses, PTL DEF Spec

----------------------------------------------------------------------------
(* Questions are the users'.                                               *)

LEMMA SeenIs == ASSUME NEW events PROVE LogsOf(events) = SeenFold!Fold(0, <<>>, events)
BY DEF LogsOf, FoldLeft, MapThenFoldSet, Max, SeenFold!Fold, SeenFold!IsFold,
       SeenFold!Greatest, SeenStep

LEMMA OfLogIs == ASSUME NEW events, NEW log PROVE OfLog(events, log) = LogFold!Fold(log, <<>>, events)
BY DEF OfLog, Filtered, FoldLeft, MapThenFoldSet, Max, LogFold!Fold, LogFold!IsFold,
       LogFold!Greatest, LogStep

\* A log id that is listed has events.
LEMMA LogsHaveEvents ==
  ASSUME NEW events \in Seq(Event), NEW log, Contains(LogsOf(events), log)
  PROVE  OfLog(events, log) # <<>>
<1> DEFINE n == Len(events)
           L == {x.log : x \in Event}
<1>1. n \in Nat /\ DOMAIN events = 1..n
      /\ \A i \in 1..n : events[i] \in Event /\ events[i].log \in L
  OBVIOUS
<1> HIDE DEF n, L
<1>2a. \A c, base : \E run : SeenFold!IsRun(c, base, events, n, run)
                             /\ SeenFold!Fold(c, base, events) = run[n]
  BY <1>1, SeenFold!FoldRuns, LeastNumber DEF SeenFold!LeastNumbers
<1>2. PICK seen : SeenFold!IsRun(0, <<>>, events, n, seen)
                  /\ SeenFold!Fold(0, <<>>, events) = seen[n]
  BY <1>2a
<1>3. \A c, base : \E run : LogFold!IsRun(c, base, events, n, run)
                            /\ LogFold!Fold(c, base, events) = run[n]
  BY <1>1, LogFold!FoldRuns, LeastNumber DEF LogFold!LeastNumbers
<1>4. PICK mine : LogFold!IsRun(log, <<>>, events, n, mine)
                  /\ LogFold!Fold(log, <<>>, events) = mine[n]
  BY <1>3
<1>5. /\ seen[0] = <<>> /\ mine[0] = <<>>
      /\ \A i \in 1..n : /\ seen[i] = SeenStep(0, seen[i - 1], events[i])
                         /\ mine[i] = LogStep(log, mine[i - 1], events[i])
  BY <1>2, <1>4 DEF SeenFold!IsRun, LogFold!IsRun
<1> DEFINE P == {i \in 0..n : /\ seen[i] \in Seq(L) /\ mine[i] \in Seq(Event)
                              /\ Contains(seen[i], log) => mine[i] # <<>>}
<1>6. P \in SUBSET (0..n) /\ 0 \in P
  <2>1. 0 \in 0..n
    BY <1>1
  <2>2. <<>> \in Seq(L) /\ <<>> \in Seq(Event) /\ ~Contains(<<>>, log)
    BY DEF Contains
  <2>3. QED
    BY Zenon, <1>5, <2>1, <2>2
<1>7. ASSUME NEW i \in 1..n, i - 1 \in P PROVE i \in P
  <2> DEFINE s == seen[i - 1]
             m == mine[i - 1]
             x == events[i]
  <2>1. s \in Seq(L) /\ m \in Seq(Event) /\ (Contains(s, log) => m # <<>>) /\ i \in 0..n
        /\ x \in Event /\ x.log \in L
    BY <1>1, <1>7
  <2>2. seen[i] = (IF Contains(s, x.log) THEN s ELSE Append(s, x.log))
        /\ mine[i] = (IF x.log = log THEN Append(m, x) ELSE m)
    BY <1>5 DEF SeenStep, LogStep
  <2> HIDE DEF s, m, x
  <2>3. seen[i] \in Seq(L) /\ mine[i] \in Seq(Event)
    <3>1. Append(s, x.log) \in Seq(L) /\ Append(m, x) \in Seq(Event)
      BY <2>1
    <3>2. QED
      BY <2>1, <2>2, <3>1
  <2>4. Append(m, x) # <<>>
    <3>1. \A S : \A t \in Seq(S) : \A z \in S : Append(t, z) # <<>>
      OBVIOUS
    <3>2. QED
      BY <2>1, <3>1
  <2>5. CASE x.log = log
    BY Zenon, <2>1, <2>2, <2>3, <2>4, <2>5
  <2>6. CASE x.log # log
    <3>1. Contains(Append(s, x.log), log) => Contains(s, log)
      <4>1. \A k \in 1..Len(Append(s, x.log)) :
               Append(s, x.log)[k] = IF k <= Len(s) THEN s[k] ELSE x.log
        BY <2>1
      <4>2. \A k \in 1..Len(Append(s, x.log)) : k <= Len(s) => k \in 1..Len(s)
        BY <2>1
      <4>3. QED
        BY <2>6, <4>1, <4>2 DEF Contains
    <3>2. QED
      BY Zenon, <2>1, <2>2, <2>3, <2>6, <3>1
  <2>7. QED
    BY <2>5, <2>6
<1> HIDE DEF P
<1>8. P = 0..n
  BY <1>1, <1>6, <1>7, LogFold!HoldsAlong, LeastNumber DEF LogFold!LeastNumbers
<1>9. Contains(seen[n], log) => mine[n] # <<>>
  <2>1. n \in P
    BY <1>1, <1>8
  <2>2. QED
    BY <2>1 DEF P
<1>10. QED
  BY <1>2, <1>4, <1>9, SeenIs, OfLogIs

LEMMA LastDataType ==
  ASSUME NEW mine \in Seq(Event), NEW types
  PROVE  LastData(mine, types) \in Payload
<1> DEFINE T == TypedAs(mine, types)
<1>1. NoBytes \in Payload
  BY EventAssumption, FileAssumption
<1>2. CASE T = {}
  BY <1>1, <1>2 DEF LastData
<1>3. CASE T # {}
  <2>1. T \subseteq DOMAIN mine
    BY DEF TypedAs
  <2>2. T \in SUBSET Nat /\ IsFiniteSet(T)
    BY <2>1, PositionsAreFinite
  <2> HIDE DEF T
  <2>3. Max(T) \in T
    BY <1>3, <2>2, MaxOf
  <2>4. mine[Max(T)] \in Event
    BY <2>1, <2>3
  <2>5. QED
    BY <1>3, <2>4, EventAssumption DEF LastData, T
<1>4. QED
  BY <1>2, <1>3

LEMMA GroupFits ==
  ASSUME NEW mine \in Seq(Event), mine # <<>>, NEW log \in Ids
  PROVE  BufFits(Grouped(mine, log))
<1> DEFINE T == Times(mine)
           g == Grouped(mine, log)
           start == IF T = {} THEN 0 ELSE Min(T)
           end == IF T = {} THEN 0 ELSE Max(T)
<1>1. T \in SUBSET (Nat \ {0}) /\ IsFiniteSet(T)
  BY TimesAre
<1>2. start \in Nat /\ end \in Nat
  <2>1. T \in SUBSET Nat
    BY <1>1
  <2> HIDE DEF T
  <2>2. T # {} => Min(T) \in T /\ Max(T) \in T
    BY <1>1, <2>1, MinOf, MaxOf
  <2>3. QED
    BY Zenon, <2>1, <2>2
<1>3. \A types : LastData(mine, types).value \in Value
  BY LastDataType, FileAssumption
<1>4. mine[1].prompt \in Ids
  <2>1. mine[1] \in Event
    BY FirstAmong
  <2>2. mine[1].prompt \in STRING
    BY <2>1, FileAssumption
  <2>3. QED
    BY Zenon, <2>2 DEF Ids, Word
<1>5. g = [log |-> log, prompt |-> mine[1].prompt, start |-> start, end |-> end,
           req |-> LastData(mine, {"REQUEST_BODY"}),
           resp |-> LastData(mine, {"RESPONSE_BODY_FINAL", "RESPONSE_BODY"}),
           meta |-> LastData(mine, {"RESPONSE_META"})]
  BY GroupedIs
<1> HIDE DEF start, end, T
<1>6. /\ g.log = log /\ g.prompt = mine[1].prompt /\ g.start = start /\ g.end = end
      /\ g.req = LastData(mine, {"REQUEST_BODY"})
      /\ g.resp = LastData(mine, {"RESPONSE_BODY_FINAL", "RESPONSE_BODY"})
      /\ g.meta = LastData(mine, {"RESPONSE_META"})
  BY <1>5
<1> HIDE DEF g
<1>7. BufFits(g)
  BY <1>2, <1>3, <1>4, <1>6 DEF BufFits
<1>8. QED
  BY <1>7 DEF g

LEMMA StructuredFit ==
  ASSUME NEW events \in Seq(Event)
  PROVE  StructuredRounds(events) \in Seq(AskedRounds)
<1> DEFINE known == Known(events)
           logs == LogsOf(known)
           groups == GroupsOf(known, logs)
           n == Len(logs)
           L == {x.log : x \in Event}
<1>1. known \in Seq(Event)
  BY MineType
<1> HIDE DEF known
<1>2. logs \in Seq(L)
  BY <1>1, LogsOfType
<1>3. n \in Nat /\ DOMAIN logs = 1..n /\ \A i \in 1..n : logs[i] \in L
  <2> HIDE DEF logs, L
  <2>1. QED
    BY <1>2
<1>4. \A x \in L : x \in Ids
  <2>1. \A x \in STRING : x \in Ids
    BY Zenon DEF Ids, Word
  <2>2. QED
    BY Zenon, <2>1, FileAssumption
<1> HIDE DEF logs, L
<1>5. ASSUME NEW i \in 1..n PROVE BufFits(groups[i])
  <2> DEFINE mine == OfLog(known, logs[i])
  <2>1. groups[i] = Grouped(mine, logs[i])
    BY <1>3 DEF GroupsOf
  <2>2. mine \in Seq(Event)
    <3> DEFINE S == {x \in Event : x.log = logs[i]}
    <3>1. mine \in Seq(S)
      BY <1>1, OfLogType
    <3>2. S \subseteq Event
      OBVIOUS
    <3> HIDE DEF S, mine
    <3>3. QED
      BY <3>1, <3>2, LargerSeq
  <2>3. mine # <<>>
    <3>1. Contains(logs, logs[i])
      BY DEF Contains
    <3>2. QED
      BY <1>1, <3>1, LogsHaveEvents DEF logs
  <2> HIDE DEF mine
  <2>4. QED
    BY <1>3, <1>4, <2>1, <2>2, <2>3, GroupFits
<1>6. DOMAIN groups = 1..n
  BY <1>3 DEF GroupsOf
<1> HIDE DEF groups, n
<1>7. Accounts(RoundsOf(groups), groups, n)
  BY <1>3, <1>5, <1>6, AllAccounted
<1>8. StructuredRounds(events) = RoundsOf(groups)
  BY GroupedRounds DEF groups, logs, known
<1>9. QED
  BY <1>7, <1>8 DEF Accounts

LEMMA CleanIsUsers ==
  ASSUME NEW rounds \in Seq(AskedRounds)
  PROVE  FromUser(rounds)
<1> SUFFICES ASSUME NEW i \in DOMAIN rounds, NEW w \in Injected
             PROVE  ~Contains(rounds[i].user, w)
  BY DEF FromUser
<1>1. rounds[i].user \in CleanText
  BY RoundAmong, CallsType
<1>2. QED
  BY <1>1 DEF CleanText, Injected

LEMMA NeekoFit ==
  ASSUME NEW events \in Seq(Event)
  PROVE  NeekoParse(events).rounds \in Seq(AskedRounds)
<1>1. <<>> \in Seq(AskedRounds)
  OBVIOUS
<1>2. parseNeekoResponsesLog(events).rounds \in Seq(AskedRounds)
  BY NeekoAnswers DEF AnswersFor
<1>3. QED
  BY <1>1, <1>2 DEF NeekoParse, NoRounds

\* An array that was read to its end has the result of Parse.
LEMMA ArrayResult ==
  ASSUME ParseInv, phase = "done", form = "array"
  PROVE  \E keys \in KeyOrders : out.rounds = ParseEvents(Events, keys).rounds
<1>1. PICK keys \in KeyOrders : out = Over(ParseEvents(lines, keys), NoResult)
  BY DEF ParseInv, ResultOf
<1>2. lines = Events
  BY DEF ParseInv, Events
<1>3. ParseEvents(lines, keys).rounds = out.rounds
  <2> DEFINE p == ParseEvents(lines, keys)
  <2>1. DOMAIN p = {"session", "rounds"}
    BY DEF ParseEvents, Preferring, NeekoParse, parseNeekoResponsesLog, NoRounds,
           parseStructuredEvents, parseResponsesWrappedEvents
  <2>2. DOMAIN NoResult = {"session", "rounds", "truncation"}
    BY DEF NoResult
  <2> HIDE DEF p
  <2>3. Over(p, NoResult).rounds = p.rounds
    BY <2>1, <2>2 DEF Over
  <2>4. QED
    BY <1>1, <2>3 DEF p
<1>4. QED
  BY <1>2, <1>3

(* Whatever users and framework write into messages, and in whatever       *)
(* order: the question shown for a round of a log with ids, or of a Neeko  *)
(* log, contains nothing that only the framework writes.                   *)
THEOREM QuestionsAreTheUsers == Spec => []QuestionIsTheUsers
<1>1. ParseInv => QuestionIsTheUsers
  <2> SUFFICES ASSUME ParseInv PROVE QuestionIsTheUsers
    OBVIOUS
  <2>1. Events \in Seq(Event)
    BY EventsType
  <2>2. FromUser(NeekoParse(Events).rounds)
    BY <2>1, NeekoFit, CleanIsUsers
  <2>3. FromUser(StructuredRounds(Events))
    BY <2>1, StructuredFit, CleanIsUsers
  <2>4. ASSUME phase = "done", Structured PROVE out.rounds = StructuredRounds(Events)
    <3>1. CASE form = "lines"
      BY <2>4, <3>1, StructuredResult DEF Events
    <3>2. CASE form = "array"
      <4>1. PICK keys \in KeyOrders : out.rounds = ParseEvents(Events, keys).rounds
        BY <2>4, <3>2, ArrayResult
      <4>2. NeekoParse(Events).rounds = <<>> /\ StructuredRounds(Events) # <<>>
        BY <2>4 DEF Structured
      <4>3. ParseEvents(Events, keys).rounds = StructuredRounds(Events)
        BY <4>2 DEF ParseEvents, parseStructuredEvents, Preferring
      <4>4. QED
        BY <4>1, <4>3
    <3>3. QED
      BY <3>1, <3>2 DEF ParseInv
  <2>5. QED
    BY <2>2, <2>3, <2>4 DEF QuestionIsTheUsers
<1>2. QED
  BY <1>1, InitParses, NextParses, PTL DEF Spec

----------------------------------------------------------------------------
(* What is searched for in values.                                         *)

KeyStep(v, kept, key) == IF key \in DOMAIN Fields(v) THEN Append(kept, key) ELSE kept
KeyFold == INSTANCE RecursionLemmas WITH Step <- KeyStep

\* A search goes only into what lies inside a value.
LEMMA PartsType ==
  ASSUME NEW v \in Value, NEW X, NEW keys \in Seq(X)
  PROVE  Parts(v, keys) \in Seq({w \in Value : Depth(w) < Depth(v)})
<1> DEFINE S == {w \in Value : Depth(w) < Depth(v)}
           D == DOMAIN Fields(v)
           kept == Filtered(keys, LAMBDA key : key \in DOMAIN Fields(v))
<1>1. kept \in Seq(D)
  <2>1. kept = KeyFold!Fold(v, <<>>, keys)
    BY DEF Filtered, FoldLeft, MapThenFoldSet, Max, KeyFold!Fold, KeyFold!IsFold,
           KeyFold!Greatest, KeyStep
  <2> HIDE DEF kept
  <2> DEFINE n == Len(keys)
             T == Seq(D)
  <2>2. n \in Nat /\ DOMAIN keys = 1..n /\ <<>> \in T
    OBVIOUS
  <2>3. \A s \in T : \A x \in D : Append(s, x) \in T
    <3> HIDE DEF D
    <3>1. QED
      OBVIOUS
  <2> HIDE DEF n, T
  <2>4. \A s \in T : \A i \in 1..n : KeyStep(v, s, keys[i]) \in T
    BY <2>3 DEF KeyStep
  <2>5. KeyFold!Fold(v, <<>>, keys) \in T
    BY <2>2, <2>4, KeyFold!FoldKeeps, LeastNumber DEF KeyFold!LeastNumbers
  <2>6. QED
    BY <2>1, <2>5 DEF T
<1> HIDE DEF kept
<1>2. CASE v[1] = "obj"
  <2>1. \A k \in D : Fields(v)[k] \in S
    <3>1. Fields(v) = v[2]
      BY <1>2 DEF Fields
    <3>2. \A k \in DOMAIN v[2] : v[2][k] \in Value /\ Depth(v[2][k]) < Depth(v)
      BY <1>2, ValueAssumption
    <3>3. QED
      BY <3>1, <3>2
  <2>2. Parts(v, keys) = [i \in DOMAIN kept |-> Fields(v)[kept[i]]]
    BY <1>2 DEF Parts, Children, ValuesAt, kept
  <2> HIDE DEF S
  <2>3. \A i \in DOMAIN kept : Fields(v)[kept[i]] \in S
    <3>1. \A i \in DOMAIN kept : kept[i] \in D
      <4> HIDE DEF D
      <4>1. QED
        BY <1>1
    <3>2. QED
      BY <2>1, <3>1
  <2> DEFINE part == [i \in DOMAIN kept |-> Fields(v)[kept[i]]]
  <2>4. \A i \in DOMAIN kept : part[i] \in S
    BY <2>3
  <2>5. part = [i \in DOMAIN kept |-> part[i]]
    OBVIOUS
  <2> HIDE DEF part, D
  <2>6. [i \in DOMAIN kept |-> part[i]] \in Seq(S)
    BY <1>1, <2>4, ListFromMap
  <2>7. QED
    BY <2>2, <2>5, <2>6 DEF S, part
<1>3. CASE v[1] # "obj"
  <2>1. Parts(v, keys) = Items(v)
    BY <1>3 DEF Parts
  <2>2. CASE v[1] = "arr"
    <3>1. Items(v) = v[2] /\ v[2] \in Seq(Value)
      BY <2>2, ValueAssumption DEF Items
    <3>2. \A k \in DOMAIN v[2] : v[2][k] \in S
      <4>1. \A k \in DOMAIN v[2] : Depth(v[2][k]) < Depth(v)
        BY <2>2, ValueAssumption
      <4>2. \A k \in DOMAIN v[2] : v[2][k] \in Value
        BY <3>1
      <4>3. QED
        BY <4>1, <4>2
    <3> HIDE DEF S
    <3>3. v[2] \in Seq(S)
      BY <3>1, <3>2
    <3>4. QED
      BY <2>1, <3>1, <3>3 DEF S
  <2>3. CASE v[1] # "arr"
    BY <2>1, <2>3 DEF Items
  <2>4. QED
    BY <2>2, <2>3
<1>4. QED
  BY <1>2, <1>3

\* The first result that a search has for a part.
FoundIn(keys, f, v) == FirstOf([i \in DOMAIN Parts(v, keys) |-> f[Parts(v, keys)[i]]])

LEMMA SameParts ==
  ASSUME NEW v \in Value, NEW X, NEW keys \in Seq(X), NEW f, NEW g,
         \A w \in Value : Depth(w) < Depth(v) => f[w] = g[w]
  PROVE  [i \in DOMAIN Parts(v, keys) |-> f[Parts(v, keys)[i]]]
         = [i \in DOMAIN Parts(v, keys) |-> g[Parts(v, keys)[i]]]
<1> DEFINE S == {w \in Value : Depth(w) < Depth(v)}
           parts == Parts(v, keys)
<1>1. parts \in Seq(S)
  BY PartsType
<1>2. \A w \in S : f[w] = g[w]
  OBVIOUS
<1> HIDE DEF S, parts
<1>3. \A i \in DOMAIN parts : f[parts[i]] = g[parts[i]]
  BY <1>1, <1>2
<1>4. QED
  BY <1>3 DEF parts

LEMMA FoundType ==
  ASSUME NEW v \in Value, NEW X, NEW keys \in Seq(X), NEW T, <<>> \in T, NEW f,
         \A w \in Value : Depth(w) < Depth(v) => f[w] \in T
  PROVE  FoundIn(keys, f, v) \in T
<1> DEFINE S == {w \in Value : Depth(w) < Depth(v)}
           parts == Parts(v, keys)
           found == [i \in DOMAIN parts |-> f[parts[i]]]
<1>1. parts \in Seq(S)
  BY PartsType
<1>2. \A w \in S : f[w] \in T
  OBVIOUS
<1> HIDE DEF S, parts
<1>3. DOMAIN found = DOMAIN parts /\ \A i \in DOMAIN found : found[i] \in T
  BY <1>1, <1>2
<1> HIDE DEF found
<1>4. FirstOf(found) \in T
  BY <1>1, <1>3, FirstOfType
<1>5. QED
  BY <1>4 DEF FoundIn, found, parts

depthOf == [v \in Value |-> Depth(v)]

LEMMA DepthsAre ==
  /\ \A v \in Value : depthOf[v] = Depth(v)
  /\ \A v \in Value : depthOf[v] \in Nat
BY ValueAssumption DEF depthOf

PromptStep(keys, f, v) == firstNonEmpty(PromptOf(v), FoundIn(keys, f, v))
PromptSearch == INSTANCE RecursionLemmas WITH Step <- PromptStep

LEMMA UserContentType == ASSUME NEW v \in Value PROVE UserContent(v) \in Text
BY FieldType, ContentStringType, WordTexts DEF UserContent

LEMMA PromptOfType == ASSUME NEW v \in Value PROVE PromptOf(v) \in Text
<1>1. LastUserContent(v) \in Text
  <2> DEFINE msgs == Items(Field(v, "messages"))
             found == [i \in DOMAIN msgs |-> UserContent(msgs[i])]
  <2>1. msgs \in Seq(Value)
    BY FieldType, ItemsType
  <2>2. LastUserContent(v) = LastOf(found)
    BY DEF LastUserContent
  <2> HIDE DEF msgs
  <2>3. DOMAIN found = DOMAIN msgs /\ \A i \in DOMAIN found : found[i] \in Text
    <3>1. \A i \in DOMAIN msgs : msgs[i] \in Value
      BY <2>1
    <3>2. QED
      BY <3>1, UserContentType
  <2> HIDE DEF found
  <2>4. QED
    BY <2>1, <2>2, <2>3, LastOfType, WordTexts
<1> DEFINE keyed == [i \in DOMAIN PromptKeys |-> contentStringAny(Field(v, PromptKeys[i]))]
           all == <<LastUserContent(v)>> \o keyed \o <<UserContent(v)>>
<1>2. keyed \in Seq(Text)
  <2> DEFINE content == [i \in DOMAIN PromptKeys |-> contentStringAny(Field(v, PromptKeys[i]))]
             P == PromptKeys
             K == {"user_prompt", "userPrompt", "prompt", "query", "input"}
  <2>1. \A i \in DOMAIN PromptKeys : content[i] \in Text
    BY FieldType, ContentStringType
  <2>2. P \in Seq(K)
    BY DEF PromptKeys
  <2>3. content = [i \in DOMAIN P |-> content[i]]
    OBVIOUS
  <2>4. \A i \in DOMAIN P : content[i] \in Text
    BY <2>1
  <2> HIDE DEF content, P
  <2>5. [i \in DOMAIN P |-> content[i]] \in Seq(Text)
    BY <2>2, <2>4, ListFromMap
  <2>6. QED
    BY <2>3, <2>5 DEF content
<1>3. UserContent(v) \in Text
  BY UserContentType
<1> HIDE DEF keyed
<1>4. all \in Seq(Text)
  <2>1. \A T : \A x \in T : \A y \in T : \A s \in Seq(T) : <<x>> \o s \o <<y>> \in Seq(T)
    OBVIOUS
  <2>2. QED
    BY <1>1, <1>2, <1>3, <2>1
<1>5. PromptOf(v) = FirstOf(all)
  BY DEF PromptOf, keyed
<1> HIDE DEF all
<1>6. FirstOf(all) \in Text
  <2>1. \A i \in DOMAIN all : all[i] \in Text
    BY <1>4
  <2>2. QED
    BY <1>4, <2>1, FirstOfType, WordTexts
<1>7. QED
  BY <1>5, <1>6

LEMMA PromptType ==
  ASSUME NEW v \in Value, NEW X, NEW keys \in Seq(X)
  PROVE  extractPromptFromValue(v, keys) \in Text
<1> DEFINE h == CHOOSE f : PromptSearch!Solves(keys, f, Value)
<1>1. extractPromptFromValue(v, keys) = h[v]
  BY DEF extractPromptFromValue, FirstFound, PromptSearch!Solves, PromptStep, FoundIn
<1>2. PromptSearch!Descends(keys, Value, depthOf)
  <2> SUFFICES ASSUME NEW w \in Value, NEW f, NEW g,
                      \A u \in Value : depthOf[u] < depthOf[w] => f[u] = g[u]
               PROVE  PromptStep(keys, f, w) = PromptStep(keys, g, w)
    BY DEF PromptSearch!Descends
  <2>1. \A u \in Value : Depth(u) < Depth(w) => f[u] = g[u]
    BY DepthsAre
  <2>2. FoundIn(keys, f, w) = FoundIn(keys, g, w)
    BY <2>1, SameParts DEF FoundIn
  <2>3. QED
    BY <2>2 DEF PromptStep
<1>3. ASSUME NEW w \in Value, NEW f, \A u \in Value : depthOf[u] < depthOf[w] => f[u] \in Text
      PROVE  PromptStep(keys, f, w) \in Text
  <2>1. \A u \in Value : Depth(u) < Depth(w) => f[u] \in Text
    BY <1>3, DepthsAre
  <2>2. FoundIn(keys, f, w) \in Text
    BY <2>1, FoundType, WordTexts
  <2>3. QED
    BY <2>2, PromptOfType, FirstNonEmptyType DEF PromptStep
<1>4. PromptSearch!Solves(keys, h, Value)
  BY <1>2, DepthsAre, PromptSearch!RecursionSolves, LeastNumber DEF PromptSearch!LeastNumbers
<1> HIDE DEF h
<1>5. \A w \in Value : (\A u \in Value : depthOf[u] < depthOf[w] => h[u] \in Text)
                       => PromptStep(keys, h, w) \in Text
  BY <1>3
<1>6a. PromptSearch!LeastNumbers
  BY LeastNumber DEF PromptSearch!LeastNumbers
<1>6. \A w \in Value : h[w] \in Text
  BY <1>4, <1>5, <1>6a, DepthsAre, PromptSearch!SolutionKeeps
<1>7. QED
  BY <1>1, <1>6

MaybePayload == {<<>>} \cup {<<p>> : p \in PayloadSet}
TurnSet == [prompt : Text, payload : PayloadSet]

LEMMA PayloadOfType == ASSUME NEW v \in Value PROVE PayloadOf(v) \in MaybePayload
<1> DEFINE choice == IF HasChoice(v) THEN <<payloadFromChoices(v)>> ELSE <<>>
           WhenSpeaking(payload) == IF Speaks(payload) THEN <<payload>> ELSE <<>>
           message == IF stringAny(Field(v, "role")) \in Assistants
                      THEN WhenSpeaking(payloadFromMessageMap(v)) ELSE <<>>
           simple == WhenSpeaking(payloadFromSimpleMap(v))
           all == <<choice, message, simple>>
<1>1. choice \in MaybePayload /\ message \in MaybePayload /\ simple \in MaybePayload
  BY ChoicesType, MessageMapType, SimpleMapType DEF MaybePayload
<1>2. PayloadOf(v) = FirstOf(all)
  BY DEF PayloadOf
<1> HIDE DEF choice, message, simple
<1>3. all \in Seq(MaybePayload) /\ \A i \in DOMAIN all : all[i] \in MaybePayload
  <2> DEFINE A == MaybePayload
  <2>1. choice \in A /\ message \in A /\ simple \in A
    BY <1>1
  <2> HIDE DEF A
  <2>2. all \in Seq(A) /\ \A i \in DOMAIN all : all[i] \in A
    BY <2>1
  <2>3. QED
    BY <2>2 DEF A
<1>4. <<>> \in MaybePayload
  BY DEF MaybePayload
<1> HIDE DEF all
<1>5. QED
  BY <1>2, <1>3, <1>4, FirstOfType

PayloadStep(keys, f, v) == firstNonEmpty(PayloadOf(v), FoundIn(keys, f, v))
PayloadSearch == INSTANCE RecursionLemmas WITH Step <- PayloadStep

LEMMA AnswerType ==
  ASSUME NEW v \in Value, NEW X, NEW keys \in Seq(X)
  PROVE  extractAssistantPayload(v, keys) \in MaybePayload
<1> DEFINE h == CHOOSE f : PayloadSearch!Solves(keys, f, Value)
<1>0. <<>> \in MaybePayload
  BY DEF MaybePayload
<1>1. extractAssistantPayload(v, keys) = h[v]
  BY DEF extractAssistantPayload, FirstFound, PayloadSearch!Solves, PayloadStep, FoundIn
<1>2. PayloadSearch!Descends(keys, Value, depthOf)
  <2> SUFFICES ASSUME NEW w \in Value, NEW f, NEW g,
                      \A u \in Value : depthOf[u] < depthOf[w] => f[u] = g[u]
               PROVE  PayloadStep(keys, f, w) = PayloadStep(keys, g, w)
    BY DEF PayloadSearch!Descends
  <2>1. \A u \in Value : Depth(u) < Depth(w) => f[u] = g[u]
    BY DepthsAre
  <2>2. FoundIn(keys, f, w) = FoundIn(keys, g, w)
    BY <2>1, SameParts DEF FoundIn
  <2>3. QED
    BY <2>2 DEF PayloadStep
<1>3. ASSUME NEW w \in Value, NEW f,
             \A u \in Value : depthOf[u] < depthOf[w] => f[u] \in MaybePayload
      PROVE  PayloadStep(keys, f, w) \in MaybePayload
  <2>1. \A u \in Value : Depth(u) < Depth(w) => f[u] \in MaybePayload
    BY <1>3, DepthsAre
  <2>2. FoundIn(keys, f, w) \in MaybePayload
    BY <1>0, <2>1, FoundType
  <2>3. QED
    BY <2>2, PayloadOfType, FirstNonEmptyType DEF PayloadStep
<1>4. PayloadSearch!Solves(keys, h, Value)
  BY <1>2, DepthsAre, PayloadSearch!RecursionSolves, LeastNumber DEF PayloadSearch!LeastNumbers
<1> HIDE DEF h
<1>5. \A w \in Value : (\A u \in Value : depthOf[u] < depthOf[w] => h[u] \in MaybePayload)
                       => PayloadStep(keys, h, w) \in MaybePayload
  BY <1>3
<1>6a. PayloadSearch!LeastNumbers
  BY LeastNumber DEF PayloadSearch!LeastNumbers
<1>6. \A w \in Value : h[w] \in MaybePayload
  BY <1>4, <1>5, <1>6a, DepthsAre, PayloadSearch!SolutionKeeps
<1>7. QED
  BY <1>1, <1>6

MessageStep(c, acc, msg) ==
    CASE stringAny(Field(msg, "role")) = <<"user">> ->
            [acc EXCEPT !.prompt = firstNonEmpty(UserContent(msg), @)]
      [] stringAny(Field(msg, "role")) \in Assistants ->
            IF Speaks(payloadFromMessageMap(msg))
            THEN [acc EXCEPT !.turns = Append(@, Turn(acc.prompt, payloadFromMessageMap(msg)))]
            ELSE acc
      [] OTHER -> acc
MessageFold == INSTANCE RecursionLemmas WITH Step <- MessageStep

LEMMA TurnsOfMessages ==
  ASSUME NEW msgs \in Seq(Value)
  PROVE  turnsFromMessages(msgs) \in Seq(TurnSet)
<1> DEFINE base == [prompt |-> <<>>, turns |-> <<>>]
           T == [prompt : Text, turns : Seq(TurnSet)]
           n == Len(msgs)
<1>1. turnsFromMessages(msgs) = MessageFold!Fold(0, base, msgs).turns
  BY DEF turnsFromMessages, FoldLeft, MapThenFoldSet, Max, MessageFold!Fold, MessageFold!IsFold,
         MessageFold!Greatest, MessageStep
<1>2. n \in Nat /\ DOMAIN msgs = 1..n /\ base \in T /\ \A i \in 1..n : msgs[i] \in Value
  BY WordTexts
<1>3. ASSUME NEW acc \in T, NEW msg \in Value PROVE MessageStep(0, acc, msg) \in T
  <2>1. UserContent(msg) \in Text /\ payloadFromMessageMap(msg) \in PayloadSet
    BY UserContentType, MessageMapType
  <2>2. acc.prompt \in Text /\ acc.turns \in Seq(TurnSet)
    OBVIOUS
  <2>3. [acc EXCEPT !.prompt = firstNonEmpty(UserContent(msg), @)] \in T
    BY <2>1, <2>2, FirstNonEmptyType
  <2>4. Append(acc.turns, Turn(acc.prompt, payloadFromMessageMap(msg))) \in Seq(TurnSet)
    <3>1. Turn(acc.prompt, payloadFromMessageMap(msg)) \in TurnSet
      BY <2>1, <2>2 DEF Turn, TurnSet
    <3> DEFINE U == TurnSet
               t == Turn(acc.prompt, payloadFromMessageMap(msg))
    <3>2. acc.turns \in Seq(U) /\ t \in U
      BY <2>2, <3>1
    <3> HIDE DEF U, t
    <3>3. Append(acc.turns, t) \in Seq(U)
      BY <3>2
    <3>4. QED
      BY <3>3 DEF U, t
  <2>5. [acc EXCEPT !.turns = Append(@, Turn(acc.prompt, payloadFromMessageMap(msg)))] \in T
    BY <2>4
  <2> HIDE DEF T
  <2>6. QED
    BY <2>3, <2>5 DEF MessageStep
<1> HIDE DEF T, base, n
<1>4. MessageFold!Fold(0, base, msgs) \in T
  BY <1>2, <1>3, MessageFold!FoldKeeps, LeastNumber DEF MessageFold!LeastNumbers
<1>5. QED
  BY <1>1, <1>4 DEF T

TurnSearchStep(keys, f, v) ==
    firstNonEmpty(turnsFromMessages(Items(Field(v, "messages"))),
        IF HasChoice(v)
        THEN <<Turn(extractPromptFromValue(v, keys), payloadFromChoices(v))>>
        ELSE FlattenSeq([i \in DOMAIN Parts(v, keys) |-> f[Parts(v, keys)[i]]]))
TurnSearch == INSTANCE RecursionLemmas WITH Step <- TurnSearchStep

LEMMA TurnSearchStepType ==
  ASSUME NEW v \in Value, NEW X, NEW keys \in Seq(X), NEW f,
         \A w \in Value : Depth(w) < Depth(v) => f[w] \in Seq(TurnSet)
  PROVE  TurnSearchStep(keys, f, v) \in Seq(TurnSet)
<1> DEFINE parts == Parts(v, keys)
           S == {w \in Value : Depth(w) < Depth(v)}
           found == [i \in DOMAIN parts |-> f[parts[i]]]
           T == Seq(TurnSet)
<1>1. turnsFromMessages(Items(Field(v, "messages"))) \in T
  BY FieldType, ItemsType, TurnsOfMessages
<1>2. <<Turn(extractPromptFromValue(v, keys), payloadFromChoices(v))>> \in T
  <2>1. Turn(extractPromptFromValue(v, keys), payloadFromChoices(v)) \in TurnSet
    BY PromptType, ChoicesType DEF Turn, TurnSet
  <2>2. QED
    BY <2>1, ListOfOne
<1>3. FlattenSeq(found) \in T
  <2>1. parts \in Seq(S) /\ \A w \in S : f[w] \in T
    BY PartsType
  <2> HIDE DEF parts, S, T
  <2>2. \A i \in DOMAIN parts : found[i] \in T
    BY <2>1
  <2>3. found = [i \in DOMAIN parts |-> found[i]]
    OBVIOUS
  <2> HIDE DEF found
  <2>4. found \in Seq(T)
    BY <2>1, <2>2, <2>3, ListFromMap
  <2>5. QED
    BY <2>4, FlattenLen DEF T
<1>4. TurnSearchStep(keys, f, v) =
        firstNonEmpty(turnsFromMessages(Items(Field(v, "messages"))),
            IF HasChoice(v)
            THEN <<Turn(extractPromptFromValue(v, keys), payloadFromChoices(v))>>
            ELSE FlattenSeq(found))
  BY DEF TurnSearchStep
<1> HIDE DEF T, found
<1>5. TurnSearchStep(keys, f, v) \in T
  BY <1>1, <1>2, <1>3, <1>4 DEF firstNonEmpty
<1>6. QED
  BY <1>5 DEF T

LEMMA TurnsType ==
  ASSUME NEW v \in Value, NEW X, NEW keys \in Seq(X)
  PROVE  extractConversationTurns(v, keys) \in Seq(TurnSet)
<1> DEFINE h == CHOOSE f : TurnSearch!Solves(keys, f, Value)
           T == Seq(TurnSet)
<1>1. extractConversationTurns(v, keys) = h[v]
  BY DEF extractConversationTurns, TurnSearch!Solves, TurnSearchStep
<1>2. TurnSearch!Descends(keys, Value, depthOf)
  <2> SUFFICES ASSUME NEW w \in Value, NEW f, NEW g,
                      \A u \in Value : depthOf[u] < depthOf[w] => f[u] = g[u]
               PROVE  TurnSearchStep(keys, f, w) = TurnSearchStep(keys, g, w)
    BY DEF TurnSearch!Descends
  <2>1. \A u \in Value : Depth(u) < Depth(w) => f[u] = g[u]
    BY DepthsAre
  <2>2. [i \in DOMAIN Parts(w, keys) |-> f[Parts(w, keys)[i]]]
        = [i \in DOMAIN Parts(w, keys) |-> g[Parts(w, keys)[i]]]
    BY <2>1, SameParts
  <2>3. QED
    BY <2>2 DEF TurnSearchStep
<1>4. TurnSearch!Solves(keys, h, Value)
  BY <1>2, DepthsAre, TurnSearch!RecursionSolves, LeastNumber DEF TurnSearch!LeastNumbers
<1> HIDE DEF h
<1>5. \A w \in Value : (\A u \in Value : depthOf[u] < depthOf[w] => h[u] \in T)
                       => TurnSearchStep(keys, h, w) \in T
  <2> SUFFICES ASSUME NEW w \in Value, \A u \in Value : depthOf[u] < depthOf[w] => h[u] \in T
               PROVE  TurnSearchStep(keys, h, w) \in T
    OBVIOUS
  <2>1. \A u \in Value : Depth(u) < Depth(w) => h[u] \in Seq(TurnSet)
    BY DepthsAre
  <2>2. QED
    BY <2>1, TurnSearchStepType
<1> HIDE DEF T
<1>6a. TurnSearch!LeastNumbers
  BY LeastNumber DEF TurnSearch!LeastNumbers
<1>6. \A w \in Value : h[w] \in T
  BY <1>4, <1>5, <1>6a, DepthsAre, TurnSearch!SolutionKeeps
<1>7. QED
  BY <1>1, <1>6 DEF T

----------------------------------------------------------------------------
(* Rounds in the order of their start.                                     *)

\* Sorting loses nothing and adds nothing.
LEMMA SortedRounds ==
  ASSUME NEW X, NEW s \in Seq(X), \A i \in DOMAIN s : s[i].start \in Nat
  PROVE  /\ DOMAIN SortedByStart(s) = DOMAIN s
         /\ SortedByStart(s) = [k \in DOMAIN s |-> SortedByStart(s)[k]]
         /\ \A k \in DOMAIN s : \E i \in DOMAIN s : SortedByStart(s)[k] = s[i]
         /\ \A i \in DOMAIN s : \E k \in DOMAIN s : SortedByStart(s)[k] = s[i]
<1> DEFINE n == Len(s)
           D == DOMAIN s
           t == [i \in D |-> s[i].start]
           Before(i, j) == t[i] < t[j] \/ (t[i] = t[j] /\ i < j)
           Earlier(i) == {j \in D : Before(j, i)}
           rank == [i \in D |-> Cardinality(Earlier(i)) + 1]
           at == [k \in D |-> CHOOSE i \in D : rank[i] = k]
<1>1. n \in Nat /\ D = 1..n /\ \A i \in D : t[i] \in Nat
  OBVIOUS
<1>2. SortedByStart(s) = [k \in D |-> s[at[k]]]
  <2> DEFINE B(i, j) == \/ s[i].start < s[j].start
                        \/ s[i].start = s[j].start /\ i < j
             E(i) == {j \in D : B(j, i)}
  <2>1. SortedByStart(s) = [k \in D |-> s[CHOOSE i \in D : Cardinality(E(i)) + 1 = k]]
    BY DEF SortedByStart
  <2>2. \A i \in D : E(i) = Earlier(i)
    OBVIOUS
  <2> HIDE DEF Earlier, E
  <2>3. \A i \in D : rank[i] = Cardinality(E(i)) + 1
    BY <2>2
  <2> HIDE DEF rank
  <2>4. \A k \in D : (CHOOSE i \in D : Cardinality(E(i)) + 1 = k) = (CHOOSE i \in D : rank[i] = k)
    BY <2>3
  <2>5. QED
    BY <2>1, <2>4
<1>3. IsFiniteSet(D) /\ Cardinality(D) = n
  <2>1. IsFiniteSet(1..n) /\ Cardinality(1..n) = n
    BY <1>1, FS_Interval
  <2>2. QED
    BY <1>1, <2>1
<1>4. \A i \in D : Earlier(i) \in SUBSET D /\ i \notin Earlier(i)
  BY <1>1
<1>5. \A i, j \in D : i # j => Before(i, j) \/ Before(j, i)
  <2> HIDE DEF t
  <2>1. QED
    BY <1>1
<1>6. \A i, j \in D : Before(i, j) => Earlier(i) \subseteq Earlier(j) /\ i \in Earlier(j)
  <2> SUFFICES ASSUME NEW i \in D, NEW j \in D, Before(i, j)
               PROVE  Earlier(i) \subseteq Earlier(j) /\ i \in Earlier(j)
    OBVIOUS
  <2> HIDE DEF t
  <2>1. \A k \in D : Before(k, i) => Before(k, j)
    <3>1. \A k \in D : k \in Nat /\ t[k] \in Nat
      BY <1>1
    <3> HIDE DEF D
    <3>2. QED
      BY <3>1
  <2>2. QED
    BY <2>1
<1> HIDE DEF Before, Earlier, t, at
<1>7. \A i \in D : IsFiniteSet(Earlier(i)) /\ Cardinality(Earlier(i)) \in Nat
  BY <1>3, <1>4, FS_Subset, FS_CardinalityType
<1>8. ASSUME NEW i \in D PROVE rank[i] \in D
  <2>1. IsFiniteSet(D \ {i}) /\ Cardinality(D \ {i}) = n - 1
    BY <1>3, FS_RemoveElement
  <2>2. Earlier(i) \in SUBSET (D \ {i})
    BY <1>4
  <2>3. Cardinality(Earlier(i)) <= n - 1
    BY <2>1, <2>2, FS_Subset
  <2>4. rank[i] = Cardinality(Earlier(i)) + 1
    OBVIOUS
  <2> HIDE DEF rank
  <2>5. QED
    BY <1>1, <1>7, <2>3, <2>4
<1>9. ASSUME NEW i \in D, NEW j \in D, Before(i, j) PROVE rank[i] < rank[j]
  <2>1. Cardinality(Earlier(i) \cup {i}) = Cardinality(Earlier(i)) + 1
    BY <1>4, <1>7, FS_AddElement
  <2>2. Earlier(i) \cup {i} \in SUBSET Earlier(j)
    BY <1>6, <1>9
  <2>3. Cardinality(Earlier(i) \cup {i}) <= Cardinality(Earlier(j))
    BY <1>7, <2>2, FS_Subset
  <2>4. rank[i] = Cardinality(Earlier(i)) + 1 /\ rank[j] = Cardinality(Earlier(j)) + 1
    OBVIOUS
  <2> HIDE DEF rank
  <2>5. QED
    BY <1>7, <2>1, <2>3, <2>4
<1>10. \A i \in D : rank[i] \in Nat
  BY <1>1, <1>8
<1>11. rank \in Injection(D, D)
  <2>1. rank \in [D -> D]
    <3>1. rank = [i \in D |-> rank[i]]
      OBVIOUS
    <3> HIDE DEF rank
    <3>2. QED
      BY <1>8, <3>1
  <2>2. \A i, j \in D : rank[i] = rank[j] => i = j
    <3> SUFFICES ASSUME NEW i \in D, NEW j \in D, i # j PROVE rank[i] # rank[j]
      OBVIOUS
    <3> HIDE DEF rank
    <3>1. rank[i] < rank[j] \/ rank[j] < rank[i]
      BY <1>5, <1>9
    <3>2. rank[i] \in Nat /\ rank[j] \in Nat
      BY <1>10
    <3>3. QED
      BY <3>1, <3>2
  <2> HIDE DEF rank
  <2>3. QED
    BY <2>1, <2>2 DEF Injection, IsInjective
<1> HIDE DEF rank
<1>12. \A k \in D : \E i \in D : rank[i] = k
  BY <1>3, <1>11, FS_Injection DEF Surjection
<1>13. \A k \in D : at[k] \in D /\ rank[at[k]] = k
  BY <1>12 DEF at
<1>14. \A i \in D : rank[i] \in D /\ at[rank[i]] = i
  <2> SUFFICES ASSUME NEW i \in D PROVE rank[i] \in D /\ at[rank[i]] = i
    OBVIOUS
  <2>1. rank[i] \in D
    BY <1>8
  <2>2. rank[at[rank[i]]] = rank[i] /\ at[rank[i]] \in D
    BY <1>13, <2>1
  <2>3. QED
    BY <1>11, <2>1, <2>2 DEF Injection, IsInjective
<1> HIDE DEF D
<1>15. \A k \in D : SortedByStart(s)[k] = s[at[k]]
  BY <1>2
<1>16. DOMAIN SortedByStart(s) = D /\ SortedByStart(s) = [k \in D |-> SortedByStart(s)[k]]
  BY <1>2
<1>17. \A k \in D : \E i \in D : SortedByStart(s)[k] = s[i]
  BY <1>13, <1>15
<1>18. \A i \in D : \E k \in D : SortedByStart(s)[k] = s[i]
  <2> SUFFICES ASSUME NEW i \in D PROVE \E k \in D : SortedByStart(s)[k] = s[i]
    OBVIOUS
  <2>1. rank[i] \in D /\ SortedByStart(s)[rank[i]] = s[i]
    BY <1>14, <1>15
  <2>2. QED
    BY <2>1
<1>19. QED
  BY <1>16, <1>17, <1>18, Zenon DEF D

LEMMA SortedType ==
  ASSUME NEW R, \A r \in R : r.start \in Nat, NEW s \in Seq(R)
  PROVE  SortedByStart(s) \in Seq(R)
<1> DEFINE sorted == SortedByStart(s)
<1>0. \A i \in DOMAIN s : s[i] \in R
  OBVIOUS
<1>1. \A i \in DOMAIN s : s[i].start \in Nat
  BY <1>0
<1>2. /\ sorted = [k \in DOMAIN s |-> sorted[k]]
      /\ \A k \in DOMAIN s : \E i \in DOMAIN s : sorted[k] = s[i]
  BY <1>1, SortedRounds
<1> HIDE DEF sorted
<1>3. \A k \in DOMAIN s : sorted[k] \in R
  BY <1>0, <1>2
<1>4. [k \in DOMAIN s |-> sorted[k]] \in Seq(R)
  BY <1>3, ListFromMap
<1>5. QED
  BY <1>2, <1>4 DEF sorted

----------------------------------------------------------------------------
(* Rounds made of response items.                                          *)

LEMMA UserMessageType == ASSUME NEW t \in Text PROVE UserMessage(t) \in Seq(MessageSet)
<1> DEFINE msg == [role |-> <<"user">>, content |-> Str(t)]
           M == MessageSet
<1>1. <<"user">> \in Text
  BY WordTexts
<1>2. msg \in M
  BY <1>1 DEF MessageSet, Content
<1> HIDE DEF msg, M
<1>3. <<msg>> \in Seq(M) /\ <<>> \in Seq(M)
  BY <1>2, ListOfOne
<1>4. QED
  BY <1>3 DEF UserMessage, msg, M

LEMMA SingleRoundType ==
  ASSUME NEW prompt \in Ids, NEW user \in Text, NEW call \in CallSet
  PROVE  SingleRound(prompt, user, call) \in WholeRounds(Text)
<1> DEFINE asked == [call EXCEPT !.messages = UserMessage(user)]
<1>1. asked \in CallSet
  BY UserMessageType DEF CallSet
<1> HIDE DEF asked
<1>2. NewRound(prompt, user) \in OpenRounds(Text)
  BY NewRoundFits
<1>3. Joined(NewRound(prompt, user), asked) \in WholeRounds(Text)
  BY <1>1, <1>2, JoinedFits
<1>4. QED
  BY <1>3 DEF SingleRound, asked

LEMMA LaterOfTwo ==
  ASSUME NEW a \in Nat, NEW b \in Nat
  PROVE  Max({a, b}) \in Nat /\ Max({a, b}) >= a /\ Max({a, b}) >= b
<1>1. \E x \in {a, b} : \A y \in {a, b} : x >= y
  OBVIOUS
<1> DEFINE S == {a, b}
<1>2. S \in SUBSET Nat /\ a \in S /\ b \in S
  OBVIOUS
<1> HIDE DEF S
<1>3. Max(S) \in S /\ \A y \in S : Max(S) >= y
  BY <1>1 DEF Max, S
<1>4. QED
  BY <1>2, <1>3 DEF S

-----------------------------------------------------------------------------
TextMaps == UNION {[D -> Text] : D \in SUBSET Text}
AccSet == [id : Text, user : Text, payload : PayloadSet, texts : TextMaps, seen : Seq(Text),
           start : Nat, end : Nat]

LEMMA TextAtType ==
  ASSUME NEW texts \in TextMaps, NEW id
  PROVE  DOMAIN texts \subseteq Text /\ TextAt(texts, id) \in Text
<1>1. PICK D \in SUBSET Text : texts \in [D -> Text]
  BY DEF TextMaps
<1>2. DOMAIN texts = D /\ \A i \in D : texts[i] \in Text
  BY <1>1
<1>3. QED
  BY <1>2, WordTexts DEF TextAt

LEMMA TextMapGrows ==
  ASSUME NEW texts \in TextMaps, NEW id \in Text, NEW text \in Text
  PROVE  Over([i \in {id} |-> text], texts) \in TextMaps
<1> DEFINE new == Over([i \in {id} |-> text], texts)
           E == DOMAIN texts \cup {id}
<1>1. PICK D \in SUBSET Text : texts \in [D -> Text]
  BY DEF TextMaps
<1>2. DOMAIN texts = D /\ \A i \in D : texts[i] \in Text
  BY <1>1
<1>3. new = [f \in E |-> IF f \in {id} THEN text ELSE texts[f]]
  BY DEF Over
<1>4. new \in [E -> Text]
  <2>1. \A f \in E : (IF f \in {id} THEN text ELSE texts[f]) \in Text
    BY <1>2
  <2> HIDE DEF new, E
  <2>2. QED
    BY <1>3, <2>1
<1>5. E \in SUBSET Text
  BY <1>2
<1> HIDE DEF new, E
<1>6. new \in TextMaps
  BY <1>4, <1>5 DEF TextMaps
<1>7. QED
  BY <1>6 DEF new

LEMMA RememberedType ==
  ASSUME NEW seen \in Seq(Text), NEW id \in Text
  PROVE  Remembered(seen, id) \in Seq(Text)
<1> DEFINE T == Text
<1>1. seen \in Seq(T) /\ id \in T
  OBVIOUS
<1> HIDE DEF T
<1>2. Append(seen, id) \in Seq(T)
  BY <1>1
<1>3. Remembered(seen, id) \in Seq(T)
  BY <1>1, <1>2 DEF Remembered
<1>4. QED
  BY <1>3 DEF T

LEMMA WithTextAtType ==
  ASSUME NEW acc \in AccSet, NEW id \in Text, NEW text \in Text
  PROVE  WithTextAt(acc, id, text) \in AccSet
<1>1. acc.seen \in Seq(Text) /\ acc.texts \in TextMaps
  BY DEF AccSet
<1>2. Remembered(acc.seen, id) \in Seq(Text)
      /\ Over([i \in {id} |-> text], acc.texts) \in TextMaps
  BY <1>1, RememberedType, TextMapGrows
<1>3. QED
  BY <1>2 DEF WithTextAt, AccSet

LEMMA WithItemType ==
  ASSUME NEW acc \in AccSet, NEW raw \in Value
  PROVE  WithItem(acc, raw) \in AccSet
<1>1. acc.seen \in Seq(Text) /\ acc.payload \in PayloadSet
  BY DEF AccSet
<1>2. stringAny(firstAny(raw, <<"id", "item_id">>)) \in Text
  BY ListOfTwo, KeyedText
<1>3. Remembered(acc.seen, stringAny(firstAny(raw, <<"id", "item_id">>))) \in Seq(Text)
      /\ WithOutputItem(acc.payload, raw) \in PayloadSet
  BY <1>1, <1>2, RememberedType, WithOutputItemType
<1>4. QED
  BY <1>1, <1>3 DEF WithItem, AccSet

LEMMA WithResponseType ==
  ASSUME NEW acc \in AccSet, NEW resp \in Value
  PROVE  WithResponse(acc, resp) \in AccSet
<1> DEFINE created == int64Any(Field(resp, "created_at")) * 1000
           completed == int64Any(Field(resp, "completed_at")) * 1000
           timed == WithTimes(acc, created, completed)
           id == stringAny(Field(resp, "id"))
           payload == payloadFromResponseMap(resp)
<1>1. created \in Nat /\ completed \in Nat
  <2>1. int64Any(Field(resp, "created_at")) \in Nat /\ int64Any(Field(resp, "completed_at")) \in Nat
    BY FieldType, Int64Type
  <2>2. \A a, b \in Nat : a * 1000 \in Nat /\ b * 1000 \in Nat
    OBVIOUS
  <2>3. QED
    BY <2>1, <2>2
<1>2. id \in Text /\ payload \in PayloadSet
  BY FieldType, StringType, ResponseMapType
<1>3. WithResponse(acc, resp) =
        [timed EXCEPT !.id = firstNonEmpty(@, id), !.payload = mergeAssistantPayload(@, payload)]
  BY DEF WithResponse
<1> HIDE DEF created, completed, id, payload
<1>4. timed \in AccSet
  BY <1>1 DEF WithTimes, AccSet
<1> HIDE DEF timed
<1>5. timed.id \in Text /\ timed.payload \in PayloadSet
  BY <1>4 DEF AccSet
<1>6. firstNonEmpty(timed.id, id) \in Text
      /\ mergeAssistantPayload(timed.payload, payload) \in PayloadSet
  BY <1>2, <1>5, FirstNonEmptyType, MergedType
<1>7. QED
  BY <1>3, <1>4, <1>6 DEF AccSet

LEMMA TypedStepType ==
  ASSUME NEW acc \in AccSet, NEW item \in Value, NEW type, NEW id \in Text
  PROVE  TypedStep(acc, item, type, id) \in AccSet
<1> DEFINE delta == stringAny(Field(item, "delta"))
           text == stringAny(Field(item, "text"))
<1>1. delta \in Text /\ text \in Text
  BY FieldType, StringType
<1>2. TextAt(acc.texts, id) \in Text
  BY TextAtType DEF AccSet
<1>3. TextAt(acc.texts, id) \o delta \in Text
  BY <1>1, <1>2 DEF Text
<1>4. firstNonEmpty(text, TextAt(acc.texts, id)) \in Text
  BY <1>1, <1>2, FirstNonEmptyType
<1>5. /\ WithItem(acc, Field(item, "item")) \in AccSet
      /\ WithTextAt(acc, id, TextAt(acc.texts, id) \o delta) \in AccSet
      /\ WithTextAt(acc, id, firstNonEmpty(text, TextAt(acc.texts, id))) \in AccSet
      /\ WithResponse(acc, Field(item, "response")) \in AccSet
  BY <1>3, <1>4, FieldType, WithItemType, WithTextAtType, WithResponseType
<1>6. QED
  BY <1>5 DEF TypedStep

LEMMA ItemStepType ==
  ASSUME NEW acc \in AccSet, NEW item \in Value, NEW X, NEW keys \in Seq(X)
  PROVE  ItemStep(acc, item, keys) \in AccSet
<1> DEFINE asked == [acc EXCEPT !.user = firstNonEmpty(@, extractPromptFromValue(item, keys))]
           type == stringAny(Field(item, "type"))
           id == stringAny(firstAny(item, <<"item_id", "itemId">>))
<1>1. id \in Text
  BY ListOfTwo, KeyedText
<1>2. asked \in AccSet
  <2>1. acc.user \in Text
    BY DEF AccSet
  <2>2. firstNonEmpty(acc.user, extractPromptFromValue(item, keys)) \in Text
    BY <2>1, PromptType, FirstNonEmptyType
  <2>3. QED
    BY <2>2 DEF AccSet
<1>3. ItemStep(acc, item, keys) = TypedStep(asked, item, type, id)
  BY DEF ItemStep
<1> HIDE DEF asked, type, id
<1>4. QED
  BY <1>1, <1>2, <1>3, TypedStepType

OwnRounds == WholeRounds(Text)

LEMMA PiecedTextType == ASSUME NEW acc \in AccSet PROVE PiecedText(acc) \in Text
<1> DEFINE seen == acc.seen
           texts == [i \in DOMAIN seen |-> TextAt(acc.texts, seen[i])]
           T == Text
<1>1. seen \in Seq(Text) /\ \A id : TextAt(acc.texts, id) \in T
  BY TextAtType DEF AccSet
<1>2. texts \in Seq(T)
  <2>1. \A i \in DOMAIN seen : texts[i] \in T
    BY <1>1
  <2>2. texts = [i \in DOMAIN seen |-> texts[i]]
    OBVIOUS
  <2> HIDE DEF texts, seen, T
  <2>3. [i \in DOMAIN seen |-> texts[i]] \in Seq(T)
    BY <1>1, <2>1, ListFromMap
  <2>4. QED
    BY <2>2, <2>3
<1>3. FlattenSeq(texts) \in Text
  <2> HIDE DEF texts
  <2>1. texts \in Seq(Seq(Word))
    BY <1>2 DEF Text
  <2>2. FlattenSeq(texts) \in Seq(Word)
    BY <2>1, FlattenLen
  <2>3. QED
    BY <2>2 DEF Text
<1>4. PiecedText(acc) = firstNonEmpty(FlattenSeq(texts), TextAt(acc.texts, <<>>))
  BY DEF PiecedText
<1> HIDE DEF texts
<1>5. QED
  BY <1>1, <1>3, <1>4, FirstNonEmptyType

LEMMA WithPiecedTextType == ASSUME NEW acc \in AccSet PROVE WithPiecedText(acc) \in AccSet
<1>1. acc.payload \in PayloadSet
  BY DEF AccSet
<1>2. firstNonEmpty(acc.payload.text, PiecedText(acc)) \in Text
  BY <1>1, PiecedTextType, FirstNonEmptyType DEF PayloadSet
<1>3. [acc.payload EXCEPT !.text = firstNonEmpty(@, PiecedText(acc))] \in PayloadSet
  BY <1>1, <1>2 DEF PayloadSet
<1>4. WithPiecedText(acc)
      = [acc EXCEPT !.payload = [acc.payload EXCEPT !.text = firstNonEmpty(@, PiecedText(acc))]]
  BY DEF WithPiecedText, AccSet
<1>5. QED
  BY <1>3, <1>4 DEF AccSet

\* A round of items is not over before it begins.
LEMMA RoundOfItemsType ==
  ASSUME NEW acc \in AccSet, NEW payload \in PayloadSet, NEW idx \in Nat
  PROVE  RoundOfItems(acc, payload, idx) \in Seq(OwnRounds)
<1> DEFINE prompt == IF acc.id # <<>> THEN Head(acc.id) ELSE "responses-" \o ToString(idx)
           start == firstNonZero(acc.start, idx * 1000)
           end == Max({start, acc.end})
           timed == [payload EXCEPT !.duration = firstNonZero(@, end - start)]
           call == With(Call(prompt, start, end), timed)
<1>1. acc.start \in Nat /\ acc.end \in Nat /\ acc.id \in Text /\ acc.user \in Text
  BY DEF AccSet
<1>2. prompt \in Ids
  <2>1. acc.id # <<>> => Head(acc.id) \in Word
    BY <1>1 DEF Text
  <2>2. "responses-" \o ToString(idx) \in Ids
    BY DEF Ids
  <2>3. \A w \in Word : w \in Ids
    BY DEF Ids
  <2>4. QED
    BY <2>1, <2>2, <2>3
<1>3. start \in Nat
  BY <1>1 DEF firstNonZero
<1> HIDE DEF start
<1>4. end \in Nat /\ end >= start
  BY <1>1, <1>3, LaterOfTwo
<1> HIDE DEF end, prompt
<1>5. timed \in PayloadSet
  <2>1. payload.duration \in Nat /\ end - start \in Nat
    BY <1>3, <1>4 DEF PayloadSet
  <2>2. firstNonZero(payload.duration, end - start) \in Nat
    BY <2>1 DEF firstNonZero
  <2>3. QED
    BY <2>2 DEF PayloadSet
<1> HIDE DEF timed
<1>6. call \in CallSet
  BY <1>2, <1>3, <1>4, <1>5, CallType, WithPayloadType
<1>7. RoundOfItems(acc, payload, idx)
      = IF ~Speaks(payload) THEN <<>> ELSE <<SingleRound(prompt, acc.user, call)>>
  BY DEF RoundOfItems, prompt, start, end, timed
<1> HIDE DEF call
<1>8. SingleRound(prompt, acc.user, call) \in OwnRounds
  BY <1>1, <1>2, <1>6, SingleRoundType DEF OwnRounds
<1>9. QED
  BY <1>7, <1>8, ListOfOne

ItemsStep(keys, acc, item) == ItemStep(acc, item, keys)
ItemsFold == INSTANCE RecursionLemmas WITH Step <- ItemsStep

LEMMA BuiltRoundType ==
  ASSUME NEW ev, ev.ts \in Nat, NEW items \in Seq(Value), NEW idx \in Nat,
         NEW X, NEW keys \in Seq(X)
  PROVE  buildRoundFromResponseItems(ev, items, idx, keys) \in Seq(OwnRounds)
<1> DEFINE base == [id |-> <<>>, user |-> <<>>, payload |-> NoPayload,
                    texts |-> [i \in {} |-> <<>>], seen |-> <<>>,
                    start |-> ev.ts, end |-> ev.ts]
           n == Len(items)
           T == AccSet
           last == ItemsFold!Fold(keys, base, items)
           acc == WithPiecedText(last)
<1>1. buildRoundFromResponseItems(ev, items, idx, keys) = RoundOfItems(acc, acc.payload, idx)
  <2> DEFINE folded == FoldLeft(LAMBDA a, item : ItemStep(a, item, keys), base, items)
  <2>1. buildRoundFromResponseItems(ev, items, idx, keys)
        = RoundOfItems(WithPiecedText(folded), WithPiecedText(folded).payload, idx)
    BY DEF buildRoundFromResponseItems
  <2>2. folded = last
    BY DEF FoldLeft, MapThenFoldSet, Max, ItemsFold!Fold, ItemsFold!IsFold,
           ItemsFold!Greatest, ItemsStep
  <2> HIDE DEF folded, last
  <2>3. QED
    BY <2>1, <2>2
<1>2. n \in Nat /\ DOMAIN items = 1..n /\ \A i \in 1..n : items[i] \in Value
  OBVIOUS
<1>3. base \in T
  <2>1. [i \in {} |-> <<>>] \in TextMaps
    <3>1. [i \in {} |-> <<>>] \in [{} -> Text] /\ {} \in SUBSET Text
      OBVIOUS
    <3>2. QED
      BY <3>1 DEF TextMaps
  <2>2. <<>> \in Seq(Text)
    OBVIOUS
  <2>3. QED
    BY <2>1, <2>2, WordTexts, NoPayloadType DEF AccSet
<1> HIDE DEF base, n
<1>4. \A a \in T : \A i \in 1..n : ItemsStep(keys, a, items[i]) \in T
  BY <1>2, ItemStepType DEF ItemsStep
<1> HIDE DEF T
<1>5. last \in T
  BY <1>2, <1>3, <1>4, ItemsFold!FoldKeeps, LeastNumber DEF ItemsFold!LeastNumbers
<1> HIDE DEF last
<1>6. acc \in AccSet
  BY <1>5, WithPiecedTextType DEF T
<1>7. acc.payload \in PayloadSet
  BY <1>6 DEF AccSet
<1> HIDE DEF acc
<1>8. QED
  BY <1>1, <1>6, <1>7, RoundOfItemsType

LEMMA OwnStarts == \A r \in OwnRounds : r.start \in Nat
BY DEF OwnRounds, WholeRounds, OpenRounds, RoundsIn

LEMMA WrappedType ==
  ASSUME NEW events \in Seq(Event), NEW X, NEW keys \in Seq(X)
  PROVE  parseResponsesWrappedEvents(events, keys).rounds \in Seq(OwnRounds)
<1> DEFINE n == Len(events)
           ItemsAt(i) == Items(events[i].data.value)
           OneOf(i) == IF ItemsAt(i) = <<>> \/ \E j \in DOMAIN ItemsAt(i) : ItemsAt(i)[j][1] # "obj"
                       THEN <<>>
                       ELSE buildRoundFromResponseItems(events[i], ItemsAt(i), i, keys)
           found == [i \in DOMAIN events |-> OneOf(i)]
           R == OwnRounds
           S == Seq(R)
<1>1. parseResponsesWrappedEvents(events, keys).rounds = SortedByStart(FlattenSeq(found))
  BY DEF parseResponsesWrappedEvents
<1>2. ASSUME NEW i \in DOMAIN events PROVE OneOf(i) \in S
  <2>1. i \in Nat /\ events[i] \in Event
    OBVIOUS
  <2>2. events[i].ts \in Nat /\ events[i].data \in Payload
    BY <2>1, EventAssumption
  <2>3. events[i].data.value \in Value
    BY <2>2, FileAssumption
  <2>4. ItemsAt(i) \in Seq(Value)
    BY <2>3, ItemsType
  <2> HIDE DEF ItemsAt
  <2>5. buildRoundFromResponseItems(events[i], ItemsAt(i), i, keys) \in Seq(OwnRounds)
    BY <2>1, <2>2, <2>4, BuiltRoundType
  <2>6. <<>> \in S
    OBVIOUS
  <2>7. QED
    BY <2>5, <2>6
<1> HIDE DEF OneOf, R
<1>3. found \in Seq(S)
  <2>1. \A i \in DOMAIN events : found[i] \in S
    BY <1>2
  <2>2. found = [i \in DOMAIN events |-> found[i]]
    OBVIOUS
  <2> HIDE DEF found, S
  <2>3. QED
    BY <2>1, <2>2, ListFromMap
<1> HIDE DEF found
<1>4. FlattenSeq(found) \in Seq(R)
  BY <1>3, FlattenLen
<1>5. SortedByStart(FlattenSeq(found)) \in Seq(R)
  BY <1>4, SortedType, OwnStarts DEF R
<1>6. QED
  BY <1>1, <1>5 DEF R

----------------------------------------------------------------------------
(* Rounds made of the turns of a conversation.                             *)

LEMMA EventValues ==
  ASSUME NEW ev \in Event
  PROVE  ev.data.value \in Value /\ ItemOf(ev) \in Value /\ ev.ts \in Nat
BY EventAssumption, FileAssumption

\* The first of two results.
LEMMA FirstOfTwo ==
  ASSUME NEW T, <<>> \in T, NEW a \in T, NEW b \in T
  PROVE  FirstOf(<<a, b>>) \in T
<1> DEFINE all == <<a, b>>
<1>1. all \in Seq(T) /\ \A i \in DOMAIN all : all[i] \in T
  OBVIOUS
<1> HIDE DEF all
<1>2. FirstOf(all) \in T
  BY <1>1, FirstOfType
<1>3. QED
  BY <1>2 DEF all

SaidSet == [prompt : Text, turns : Seq(TurnSet)]

LEMMA SayingType ==
  ASSUME NEW ev \in Event, NEW prompt \in Text, NEW X, NEW keys \in Seq(X)
  PROVE  Saying(TurnsIn(ev, keys), ev, prompt, keys) \in SaidSet
<1> DEFINE T == Seq(TurnSet)
           turns == TurnsIn(ev, keys)
           asked == firstNonEmpty(PromptIn(ev, keys), prompt)
           payload == PayloadIn(ev, keys)
<1>1. turns \in T
  <2>1. extractConversationTurns(ev.data.value, keys) \in T
        /\ extractConversationTurns(ItemOf(ev), keys) \in T /\ <<>> \in T
    BY EventValues, TurnsType
  <2> HIDE DEF T
  <2>2. QED
    BY <2>1, FirstOfTwo DEF TurnsIn
<1>2. asked \in Text
  <2>1. extractPromptFromValue(ev.data.value, keys) \in Text
        /\ extractPromptFromValue(ItemOf(ev), keys) \in Text
    BY EventValues, PromptType
  <2>2. PromptIn(ev, keys) \in Text
    BY <2>1, WordTexts, FirstOfTwo DEF PromptIn
  <2>3. QED
    BY <2>2, FirstNonEmptyType
<1>3. payload \in MaybePayload
  <2>1. extractAssistantPayload(ev.data.value, keys) \in MaybePayload
        /\ extractAssistantPayload(ItemOf(ev), keys) \in MaybePayload
    BY EventValues, AnswerType
  <2>2. <<>> \in MaybePayload
    BY DEF MaybePayload
  <2>3. QED
    BY <2>1, <2>2, FirstOfTwo DEF PayloadIn
<1>4. Saying(turns, ev, prompt, keys)
      = IF turns # <<>> THEN [prompt |-> prompt, turns |-> turns] ELSE Answering(asked, payload)
  BY DEF Saying
<1> HIDE DEF turns, asked, payload
<1>5. Answering(asked, payload) \in SaidSet
  <2>1. CASE payload = <<>>
    <3>1. Answering(asked, payload) = [prompt |-> asked, turns |-> <<>>]
      BY <2>1 DEF Answering
    <3>2. QED
      BY <1>2, <3>1 DEF SaidSet
  <2>2. CASE payload # <<>>
    <3>1. PICK p \in PayloadSet : payload = <<p>>
      BY <1>3, <2>2 DEF MaybePayload
    <3>2. Turn(asked, payload[1]) \in TurnSet
      BY <1>2, <3>1 DEF Turn, TurnSet
    <3>3. <<Turn(asked, payload[1])>> \in Seq(TurnSet)
      BY <3>2, ListOfOne
    <3>4. Answering(asked, payload) = [prompt |-> asked, turns |-> <<Turn(asked, payload[1])>>]
      BY <2>2 DEF Answering
    <3>5. QED
      BY <1>2, <3>3, <3>4 DEF SaidSet
  <2>3. QED
    BY <2>1, <2>2
<1>6. QED
  BY <1>1, <1>4, <1>5 DEF SaidSet, turns

LEMMA FallbackCallType ==
  ASSUME NEW id \in Ids, NEW start \in Nat, NEW payload \in PayloadSet
  PROVE  FallbackCall(id, start, payload) \in CallSet
<1> DEFINE end == start + Max({payload.duration, 1})
           silent == [payload EXCEPT !.duration = 0]
<1>1. end \in Nat
  <2>1. payload.duration \in Nat
    BY DEF PayloadSet
  <2>2. Max({payload.duration, 1}) \in Nat
    BY <2>1, LaterOfTwo
  <2>3. QED
    BY <2>2
<1>2. silent \in PayloadSet
  BY DEF PayloadSet
<1> HIDE DEF end, silent
<1>3. With(Call(id, start, end), silent) \in CallSet
  BY <1>1, <1>2, CallType, WithPayloadType
<1>4. QED
  BY <1>3 DEF FallbackCall, end, silent

AskingSet == [prompt : Text, rounds : Seq(OwnRounds)]

LEMMA WithTurnType ==
  ASSUME NEW acc \in AskingSet, NEW turn \in TurnSet, NEW id \in Ids, NEW start \in Nat
  PROVE  WithTurn(acc, turn, id, start) \in AskingSet
<1> DEFINE user == firstNonEmpty(turn.prompt, acc.prompt)
           round == SingleRound(id, user, FallbackCall(id, start, turn.payload))
           R == OwnRounds
<1>1. user \in Text
  BY FirstNonEmptyType DEF TurnSet, AskingSet
<1>2. FallbackCall(id, start, turn.payload) \in CallSet
  BY FallbackCallType DEF TurnSet
<1>3. round \in R
  BY <1>1, <1>2, SingleRoundType DEF OwnRounds
<1>4. acc.rounds \in Seq(R)
  BY DEF AskingSet
<1>5. WithTurn(acc, turn, id, start) = [prompt |-> user, rounds |-> Append(acc.rounds, round)]
  BY DEF WithTurn
<1> HIDE DEF user, round, R
<1>6. Append(acc.rounds, round) \in Seq(R)
  BY <1>3, <1>4
<1>7. QED
  BY <1>1, <1>5, <1>6 DEF AskingSet, R

TurnAdded(c, acc, ti) ==
    WithTurn(acc, c.said.turns[ti],
             "fallback-" \o ToString(c.idx) \o "-" \o ToString(ti), c.ts + ti - 1)
TurnFold == INSTANCE RecursionLemmas WITH Step <- TurnAdded

LEMMA FallbackStepType ==
  ASSUME NEW rounds \in Seq(OwnRounds), NEW said \in SaidSet, NEW ts \in Nat, NEW idx \in Nat
  PROVE  FallbackStep(rounds, said, ts, idx) \in AskingSet
<1> DEFINE c == [said |-> said, ts |-> ts, idx |-> idx]
           base == [prompt |-> said.prompt, rounds |-> rounds]
           turns == said.turns
           places == [i \in DOMAIN turns |-> i]
           n == Len(turns)
           T == AskingSet
<1>1. FallbackStep(rounds, said, ts, idx) = TurnFold!Fold(c, base, places)
  BY DEF FallbackStep, FoldLeftDomain, FoldLeft, MapThenFoldSet, Max, TurnFold!Fold,
         TurnFold!IsFold, TurnFold!Greatest, TurnAdded
<1>2. turns \in Seq(TurnSet) /\ said.prompt \in Text
  BY DEF SaidSet
<1>3. base \in T
  BY <1>2 DEF AskingSet
<1> HIDE DEF base, turns
<1>4. n \in Nat /\ DOMAIN places = 1..n /\ (\A i \in 1..n : places[i] = i)
      /\ \A i \in 1..n : turns[i] \in TurnSet
  BY <1>2
<1> HIDE DEF places, n
<1>5. ASSUME NEW acc \in T, NEW i \in 1..n PROVE TurnAdded(c, acc, places[i]) \in T
  <2> DEFINE id == "fallback-" \o ToString(idx) \o "-" \o ToString(i)
  <2>1. TurnAdded(c, acc, places[i]) = WithTurn(acc, turns[i], id, ts + i - 1)
    BY <1>4 DEF TurnAdded, turns
  <2>2. id \in Ids
    <3>1. i \in Nat /\ <<idx, i>> \in Nat \X Nat
      BY <1>4
    <3>2. id = "fallback-" \o ToString(<<idx, i>>[1]) \o "-" \o ToString(<<idx, i>>[2])
      OBVIOUS
    <3> HIDE DEF id
    <3>3. id \in {"fallback-" \o ToString(p[1]) \o "-" \o ToString(p[2]) : p \in Nat \X Nat}
      BY <3>1, <3>2
    <3>4. QED
      BY <3>3 DEF Ids
  <2>3. ts + i - 1 \in Nat
    BY <1>4
  <2> HIDE DEF id
  <2>4. QED
    BY <1>4, <2>1, <2>2, <2>3, WithTurnType
<1> HIDE DEF T, c
<1>6. TurnFold!Fold(c, base, places) \in T
  BY <1>3, <1>4, <1>5, TurnFold!FoldKeeps, LeastNumber DEF TurnFold!LeastNumbers
<1>7. QED
  BY <1>1, <1>6 DEF T

SayingStep(c, acc, i) ==
    FallbackStep(acc.rounds, Saying(TurnsIn(c.events[i], c.keys), c.events[i], acc.prompt, c.keys),
                 firstNonZero(c.events[i].ts, i * 1000), i)
SayingFold == INSTANCE RecursionLemmas WITH Step <- SayingStep

LEMMA FallbackType ==
  ASSUME NEW events \in Seq(Event), NEW X, NEW keys \in Seq(X)
  PROVE  parseJSONArrayFallback(events, keys).rounds \in Seq(OwnRounds)
<1> DEFINE c == [events |-> events, keys |-> keys]
           base == [prompt |-> <<>>, rounds |-> <<>>]
           places == [i \in DOMAIN events |-> i]
           n == Len(events)
           T == AskingSet
           last == SayingFold!Fold(c, base, places)
<1>1. parseJSONArrayFallback(events, keys).rounds = SortedByStart(last.rounds)
  BY DEF parseJSONArrayFallback, FoldLeftDomain, FoldLeft, MapThenFoldSet, Max, SayingFold!Fold,
         SayingFold!IsFold, SayingFold!Greatest, SayingStep
<1>2. base \in T
  BY WordTexts DEF AskingSet
<1>3. n \in Nat /\ DOMAIN places = 1..n /\ (\A i \in 1..n : places[i] = i)
      /\ \A i \in 1..n : events[i] \in Event
  OBVIOUS
<1> HIDE DEF base, places, n
<1>4. ASSUME NEW acc \in T, NEW i \in 1..n PROVE SayingStep(c, acc, places[i]) \in T
  <2> DEFINE said == Saying(TurnsIn(events[i], keys), events[i], acc.prompt, keys)
             ts == firstNonZero(events[i].ts, i * 1000)
  <2>1. SayingStep(c, acc, places[i]) = FallbackStep(acc.rounds, said, ts, i)
    BY <1>3 DEF SayingStep
  <2>2. acc.prompt \in Text /\ acc.rounds \in Seq(OwnRounds)
    BY DEF AskingSet
  <2>3. said \in SaidSet
    BY <1>3, <2>2, SayingType
  <2>4. ts \in Nat /\ i \in Nat
    BY <1>3, EventValues DEF firstNonZero
  <2> HIDE DEF said, ts
  <2>5. QED
    BY <2>1, <2>2, <2>3, <2>4, FallbackStepType
<1> HIDE DEF T, c
<1>5. last \in T
  BY <1>2, <1>3, <1>4, SayingFold!FoldKeeps, LeastNumber DEF SayingFold!LeastNumbers
<1> HIDE DEF last
<1>6. last.rounds \in Seq(OwnRounds)
  BY <1>5 DEF T, AskingSet
<1>7. QED
  BY <1>1, <1>6, SortedType, OwnStarts

----------------------------------------------------------------------------
(* In every format rounds add up.                                          *)

AllAddUp(rounds) == \A round \in Range(rounds) : AddsUp(round)

LEMMA WholeAllAddUp ==
  ASSUME NEW U, NEW rounds \in Seq(WholeRounds(U))
  PROVE  AllAddUp(rounds)
<1> DEFINE R == WholeRounds(U)
<1>1. \A i \in DOMAIN rounds : rounds[i] \in R
  <2> HIDE DEF R
  <2>1. rounds \in Seq(R)
    BY DEF R
  <2>2. QED
    BY <2>1
<1>2. \A i \in DOMAIN rounds : AddsUp(rounds[i])
  BY <1>1, WholeAddsUp
<1>3. QED
  BY <1>2 DEF AllAddUp, Range

LEMMA AskedAreOwn ==
  ASSUME NEW rounds \in Seq(AskedRounds)
  PROVE  rounds \in Seq(OwnRounds)
<1>1. AskedRounds \subseteq OwnRounds
  BY DEF AskedRounds, OwnRounds, WholeRounds, OpenRounds, RoundsIn, CleanText
<1>2. QED
  BY Zenon, <1>1, LargerSeq

\* What Parse makes of events, by whatever format.
LEMMA ParsedWhole ==
  ASSUME NEW events \in Seq(Event), NEW X, NEW keys \in Seq(X)
  PROVE  ParseEvents(events, keys).rounds \in Seq(OwnRounds)
<1>1. NeekoParse(events).rounds \in Seq(OwnRounds)
  BY NeekoFit, AskedAreOwn
<1>2. StructuredRounds(events) \in Seq(OwnRounds)
  BY StructuredFit, AskedAreOwn
<1>3. parseResponsesWrappedEvents(events, keys).rounds \in Seq(OwnRounds)
  BY WrappedType
<1>4. \/ ParseEvents(events, keys).rounds = NeekoParse(events).rounds
      \/ ParseEvents(events, keys).rounds = StructuredRounds(events)
      \/ ParseEvents(events, keys).rounds = parseResponsesWrappedEvents(events, keys).rounds
      \/ ParseEvents(events, keys).rounds = <<>>
  BY DEF ParseEvents, parseStructuredEvents, Preferring
<1>5. <<>> \in Seq(OwnRounds)
  OBVIOUS
<1>6. QED
  BY <1>1, <1>2, <1>3, <1>4, <1>5

LEMMA BeforeBrokenType ==
  ASSUME NEW seq \in Seq(Event \cup {Broken})
  PROVE  BeforeBroken(seq) \in Seq(Event)
<1> DEFINE n == Len(seq)
           T == {i \in DOMAIN seq : seq[i] = Broken} \cup {n + 1}
           end == Min(T) - 1
           Line == Event \cup {Broken}
<1>1. n \in Nat /\ DOMAIN seq = 1..n /\ \A i \in 1..n : seq[i] \in Line
  OBVIOUS
<1>2. T \in SUBSET Nat /\ T # {} /\ (n + 1) \in T /\ \A i \in T : 1 <= i
  BY <1>1
<1>3. \A i \in 1..n : seq[i] = Broken => i \in T
  BY <1>1
<1>4. BeforeBroken(seq) = SubSeq(seq, 1, end)
  BY DEF BeforeBroken
<1> HIDE DEF n, T
<1>5. Min(T) \in T /\ \A t \in T : Min(T) <= t
  BY <1>2, MinOf
<1>6. end \in Nat /\ end <= n /\ \A i \in 1..end : i \in 1..n /\ i \notin T
  <2>1. Min(T) \in Nat /\ 1 <= Min(T) /\ Min(T) <= n + 1
    BY <1>2, <1>5
  <2>2. ASSUME NEW i \in 1..end PROVE i \in 1..n /\ i \notin T
    <3>1. i \in 1..n /\ ~(Min(T) <= i)
      BY <1>1, <2>1
    <3>2. QED
      BY <1>5, <3>1
  <2>3. end \in Nat /\ end <= n
    BY <1>1, <2>1
  <2>4. QED
    BY <2>2, <2>3
<1>7. \A i \in 1..end : seq[i] \in Event
  BY <1>1, <1>3, <1>6
<1> HIDE DEF end, Line
<1>8. SubSeq(seq, 1, end) = [i \in 1..end |-> seq[i]]
  <2>1. \A S : \A s \in Seq(S) : \A m \in Nat :
           m <= Len(s) => SubSeq(s, 1, m) = [i \in 1..m |-> s[i]]
    OBVIOUS
  <2>2. QED
    BY <1>6, <2>1 DEF n
<1>9. [i \in 1..end |-> seq[i]] \in Seq(Event)
  BY <1>6, <1>7
<1>10. QED
  BY <1>4, <1>8, <1>9

\* An array that is whole may be searched once more.
LEMMA ArrayWhole ==
  ASSUME NEW seq \in Seq(Event \cup {Broken}), NEW noise, NEW X, NEW keys \in Seq(X)
  PROVE  ParseArray(seq, noise, keys).rounds \in Seq(OwnRounds)
<1> DEFINE events == BeforeBroken(seq)
           parsed == ParseEvents(events, keys)
           searched == parseJSONArrayFallback(events, keys)
<1>1. events \in Seq(Event)
  BY BeforeBrokenType
<1> HIDE DEF events
<1>2. parsed.rounds \in Seq(OwnRounds)
  BY <1>1, ParsedWhole
<1>3. searched.rounds \in Seq(OwnRounds)
  BY <1>1, FallbackType
<1>4. ParseArray(seq, noise, keys).rounds \in {parsed.rounds, searched.rounds}
  BY DEF ParseArray, Preferring, events
<1>5. QED
  BY <1>2, <1>3, <1>4

\* What the collector makes of the lines.
LEMMA LinesWhole ==
  ASSUME ParseInv, form = "lines", NEW keys \in KeyOrders
  PROVE  Result(keys).rounds \in Seq(OwnRounds)
<1>1. RoundsOf(Bufs) \in Seq(OwnRounds)
  <2>1. Len(order) \in Nat /\ DOMAIN Bufs = 1..Len(order) /\ DOMAIN order = 1..Len(order)
    BY DEF ParseInv, CountInv, Ordered, Bufs
  <2>2. \A i \in 1..Len(order) : BufFits(Bufs[i])
    BY <2>1, BufsAre
  <2>3. Accounts(RoundsOf(Bufs), Bufs, Len(order))
    BY <2>1, <2>2, AllAccounted
  <2>4. QED
    BY <2>3, AskedAreOwn DEF Accounts
<1>2. parseResponsesWrappedEvents(fallbackEvents, keys).rounds \in Seq(OwnRounds)
  <2>1. fallbackEvents \in Seq(Event) /\ keys \in Seq(STRING)
    BY FileAssumption DEF ParseInv, CountInv
  <2>2. QED
    BY <2>1, WrappedType
<1>3. \/ Result(keys).rounds = RoundsOf(Bufs)
      \/ Result(keys).rounds = parseResponsesWrappedEvents(fallbackEvents, keys).rounds
      \/ Result(keys).rounds = <<>>
  BY DEF Result, Preferring
<1>4. <<>> \in Seq(OwnRounds)
  OBVIOUS
<1>5. QED
  BY <1>1, <1>2, <1>3, <1>4

\* There is nothing in the result before the parse has ended.
NoneYet == phase # "done" => out = NoResult

LEMMA NothingEarly == Spec => []NoneYet
<1>1. Init => NoneYet
  BY DEF Init, NoneYet
<1>2. NoneYet /\ [Next]_vars => NoneYet'
  <2> SUFFICES ASSUME NoneYet, [Next]_vars PROVE NoneYet'
    OBVIOUS
  <2>1. ASSUME NEW f, NEW line, Reads(f, line) PROVE NoneYet'
    BY <2>1 DEF Reads, NoneYet
  <2>2. ASSUME NEW result, Ends(result) PROVE NoneYet'
    BY <2>2 DEF Ends, NoneYet
  <2>3. CASE UNCHANGED vars
    BY <2>3 DEF vars, NoneYet
  <2>4. QED
    BY <2>1, <2>2, <2>3
       DEF Next, ReadLine, ReadElement, ReadBrokenLine, ReadBrokenElement, FinishLines, FinishArray
<1>3. QED
  BY <1>1, <1>2, PTL DEF Spec

LEMMA OutWhole == ParseInv /\ NoneYet => out.rounds \in Seq(OwnRounds)
<1> SUFFICES ASSUME ParseInv, NoneYet PROVE out.rounds \in Seq(OwnRounds)
  OBVIOUS
<1>1. CASE phase # "done"
  <2>1. out = NoResult
    BY <1>1 DEF NoneYet
  <2>2. out.rounds = <<>>
    BY <2>1 DEF NoResult
  <2>3. QED
    BY <2>2
<1>2. CASE phase = "done" /\ form = "lines"
  <2>1. PICK keys \in KeyOrders : out = Result(keys)
    BY <1>2 DEF ParseInv, ResultOf
  <2>2. QED
    BY <1>2, <2>1, LinesWhole
<1>3. CASE phase = "done" /\ form = "array"
  <2>1. PICK keys \in KeyOrders : out.rounds = ParseEvents(Events, keys).rounds
    BY <1>3, ArrayResult
  <2>2. Events \in Seq(Event) /\ keys \in Seq(STRING)
    BY EventsType, FileAssumption
  <2>3. QED
    BY <2>1, <2>2, ParsedWhole
<1>4. QED
  BY <1>1, <1>2, <1>3 DEF ParseInv

LEMMA RoundsStayWhole == Spec => [](out.rounds \in Seq(OwnRounds))
<1>1. Spec => []ParseInv
  BY InitParses, NextParses, PTL DEF Spec
<1>2. QED
  BY <1>1, OutWhole, NothingEarly, PTL

(* Whatever a file says and in whichever format: a round has calls, begins *)
(* with the earliest of them that has a time, is not over before any of    *)
(* them, and counts the tokens that they count.                            *)
THEOREM RoundsAreSums == Spec => []RoundsAddUp
<1>1. ParseInv /\ out.rounds \in Seq(OwnRounds) => RoundsAddUp
  <2> SUFFICES ASSUME ParseInv, out.rounds \in Seq(OwnRounds) PROVE RoundsAddUp
    OBVIOUS
  <2>1. AllAddUp(out.rounds)
    BY WholeAllAddUp DEF OwnRounds
  <2>2. ASSUME NEW keys \in KeyOrders PROVE AllAddUp(ParseArray(lines, FALSE, keys).rounds)
    <3>1. lines \in Seq(Event \cup {Broken}) /\ keys \in Seq(STRING)
      BY FileAssumption DEF ParseInv
    <3>2. QED
      BY <3>1, ArrayWhole, WholeAllAddUp DEF OwnRounds
  <2>3. QED
    BY <2>1, <2>2 DEF RoundsAddUp, AllAddUp
<1>2. Spec => []ParseInv
  BY InitParses, NextParses, PTL DEF Spec
<1>3. QED
  BY <1>1, <1>2, RoundsStayWhole, PTL

----------------------------------------------------------------------------
(* The spans of a session.                                                 *)

LEMMA ConcatRange ==
  ASSUME NEW T, NEW a \in Seq(T), NEW b \in Seq(T)
  PROVE  a \o b \in Seq(T) /\ \A x : x \in Range(a \o b) <=> x \in Range(a) \/ x \in Range(b)
<1> DEFINE both == a \o b
           m == Len(a)
           n == Len(b)
<1>1. /\ m \in Nat /\ n \in Nat /\ DOMAIN a = 1..m /\ DOMAIN b = 1..n
      /\ both \in Seq(T) /\ DOMAIN both = 1..(m + n)
      /\ \A i \in 1..m : both[i] = a[i]
      /\ \A i \in 1..n : both[m + i] = b[i]
  OBVIOUS
<1> HIDE DEF both, m, n
<1>2. ASSUME NEW i \in DOMAIN both PROVE both[i] \in Range(a) \/ both[i] \in Range(b)
  <2>1. CASE i <= m
    BY <1>1, <2>1 DEF Range
  <2>2. CASE ~(i <= m)
    <3>1. i - m \in 1..n /\ i = m + (i - m)
      BY <1>1, <2>2
    <3>2. both[i] = b[i - m]
      BY <1>1, <3>1
    <3>3. QED
      BY <1>1, <3>1, <3>2 DEF Range
  <2>3. QED
    BY <2>1, <2>2
<1>3. ASSUME NEW i \in DOMAIN a PROVE a[i] \in Range(both)
  BY <1>1 DEF Range
<1>4. ASSUME NEW i \in DOMAIN b PROVE b[i] \in Range(both)
  <2>1. m + i \in DOMAIN both /\ both[m + i] = b[i]
    BY <1>1
  <2>2. QED
    BY <2>1 DEF Range
<1>5. \A x : x \in Range(both) <=> x \in Range(a) \/ x \in Range(b)
  BY <1>2, <1>3, <1>4 DEF Range
<1>6. QED
  BY <1>1, <1>5 DEF both

\* A flattened list has the elements of its parts.
LEMMA FlattenRange ==
  ASSUME NEW T, NEW seqs \in Seq(Seq(T))
  PROVE  \A x : x \in Range(FlattenSeq(seqs)) <=> \E i \in DOMAIN seqs : x \in Range(seqs[i])
<1> DEFINE n == Len(seqs)
           S == Seq(T)
<1>1. n \in Nat /\ (n = 0 <=> seqs = <<>>) /\ DOMAIN seqs = 1..n
  OBVIOUS
<1>2. CASE seqs = <<>>
  BY <1>2, FlattenOfNone DEF Range
<1>3. CASE seqs # <<>>
  <2>1. PICK f : /\ FlattenSeq(seqs) = f[n]
                 /\ \A i \in 1..n : f[i] = IF i = 1 THEN seqs[i] ELSE f[i - 1] \o seqs[i]
    <3> HIDE DEF S
    <3>1. seqs \in Seq(S)
      BY DEF S
    <3>2. QED
      BY <1>3, <3>1, FlattenRuns
  <2>2. \A i \in 1..n : seqs[i] \in Seq(T)
    OBVIOUS
  <2> DEFINE Among(i, x) == \E j \in 1..i : x \in Range(seqs[j])
             P == {i \in 0..n : i = 0 \/ (/\ f[i] \in Seq(T)
                                          /\ \A x : x \in Range(f[i]) <=> Among(i, x))}
  <2>3. P \in SUBSET (0..n) /\ 0 \in P
    BY <1>1
  <2>4. ASSUME NEW i \in 1..n, i - 1 \in P PROVE i \in P
    <3>0. i \in 0..n /\ i \in Nat
      BY <1>1
    <3>1. f[i] = IF i = 1 THEN seqs[i] ELSE f[i - 1] \o seqs[i]
      BY <2>1
    <3>2. CASE i = 1
      <4>1. \A x : Among(1, x) <=> x \in Range(seqs[1])
        OBVIOUS
      <4> HIDE DEF Among
      <4>2. f[i] \in Seq(T) /\ \A x : x \in Range(f[i]) <=> Among(i, x)
        BY <2>2, <3>1, <3>2, <4>1
      <4>3. QED
        BY <3>0, <4>2
    <3>3. CASE i # 1
      <4>1. f[i - 1] \in Seq(T) /\ \A x : x \in Range(f[i - 1]) <=> Among(i - 1, x)
        BY <1>1, <2>4, <3>3
      <4>2. \A x : Among(i, x) <=> Among(i - 1, x) \/ x \in Range(seqs[i])
        <5>1. \A j : j \in 1..i <=> j \in 1..(i - 1) \/ j = i
          BY <3>0
        <5>2. QED
          BY <5>1
      <4> HIDE DEF Among, P
      <4>3. f[i] \in Seq(T) /\ \A x : x \in Range(f[i]) <=> x \in Range(f[i - 1]) \/ x \in Range(seqs[i])
        BY <2>2, <3>1, <3>3, <4>1, ConcatRange
      <4>4. \A x : x \in Range(f[i]) <=> Among(i, x)
        BY <4>1, <4>2, <4>3
      <4>5. QED
        BY <3>0, <4>3, <4>4 DEF P
    <3>4. QED
      BY <3>2, <3>3
  <2> HIDE DEF P
  <2>5. P = 0..n
    BY <1>1, <2>3, <2>4, Flat!HoldsAlong, LeastNumber DEF Flat!LeastNumbers
  <2>6. \A x : x \in Range(f[n]) <=> Among(n, x)
    <3>1. n \in P /\ n # 0
      BY <1>1, <1>3, <2>5
    <3> HIDE DEF Among
    <3>2. QED
      BY <3>1 DEF P
  <2>7. QED
    BY <1>1, <2>1, <2>6
<1>4. QED
  BY <1>2, <1>3

(* What is kept of a list, element by element, is what of it belongs to a  *)
(* set.                                                                    *)
LEMMA KeptRange ==
  ASSUME NEW S, NEW seq \in Seq(S), NEW C, NEW run,
         run[0] = <<>>,
         \A i \in 1..Len(seq) :
            run[i] = IF seq[i] \in C THEN Append(run[i - 1], seq[i]) ELSE run[i - 1]
  PROVE  /\ run[Len(seq)] \in Seq(S)
         /\ \A x : x \in Range(run[Len(seq)]) <=> x \in Range(seq) /\ x \in C
<1> DEFINE n == Len(seq)
           Among(i, x) == \E j \in 1..i : x = seq[j] /\ x \in C
           P == {i \in 0..n : run[i] \in Seq(S) /\ \A x : x \in Range(run[i]) <=> Among(i, x)}
<1>1. n \in Nat /\ DOMAIN seq = 1..n /\ \A i \in 1..n : seq[i] \in S
  OBVIOUS
<1>2. P \in SUBSET (0..n) /\ 0 \in P
  <2>1. run[0] \in Seq(S) /\ \A x : x \in Range(run[0]) <=> Among(0, x)
    <3>1. run[0] \in Seq(S) /\ DOMAIN run[0] = {} /\ 1..0 = {}
      OBVIOUS
    <3>2. \A x : ~(x \in Range(run[0]))
      BY <3>1 DEF Range
    <3>3. \A x : ~Among(0, x)
      BY <3>1
    <3> HIDE DEF Among
    <3>4. QED
      BY <3>1, <3>2, <3>3
  <2>2. 0 \in 0..n
    BY <1>1
  <2> HIDE DEF Among
  <2>3. QED
    BY <2>1, <2>2
<1>3. ASSUME NEW i \in 1..n, i - 1 \in P PROVE i \in P
  <2> DEFINE before == run[i - 1]
             y == seq[i]
  <2>0. i \in 0..n /\ i \in Nat /\ y \in S
    BY <1>1
  <2>1. before \in Seq(S) /\ \A x : x \in Range(before) <=> Among(i - 1, x)
    BY <1>3
  <2>2. \A x : Among(i, x) <=> Among(i - 1, x) \/ (x = y /\ x \in C)
    <3>1. \A j : j \in 1..i <=> j \in 1..(i - 1) \/ j = i
      BY <2>0
    <3>2. QED
      BY <3>1
  <2>3. run[i] = IF y \in C THEN Append(before, y) ELSE before
    OBVIOUS
  <2> HIDE DEF Among, before, y, P
  <2>4. Append(before, y) \in Seq(S)
        /\ \A x : x \in Range(Append(before, y)) <=> x \in Range(before) \/ x = y
    <3>1. before \in Seq(S) /\ y \in S
      BY <2>0, <2>1
    <3> DEFINE more == Append(before, y)
               m == Len(before)
    <3>2. /\ more \in Seq(S) /\ m \in Nat /\ DOMAIN before = 1..m
          /\ DOMAIN more = 1..(m + 1) /\ more[m + 1] = y
          /\ \A k \in 1..m : more[k] = before[k]
      BY <3>1
    <3> HIDE DEF more, m
    <3>3. \A k : k \in 1..(m + 1) <=> k \in 1..m \/ k = m + 1
      BY <3>2
    <3>4. \A x : x \in Range(more) <=> x \in Range(before) \/ x = y
      BY <3>2, <3>3 DEF Range
    <3>5. QED
      BY <3>2, <3>4 DEF more
  <2>5. run[i] \in Seq(S) /\ \A x : x \in Range(run[i]) <=> Among(i, x)
    BY <2>1, <2>2, <2>3, <2>4
  <2>6. QED
    BY <2>0, <2>5 DEF P
<1> HIDE DEF P
<1>4. P = 0..n
  BY <1>1, <1>2, <1>3, Flat!HoldsAlong, LeastNumber DEF Flat!LeastNumbers
<1>5. run[n] \in Seq(S) /\ \A x : x \in Range(run[n]) <=> Among(n, x)
  <2>1. n \in P
    BY <1>1, <1>4
  <2> HIDE DEF Among
  <2>2. QED
    BY <2>1 DEF P
<1>6. \A x : Among(n, x) <=> x \in Range(seq) /\ x \in C
  BY <1>1 DEF Range
<1>7. QED
  BY <1>5, <1>6

TypeStep(type, kept, sp) == IF sp.type = type THEN Append(kept, sp) ELSE kept
RealStep(c, kept, sp) == IF ~isSyntheticModelSpan(sp) THEN Append(kept, sp) ELSE kept
SpokenStep(c, kept, sp) == IF ~Silent(sp.output) THEN Append(kept, sp) ELSE kept
TypeFold == INSTANCE RecursionLemmas WITH Step <- TypeStep
RealFold == INSTANCE RecursionLemmas WITH Step <- RealStep
SpokenFold == INSTANCE RecursionLemmas WITH Step <- SpokenStep

OfType(spans, type) == Filtered(spans, LAMBDA sp : sp.type = type)
Speaking(spans) == Filtered(spans, LAMBDA sp : ~Silent(sp.output))

LEMMA TypeRange ==
  ASSUME NEW S, NEW seq \in Seq(S), NEW type
  PROVE  /\ OfType(seq, type) \in Seq(S)
         /\ \A x : x \in Range(OfType(seq, type)) <=> x \in Range(seq) /\ x.type = type
<1> DEFINE n == Len(seq)
           C == {x \in S : x.type = type}
<1>1. n \in Nat /\ DOMAIN seq = 1..n /\ \A i \in 1..n : seq[i] \in S
  OBVIOUS
<1>2. OfType(seq, type) = TypeFold!Fold(type, <<>>, seq)
  BY DEF OfType, Filtered, FoldLeft, MapThenFoldSet, Max, TypeFold!Fold, TypeFold!IsFold,
         TypeFold!Greatest, TypeStep
<1>3. \A c, base : \E run : TypeFold!IsRun(c, base, seq, n, run)
                            /\ TypeFold!Fold(c, base, seq) = run[n]
  BY <1>1, TypeFold!FoldRuns, LeastNumber DEF TypeFold!LeastNumbers
<1>4. PICK run : TypeFold!IsRun(type, <<>>, seq, n, run)
                 /\ TypeFold!Fold(type, <<>>, seq) = run[n]
  BY <1>3
<1>5. /\ run[0] = <<>>
      /\ \A i \in 1..n : run[i] = IF seq[i] \in C THEN Append(run[i - 1], seq[i]) ELSE run[i - 1]
  BY <1>1, <1>4 DEF TypeFold!IsRun, TypeStep
<1> HIDE DEF C
<1>6. run[n] \in Seq(S) /\ \A x : x \in Range(run[n]) <=> x \in Range(seq) /\ x \in C
  BY <1>5, KeptRange
<1>7. \A x \in Range(seq) : x \in C <=> x.type = type
  BY <1>1 DEF Range, C
<1>8. QED
  BY <1>2, <1>4, <1>6, <1>7

LEMMA RealRange ==
  ASSUME NEW S, NEW seq \in Seq(S)
  PROVE  /\ RealModelSpans(seq) \in Seq(S)
         /\ \A x : x \in Range(RealModelSpans(seq))
                   <=> x \in Range(seq) /\ ~isSyntheticModelSpan(x)
<1> DEFINE n == Len(seq)
           C == {x \in S : ~isSyntheticModelSpan(x)}
<1>1. n \in Nat /\ DOMAIN seq = 1..n /\ \A i \in 1..n : seq[i] \in S
  OBVIOUS
<1>2. RealModelSpans(seq) = RealFold!Fold(0, <<>>, seq)
  BY DEF RealModelSpans, Filtered, FoldLeft, MapThenFoldSet, Max, RealFold!Fold,
         RealFold!IsFold, RealFold!Greatest, RealStep
<1>3. \A c, base : \E run : RealFold!IsRun(c, base, seq, n, run)
                            /\ RealFold!Fold(c, base, seq) = run[n]
  BY <1>1, RealFold!FoldRuns, LeastNumber DEF RealFold!LeastNumbers
<1>4. PICK run : RealFold!IsRun(0, <<>>, seq, n, run) /\ RealFold!Fold(0, <<>>, seq) = run[n]
  BY <1>3
<1>5. /\ run[0] = <<>>
      /\ \A i \in 1..n : run[i] = IF seq[i] \in C THEN Append(run[i - 1], seq[i]) ELSE run[i - 1]
  BY <1>1, <1>4 DEF RealFold!IsRun, RealStep
<1> HIDE DEF C
<1>6. run[n] \in Seq(S) /\ \A x : x \in Range(run[n]) <=> x \in Range(seq) /\ x \in C
  BY <1>5, KeptRange
<1>7. \A x \in Range(seq) : x \in C <=> ~isSyntheticModelSpan(x)
  BY <1>1 DEF Range, C
<1>8. QED
  BY <1>2, <1>4, <1>6, <1>7

LEMMA SpeakingRange ==
  ASSUME NEW S, NEW seq \in Seq(S)
  PROVE  /\ Speaking(seq) \in Seq(S)
         /\ \A x : x \in Range(Speaking(seq)) <=> x \in Range(seq) /\ ~Silent(x.output)
<1> DEFINE n == Len(seq)
           C == {x \in S : ~Silent(x.output)}
<1>1. n \in Nat /\ DOMAIN seq = 1..n /\ \A i \in 1..n : seq[i] \in S
  OBVIOUS
<1>2. Speaking(seq) = SpokenFold!Fold(0, <<>>, seq)
  BY DEF Speaking, Filtered, FoldLeft, MapThenFoldSet, Max, SpokenFold!Fold,
         SpokenFold!IsFold, SpokenFold!Greatest, SpokenStep
<1>3. \A c, base : \E run : SpokenFold!IsRun(c, base, seq, n, run)
                            /\ SpokenFold!Fold(c, base, seq) = run[n]
  BY <1>1, SpokenFold!FoldRuns, LeastNumber DEF SpokenFold!LeastNumbers
<1>4. PICK run : SpokenFold!IsRun(0, <<>>, seq, n, run) /\ SpokenFold!Fold(0, <<>>, seq) = run[n]
  BY <1>3
<1>5. /\ run[0] = <<>>
      /\ \A i \in 1..n : run[i] = IF seq[i] \in C THEN Append(run[i - 1], seq[i]) ELSE run[i - 1]
  BY <1>1, <1>4 DEF SpokenFold!IsRun, SpokenStep
<1> HIDE DEF C
<1>6. run[n] \in Seq(S) /\ \A x : x \in Range(run[n]) <=> x \in Range(seq) /\ x \in C
  BY <1>5, KeptRange
<1>7. \A x \in Range(seq) : x \in C <=> ~Silent(x.output)
  BY <1>1 DEF Range, C
<1>8. QED
  BY <1>2, <1>4, <1>6, <1>7

\* What the rules look at.
LEMMA HeardRange ==
  ASSUME NEW S, NEW models \in Seq(S)
  PROVE  /\ RealModelSpans(models) \in Seq(S) /\ Heard(models) \in Seq(S)
         /\ \A x : x \in Range(Heard(models))
                   <=> x \in Range(models) /\ ~isSyntheticModelSpan(x) /\ ~Silent(x.output)
<1>1. Heard(models) = Speaking(RealModelSpans(models))
  BY DEF Heard, Speaking
<1>2. RealModelSpans(models) \in Seq(S)
      /\ \A x : x \in Range(RealModelSpans(models))
                <=> x \in Range(models) /\ ~isSyntheticModelSpan(x)
  BY RealRange
<1> DEFINE real == RealModelSpans(models)
<1> HIDE DEF real
<1>3. Speaking(real) \in Seq(S)
      /\ \A x : x \in Range(Speaking(real)) <=> x \in Range(real) /\ ~Silent(x.output)
  BY <1>2, SpeakingRange DEF real
<1>4. QED
  BY <1>1, <1>2, <1>3 DEF real

----------------------------------------------------------------------------
(* Rules and score agree on answers.                                       *)

SpanSet == {ModelSpan(round, ci) : round \in OwnRounds, ci \in Nat}
           \cup {ToolSpan(round, ci, ti) : round \in OwnRounds, ci \in Nat, ti \in Nat}
CallSpans(round, ci) ==
    <<ModelSpan(round, ci)>>
    \o [ti \in DOMAIN round.calls[ci].tools |-> ToolSpan(round, ci, ti)]
IsToolOf(round, ci, sp) ==
    \E ti \in DOMAIN round.calls[ci].tools : sp = ToolSpan(round, ci, ti)
IsSpanOf(round, sp) ==
    \E ci \in DOMAIN round.calls : sp = ModelSpan(round, ci) \/ IsToolOf(round, ci, sp)

LEMMA RoundCalls ==
  ASSUME NEW round \in OwnRounds, NEW ci \in DOMAIN round.calls
  PROVE  /\ ci \in Nat /\ Len(round.calls) \in Nat /\ DOMAIN round.calls = 1..Len(round.calls)
         /\ round.calls[ci].start \in Nat
         /\ round.calls[ci].tools \in Seq(ToolSet)
         /\ round.calls[ci].reasoning \in Text
<1>1. round.calls \in Seq(CallSet)
  BY DEF OwnRounds, WholeRounds, OpenRounds, RoundsIn
<1>2. \A call \in CallSet : call.start \in Nat /\ call.tools \in Seq(ToolSet)
                          /\ call.reasoning \in Text
  BY DEF CallSet
<1> DEFINE C == CallSet
<1> HIDE DEF C
<1>3. round.calls \in Seq(C)
  BY <1>1 DEF C
<1>4. /\ round.calls[ci] \in C /\ ci \in Nat /\ Len(round.calls) \in Nat
      /\ DOMAIN round.calls = 1..Len(round.calls)
  BY <1>3
<1>5. QED
  BY <1>2, <1>4 DEF C

LEMMA CallSpansAre ==
  ASSUME NEW round \in OwnRounds, NEW ci \in DOMAIN round.calls
  PROVE  /\ CallSpans(round, ci) \in Seq(SpanSet)
         /\ \A sp : sp \in Range(CallSpans(round, ci))
                    <=> sp = ModelSpan(round, ci) \/ IsToolOf(round, ci, sp)
<1> DEFINE tools == round.calls[ci].tools
           n == Len(tools)
           T == SpanSet
           first == <<ModelSpan(round, ci)>>
           rest == [ti \in DOMAIN tools |-> ToolSpan(round, ci, ti)]
<1>1. ci \in Nat /\ tools \in Seq(ToolSet)
  BY RoundCalls
<1>2. n \in Nat /\ DOMAIN tools = 1..n
  BY <1>1
<1>3. ModelSpan(round, ci) \in T
  BY <1>1 DEF SpanSet
<1>4. \A ti \in DOMAIN tools : ToolSpan(round, ci, ti) \in T
  BY <1>1, <1>2 DEF SpanSet
<1>5. CallSpans(round, ci) = first \o rest
  BY DEF CallSpans
<1>6. \A sp : IsToolOf(round, ci, sp) <=> sp \in Range(rest)
  BY DEF IsToolOf, Range
<1>7. \A sp : sp = ModelSpan(round, ci) <=> sp \in Range(first)
  BY DEF Range
<1> HIDE DEF T, tools, n
<1>8. first \in Seq(T)
  BY <1>3, ListOfOne
<1>9. rest \in Seq(T)
  <2>1. \A ti \in 1..n : rest[ti] \in T
    BY <1>2, <1>4
  <2>2. rest = [ti \in 1..n |-> rest[ti]]
    BY <1>2
  <2> HIDE DEF rest
  <2>3. [ti \in 1..n |-> rest[ti]] \in Seq(T)
    BY <1>2, <2>1
  <2>4. QED
    BY <2>2, <2>3
<1> HIDE DEF first, rest
<1>10. first \o rest \in Seq(T)
       /\ \A sp : sp \in Range(first \o rest) <=> sp \in Range(first) \/ sp \in Range(rest)
  BY <1>8, <1>9, ConcatRange
<1>11. QED
  BY <1>5, <1>6, <1>7, <1>10 DEF T

LEMMA RoundSpansAre ==
  ASSUME NEW round \in OwnRounds
  PROVE  /\ buildSpansFromRound(round) \in Seq(SpanSet)
         /\ \A sp : sp \in Range(buildSpansFromRound(round)) <=> IsSpanOf(round, sp)
<1> DEFINE T == SpanSet
           asked == round.calls
           n == Len(asked)
           parts == [ci \in DOMAIN asked |-> CallSpans(round, ci)]
<1>1. n \in Nat /\ DOMAIN asked = 1..n
  <2>1. asked \in Seq(CallSet)
    BY DEF OwnRounds, WholeRounds, OpenRounds, RoundsIn
  <2>2. QED
    BY <2>1
<1>2. buildSpansFromRound(round) = FlattenSeq(parts)
  BY DEF buildSpansFromRound, CallSpans
<1>3. \A ci \in DOMAIN asked :
         /\ CallSpans(round, ci) \in Seq(T)
         /\ \A sp : sp \in Range(CallSpans(round, ci))
                    <=> sp = ModelSpan(round, ci) \/ IsToolOf(round, ci, sp)
  BY CallSpansAre
<1> HIDE DEF T, n
<1>4. parts \in Seq(Seq(T))
  <2> DEFINE Q == Seq(T)
  <2>1. \A ci \in 1..n : parts[ci] \in Q
    BY <1>1, <1>3
  <2>2. parts = [ci \in 1..n |-> parts[ci]]
    BY <1>1
  <2> HIDE DEF parts, Q
  <2>3. [ci \in 1..n |-> parts[ci]] \in Seq(Q)
    BY <1>1, <2>1
  <2>4. QED
    BY <2>2, <2>3 DEF Q
<1>5. DOMAIN parts = DOMAIN asked /\ \A ci \in DOMAIN asked : parts[ci] = CallSpans(round, ci)
  OBVIOUS
<1> HIDE DEF parts
<1>6. FlattenSeq(parts) \in Seq(T)
  BY <1>4, FlattenLen
<1>7. \A sp : sp \in Range(FlattenSeq(parts)) <=> \E ci \in DOMAIN parts : sp \in Range(parts[ci])
  BY <1>4, FlattenRange
<1>8. QED
  BY <1>2, <1>3, <1>5, <1>6, <1>7 DEF T, IsSpanOf

LEMMA AllSpansAre ==
  ASSUME NEW rounds \in Seq(OwnRounds), NEW spans,
         spans = FlattenSeq([i \in DOMAIN rounds |-> buildSpansFromRound(rounds[i])])
  PROVE  /\ spans \in Seq(SpanSet)
         /\ \A sp : sp \in Range(spans) <=> \E i \in DOMAIN rounds : IsSpanOf(rounds[i], sp)
<1> DEFINE T == SpanSet
           R == OwnRounds
           n == Len(rounds)
           parts == [i \in DOMAIN rounds |-> buildSpansFromRound(rounds[i])]
<1>1. \A round \in R : /\ buildSpansFromRound(round) \in Seq(T)
                       /\ \A sp : sp \in Range(buildSpansFromRound(round))
                                  <=> IsSpanOf(round, sp)
  BY RoundSpansAre
<1> HIDE DEF T, R
<1>2. n \in Nat /\ DOMAIN rounds = 1..n /\ \A i \in 1..n : rounds[i] \in R
  BY DEF R
<1>3. DOMAIN parts = 1..n /\ \A i \in 1..n : parts[i] = buildSpansFromRound(rounds[i])
  BY <1>2
<1>4. parts \in Seq(Seq(T))
  <2> DEFINE Q == Seq(T)
  <2>1. \A i \in 1..n : parts[i] \in Q
    BY <1>1, <1>2, <1>3
  <2>2. parts = [i \in 1..n |-> parts[i]]
    BY <1>3
  <2> HIDE DEF parts, Q, n
  <2>3. [i \in 1..n |-> parts[i]] \in Seq(Q)
    BY <1>2, <2>1
  <2>4. QED
    BY <2>2, <2>3 DEF Q
<1>5. spans = FlattenSeq(parts)
  OBVIOUS
<1> HIDE DEF parts, n
<1>6. FlattenSeq(parts) \in Seq(T)
  BY <1>4, FlattenLen
<1>7. \A sp : sp \in Range(FlattenSeq(parts)) <=> \E i \in DOMAIN parts : sp \in Range(parts[i])
  BY <1>4, FlattenRange
<1>8. QED
  BY <1>1, <1>2, <1>3, <1>5, <1>6, <1>7 DEF T

LEMMA SpanStarts ==
  ASSUME NEW round \in OwnRounds, NEW sp, IsSpanOf(round, sp)
  PROVE  sp.start \in Nat
<1>1. PICK ci \in DOMAIN round.calls : sp = ModelSpan(round, ci) \/ IsToolOf(round, ci, sp)
  BY DEF IsSpanOf
<1>2. sp.start = round.calls[ci].start
  BY <1>1 DEF IsToolOf, ModelSpan, ToolSpan
<1>3. QED
  BY <1>2, RoundCalls

\* Of one type, in the order of their start, they are all there.
LEMMA SpansOfAre ==
  ASSUME NEW rounds \in Seq(OwnRounds), NEW type
  PROVE  /\ SpansOf(rounds, type) \in Seq(SpanSet)
         /\ \A sp : sp \in Range(SpansOf(rounds, type))
                    <=> sp.type = type /\ \E i \in DOMAIN rounds : IsSpanOf(rounds[i], sp)
<1> DEFINE T == SpanSet
           R == OwnRounds
           spans == FlattenSeq([i \in DOMAIN rounds |-> buildSpansFromRound(rounds[i])])
           some == OfType(spans, type)
           sorted == SortedByStart(some)
<1>1. SpansOf(rounds, type) = sorted
  BY DEF SpansOf, OfType
<1>2. /\ spans \in Seq(T)
      /\ \A sp : sp \in Range(spans) <=> \E i \in DOMAIN rounds : IsSpanOf(rounds[i], sp)
  BY AllSpansAre
<1> HIDE DEF T, spans
<1>3. some \in Seq(T) /\ \A sp : sp \in Range(some) <=> sp \in Range(spans) /\ sp.type = type
  BY <1>2, TypeRange
<1> HIDE DEF some
<1>4. \A i \in DOMAIN rounds : rounds[i] \in R
  <2> HIDE DEF R
  <2>1. rounds \in Seq(R)
    BY DEF R
  <2>2. QED
    BY <2>1
<1>5. \A i \in DOMAIN some : some[i].start \in Nat
  <2> SUFFICES ASSUME NEW i \in DOMAIN some PROVE some[i].start \in Nat
    OBVIOUS
  <2>1. some[i] \in Range(some)
    BY DEF Range
  <2>2. PICK k \in DOMAIN rounds : IsSpanOf(rounds[k], some[i])
    BY <1>2, <1>3, <2>1
  <2>3. QED
    BY <1>4, <2>2, SpanStarts
<1>6. /\ DOMAIN sorted = DOMAIN some
      /\ sorted = [k \in DOMAIN some |-> sorted[k]]
      /\ \A k \in DOMAIN some : \E i \in DOMAIN some : sorted[k] = some[i]
      /\ \A i \in DOMAIN some : \E k \in DOMAIN some : sorted[k] = some[i]
  BY <1>3, <1>5, SortedRounds
<1> HIDE DEF sorted
<1>7. \A sp : sp \in Range(sorted) <=> sp \in Range(some)
  BY <1>6 DEF Range
<1>8. sorted \in Seq(T)
  <2>1. \A k \in DOMAIN some : sorted[k] \in T
    BY <1>3, <1>6
  <2>2. [k \in DOMAIN some |-> sorted[k]] \in Seq(T)
    BY <1>3, <2>1, ListFromMap
  <2>3. QED
    BY <1>6, <2>2
<1>9. QED
  BY <1>1, <1>2, <1>3, <1>7, <1>8 DEF T

LEMMA ModelsAre ==
  ASSUME NEW rounds \in Seq(OwnRounds)
  PROVE  /\ getModelSpansForBundle(rounds) \in Seq(SpanSet)
         /\ \A sp : sp \in Range(getModelSpansForBundle(rounds))
                    <=> \E i \in DOMAIN rounds : \E ci \in DOMAIN rounds[i].calls :
                           sp = ModelSpan(rounds[i], ci)
<1>1. \A round, sp : IsSpanOf(round, sp) /\ sp.type = "model"
                     <=> \E ci \in DOMAIN round.calls : sp = ModelSpan(round, ci)
  BY DEF IsSpanOf, IsToolOf, ModelSpan, ToolSpan
<1>2. QED
  BY <1>1, SpansOfAre DEF getModelSpansForBundle

LEMMA ToolsAre ==
  ASSUME NEW rounds \in Seq(OwnRounds)
  PROVE  /\ getToolSpansForBundle(rounds) \in Seq(SpanSet)
         /\ \A sp : sp \in Range(getToolSpansForBundle(rounds))
                    <=> \E i \in DOMAIN rounds : \E ci \in DOMAIN rounds[i].calls :
                           IsToolOf(rounds[i], ci, sp)
<1>1. \A round, sp : IsSpanOf(round, sp) /\ sp.type = "tool"
                     <=> \E ci \in DOMAIN round.calls : IsToolOf(round, ci, sp)
  BY DEF IsSpanOf, IsToolOf, ModelSpan, ToolSpan
<1>2. QED
  BY <1>1, SpansOfAre DEF getToolSpansForBundle

\* A tool hangs below the call that asked for it and below no other.
LEMMA UsesAre ==
  ASSUME NEW rounds \in Seq(OwnRounds), PromptsDiffer(rounds),
         NEW i \in DOMAIN rounds, NEW ci \in DOMAIN rounds[i].calls
  PROVE  (\E tool \in Range(getToolSpansForBundle(rounds)) :
            tool.parent = ModelSpan(rounds[i], ci).id)
         <=> rounds[i].calls[ci].tools # <<>>
<1> DEFINE tools == Range(getToolSpansForBundle(rounds))
           R == OwnRounds
<1>0. \A k \in DOMAIN rounds : rounds[k] \in R
  <2> HIDE DEF R
  <2>1. rounds \in Seq(R)
    BY DEF R
  <2>2. QED
    BY <2>1
<1>1. \A sp : sp \in tools <=> \E k \in DOMAIN rounds : \E ck \in DOMAIN rounds[k].calls :
                                  IsToolOf(rounds[k], ck, sp)
  BY ToolsAre
<1>2. ModelSpan(rounds[i], ci).id = <<rounds[i].prompt, ci>>
  BY DEF ModelSpan
<1> HIDE DEF tools
<1>3. ASSUME NEW tool \in tools, tool.parent = <<rounds[i].prompt, ci>>
      PROVE  rounds[i].calls[ci].tools # <<>>
  <2>1. PICK k \in DOMAIN rounds : \E ck \in DOMAIN rounds[k].calls : IsToolOf(rounds[k], ck, tool)
    BY <1>1
  <2>2. PICK ck \in DOMAIN rounds[k].calls : IsToolOf(rounds[k], ck, tool)
    BY <2>1
  <2>3. PICK ti \in DOMAIN rounds[k].calls[ck].tools : tool = ToolSpan(rounds[k], ck, ti)
    BY <2>2 DEF IsToolOf
  <2>4. tool.parent = <<rounds[k].prompt, ck>>
    BY <2>3 DEF ToolSpan
  <2>5. rounds[k].prompt = rounds[i].prompt /\ ck = ci
    BY <1>3, <2>4
  <2>6. k = i
    BY <2>5 DEF PromptsDiffer
  <2>7. QED
    BY <2>3, <2>5, <2>6
<1>4. ASSUME rounds[i].calls[ci].tools # <<>>
      PROVE  \E tool \in tools : tool.parent = <<rounds[i].prompt, ci>>
  <2> DEFINE own == rounds[i].calls[ci].tools
             tool == ToolSpan(rounds[i], ci, 1)
  <2>1. own \in Seq(ToolSet)
    BY <1>0, RoundCalls
  <2> HIDE DEF own
  <2>2. 1 \in DOMAIN own
    BY <1>4, <2>1 DEF own
  <2>3. IsToolOf(rounds[i], ci, tool)
    BY <2>2 DEF IsToolOf, own
  <2>4. tool.parent = <<rounds[i].prompt, ci>>
    BY DEF ToolSpan
  <2> HIDE DEF tool
  <2>5. tool \in tools
    BY <1>1, <2>3
  <2>6. QED
    BY <2>4, <2>5
<1>5. QED
  BY <1>2, <1>3, <1>4 DEF tools

\* A call without tools says something unless it is silent.
LEMMA SaysUnlessSilent ==
  ASSUME NEW output, output.tools = <<>>, output.reasoning \in Text
  PROVE  extractModelText(output) # <<>> <=> ~Silent(output)
<1> DEFINE tail == FlattenSeq([i \in DOMAIN output.tools |->
               output.tools[i].tool \o SetToSeq(WordsIn(output.tools[i].input))])
           raw == <<"json">> \o output.reasoning
<1>1. tail = <<>>
  <2>1. [i \in DOMAIN output.tools |->
               output.tools[i].tool \o SetToSeq(WordsIn(output.tools[i].input))] = <<>>
    <3>1. DOMAIN output.tools = {}
      OBVIOUS
    <3>2. QED
      BY <3>1
  <2>2. QED
    BY <2>1, FlattenOfNone
<1>2. extractModelText(output) = IF output.text # <<>> THEN output.text
                                 ELSE IF Silent(output) THEN <<>> ELSE raw \o tail
  <2>1. extractModelText(output) = CASE output.text # <<>> -> output.text
                                     [] Silent(output) -> <<>>
                                     [] OTHER -> raw \o tail
    BY Zenon DEF extractModelText
  <2> HIDE DEF raw, tail
  <2>2. Silent(output) => output.text = <<>>
    BY DEF Silent
  <2>3. QED
    BY <2>1, <2>2
<1> HIDE DEF tail
<1>3. raw \o tail # <<>>
  <2> DEFINE W == Word
  <2>1. output.reasoning \in Seq(W) /\ <<"json">> \in Seq(W)
    BY WordTexts DEF Text
  <2> HIDE DEF W
  <2>2. raw \in Seq(W) /\ Len(raw) = 1 + Len(output.reasoning) /\ Len(output.reasoning) \in Nat
    BY <2>1
  <2> HIDE DEF raw
  <2>3. raw \o tail = raw
    BY <1>1, <2>2
  <2>4. raw # <<>>
    BY <2>2
  <2>5. QED
    BY <2>3, <2>4
<1> HIDE DEF raw
<1>4. QED
  BY <1>2, <1>3 DEF Silent

\* Whatever calls of the session are looked at, together or one by one.
LEMMA AnswersAreAnswers ==
  ASSUME NEW rounds \in Seq(OwnRounds), PromptsDiffer(rounds),
         NEW some \in Seq(SpanSet), Range(some) \subseteq Range(getModelSpansForBundle(rounds))
  PROVE  AgreeOnAnswers(some, getToolSpansForBundle(rounds))
<1> DEFINE tools == getToolSpansForBundle(rounds)
           heard == Heard(some)
           Uses(sp) == \E tool \in Range(tools) : tool.parent = sp.id
           Says(sp) == extractModelText(sp.output) # <<>>
           final == modelSignals(some, tools).final
<1>1. final <=> \E sp \in Range(some) : Says(sp) /\ ~Uses(sp)
  BY DEF modelSignals
<1>2. hasFinalAnswer(some) <=> \E sp \in Range(heard) : Concludes(sp)
  BY DEF hasFinalAnswer, Answers
<1>3. \A sp : sp \in Range(heard)
              <=> sp \in Range(some) /\ ~isSyntheticModelSpan(sp) /\ ~Silent(sp.output)
  BY HeardRange
<1>4. ASSUME NEW sp \in Range(some)
      PROVE  /\ Uses(sp) <=> sp.output.tools # <<>>
             /\ sp.output.reasoning \in Text
  <2>1. PICK i \in DOMAIN rounds : \E ci \in DOMAIN rounds[i].calls : sp = ModelSpan(rounds[i], ci)
    BY ModelsAre
  <2>2. PICK ci \in DOMAIN rounds[i].calls : sp = ModelSpan(rounds[i], ci)
    BY <2>1
  <2>3. /\ sp.output.tools = rounds[i].calls[ci].tools
        /\ sp.output.reasoning = rounds[i].calls[ci].reasoning
    BY <2>2 DEF ModelSpan, assembleModelOutput
  <2>4. rounds[i] \in OwnRounds
    <3> DEFINE R == OwnRounds
    <3> HIDE DEF R
    <3>1. rounds \in Seq(R)
      BY DEF R
    <3>2. QED
      BY <3>1 DEF R
  <2>5. rounds[i].calls[ci].reasoning \in Text
    BY <2>4, RoundCalls
  <2>6. QED
    BY <2>2, <2>3, <2>5, UsesAre
<1>5. ASSUME NEW sp \in Range(some)
      PROVE  Says(sp) /\ ~Uses(sp) <=> sp.output.tools = <<>> /\ ~Silent(sp.output)
  <2>1. sp.output.tools = <<>> => (Says(sp) <=> ~Silent(sp.output))
    BY <1>4, SaysUnlessSilent
  <2>2. QED
    BY <1>4, <2>1
<1> HIDE DEF tools, heard, Uses, Says, final
<1>6. final <=> \E sp \in Range(some) : sp.output.tools = <<>> /\ ~Silent(sp.output)
  BY <1>1, <1>5
<1>7. hasFinalAnswer(some)
      <=> \E sp \in Range(some) : /\ sp.output.tools = <<>> /\ ~Silent(sp.output)
                                  /\ ~isSyntheticModelSpan(sp) /\ sp.output.text # <<>>
  BY <1>2, <1>3 DEF Concludes, heard
<1>8. final <=> hasFinalAnswer(some) \/ \E sp \in Range(some) : OnlyForScore(sp)
  BY <1>6, <1>7 DEF OnlyForScore
<1>9. QED
  BY <1>8 DEF AgreeOnAnswers, final, tools

(* Whatever was parsed: rules and score agree on every call and on the     *)
(* session whether it is an answer, by the tools in the output of the call *)
(* the one and by the parents of the tool spans the other. Only the score  *)
(* takes bare reasoning, and what the framework asked for, for an answer.  *)
THEOREM AnswersMeanTheSame == Spec => []AnswersAgree
<1> DEFINE models == getModelSpansForBundle(out.rounds)
           tools == getToolSpansForBundle(out.rounds)
<1>1. ASSUME out.rounds \in Seq(OwnRounds), PromptsDiffer(out.rounds)
      PROVE  AgreeOnAnswers(models, tools)
             /\ \A sp \in Range(models) : AgreeOnAnswers(<<sp>>, tools)
  <2>1. models \in Seq(SpanSet)
    BY <1>1, ModelsAre
  <2>2. AgreeOnAnswers(models, tools)
    BY <1>1, <2>1, AnswersAreAnswers
  <2>3. ASSUME NEW sp \in Range(models) PROVE AgreeOnAnswers(<<sp>>, tools)
    <3> DEFINE T == SpanSet
               all == models
    <3>1. all \in Seq(T) /\ sp \in Range(all)
      BY <2>1, <2>3
    <3> HIDE DEF T, all
    <3>2. sp \in T
      BY <3>1 DEF Range
    <3>3. <<sp>> \in Seq(T) /\ Range(<<sp>>) \subseteq Range(all)
      BY <3>1, <3>2 DEF Range
    <3>4. QED
      BY <1>1, <3>3, AnswersAreAnswers DEF T, all
  <2>4. QED
    BY <2>2, <2>3
<1>2. out.rounds \in Seq(OwnRounds) => AnswersAgree
  BY <1>1 DEF AnswersAgree
<1>3. QED
  BY <1>2, RoundsStayWhole, PTL

----------------------------------------------------------------------------
(* Rounding, sums and runs.                                                *)

\* Rounding keeps bounds.
LEMMA RoundBounds ==
  ASSUME NEW p \in Int, NEW q \in Nat, q # 0, NEW lo \in Int, NEW hi \in Int
  PROVE  /\ Round(p, q) \in Int
         /\ lo * q <= p => lo <= Round(p, q)
         /\ p <= hi * q => Round(p, q) <= hi
<1> DEFINE r == (2 * p + q) \div (2 * q)
<1>1. 2 * p + q \in Int /\ 2 * q \in Int /\ 2 * q >= 1
  OBVIOUS
<1>2. r \in Int /\ (2 * q) * r <= 2 * p + q /\ 2 * p + q < (2 * q) * r + 2 * q
  BY <1>1, Quotient
<1>3. Round(p, q) = r
  BY DEF Round
<1> HIDE DEF r
<1>4. (2 * q) * r = 2 * (r * q) /\ r * q \in Int /\ lo * q \in Int /\ hi * q \in Int
  BY <1>2
<1>5. ASSUME lo * q <= p, ~(lo <= r) PROVE FALSE
  <2>1. lo - r - 1 \in Nat
    BY <1>2, <1>5
  <2>2. (lo - r - 1) * q \in Nat
    BY <2>1
  <2>3. (lo - r - 1) * q = lo * q - r * q - q
    BY <1>2
  <2>4. QED
    BY <1>2, <1>4, <1>5, <2>2, <2>3
<1>6. ASSUME p <= hi * q, ~(r <= hi) PROVE FALSE
  <2>1. r - hi - 1 \in Nat
    BY <1>2, <1>6
  <2>2. (r - hi - 1) * q \in Nat
    BY <2>1
  <2>3. (r - hi - 1) * q = r * q - hi * q - q
    BY <1>2
  <2>4. QED
    BY <1>2, <1>4, <1>6, <2>2, <2>3
<1>7. QED
  BY <1>2, <1>3, <1>5, <1>6

LEMMA SumType ==
  ASSUME NEW seq \in Seq(Nat)
  PROVE  SumOf(seq) \in Nat
<1> DEFINE n == Len(seq)
<1>1. n \in Nat /\ DOMAIN seq = 1..n
  OBVIOUS
<1>2. \A x \in Nat : \A i \in 1..n : PlusStep(0, x, seq[i]) \in Nat
  BY DEF PlusStep
<1> HIDE DEF n
<1>3. \A c, base, T : base \in T /\ (\A x \in T : \A i \in 1..n : PlusStep(c, x, seq[i]) \in T)
        => PlusFold!Fold(c, base, seq) \in T
  BY <1>1, PlusFold!FoldKeeps, LeastNumber DEF PlusFold!LeastNumbers
<1>4. PlusFold!Fold(0, 0, seq) \in Nat
  BY <1>2, <1>3
<1>5. QED
  BY <1>4, SumOfIs

LEMMA SumOfThree ==
  ASSUME NEW a \in Nat, NEW b \in Nat, NEW c \in Nat
  PROVE  SumOf(<<a, b, c>>) = a + b + c
<1>1. SumOf(<<>>) = 0
  BY SumOfNothing
<1>2. SumOf(<<a>>) = a
  <2>1. <<>> \in Seq(Nat) /\ <<a>> = Append(<<>>, a)
    OBVIOUS
  <2>2. SumOf(Append(<<>>, a)) = SumOf(<<>>) + a
    BY <2>1, SumOfAppend
  <2>3. QED
    BY <1>1, <2>1, <2>2
<1>3. SumOf(<<a, b>>) = a + b
  <2>1. <<a>> \in Seq(Nat) /\ <<a, b>> = Append(<<a>>, b)
    OBVIOUS
  <2>2. SumOf(Append(<<a>>, b)) = SumOf(<<a>>) + b
    BY <2>1, SumOfAppend
  <2>3. QED
    BY <1>2, <2>1, <2>2
<1>4. <<a, b>> \in Seq(Nat) /\ <<a, b, c>> = Append(<<a, b>>, c)
  OBVIOUS
<1>5. SumOf(Append(<<a, b>>, c)) = SumOf(<<a, b>>) + c
  BY <1>4, SumOfAppend
<1>6. QED
  BY <1>3, <1>4, <1>5

LEMMA SumOfFive ==
  ASSUME NEW a \in Nat, NEW b \in Nat, NEW c \in Nat, NEW d \in Nat, NEW e \in Nat
  PROVE  SumOf(<<a, b, c, d, e>>) = a + b + c + d + e
<1>1. SumOf(<<a, b, c, d>>) = a + b + c + d
  <2>1. <<a, b, c>> \in Seq(Nat) /\ <<a, b, c, d>> = Append(<<a, b, c>>, d)
    OBVIOUS
  <2>2. SumOf(Append(<<a, b, c>>, d)) = SumOf(<<a, b, c>>) + d
    BY <2>1, SumOfAppend
  <2>3. QED
    BY <2>1, <2>2, SumOfThree
<1>2. <<a, b, c, d>> \in Seq(Nat) /\ <<a, b, c, d, e>> = Append(<<a, b, c, d>>, e)
  OBVIOUS
<1>3. SumOf(Append(<<a, b, c, d>>, e)) = SumOf(<<a, b, c, d>>) + e
  BY <1>2, SumOfAppend
<1>4. QED
  BY <1>1, <1>2, <1>3

LEMMA MaxOfTwo ==
  ASSUME NEW a \in Nat, NEW b \in Nat
  PROVE  Max({a, b}) \in {a, b} /\ a <= Max({a, b}) /\ b <= Max({a, b})
<1>1. {a, b} \in SUBSET Nat /\ {a, b} # {}
  OBVIOUS
<1>2. IsFiniteSet({a, b})
  <2>1. IsFiniteSet({}) 
    BY FS_EmptySet
  <2>2. IsFiniteSet({} \cup {a})
    BY <2>1, FS_AddElement
  <2>3. IsFiniteSet(({} \cup {a}) \cup {b})
    BY <2>2, FS_AddElement
  <2>4. ({} \cup {a}) \cup {b} = {a, b}
    OBVIOUS
  <2>5. QED
    BY <2>3, <2>4
<1> DEFINE T == {a, b}
<1> HIDE DEF T
<1>3. Max(T) \in T /\ \A t \in T : t <= Max(T)
  BY <1>1, <1>2, MaxOf DEF T
<1>4. QED
  BY <1>3 DEF T

LEMMA MinOfTwo ==
  ASSUME NEW a \in Nat, NEW b \in Nat
  PROVE  Min({a, b}) \in {a, b} /\ Min({a, b}) <= a /\ Min({a, b}) <= b
<1> DEFINE T == {a, b}
<1>1. T \in SUBSET Nat /\ T # {}
  OBVIOUS
<1> HIDE DEF T
<1>2. Min(T) \in T /\ \A t \in T : Min(T) <= t
  BY <1>1, MinOf
<1>3. QED
  BY <1>2 DEF T

\* The greatest length of some runs is a number.
LEMMA GreatestLength ==
  ASSUME NEW n \in Nat, NEW V, V \subseteq 0..n
  PROVE  Max({0} \cup V) \in Nat
<1> DEFINE T == {0} \cup V
<1>1. T \in SUBSET (0..n) /\ T # {} /\ T \in SUBSET Nat
  OBVIOUS
<1>2. IsFiniteSet(0..n)
  BY FS_Interval
<1> HIDE DEF T
<1>3. IsFiniteSet(T)
  BY <1>1, <1>2, FS_Subset
<1>4. Max(T) \in T
  BY <1>1, <1>3, MaxOf
<1>5. QED
  BY <1>1, <1>4 DEF T

LEMMA LengthsOfRuns ==
  ASSUME NEW n \in Nat, NEW runs, \A i \in 1..n : runs[i] \subseteq i..n
  PROVE  UNION {{j - i + 1 : j \in runs[i]} : i \in 1..n} \subseteq 0..n
<1>1. ASSUME NEW i \in 1..n, NEW j \in runs[i] PROVE j - i + 1 \in 0..n
  <2>1. j \in i..n
    OBVIOUS
  <2>2. QED
    BY <2>1
<1>2. \A i \in 1..n : {j - i + 1 : j \in runs[i]} \subseteq 0..n
  BY <1>1
<1>3. QED
  BY Zenon, <1>2

----------------------------------------------------------------------------
(* The axes of a score.                                                    *)

LEMMA SerialRuns == ASSUME NEW T, NEW tools \in Seq(T) PROVE repeatedToolRun(tools) \in Nat
<1> DEFINE n == Len(tools)
           Run(i) == {j \in i..Len(tools) : \A k \in i..j : SameCall(tools[i], tools[k])}
           V == UNION {{j - i + 1 : j \in Run(i)} : i \in DOMAIN tools}
<1>1. n \in Nat /\ DOMAIN tools = 1..n
  OBVIOUS
<1>2. repeatedToolRun(tools) = Max({0} \cup V)
  BY DEF repeatedToolRun, LongestRun
<1>3. \A i : Run(i) \subseteq i..n
  OBVIOUS
<1> HIDE DEF Run, n
<1>4. ASSUME NEW i \in 1..n, NEW j \in Run(i) PROVE j - i + 1 \in 0..n
  <2>1. j \in i..n
    BY <1>3
  <2>2. QED
    BY <1>1, <2>1
<1>5. V \subseteq 0..n
  <2>1. \A i \in 1..n : {j - i + 1 : j \in Run(i)} \subseteq 0..n
    BY <1>4
  <2>2. QED
    BY Zenon, <1>1, <2>1
<1>6. QED
  BY <1>1, <1>2, <1>5, GreatestLength

LEMMA IdleRuns ==
  ASSUME NEW T, NEW models \in Seq(T), NEW tools PROVE modelSignals(models, tools).noop \in Nat
<1> DEFINE n == Len(models)
           Idle(sp) == /\ ~(extractModelText(sp.output) # <<>>)
                       /\ ~(\E tool \in Range(tools) : tool.parent = sp.id)
           Run(i) == {j \in i..Len(models) : \A k \in i..j : Idle(models[k])}
           V == UNION {{j - i + 1 : j \in Run(i)} : i \in DOMAIN models}
<1>1. n \in Nat /\ DOMAIN models = 1..n
  OBVIOUS
<1>2. modelSignals(models, tools).noop = Max({0} \cup V)
  BY DEF modelSignals, LongestRun
<1>3. \A i : Run(i) \subseteq i..n
  OBVIOUS
<1> HIDE DEF Run, n
<1>4. ASSUME NEW i \in 1..n, NEW j \in Run(i) PROVE j - i + 1 \in 0..n
  <2>1. j \in i..n
    BY <1>3
  <2>2. QED
    BY <1>1, <2>1
<1>5. V \subseteq 0..n
  <2>1. \A i \in 1..n : {j - i + 1 : j \in Run(i)} \subseteq 0..n
    BY <1>4
  <2>2. QED
    BY Zenon, <1>1, <2>1
<1>6. QED
  BY <1>1, <1>2, <1>5, GreatestLength

\* A late answer keeps at least 30 points.
LEMMA LateBounds ==
  ASSUME NEW seconds \in Int, NEW n \in Nat
  PROVE  Late(seconds, responseBucket(n)) \in Int
         /\ Late(seconds, responseBucket(n)) >= 30
<1> DEFINE bucket == responseBucket(n)
           span == bucket.floor - bucket.full
           rest == seconds - bucket.full
           p == 100 * span - 70 * Min({rest, span})
<1>1. bucket.full \in Nat /\ bucket.floor \in Nat /\ bucket.full < bucket.floor
  BY DEF responseBucket
<1>2. Late(seconds, bucket) = IF seconds <= bucket.full THEN 100 ELSE Round(p, span)
  BY DEF Late
<1> HIDE DEF bucket
<1>3. span \in Nat /\ span # 0
  BY <1>1
<1>4. CASE seconds <= bucket.full
  BY <1>2, <1>4 DEF bucket
<1>5. CASE ~(seconds <= bucket.full)
  <2>1. rest \in Nat
    BY <1>1, <1>5
  <2> HIDE DEF rest, span
  <2>2. Min({rest, span}) \in {rest, span} /\ Min({rest, span}) <= span
    BY <1>3, <2>1, MinOfTwo
  <2>3. p \in Int /\ 30 * span <= p
    BY <1>3, <2>1, <2>2
  <2> HIDE DEF p
  <2>4. Round(p, span) \in Int /\ 30 <= Round(p, span)
    BY <1>3, <2>3, RoundBounds
  <2>5. QED
    BY <1>2, <1>5, <2>4 DEF span, bucket, p, rest
<1>6. QED
  BY <1>4, <1>5 DEF bucket

LEMMA PenaltyBounds ==
  ASSUME NEW features, NEW models, NEW tools, features.maxSerialRun \in Nat
  PROVE  /\ PenaltyOf(features, models, tools) \in 0..75
         /\ features.maxSerialRun < 3 => PenaltyOf(features, models, tools) <= 55
<1>1. \A c : \A n \in Nat : If(c, n) = 0 \/ If(c, n) = n
  BY DEF If
<1> DEFINE c1 == If(features.maxSerialRun >= 3, 20)
           c2 == If(hasRepetitiveEdits(tools), 20)
           c3 == If(hasThinkingRedundancy(models), 10)
           c4 == If(features.toolCalls >= 3 /\ ~hasPlan(models), 10)
           c5 == If(planDeviation(models), 10)
           c6 == If(hasTestResidue(tools), 5)
<1>2. c1 \in {0, 20} /\ c2 \in {0, 20} /\ c3 \in {0, 10} /\ c4 \in {0, 10}
      /\ c5 \in {0, 10} /\ c6 \in {0, 5}
  BY DEF If
<1>3. features.maxSerialRun < 3 => c1 = 0
  BY DEF If
<1>4. PenaltyOf(features, models, tools) = c1 + c2 + c3 + c4 + c5 + c6
  BY DEF PenaltyOf
<1> HIDE DEF c1, c2, c3, c4, c5, c6
<1>5. QED
  BY <1>2, <1>3, <1>4

LEMMA ResponseBounds ==
  ASSUME NEW rounds, NEW rules, NEW features, NEW models, NEW tools,
         TotalDuration(rounds) \in Nat, ~hasExecutionFailureRule(rules),
         features.maxSerialRun \in Nat, features.toolCalls \in Nat
  PROVE  LET score == computeResponseScore(rounds, rules, features, models, tools)
         IN  score \in Nat /\ (features.maxSerialRun < 3 => score >= 39)
<1> DEFINE seconds == Round(TotalDuration(rounds), 1000)
           late == Late(seconds, responseBucket(features.toolCalls))
           lost == PenaltyOf(features, models, tools)
           p == 4 * late + 6 * (100 - lost)
<1>1. seconds \in Int
  BY RoundBounds
<1> HIDE DEF seconds
<1>2. late \in Int /\ late >= 30
  BY <1>1, LateBounds
<1>3. lost \in 0..75 /\ (features.maxSerialRun < 3 => lost <= 55)
  BY PenaltyBounds
<1>4. computeResponseScore(rounds, rules, features, models, tools) = Round(p, 10)
  BY DEF computeResponseScore, Capped, seconds
<1> HIDE DEF late, lost
<1>5. p \in Int /\ 0 * 10 <= p /\ (features.maxSerialRun < 3 => 39 * 10 <= p)
  BY <1>2, <1>3
<1> HIDE DEF p
<1>6. Round(p, 10) \in Int /\ 0 <= Round(p, 10)
      /\ (features.maxSerialRun < 3 => 39 <= Round(p, 10))
  BY <1>5, RoundBounds
<1>7. QED
  BY <1>4, <1>6

LEMMA ThinkingBounds ==
  ASSUME NEW signals, NEW features, signals.noop \in Nat, features.maxSerialRun \in Nat
  PROVE  LET score == computeThinkingScore(signals, features)
         IN  score \in Nat /\ (features.maxSerialRun < 3 => score >= 35)
<1> DEFINE idle == Min({10 * signals.noop, 30})
           open == IF signals.final THEN 0 ELSE 35
           loop == IF features.maxSerialRun >= 3 THEN 15 ELSE 0
<1>1. idle \in {10 * signals.noop, 30} /\ idle <= 30
  <2>1. 10 * signals.noop \in Nat /\ 30 \in Nat
    OBVIOUS
  <2>2. QED
    BY <2>1, MinOfTwo
<1>2. idle \in Nat
  BY <1>1
<1>3. open \in {0, 35} /\ loop \in {0, 15} /\ (features.maxSerialRun < 3 => loop = 0)
  OBVIOUS
<1>4. computeThinkingScore(signals, features) = 100 - open - idle - loop
  BY DEF computeThinkingScore
<1> HIDE DEF idle, open, loop
<1>5. QED
  BY <1>1, <1>2, <1>3, <1>4

LEMMA ResourceBounds ==
  ASSUME NEW features, features.avgTokensPerTurn \in Nat
  PROVE  LET score == computeResourceScore(features)
         IN  score \in Nat /\ (features.avgTokensPerTurn <= 76000 => score >= 100)
<1> DEFINE most == Max({features.avgTokensPerTurn, 76000})
           over == most - 76000
           p == 100 * 52000 - 40 * over
<1>1. most \in {features.avgTokensPerTurn, 76000} /\ 76000 <= most
  BY MaxOfTwo
<1>2. computeResourceScore(features) = IF over >= 52000 THEN 60 ELSE Round(p, 52000)
  BY DEF computeResourceScore
<1> HIDE DEF most
<1>3. over \in Nat /\ (features.avgTokensPerTurn <= 76000 => over = 0)
  BY <1>1
<1> HIDE DEF over
<1>4. CASE over >= 52000
  BY <1>2, <1>3, <1>4
<1>5. CASE ~(over >= 52000)
  <2>1. p \in Int /\ 0 * 52000 <= p /\ (over = 0 => 100 * 52000 <= p)
    BY <1>3, <1>5
  <2> HIDE DEF p
  <2>2. Round(p, 52000) \in Int /\ 0 <= Round(p, 52000) /\ (over = 0 => 100 <= Round(p, 52000))
    BY <2>1, RoundBounds
  <2>3. QED
    BY <1>2, <1>3, <1>5, <2>2
<1>6. QED
  BY <1>4, <1>5

LEMMA StabilityBounds ==
  ASSUME NEW features, NEW rules, ~hasExecutionFailureRule(rules),
         features.toolCalls \in Nat, features.toolCalls # 0, features.toolFailures \in Nat
  PROVE  LET score == computeStabilityScore(features, rules)
         IN  score \in Nat /\ (features.toolFailures = 0 => score >= 100)
<1> DEFINE n == features.toolCalls
           failed == features.toolFailures
           kept == Round(100 * (n - failed), n)
<1>1. computeStabilityScore(features, rules)
        = IF 5 * failed > kept THEN 0 ELSE kept - 5 * failed
  BY DEF computeStabilityScore, Capped
<1>2. kept \in Int /\ (failed = 0 => 100 <= kept)
  <2> HIDE DEF n, failed
  <2>0. n \in Nat /\ n # 0 /\ failed \in Nat
    BY DEF n, failed
  <2> DEFINE p == 100 * (n - failed)
  <2>1. p \in Int /\ (failed = 0 => 100 * n <= p)
    BY <2>0
  <2> HIDE DEF p
  <2>2. Round(p, n) \in Int /\ (failed = 0 => 100 <= Round(p, n))
    BY <2>0, <2>1, RoundBounds
  <2>3. QED
    BY <2>2 DEF p
<1> HIDE DEF kept
<1>3. QED
  BY <1>1, <1>2

LEMMA OrchestrationBounds ==
  ASSUME NEW features, features.maxSerialRun \in Nat
  PROVE  LET score == computeOrchestrationScore(features)
         IN  score \in Nat /\ (features.maxSerialRun < 3 => score >= 100)
<1> DEFINE n == features.maxSerialRun
           loss == CASE n >= 7 -> 30 [] n \in 5..6 -> 20 [] n \in 3..4 -> 10 [] OTHER -> 0
           share == 10 * features.uniqueTools
           gain == CASE share >= 6 * features.toolCalls -> 20
                     [] share < 4 * features.toolCalls -> 0
                     [] OTHER -> 10
<1>1. loss \in {0, 10, 20, 30} /\ (n < 3 => loss = 0)
  OBVIOUS
<1>2. gain \in {0, 10, 20}
  OBVIOUS
<1>3. computeOrchestrationScore(features) = Clamp(100 - loss + gain)
  BY DEF computeOrchestrationScore
<1> HIDE DEF loss, gain
<1>4. 100 - loss + gain \in Nat /\ 100 \in Nat /\ (n < 3 => 100 - loss + gain >= 100)
  BY <1>1, <1>2
<1> DEFINE raw == 100 - loss + gain
<1> HIDE DEF raw
<1>5. raw \in Nat /\ (n < 3 => raw >= 100)
  BY <1>4 DEF raw
<1>6. Min({raw, 100}) \in {raw, 100}
  BY <1>5, MinOfTwo
<1>7. QED
  BY <1>3, <1>5, <1>6 DEF Clamp, raw

----------------------------------------------------------------------------
(* The level of a session.                                                 *)

LEMMA DurationType ==
  ASSUME NEW rounds \in Seq(OwnRounds) PROVE TotalDuration(rounds) \in Nat
<1> DEFINE R == OwnRounds
           lasted == [i \in DOMAIN rounds |->
             IF rounds[i].end > rounds[i].start THEN rounds[i].end - rounds[i].start ELSE 0]
<1>1. \A round \in R : round.start \in Nat /\ round.end \in Nat
  BY DEF OwnRounds, WholeRounds, OpenRounds, RoundsIn
<1>2. TotalDuration(rounds) = SumOf(lasted)
  BY DEF TotalDuration
<1> HIDE DEF R
<1>3. rounds \in Seq(R)
  BY DEF R
<1>4. lasted \in Seq(Nat)
  <2>1. \A i \in DOMAIN rounds : rounds[i] \in R
    BY <1>3
  <2>2. \A i \in DOMAIN rounds : lasted[i] \in Nat
    BY <1>1, <2>1
  <2>3. lasted = [i \in DOMAIN rounds |-> lasted[i]]
    OBVIOUS
  <2> HIDE DEF lasted
  <2>4. [i \in DOMAIN rounds |-> lasted[i]] \in Seq(Nat)
    BY <1>3, <2>2, ListFromMap
  <2>5. QED
    BY <2>3, <2>4
<1> HIDE DEF lasted
<1>5. QED
  BY <1>2, <1>4, SumType

LEMMA TokensType ==
  ASSUME NEW rounds \in Seq(OwnRounds), NEW real \in Nat
  PROVE  TokensPerTurn(rounds, real) \in Nat
<1> DEFINE R == OwnRounds
           used == [i \in DOMAIN rounds |-> rounds[i].in + rounds[i].out]
           turns == IF real = 0 THEN Max({1, Len(rounds)}) ELSE real
<1>1. \A round \in R : round.in \in Nat /\ round.out \in Nat
  BY DEF OwnRounds, WholeRounds, OpenRounds, RoundsIn
<1>2. TokensPerTurn(rounds, real) = SumOf(used) \div turns
  BY DEF TokensPerTurn, TotalTokens
<1> HIDE DEF R
<1>3. rounds \in Seq(R)
  BY DEF R
<1>4. used \in Seq(Nat)
  <2>1. \A i \in DOMAIN rounds : rounds[i] \in R
    BY <1>3
  <2>2. \A i \in DOMAIN rounds : used[i] \in Nat
    BY <1>1, <2>1
  <2>3. used = [i \in DOMAIN rounds |-> used[i]]
    OBVIOUS
  <2> HIDE DEF used
  <2>4. [i \in DOMAIN rounds |-> used[i]] \in Seq(Nat)
    BY <1>3, <2>2, ListFromMap
  <2>5. QED
    BY <2>3, <2>4
<1> HIDE DEF used
<1>5. SumOf(used) \in Nat
  BY <1>4, SumType
<1>6. turns \in Nat /\ turns >= 1
  <2>1. Len(rounds) \in Nat /\ 1 \in Nat
    BY <1>3
  <2>2. Max({1, Len(rounds)}) \in {1, Len(rounds)} /\ 1 <= Max({1, Len(rounds)})
    BY <2>1, MaxOfTwo
  <2>3. QED
    BY <2>1, <2>2
<1> DEFINE sum == SumOf(used)
<1> HIDE DEF turns, sum
<1>7. sum \in Nat
  BY <1>5 DEF sum
<1>8. sum \div turns \in Int /\ sum < turns * (sum \div turns) + turns
  BY <1>6, <1>7, Quotient
<1>9. sum \div turns >= 0
  <2> DEFINE q == sum \div turns
  <2>1. SUFFICES ASSUME ~(q >= 0) PROVE FALSE
    OBVIOUS
  <2> HIDE DEF q
  <2>2. q \in Int /\ sum < turns * q + turns
    BY <1>8 DEF q
  <2>3. 0 - 1 - q \in Nat
    BY <2>1, <2>2
  <2>4. turns * (0 - 1 - q) \in Nat
    BY <1>6, <2>3
  <2>5. turns * (0 - 1 - q) = 0 - turns - turns * q
    BY <1>6, <2>2
  <2>6. turns * q \in Int
    BY <1>6, <2>2
  <2>7. QED
    BY <1>6, <1>7, <2>2, <2>4, <2>5, <2>6
<1>10. QED
  BY <1>2, <1>8, <1>9 DEF sum

FeaturesCounted(features) == /\ features.toolCalls \in Nat /\ features.maxSerialRun \in Nat
                     /\ features.toolFailures \in Nat /\ features.avgTokensPerTurn \in Nat

LEMMA FeaturesAreCounts ==
  ASSUME NEW rounds \in Seq(OwnRounds), NEW S, NEW models \in Seq(S), NEW tools \in Seq(S)
  PROVE  FeaturesCounted(SessionFeatures(rounds, models, tools))
<1> DEFINE failed == {i \in DOMAIN tools : tools[i].failed}
<1>1. Len(tools) \in Nat /\ DOMAIN tools = 1..Len(tools)
  OBVIOUS
<1>2. repeatedToolRun(tools) \in Nat
  BY SerialRuns
<1>3. Cardinality(failed) \in Nat
  <2>1. IsFiniteSet(1..Len(tools))
    BY <1>1, FS_Interval
  <2>2. failed \in SUBSET (1..Len(tools))
    BY <1>1
  <2> HIDE DEF failed
  <2>3. IsFiniteSet(failed)
    BY <2>1, <2>2, FS_Subset
  <2>4. QED
    BY <2>3, FS_CardinalityType
<1>4. Len(RealModelSpans(models)) \in Nat
  <2>1. RealModelSpans(models) \in Seq(S)
    BY RealRange
  <2>2. QED
    BY <2>1
<1>5. TokensPerTurn(rounds, Len(RealModelSpans(models))) \in Nat
  BY <1>4, TokensType
<1>6. QED
  BY <1>1, <1>2, <1>3, <1>5 DEF FeaturesCounted, SessionFeatures

FailedRules(rules) == {rule \in Range(rules) : ~rule.passed}

ContextLimit == 76000
EndsRule(models) == Rule(ComesToAnEnd(Heard(models)), "no conclusion")
SpeedRule(rounds, features) ==
    Rule(TotalDuration(rounds) \div 1000 <= responseBucket(features.toolCalls).floor, "too slow")
ToolRule(features) == Rule(features.toolFailures = 0, "tool failure")
ContextRule(features) == Rule(features.avgTokensPerTurn <= ContextLimit, "context too long")
LoopRule(features) == Rule(features.maxSerialRun < 3, "loop")

LEMMA FiveRules ==
  ASSUME NEW rounds, NEW models, NEW features
  PROVE  deriveSessionSignals(rounds, models, features)
           = <<EndsRule(models), SpeedRule(rounds, features), ToolRule(features),
               ContextRule(features), LoopRule(features)>>
<1> DEFINE d == deriveSessionSignals(rounds, models, features)
<1>1. d = <<d[1], d[2], d[3], d[4], d[5]>>
  BY SMT DEF deriveSessionSignals
<1>2. d[1] = EndsRule(models)
  BY SMT DEF deriveSessionSignals, EndsRule
<1>3. d[2] = SpeedRule(rounds, features)
  BY SMT DEF deriveSessionSignals, SpeedRule
<1>4. d[3] = ToolRule(features)
  BY SMT DEF deriveSessionSignals, ToolRule
<1>5. d[4] = ContextRule(features)
  BY SMT DEF deriveSessionSignals, ContextRule, ContextLimit
<1>6. d[5] = LoopRule(features)
  BY SMT DEF deriveSessionSignals, LoopRule
<1> HIDE DEF d
<1>7. QED
  BY Zenon, <1>1, <1>2, <1>3, <1>4, <1>5, <1>6 DEF d

LEMMA RulesOfSession ==
  ASSUME NEW rounds, NEW models, NEW features, NEW rules,
         rules = deriveSessionSignals(rounds, models, features)
  PROVE  /\ rules \in Seq(Range(rules))
         /\ ~hasExecutionFailureRule(rules)
         /\ \A rule \in Range(rules) : rule.label # "healthy"
         /\ FailedRules(rules) = {} => /\ features.toolFailures = 0
                                       /\ features.avgTokensPerTurn <= 76000
                                       /\ features.maxSerialRun < 3
<1> DEFINE ends == EndsRule(models)
           fast == SpeedRule(rounds, features)
           sound == ToolRule(features)
           short == ContextRule(features)
           moves == LoopRule(features)
<1>1. rules = <<ends, fast, sound, short, moves>>
  BY Zenon, FiveRules
<1>2. /\ ends.label = "no conclusion" /\ fast.label = "too slow"
      /\ sound.label = "tool failure" /\ short.label = "context too long"
      /\ moves.label = "loop"
  BY SMT DEF Rule, EndsRule, SpeedRule, ToolRule, ContextRule, LoopRule
<1>3. sound.passed => features.toolFailures = 0
  BY Zenon DEF Rule, ToolRule
<1>4. short.passed => features.avgTokensPerTurn <= ContextLimit
  BY Zenon DEF Rule, ContextRule
<1>5. moves.passed => features.maxSerialRun < 3
  BY Zenon DEF Rule, LoopRule
<1> HIDE DEF ends, fast, sound, short, moves
<1>6. Range(rules) = {ends, fast, sound, short, moves}
      /\ rules \in Seq({ends, fast, sound, short, moves})
  <2>1. Range(<<ends, fast, sound, short, moves>>) = {ends, fast, sound, short, moves}
    BY SMT DEF Range
  <2>2. <<ends, fast, sound, short, moves>> \in Seq({ends, fast, sound, short, moves})
    BY SMT
  <2>3. QED
    BY Zenon, <1>1, <2>1, <2>2
<1>7. rules \in Seq(Range(rules))
  BY Zenon, <1>6
<1>8. \A rule \in {ends, fast, sound, short, moves} :
          rule.label # "healthy" /\ rule.label # "execution failure"
  BY Zenon, <1>2
<1>9. ~hasExecutionFailureRule(rules)
  BY Zenon, <1>6, <1>8 DEF hasExecutionFailureRule
<1>10. FailedRules(rules) = {} => sound.passed /\ short.passed /\ moves.passed
  BY Zenon, <1>6 DEF FailedRules
<1>11. FailedRules(rules) = {} => /\ features.toolFailures = 0
                                  /\ features.avgTokensPerTurn <= ContextLimit
                                  /\ features.maxSerialRun < 3
  BY Zenon, <1>3, <1>4, <1>5, <1>10
<1>12. \A rule \in Range(rules) : rule.label # "healthy"
  BY Zenon, <1>6, <1>8
<1>13. QED
  BY SMT, <1>7, <1>9, <1>11, <1>12 DEF ContextLimit

\* The label of a session with a failed rule is that of a failed rule.
LEMMA ChipOfBroken ==
  ASSUME NEW S, NEW rules \in Seq(S), FailedRules(rules) # {},
         \A rule \in Range(rules) : rule.label # "healthy"
  PROVE  pickChip(rules) # "healthy"
<1> DEFINE I == {i \in 1..Len(rules) : ~rules[i].passed}
<1>1. Len(rules) \in Nat /\ DOMAIN rules = 1..Len(rules)
  OBVIOUS
<1>2. pickChip(rules) = IF SelectInSeq(rules, LAMBDA rule : ~rule.passed) = 0 THEN "healthy"
                        ELSE rules[SelectInSeq(rules, LAMBDA rule : ~rule.passed)].label
  BY DEF pickChip
<1>3. SelectInSeq(rules, LAMBDA rule : ~rule.passed) = IF I # {} THEN Min(I) ELSE 0
  BY DEF SelectInSeq
<1>4. I # {}
  BY <1>1 DEF FailedRules, Range
<1>5. Min(I) \in I
  <2>1. I \in SUBSET Nat
    BY <1>1
  <2> HIDE DEF I
  <2>2. QED
    BY <1>4, <2>1, MinOf
<1>6. Min(I) \in DOMAIN rules /\ Min(I) # 0
  BY <1>1, <1>5
<1>7. rules[Min(I)] \in Range(rules)
  BY <1>6 DEF Range
<1>8. QED
  BY <1>2, <1>3, <1>4, <1>6, <1>7

LEMMA LevelsOfScores ==
  ASSUME NEW S, NEW rules \in Seq(S), NEW values, NEW signals,
         ~hasExecutionFailureRule(rules),
         \A rule \in Range(rules) : rule.label # "healthy",
         Round(SumOf(values), Len(values)) \in Int,
         FailedRules(rules) = {} => 50 <= Round(SumOf(values), Len(values))
  PROVE  LET level == Scored(values, signals, rules).level
         IN  /\ level = 2 => FailedRules(rules) # {}
             /\ FailedRules(rules) # {} => level > 0
<1> DEFINE score == Round(SumOf(values), Len(values))
           chip == pickChip(rules)
<1>1. Scored(values, signals, rules).level = AbnormalLevel(score, chip)
  BY DEF Scored, Capped
<1>2. FailedRules(rules) # {} => chip # "healthy"
  BY ChipOfBroken
<1>3. score \in Int /\ (FailedRules(rules) = {} => 50 <= score)
  OBVIOUS
<1> HIDE DEF score, chip
<1>4. AbnormalLevel(score, chip) = 2 => score < 50
  BY <1>3 DEF AbnormalLevel
<1>5. chip # "healthy" => AbnormalLevel(score, chip) > 0
  BY <1>3 DEF AbnormalLevel
<1>6. QED
  BY <1>1, <1>2, <1>3, <1>4, <1>5

LEMMA ThreeAndTwo ==
  ASSUME NEW a, NEW b, NEW c, NEW d, NEW e
  PROVE  <<a, b, c>> \o <<d, e>> = <<a, b, c, d, e>>
<1> DEFINE T == {a, b, c, d, e}
           s == <<a, b, c>>
           t == <<d, e>>
           u == <<a, b, c, d, e>>
<1>1. s \in Seq(T) /\ t \in Seq(T) /\ u \in Seq(T)
  OBVIOUS
<1>2. Len(s) = 3 /\ Len(t) = 2 /\ Len(u) = 5
  OBVIOUS
<1>3. /\ s[1] = a /\ s[2] = b /\ s[3] = c /\ t[1] = d /\ t[2] = e
      /\ u[1] = a /\ u[2] = b /\ u[3] = c /\ u[4] = d /\ u[5] = e
  OBVIOUS
<1> HIDE DEF T, s, t, u
<1>4. /\ s \o t \in Seq(T) /\ Len(s \o t) = Len(s) + Len(t)
      /\ \A i \in 1..Len(s) + Len(t) :
            (s \o t)[i] = IF i <= Len(s) THEN s[i] ELSE t[i - Len(s)]
  BY <1>1
<1>5. Len(s \o t) = 5 /\ \A i \in 1..5 : (s \o t)[i] = u[i]
  BY <1>2, <1>3, <1>4
<1>6. s \o t = u
  BY <1>1, <1>2, <1>4, <1>5
<1>7. QED
  BY <1>6 DEF s, t, u

LEMMA AxesSum ==
  ASSUME NEW rounds \in Seq(OwnRounds), NEW S, NEW models \in Seq(S), NEW tools \in Seq(S),
         NEW features, features = SessionFeatures(rounds, models, tools),
         NEW rules, rules = deriveSessionSignals(rounds, models, features),
         NEW values, values = AxesOf(rounds, models, tools, features, rules,
                                     modelSignals(models, tools))
  PROVE  /\ Round(SumOf(values), Len(values)) \in Int
         /\ FailedRules(rules) = {} => 50 <= Round(SumOf(values), Len(values))
<1> DEFINE signals == modelSignals(models, tools)
           response == computeResponseScore(rounds, rules, features, models, tools)
           thinking == computeThinkingScore(signals, features)
           resource == computeResourceScore(features)
           stability == computeStabilityScore(features, rules)
           orchestration == computeOrchestrationScore(features)
           whole == FailedRules(rules) = {}
<1>1. FeaturesCounted(features) /\ features.toolCalls = Len(tools)
  BY FeaturesAreCounts DEF SessionFeatures
<1>2. /\ ~hasExecutionFailureRule(rules)
      /\ whole => /\ features.toolFailures = 0 /\ features.avgTokensPerTurn <= 76000
                  /\ features.maxSerialRun < 3
  BY RulesOfSession
<1>3. /\ features.toolCalls \in Nat /\ features.maxSerialRun \in Nat
      /\ features.toolFailures \in Nat /\ features.avgTokensPerTurn \in Nat
  BY <1>1 DEF FeaturesCounted
<1>4. TotalDuration(rounds) \in Nat /\ signals.noop \in Nat
  BY DurationType, IdleRuns
<1>5. response \in Nat /\ (whole => response >= 39)
  <2>1. response \in Nat /\ (features.maxSerialRun < 3 => response >= 39)
    BY <1>2, <1>3, <1>4, ResponseBounds
  <2>2. QED
    BY <1>2, <2>1
<1>6. thinking \in Nat /\ (whole => thinking >= 35)
  <2>1. thinking \in Nat /\ (features.maxSerialRun < 3 => thinking >= 35)
    BY <1>3, <1>4, ThinkingBounds
  <2>2. QED
    BY <1>2, <2>1
<1>7. resource \in Nat /\ (whole => resource >= 100)
  <2>1. resource \in Nat /\ (features.avgTokensPerTurn <= 76000 => resource >= 100)
    BY <1>3, ResourceBounds
  <2>2. QED
    BY <1>2, <2>1
<1>8. orchestration \in Nat /\ (whole => orchestration >= 100)
  <2>1. orchestration \in Nat /\ (features.maxSerialRun < 3 => orchestration >= 100)
    BY <1>3, OrchestrationBounds
  <2>2. QED
    BY <1>2, <2>1
<1>9. ASSUME tools # <<>> PROVE stability \in Nat /\ (whole => stability >= 100)
  <2>1. features.toolCalls # 0
    BY <1>1, <1>9
  <2>2. stability \in Nat /\ (features.toolFailures = 0 => stability >= 100)
    BY <1>2, <1>3, <2>1, StabilityBounds
  <2>3. QED
    BY <1>2, <2>2
<1>10. values = <<response, thinking, resource>>
                \o (IF tools = <<>> THEN <<>> ELSE <<stability, orchestration>>)
  BY DEF AxesOf
<1> HIDE DEF response, thinking, resource, stability, orchestration, whole
<1>11. CASE tools = <<>>
  <2> DEFINE sum == response + thinking + resource
  <2>1. values = <<response, thinking, resource>>
    BY <1>10, <1>11
  <2>2. SumOf(values) = sum
    BY <1>5, <1>6, <1>7, <2>1, SumOfThree
  <2>3. Len(values) = 3
    BY <2>1
  <2>4. sum \in Int /\ (whole => 50 * 3 <= sum)
    BY <1>5, <1>6, <1>7
  <2> HIDE DEF sum
  <2>5. Round(sum, 3) \in Int /\ (whole => 50 <= Round(sum, 3))
    BY <2>4, RoundBounds
  <2>6. QED
    BY <2>2, <2>3, <2>5 DEF whole
<1>12. CASE tools # <<>>
  <2> DEFINE sum == response + thinking + resource + stability + orchestration
  <2>1. values = <<response, thinking, resource>> \o <<stability, orchestration>>
    BY Zenon, <1>10, <1>12
  <2>2. values = <<response, thinking, resource, stability, orchestration>>
    BY Zenon, <2>1, ThreeAndTwo
  <2>3. stability \in Nat /\ (whole => stability >= 100)
    BY <1>9, <1>12
  <2>4. SumOf(<<response, thinking, resource, stability, orchestration>>) = sum
    <3>1. response \in Nat /\ thinking \in Nat /\ resource \in Nat /\ orchestration \in Nat
      BY <1>5, <1>6, <1>7, <1>8
    <3>2. stability \in Nat
      BY <2>3
    <3>3. \A a, b, c, d, e \in Nat : SumOf(<<a, b, c, d, e>>) = a + b + c + d + e
      BY SumOfFive
    <3>4. \A c, d, e \in Nat : SumOf(<<response, thinking, c, d, e>>)
                              = response + thinking + c + d + e
      BY Zenon, <3>1, <3>3
    <3>5. \A e \in Nat : SumOf(<<response, thinking, resource, stability, e>>)
                       = response + thinking + resource + stability + e
      BY Zenon, <3>1, <3>2, <3>4
    <3>6. QED
      BY Zenon, <3>1, <3>5
  <2>5. SumOf(values) = sum
    BY <2>2, <2>4
  <2>6. Len(values) = 5
    BY <2>2
  <2>7. sum \in Int /\ (whole => 50 * 5 <= sum)
    BY <1>5, <1>6, <1>7, <1>8, <2>3
  <2> HIDE DEF sum
  <2>8. Round(sum, 5) \in Int /\ (whole => 50 <= Round(sum, 5))
    BY <2>7, RoundBounds
  <2>9. QED
    BY <2>5, <2>6, <2>8 DEF whole
<1>13. QED
  BY <1>11, <1>12

LEMMA LevelsOfRounds ==
  ASSUME NEW rounds \in Seq(OwnRounds)
  PROVE  LET m == computeBundlePrecomputedMetrics(rounds)
         IN  /\ m.level = 2 => FailedRules(m.rules) # {}
             /\ FailedRules(m.rules) # {} => m.level > 0
<1> DEFINE models == getModelSpansForBundle(rounds)
           tools == getToolSpansForBundle(rounds)
           features == SessionFeatures(rounds, models, tools)
           rules == deriveSessionSignals(rounds, models, features)
           signals == modelSignals(models, tools)
           values == AxesOf(rounds, models, tools, features, rules, signals)
<1>1. models \in Seq(SpanSet) /\ tools \in Seq(SpanSet)
  BY ModelsAre, ToolsAre
<1>2. computeBundlePrecomputedMetrics(rounds) = Scored(values, signals, rules)
  BY DEF computeBundlePrecomputedMetrics, WithSpans, WithFeatures, WithRules
<1>3. Scored(values, signals, rules).rules = rules
  BY DEF Scored
<1> HIDE DEF models, tools
<1>4. /\ rules \in Seq(Range(rules)) /\ ~hasExecutionFailureRule(rules)
      /\ \A rule \in Range(rules) : rule.label # "healthy"
  <2> HIDE DEF rules
  <2>1. rules = deriveSessionSignals(rounds, models, features)
    BY DEF rules
  <2>2. QED
    BY <2>1, RulesOfSession
<1>5. /\ Round(SumOf(values), Len(values)) \in Int
      /\ FailedRules(rules) = {} => 50 <= Round(SumOf(values), Len(values))
  <2> HIDE DEF features, rules, values
  <2>1. /\ features = SessionFeatures(rounds, models, tools)
        /\ rules = deriveSessionSignals(rounds, models, features)
        /\ values = AxesOf(rounds, models, tools, features, rules, modelSignals(models, tools))
    BY DEF features, rules, values
  <2>2. QED
    BY <1>1, <2>1, AxesSum
<1> HIDE DEF features, rules, signals, values
<1>6. LET level == Scored(values, signals, rules).level
      IN  /\ level = 2 => FailedRules(rules) # {}
          /\ FailedRules(rules) # {} => level > 0
  BY <1>4, <1>5, LevelsOfScores
<1>7. QED
  BY <1>2, <1>3, <1>6

(* Whatever was parsed, red sessions have a failed rule and green ones     *)
(* have none: when every rule passes the axes average to at least 58       *)
(* points, above the threshold of 50, and the label of a failed rule       *)
(* never reads healthy, so that no score makes its session green.          *)
THEOREM LevelsAreExplained == Spec => []LevelIsExplained
<1>1. out.rounds \in Seq(OwnRounds) => LevelIsExplained
  BY LevelsOfRounds DEF LevelIsExplained, FailedRules
<1>2. QED
  BY <1>1, RoundsStayWhole, PTL
=============================================================================
