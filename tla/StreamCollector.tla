-------------------------- MODULE StreamCollector --------------------------
(***************************************************************************)
(* The collector behind ParseStream (tracelog/parser.go): it reads the     *)
(* events of a session one by one, keeps per log id what a call needs, and *)
(* stops when the bytes it retains pass a limit.                           *)
(***************************************************************************)
EXTENDS Integers, Sequences, Functions

CONSTANTS
    Event,          \* the events a line may hold
    Payload,        \* the values of an event's data, records with a size
    NoData,         \* data that is absent
    HardLimit,      \* bytes retained at most
    PressureLimit,  \* bytes from which on memory is looked at
    CheckStep       \* bytes between two looks at the memory

ASSUME LimitAssumption ==
    /\ HardLimit \in Nat \ {0}
    /\ PressureLimit \in Nat
    /\ CheckStep \in Nat \ {0}

EventType == {"REQUEST_BODY", "RESPONSE_BODY_FINAL", "RESPONSE_BODY",
              "RESPONSE_META", "STREAM_RESPONSE", ""}

ASSUME EventAssumption ==
    /\ \A d \in Payload : d.size \in Nat
    /\ NoData \in Payload /\ NoData.size = 0
    /\ \A ev \in Event : ev.type \in EventType /\ ev.ts \in Nat /\ ev.data \in Payload

VARIABLES
    calls,          \* what is kept of each call, by log id
    order,          \* log ids in the order of their first event
    fallbackEvents, \* events without a log or prompt id
    sessionID,      \* the first session id seen
    totalBytes,     \* bytes retained, as the collector counts them
    nextMemCheck,   \* count at which the memory is looked at again
    truncation      \* the reason for stopping and the bytes then kept

collector == <<calls, order, fallbackEvents, sessionID, totalBytes,
               nextMemCheck, truncation>>

\* sessionPressureLimitBytes: without a sensible value it is the hard limit.
pressureBytes ==
    IF PressureLimit = 0 \/ PressureLimit > HardLimit THEN HardLimit
    ELSE PressureLimit

EmptyBuf(prompt) == [prompt |-> prompt, start |-> 0, end |-> 0,
                     req |-> NoData, resp |-> NoData, meta |-> NoData]

\* No notice: nothing was left out.
NoTruncation == [reason |-> "", retained |-> 0]

NewCollector ==
    /\ calls = [log \in {} |-> EmptyBuf("")]
    /\ order = <<>>
    /\ fallbackEvents = <<>>
    /\ sessionID = ""
    /\ totalBytes = 0
    /\ nextMemCheck = pressureBytes
    /\ truncation = NoTruncation

\* The place of a call an event's data goes to, if any.
Slot(ev) ==
    CASE ev.type = "REQUEST_BODY" -> "req"
      [] ev.type \in {"RESPONSE_BODY_FINAL", "RESPONSE_BODY"} -> "resp"
      [] ev.type = "RESPONSE_META" -> "meta"
      [] OTHER -> "none"

\* Mistake: the first time seen is taken for the earliest.
TimedFirst(buf, ms) ==
    IF ms = 0 THEN buf
    ELSE [buf EXCEPT !.start = IF @ = 0 THEN ms ELSE @, !.end = ms]

\* An event with a time moves the bounds of its call; 0 is no time.
Timed(buf, ms) ==
    IF ms = 0 THEN buf
    ELSE [buf EXCEPT !.start = IF @ = 0 \/ ms < @ THEN ms ELSE @,
                     !.end = IF ms > @ THEN ms ELSE @]

\* The call of an event before its data is stored.
BufOf(ev) ==
    Timed(IF ev.log \in DOMAIN calls THEN calls[ev.log] ELSE EmptyBuf(ev.prompt),
          ev.ts)

markTruncated(reason) ==
    truncation' = [reason |-> reason, retained |-> totalBytes']

\* Mistake: the limit is compared with the count before the addition.
applyPayloadBudgetLate(kept, delta) ==
    /\ totalBytes' = kept + delta
    /\ IF kept > HardLimit THEN markTruncated("session_size_limit") ELSE UNCHANGED truncation
    /\ UNCHANGED nextMemCheck

(* delta bytes are added to kept bytes. Whether the memory is above the    *)
(* threshold, when it is looked at, is up to the machine.                  *)
applyPayloadBudget(kept, delta) ==
    /\ totalBytes' = kept + delta
    /\ \/ /\ \/ delta = 0
             \/ totalBytes' <= HardLimit /\ totalBytes' < pressureBytes
             \/ totalBytes' <= HardLimit /\ totalBytes' < nextMemCheck
          /\ UNCHANGED <<nextMemCheck, truncation>>
       \/ /\ delta > 0
          /\ totalBytes' > HardLimit
          /\ markTruncated("session_size_limit")
          /\ UNCHANGED nextMemCheck
       \/ /\ delta > 0
          /\ totalBytes' \in pressureBytes..HardLimit
          /\ totalBytes' >= nextMemCheck
          /\ nextMemCheck' = totalBytes' + CheckStep
          /\ \/ UNCHANGED truncation
             \/ markTruncated("memory_pressure")

\* An event that belongs to no call is kept whole.
AddLoose(ev) ==
    /\ ev.log = "" \/ ev.prompt = ""
    /\ fallbackEvents' = Append(fallbackEvents, ev)
    /\ applyPayloadBudget(totalBytes, ev.data.size)
    /\ UNCHANGED <<calls, order>>

\* Mistake: replaced data stays counted.
AddToCallTwice(ev) ==
    /\ ev.log # "" /\ ev.prompt # ""
    /\ order' = IF ev.log \in DOMAIN calls THEN order ELSE Append(order, ev.log)
    /\ calls' = [log \in DOMAIN calls \cup {ev.log} |->
                   IF log # ev.log THEN calls[log]
                   ELSE IF Slot(ev) = "none" THEN BufOf(ev)
                   ELSE [BufOf(ev) EXCEPT ![Slot(ev)] = ev.data]]
    /\ IF Slot(ev) = "none" THEN UNCHANGED <<totalBytes, nextMemCheck, truncation>>
       ELSE applyPayloadBudget(totalBytes, ev.data.size)
    /\ UNCHANGED fallbackEvents

\* Another event changes its call; the data it replaces is no longer counted.
AddToCall(ev) ==
    LET buf == BufOf(ev)
        slot == Slot(ev)
    IN  /\ ev.log # "" /\ ev.prompt # ""
        /\ order' = IF ev.log \in DOMAIN calls THEN order ELSE Append(order, ev.log)
        /\ calls' = [log \in DOMAIN calls \cup {ev.log} |->
                       IF log # ev.log THEN calls[log]
                       ELSE IF slot = "none" THEN buf
                       ELSE [buf EXCEPT ![slot] = ev.data]]
        /\ IF slot = "none"
           THEN UNCHANGED <<totalBytes, nextMemCheck, truncation>>
           ELSE applyPayloadBudget(totalBytes - buf[slot].size, ev.data.size)
        /\ UNCHANGED fallbackEvents

Add(ev) ==
    /\ truncation = NoTruncation
    /\ sessionID' = IF sessionID = "" THEN ev.session ELSE sessionID
    /\ AddLoose(ev) \/ AddToCall(ev)

CollectorSpec == NewCollector /\ [][\E ev \in Event : Add(ev)]_collector

----------------------------------------------------------------------------
(* While reading goes on, the bytes retained are within the hard limit and *)
(* the memory has been looked at for all that lies above the pressure      *)
(* limit; when reading has stopped, the notice gives the bytes retained.   *)
WithinBudget ==
    IF truncation = NoTruncation
    THEN totalBytes <= HardLimit
         /\ (totalBytes < pressureBytes \/ totalBytes < nextMemCheck)
    ELSE truncation.retained = totalBytes

SizeOf(buf) == buf.req.size + buf.resp.size + buf.meta.size

(* The collector's count is the sum of the sizes of what it retains, also  *)
(* after data has been replaced by later data of the same call.            *)
BytesCounted ==
    totalBytes = SumFunction([i \in DOMAIN order |-> SizeOf(calls[order[i]])])
                 + SumFunction([i \in DOMAIN fallbackEvents |-> fallbackEvents[i].data.size])
=============================================================================
