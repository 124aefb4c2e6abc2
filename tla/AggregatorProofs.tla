-------------------------- MODULE AggregatorProofs --------------------------
(***************************************************************************)
(* Theorems about Aggregator, for any days, requests, queue capacities and *)
(* retry settings.                                                         *)
(***************************************************************************)
EXTENDS Aggregator, FiniteSetTheorems, FunctionTheorems, TLAPS

PC == {"idle", "next", "acquire", "enqueue", "putBack", "select",
       "begin", "list", "listPublished", "work", "finish", "release"}

\* A goroutine with no day in hand.
Free == {"idle", "next", "select"}

Handles(x) == x.pc \notin Free => x.day \in Day

AggregatorType == ATypeOK /\ \A a \in Actor : Handles(actor[a])

LEMMA InitialTypes ==
  /\ NoRow \in DayRow
  /\ NoActor \in ActorState /\ Handles(NoActor)
BY AggregatorAssumption DEF NoRow, DayRow, NoActor, ActorState, Handles, Free, NoDay

(* The local states stay well formed when one of them becomes y. *)
LEMMA ActorMoves ==
  ASSUME AggregatorType, NEW a \in Actor, NEW y \in ActorState, Handles(y),
         actor' = [actor EXCEPT ![a] = y]
  PROVE  actor' \in [Actor -> ActorState] /\ \A b \in Actor : Handles(actor'[b])
BY DEF AggregatorType, ATypeOK

(* ... as when a goroutine ends or just goes on to its next statement. *)
LEMMA ActorGoes ==
  ASSUME AggregatorType, NEW a \in Actor, NEW pc \in PC, actor[a].pc \notin Free \/ pc \in Free,
         Goes(a, pc) \/ Ends(a)
  PROVE  actor' \in [Actor -> ActorState] /\ \A b \in Actor : Handles(actor'[b])
<1>1. CASE Goes(a, pc)
  <2>1. actor' = [actor EXCEPT ![a] = [actor[a] EXCEPT !.pc = pc]]
    BY <1>1 DEF Goes, AggregatorType, ATypeOK
  <2>2. [actor[a] EXCEPT !.pc = pc] \in ActorState /\ Handles([actor[a] EXCEPT !.pc = pc])
    <3>1. actor[a] \in ActorState /\ Handles(actor[a])
      BY DEF AggregatorType, ATypeOK
    <3>2. [actor[a] EXCEPT !.pc = pc] \in ActorState
      BY <3>1 DEF ActorState, PC
    <3>3. QED
      BY <3>1, <3>2 DEF Handles, ActorState
  <2>3. QED
    BY <2>1, <2>2, ActorMoves
<1>2. CASE Ends(a)
  BY <1>2, InitialTypes, ActorMoves DEF Ends
<1>3. QED
  BY <1>1, <1>2

(* A job that finds room in its channel. *)
LEMMA QueueType ==
  ASSUME NEW q \in Seq(Job), NEW job \in Job, NEW cap \in Nat, Len(q) <= cap
  PROVE  LET r == IF Len(q) < cap THEN Append(q, job) ELSE q IN
         r \in Seq(Job) /\ Len(r) <= cap
<1>1. Append(q, job) \in Seq(Job) /\ Len(Append(q, job)) = Len(q) + 1 /\ Len(q) \in Nat
  BY SMT
<1>2. QED
  BY <1>1

(* What a goroutine starts with. *)
LEMMA Started ==
  ASSUME NEW pc \in PC, NEW kind \in {"ensure", "force", "backfill", "cron", "worker"},
         NEW day \in Day \cup {NoDay}, NEW days \in SUBSET Day, NEW cookie \in Nat
  PROVE  [NoActor EXCEPT !.pc = pc, !.kind = kind, !.day = day, !.days = days, !.cookie = cookie]
           \in ActorState
BY InitialTypes DEF PC, ActorState

(* What a run changes of its local state. *)
Continues(x, pc, known, todo, pending, round, aborted) ==
  [x EXCEPT !.pc = pc, !.known = known, !.todo = todo, !.pending = pending,
            !.round = round, !.aborted = aborted]

LEMMA Continued ==
  ASSUME NEW x \in ActorState, NEW pc \in PC, NEW known \in SUBSET Session,
         NEW todo \in SUBSET Session, NEW pending \in SUBSET Session,
         NEW round \in 0 .. RetryRounds, NEW aborted \in BOOLEAN
  PROVE  Continues(x, pc, known, todo, pending, round, aborted) \in ActorState
BY DEF PC, Continues, ActorState

LEMMA StatusType ==
  ASSUME AggregatorType, NEW d \in Day, NEW row \in DayRow, UpsertDayStatus(d, row)
  PROVE  dayStatus' \in [Day -> DayRow]
BY DEF UpsertDayStatus, AggregatorType, ATypeOK

LEMMA CountType ==
  ASSUME NEW S \in SUBSET Session
  PROVE  IsFiniteSet(S) /\ Cardinality(S) \in Nat
BY AggregatorAssumption, FS_Subset, FS_CardinalityType
-----------------------------------------------------------------------------
(* Steps of a goroutine that only look for a day. *)
LEMMA AskingType ==
  ASSUME AggregatorType, NEW a \in Actor,
         \/ Consider(a) \/ AcquireDateFlight(a) \/ EnqueueJob(a) \/ PutBack(a)
  PROVE  AggregatorType'
<1> DEFINE ActorsOK == actor' \in [Actor -> ActorState] /\ \A b \in Actor : Handles(actor'[b])
<1>0. actor[a] \in ActorState /\ Handles(actor[a])
  BY DEF AggregatorType, ATypeOK
<1>1. CASE Consider(a)
  <2>1. ASSUME NEW d \in actor[a].days, NEW high \in BOOLEAN,
               LET rest == [actor[a] EXCEPT !.days = @ \ {d}]
                   taken == [rest EXCEPT !.pc = "acquire", !.day = d, !.high = high]
               IN  actor' = [actor EXCEPT ![a] = rest] \/ actor' = [actor EXCEPT ![a] = taken]
        PROVE  ActorsOK
    <3> DEFINE rest == [actor[a] EXCEPT !.days = @ \ {d}]
               taken == [rest EXCEPT !.pc = "acquire", !.day = d, !.high = high]
    <3>1. rest \in ActorState /\ Handles(rest) /\ d \in Day
      BY <1>0 DEF ActorState, Handles
    <3>2. taken \in ActorState /\ Handles(taken)
      BY <3>1 DEF ActorState, Handles
    <3>3. QED
      BY <2>1, <3>1, <3>2, ActorMoves
  <2>2. ActorsOK
    BY <1>1, <2>1, ActorGoes DEF Consider, PC, Free
  <2>3. QED
    BY <1>1, <2>2 DEF Consider, jobs, AggregatorType, ATypeOK
<1>2. CASE AcquireDateFlight(a)
  <2>1. actor[a].day \in Day
    BY <1>0, <1>2 DEF AcquireDateFlight, Handles, Free
  <2>2. ActorsOK
    BY <1>2, ActorGoes DEF AcquireDateFlight, PC, Free
  <2>3. QED
    BY <1>2, <2>1, <2>2 DEF AcquireDateFlight, AggregatorType, ATypeOK
<1>3. CASE EnqueueJob(a)
  <2> DEFINE job == [day |-> actor[a].day, cookie |-> actor[a].cookie]
  <2>1. job \in Job
    BY <1>0, <1>3 DEF EnqueueJob, Handles, Free, Job, ActorState
  <2>2. ActorsOK
    BY <1>3, ActorGoes DEF EnqueueJob, PC, Free
  <2>3. HighCap \in Nat /\ LowCap \in Nat
    BY AggregatorAssumption
  <2>4. /\ highJobs \in Seq(Job) /\ Len(highJobs) <= HighCap
        /\ lowJobs \in Seq(Job) /\ Len(lowJobs) <= LowCap
    BY DEF AggregatorType, ATypeOK
  <2> HIDE DEF job
  <2>5. /\ highJobs' \in Seq(Job) /\ Len(highJobs') <= HighCap
        /\ lowJobs' \in Seq(Job) /\ Len(lowJobs') <= LowCap
    <3>1. CASE actor[a].high
      <4>1. highJobs' = (IF Len(highJobs) < HighCap THEN Append(highJobs, job) ELSE highJobs)
        BY <1>3, <3>1 DEF EnqueueJob, job
      <4>2. lowJobs' = lowJobs
        BY <1>3, <3>1 DEF EnqueueJob
      <4>3. QED
        BY <2>1, <2>3, <2>4, <4>1, <4>2, QueueType
    <3>2. CASE ~actor[a].high
      <4>1. lowJobs' = (IF Len(lowJobs) < LowCap THEN Append(lowJobs, job) ELSE lowJobs)
        BY <1>3, <3>2 DEF EnqueueJob, job
      <4>2. highJobs' = highJobs
        BY <1>3, <3>2 DEF EnqueueJob
      <4>3. QED
        BY <2>1, <2>3, <2>4, <4>1, <4>2, QueueType
    <3>3. QED
      BY <3>1, <3>2
  <2>6. QED
    BY <1>3, <2>2, <2>5 DEF EnqueueJob, AggregatorType, ATypeOK
<1>4. CASE PutBack(a)
  <2>1. ActorsOK
    BY <1>4, ActorGoes DEF PutBack, PC, Free
  <2>2. QED
    BY <1>4, <2>1 DEF PutBack, AggregatorType, ATypeOK
<1>5. QED
  BY <1>1, <1>2, <1>3, <1>4

(* Steps of the worker between two runs. *)
LEMMA TakingType ==
  ASSUME AggregatorType, TakeHigh \/ Select \/ TakeLow
  PROVE  AggregatorType'
<1> DEFINE ActorsOK == actor' \in [Actor -> ActorState] /\ \A b \in Actor : Handles(actor'[b])
<1>0. Worker \in Actor
  BY DEF Actor
<1>1. ASSUME NEW job \in Job, Takes(job) PROVE ActorsOK
  <2> DEFINE y == [NoActor EXCEPT !.pc = "begin", !.day = job.day, !.cookie = job.cookie]
  <2>1. y \in ActorState /\ Handles(y)
    BY InitialTypes DEF Job, ActorState, Handles
  <2>2. QED
    BY <1>0, <1>1, <2>1, ActorMoves DEF Takes
<1>2. CASE TakeHigh
  <2>1. Head(highJobs) \in Job /\ highJobs' \in Seq(Job) /\ Len(highJobs') <= HighCap
    BY <1>2, AggregatorAssumption DEF TakeHigh, AggregatorType, ATypeOK
  <2>2. QED
    BY <1>1, <1>2, <2>1 DEF TakeHigh, AggregatorType, ATypeOK
<1>3. CASE TakeLow
  <2>1. Head(lowJobs) \in Job /\ lowJobs' \in Seq(Job) /\ Len(lowJobs') <= LowCap
    BY <1>3, AggregatorAssumption DEF TakeLow, AggregatorType, ATypeOK
  <2>2. QED
    BY <1>1, <1>3, <2>1 DEF TakeLow, AggregatorType, ATypeOK
<1>4. CASE Select
  <2>1. ActorsOK
    BY <1>0, <1>4, ActorGoes DEF Select, PC, Free
  <2>2. QED
    BY <1>4, <2>1 DEF Select, jobs, AggregatorType, ATypeOK
<1>5. QED
  BY <1>2, <1>3, <1>4

LEMMA ContinuesFields ==
  ASSUME NEW x \in ActorState, NEW pc, NEW known, NEW todo, NEW pending, NEW round, NEW aborted
  PROVE  LET y == Continues(x, pc, known, todo, pending, round, aborted) IN
         /\ y.pc = pc /\ y.known = known /\ y.todo = todo /\ y.pending = pending
         /\ y.aborted = aborted /\ y.day = x.day /\ y.kind = x.kind
BY DEF Continues, ActorState

LEMMA RunContinues ==
  ASSUME AggregatorType, NEW a \in Actor
  PROVE
    LET x == actor[a]
        Becomes(pc, known, todo, pending, round, aborted) ==
          actor' = [actor EXCEPT ![a] =
                      Continues(x, pc, known, todo, pending, round, aborted)]
    IN
    /\ Begin(a) =>
         Becomes("list", {s \in Session : upstream[s].day = x.day}, x.todo, x.pending, x.round,
                 x.aborted)
    /\ ListUnpublished(a) =>
         IF x.kind = "backfill"
         THEN Becomes("work", x.known, OfDay(x.day, FALSE) \ full, x.pending, x.round, x.aborted)
         ELSE Becomes("listPublished", x.known, OfDay(x.day, FALSE), x.pending, x.round, x.aborted)
    /\ ListPublished(a) =>
         Becomes("work", x.known, (x.todo \cup OfDay(x.day, TRUE)) \ full, x.pending, x.round,
                 x.aborted)
    /\ AggregateSession(a) =>
         \E s \in x.todo : \E pending \in {x.pending, x.pending \cup {s}} :
           /\ Becomes(x.pc, x.known, x.todo \ {s}, pending, x.round, x.aborted)
           /\ full' \in {full, full \cup {s}}
           /\ s \in full' \cup pending
    /\ AbortForMemory(a) =>
         Becomes("finish", x.known, {}, x.pending \cup x.todo, x.round, TRUE)
    /\ EndRound(a) /\ x.pending # {} /\ x.round < RetryRounds =>
         Becomes(x.pc, x.known, x.pending, {}, x.round + 1, x.aborted)
<1> DEFINE x == actor[a]
<1>0. x \in ActorState /\ actor \in [Actor -> ActorState]
  BY DEF AggregatorType, ATypeOK
<1>1. ASSUME Begin(a)
      PROVE  actor' = [actor EXCEPT ![a] =
               Continues(x, "list", {s \in Session : upstream[s].day = x.day}, x.todo, x.pending,
                         x.round, x.aborted)]
  BY <1>0, <1>1 DEF Begin, Continues, ActorState
<1>2. ASSUME ListUnpublished(a), x.kind = "backfill"
      PROVE  actor' = [actor EXCEPT ![a] =
               Continues(x, "work", x.known, OfDay(x.day, FALSE) \ full, x.pending, x.round,
                         x.aborted)]
  BY <1>0, <1>2 DEF ListUnpublished, Continues, ActorState
<1>3. ASSUME ListUnpublished(a), x.kind # "backfill"
      PROVE  actor' = [actor EXCEPT ![a] =
               Continues(x, "listPublished", x.known, OfDay(x.day, FALSE), x.pending, x.round,
                         x.aborted)]
  BY <1>0, <1>3 DEF ListUnpublished, Continues, ActorState
<1>4. ASSUME ListPublished(a)
      PROVE  actor' = [actor EXCEPT ![a] =
               Continues(x, "work", x.known, (x.todo \cup OfDay(x.day, TRUE)) \ full, x.pending,
                         x.round, x.aborted)]
  BY <1>0, <1>4 DEF ListPublished, Continues, ActorState
<1>5. ASSUME AggregateSession(a)
      PROVE  \E s \in x.todo : \E pending \in {x.pending, x.pending \cup {s}} :
               /\ actor' = [actor EXCEPT ![a] =
                    Continues(x, x.pc, x.known, x.todo \ {s}, pending, x.round, x.aborted)]
               /\ full' \in {full, full \cup {s}}
               /\ s \in full' \cup pending
  <2>1. PICK s \in x.todo :
          \/ /\ full' = full \cup {s}
             /\ actor' = [actor EXCEPT ![a].todo = @ \ {s}]
          \/ /\ actor' = [actor EXCEPT ![a].todo = @ \ {s}, ![a].pending = @ \cup {s}]
             /\ UNCHANGED full
    BY <1>5 DEF AggregateSession
  <2>2. CASE full' = full \cup {s} /\ actor' = [actor EXCEPT ![a].todo = @ \ {s}]
    <3>1. actor' = [actor EXCEPT ![a] =
                      Continues(x, x.pc, x.known, x.todo \ {s}, x.pending, x.round, x.aborted)]
      BY <1>0, <2>2 DEF Continues, ActorState
    <3>2. QED
      BY <2>2, <3>1
  <2>3. CASE /\ actor' = [actor EXCEPT ![a].todo = @ \ {s}, ![a].pending = @ \cup {s}]
             /\ UNCHANGED full
    <3>1. actor' = [actor EXCEPT ![a] =
                      Continues(x, x.pc, x.known, x.todo \ {s}, x.pending \cup {s}, x.round,
                                x.aborted)]
      BY <1>0, <2>3 DEF Continues, ActorState
    <3>2. QED
      BY <2>3, <3>1
  <2>4. QED
    BY <2>1, <2>2, <2>3
<1>6. ASSUME AbortForMemory(a)
      PROVE  actor' = [actor EXCEPT ![a] =
               Continues(x, "finish", x.known, {}, x.pending \cup x.todo, x.round, TRUE)]
  BY <1>0, <1>6 DEF AbortForMemory, Continues, ActorState
<1>7. ASSUME EndRound(a), x.pending # {}, x.round < RetryRounds
      PROVE  actor' = [actor EXCEPT ![a] =
               Continues(x, x.pc, x.known, x.pending, {}, x.round + 1, x.aborted)]
  BY <1>0, <1>7 DEF EndRound, Continues, ActorState
<1>8. QED
  BY <1>1, <1>2, <1>3, <1>4, <1>5, <1>6, <1>7

(* ... so that this is what becomes of its fields. *)
LEMMA RunSteps ==
  ASSUME AggregatorType, NEW a \in Actor
  PROVE
    LET x == actor[a]
        y == actor'[a]
        Same == /\ y.day = x.day /\ y.kind = x.kind
                /\ \A b \in Actor \ {a} : actor'[b] = actor[b]
    IN
    /\ Begin(a) =>
         Same /\ y.pc = "list" /\ y.known = {s \in Session : upstream[s].day = x.day}
    /\ ListUnpublished(a) =>
         /\ Same /\ y.known = x.known
         /\ IF x.kind = "backfill" THEN y.pc = "work"
            ELSE y.pc = "listPublished" /\ y.todo = OfDay(x.day, FALSE)
    /\ ListPublished(a) =>
         /\ Same /\ y.known = x.known /\ y.pc = "work"
         /\ y.todo = (x.todo \cup OfDay(x.day, TRUE)) \ full
    /\ AggregateSession(a) =>
         /\ Same /\ y.known = x.known /\ y.pc = x.pc
         /\ full \cup x.todo \cup x.pending \subseteq full' \cup y.todo \cup y.pending
    /\ AbortForMemory(a) =>
         Same /\ y.known = x.known /\ y.pc = "finish" /\ y.aborted
    /\ EndRound(a) /\ x.pending # {} /\ x.round < RetryRounds =>
         Same /\ y.known = x.known /\ y.pc = x.pc /\ y.todo = x.pending /\ x.todo = {}
<1> DEFINE x == actor[a]
           Same == /\ actor'[a].day = x.day /\ actor'[a].kind = x.kind
                   /\ \A b \in Actor \ {a} : actor'[b] = actor[b]
<1>1. ASSUME NEW pc, NEW known, NEW todo, NEW pending, NEW round, NEW aborted,
             actor' = [actor EXCEPT ![a] = Continues(x, pc, known, todo, pending, round, aborted)]
      PROVE  /\ Same /\ actor'[a].pc = pc /\ actor'[a].known = known /\ actor'[a].todo = todo
             /\ actor'[a].pending = pending /\ actor'[a].aborted = aborted
  <2>1. x \in ActorState /\ actor \in [Actor -> ActorState]
    BY DEF AggregatorType, ATypeOK
  <2>2. actor'[a] = Continues(x, pc, known, todo, pending, round, aborted)
    BY <1>1, <2>1
  <2>3. \A b \in Actor \ {a} : actor'[b] = actor[b]
    BY <1>1, <2>1
  <2>4. QED
    BY <2>1, <2>2, <2>3, ContinuesFields
<1>2. ASSUME Begin(a)
      PROVE  /\ Same /\ actor'[a].pc = "list"
             /\ actor'[a].known = {s \in Session : upstream[s].day = x.day}
  <2>1. actor' = [actor EXCEPT ![a] =
          Continues(x, "list", {s \in Session : upstream[s].day = x.day}, x.todo, x.pending,
                    x.round, x.aborted)]
    BY <1>2, RunContinues
  <2>2. QED
    BY <1>1, <2>1
<1>3. ASSUME ListUnpublished(a), x.kind = "backfill"
      PROVE  Same /\ actor'[a].known = x.known /\ actor'[a].pc = "work"
  <2>1. actor' = [actor EXCEPT ![a] =
          Continues(x, "work", x.known, OfDay(x.day, FALSE) \ full, x.pending, x.round, x.aborted)]
    BY <1>3, RunContinues
  <2>2. x \in ActorState /\ actor \in [Actor -> ActorState]
    BY DEF AggregatorType, ATypeOK
  <2> HIDE DEF x
  <2>3. QED
    BY <2>1, <2>2 DEF Continues, ActorState
<1>4. ASSUME ListUnpublished(a), x.kind # "backfill"
      PROVE  /\ Same /\ actor'[a].known = x.known /\ actor'[a].pc = "listPublished"
             /\ actor'[a].todo = OfDay(x.day, FALSE)
  <2>1. actor' = [actor EXCEPT ![a] =
          Continues(x, "listPublished", x.known, OfDay(x.day, FALSE), x.pending, x.round,
                    x.aborted)]
    BY <1>4, RunContinues
  <2>2. QED
    BY <1>1, <2>1
<1>5. ASSUME ListPublished(a)
      PROVE  /\ Same /\ actor'[a].known = x.known /\ actor'[a].pc = "work"
             /\ actor'[a].todo = (x.todo \cup OfDay(x.day, TRUE)) \ full
  <2>1. actor' = [actor EXCEPT ![a] =
          Continues(x, "work", x.known, (x.todo \cup OfDay(x.day, TRUE)) \ full, x.pending,
                    x.round, x.aborted)]
    BY <1>5, RunContinues
  <2>2. QED
    BY <1>1, <2>1
<1>6. ASSUME AggregateSession(a)
      PROVE  /\ Same /\ actor'[a].known = x.known /\ actor'[a].pc = x.pc
             /\ full \cup x.todo \cup x.pending
                  \subseteq full' \cup actor'[a].todo \cup actor'[a].pending
  <2>1. PICK s \in x.todo : \E pending \in {x.pending, x.pending \cup {s}} :
          /\ actor' = [actor EXCEPT ![a] =
                         Continues(x, x.pc, x.known, x.todo \ {s}, pending, x.round, x.aborted)]
          /\ full' \in {full, full \cup {s}}
          /\ s \in full' \cup pending
    BY <1>6, RunContinues
  <2>2. PICK pending \in {x.pending, x.pending \cup {s}} :
          /\ actor' = [actor EXCEPT ![a] =
                         Continues(x, x.pc, x.known, x.todo \ {s}, pending, x.round, x.aborted)]
          /\ full' \in {full, full \cup {s}}
          /\ s \in full' \cup pending
    BY <2>1
  <2>3. /\ Same /\ actor'[a].pc = x.pc /\ actor'[a].known = x.known
        /\ actor'[a].todo = x.todo \ {s} /\ actor'[a].pending = pending
    BY <1>1, <2>2
  <2>4. QED
    BY <2>2, <2>3
<1>7. ASSUME AbortForMemory(a)
      PROVE  Same /\ actor'[a].known = x.known /\ actor'[a].pc = "finish" /\ actor'[a].aborted
  <2>1. actor' = [actor EXCEPT ![a] =
          Continues(x, "finish", x.known, {}, x.pending \cup x.todo, x.round, TRUE)]
    BY <1>7, RunContinues
  <2>2. QED
    BY <1>1, <2>1
<1>8. ASSUME EndRound(a), x.pending # {}, x.round < RetryRounds
      PROVE  /\ Same /\ actor'[a].known = x.known /\ actor'[a].pc = x.pc
             /\ actor'[a].todo = x.pending /\ x.todo = {}
  <2>1. actor' = [actor EXCEPT ![a] =
          Continues(x, x.pc, x.known, x.pending, {}, x.round + 1, x.aborted)]
    BY <1>8, RunContinues
  <2>2. x.todo = {}
    BY <1>8 DEF EndRound
  <2>3. QED
    BY <1>1, <2>1, <2>2
<1> HIDE DEF x
<1>9. QED
  BY <1>2, <1>3, <1>4, <1>5, <1>6, <1>7, <1>8 DEF x

(* The steps of a run. *)
LEMMA RunningType ==
  ASSUME AggregatorType, NEW a \in Actor,
         \/ Begin(a) \/ ListUnpublished(a) \/ ListPublished(a) \/ ListRefused(a) \/ RunBreaks(a)
         \/ AggregateSession(a) \/ AbortForMemory(a) \/ EndRound(a) \/ Finish(a)
         \/ ReleaseDateFlight(a)
  PROVE  AggregatorType'
<1> DEFINE ActorsOK == actor' \in [Actor -> ActorState] /\ \A b \in Actor : Handles(actor'[b])
           x == actor[a]
<1>0. /\ x \in ActorState /\ Handles(x)
      /\ x.known \in SUBSET Session /\ x.todo \in SUBSET Session
      /\ x.pending \in SUBSET Session /\ x.round \in 0 .. RetryRounds /\ x.aborted \in BOOLEAN
  BY DEF AggregatorType, ATypeOK, ActorState
<1>1. x.day \in Day /\ x.pc \notin Free
  BY <1>0 DEF Begin, ListUnpublished, ListPublished, ListRefused, RunBreaks, AggregateSession,
              AbortForMemory, EndRound, Finish, ReleaseDateFlight, Handles, Free
<1>2. ASSUME NEW pc \in PC, NEW known \in SUBSET Session, NEW todo \in SUBSET Session,
             NEW pending \in SUBSET Session, NEW round \in 0 .. RetryRounds,
             NEW aborted \in BOOLEAN,
             actor' = [actor EXCEPT ![a] = Continues(x, pc, known, todo, pending, round, aborted)]
      PROVE  ActorsOK
  <2>1. Continues(x, pc, known, todo, pending, round, aborted) \in ActorState
    BY <1>0, Continued
  <2>2. Handles(Continues(x, pc, known, todo, pending, round, aborted))
    BY <1>0, <1>1, ContinuesFields DEF Handles
  <2>3. QED
    BY <1>2, <2>1, <2>2, ActorMoves
<1>3. ASSUME NEW row \in DayRow, UpsertDayStatus(x.day, row), ActorsOK,
             UNCHANGED <<clock, login, lastRunDate, jobs, full, upstream>>, lastCookie' \in Nat
      PROVE  AggregatorType'
  <2>1. dayStatus' \in [Day -> DayRow]
    BY <1>1, <1>3, StatusType
  <2>2. QED
    BY <1>3, <2>1 DEF jobs, AggregatorType, ATypeOK
<1>4. lastCookie \in Nat /\ clock \in Nat /\ dayStatus[x.day] \in DayRow
  BY <1>1 DEF AggregatorType, ATypeOK
<1>5. CASE Begin(a)
  <2> DEFINE known == {s \in Session : upstream[s].day = x.day}
             row == [NoRow EXCEPT !.status = "running", !.startedAt = clock, !.known = known]
  <2>1. row \in DayRow
    BY <1>4, InitialTypes DEF DayRow
  <2>2. actor' = [actor EXCEPT ![a] = Continues(x, "list", known, x.todo, x.pending, x.round, x.aborted)]
    BY <1>5, RunContinues
  <2>3. ActorsOK
    BY <1>0, <1>2, <2>2 DEF PC
  <2>4. QED
    BY <1>3, <1>4, <1>5, <2>1, <2>3 DEF Begin
<1>6. CASE ListUnpublished(a)
  <2> DEFINE listed == OfDay(x.day, FALSE)
  <2>1. listed \in SUBSET Session
    BY DEF OfDay
  <2>2. \/ actor' = [actor EXCEPT ![a] =
              Continues(x, "work", x.known, listed \ full, x.pending, x.round, x.aborted)]
        \/ actor' = [actor EXCEPT ![a] =
              Continues(x, "listPublished", x.known, listed, x.pending, x.round, x.aborted)]
    BY <1>6, RunContinues
  <2>3. ActorsOK
    <3>1. listed \ full \in SUBSET Session /\ "work" \in PC /\ "listPublished" \in PC
      BY <2>1 DEF PC
    <3> HIDE DEF listed
    <3>2. QED
      BY <1>0, <1>2, <2>1, <2>2, <3>1
  <2>4. QED
    BY <1>6, <2>3 DEF ListUnpublished, jobs, AggregatorType, ATypeOK
<1>7. CASE ListPublished(a)
  <2> DEFINE todo == (x.todo \cup OfDay(x.day, TRUE)) \ full
  <2>1. todo \in SUBSET Session
    BY <1>0 DEF OfDay
  <2>2. actor' = [actor EXCEPT ![a] =
                    Continues(x, "work", x.known, todo, x.pending, x.round, x.aborted)]
    BY <1>7, RunContinues
  <2>3. ActorsOK
    BY <1>0, <1>2, <2>1, <2>2 DEF PC
  <2>4. QED
    BY <1>7, <2>3 DEF ListPublished, jobs, AggregatorType, ATypeOK
<1>8. CASE ListRefused(a) \/ RunBreaks(a)
  <2>1. [NoRow EXCEPT !.status = "failed", !.startedAt = dayStatus[x.day].startedAt] \in DayRow
    BY <1>4, InitialTypes DEF DayRow
  <2>2. ActorsOK
    BY <1>1, <1>8, ActorGoes DEF ListRefused, RunBreaks, RunFails, PC
  <2>3. lastCookie' \in Nat
    BY <1>4, <1>8 DEF ListRefused, RunBreaks
  <2>4. QED
    BY <1>3, <1>8, <2>1, <2>2, <2>3 DEF ListRefused, RunBreaks, RunFails
<1>9. CASE AggregateSession(a)
  <2>0. PICK s \in x.todo : \E pending \in {x.pending, x.pending \cup {s}} :
          /\ actor' = [actor EXCEPT ![a] =
                         Continues(x, x.pc, x.known, x.todo \ {s}, pending, x.round, x.aborted)]
          /\ full' \in {full, full \cup {s}}
    BY <1>9, RunContinues
  <2>1. PICK pending \in {x.pending, x.pending \cup {s}} :
          /\ actor' = [actor EXCEPT ![a] =
                         Continues(x, x.pc, x.known, x.todo \ {s}, pending, x.round, x.aborted)]
          /\ full' \in {full, full \cup {s}}
    BY <2>0
  <2>2. x.pc \in PC /\ x.todo \ {s} \in SUBSET Session /\ pending \in SUBSET Session
    BY <1>0 DEF PC, ActorState
  <2>3. ActorsOK
    BY <1>0, <1>2, <2>1, <2>2
  <2>4. full' \subseteq Session
    BY <1>0, <2>1 DEF AggregatorType, ATypeOK
  <2>5. QED
    BY <1>9, <2>3, <2>4 DEF AggregateSession, jobs, AggregatorType, ATypeOK
<1>10. CASE AbortForMemory(a)
  <2>1. actor' = [actor EXCEPT ![a] =
                    Continues(x, "finish", x.known, {}, x.pending \cup x.todo, x.round, TRUE)]
    BY <1>10, RunContinues
  <2>2. x.pending \cup x.todo \in SUBSET Session /\ {} \in SUBSET Session
    BY <1>0
  <2>3. ActorsOK
    BY <1>0, <1>2, <2>1, <2>2 DEF PC
  <2>4. QED
    BY <1>10, <2>3 DEF AbortForMemory, jobs, AggregatorType, ATypeOK
<1>11. CASE EndRound(a)
  <2>1. ActorsOK
    <3>1. CASE x.pending # {} /\ x.round < RetryRounds
      <4>1. actor' = [actor EXCEPT ![a] =
                        Continues(x, x.pc, x.known, x.pending, {}, x.round + 1, x.aborted)]
        BY <1>11, <3>1, RunContinues
      <4>2. x.pc \in PC /\ {} \in SUBSET Session /\ x.round + 1 \in 0 .. RetryRounds
        BY <1>0, <3>1, AggregatorAssumption DEF PC, ActorState
      <4>3. QED
        BY <1>0, <1>2, <4>1, <4>2
    <3>2. CASE ~(x.pending # {} /\ x.round < RetryRounds)
      <4>1. Goes(a, "finish")
        BY <1>11, <3>2 DEF EndRound
      <4>2. QED
        BY <1>1, <4>1, ActorGoes DEF PC
    <3>3. QED
      BY <3>1, <3>2
  <2>2. QED
    BY <1>11, <2>1 DEF EndRound, jobs, AggregatorType, ATypeOK
<1>12. CASE Finish(a)
  <2>1. Cardinality(x.pending) \in Nat
    BY <1>0, CountType
  <2>2. [status |-> IF x.aborted THEN "paused" ELSE "completed",
         failCount |-> Cardinality(x.pending), startedAt |-> dayStatus[x.day].startedAt,
         completedAt |-> clock, known |-> x.known] \in DayRow
    BY <1>0, <1>4, <2>1 DEF DayRow
  <2>3. ActorsOK
    BY <1>1, <1>12, ActorGoes DEF Finish, PC
  <2>4. QED
    BY <1>3, <1>4, <1>12, <2>2, <2>3 DEF Finish
<1>13. CASE ReleaseDateFlight(a)
  <2>1. ActorsOK
    BY <1>1, <1>13, ActorGoes DEF ReleaseDateFlight, PC, Free
  <2>2. QED
    BY <1>13, <2>1 DEF ReleaseDateFlight, AggregatorType, ATypeOK
<1>14. QED
  BY <1>5, <1>6, <1>7, <1>8, <1>9, <1>10, <1>11, <1>12, <1>13

(* What happens around the goroutines. *)
LEMMA SurroundingsType ==
  ASSUME AggregatorType,
         \/ \E c \in Caller, kind \in Kinds, days \in SUBSET Day : Ask(c, kind, days)
         \/ Remember \/ CronFires \/ LogIn \/ Restart \/ Advance
         \/ \E s \in Session : NewSession(s) \/ Publish(s)
  PROVE  AggregatorType'
<1> DEFINE ActorsOK == actor' \in [Actor -> ActorState] /\ \A b \in Actor : Handles(actor'[b])
<1>0. clock \in Nat /\ login \in Nat /\ lastCookie \in Nat
  BY DEF AggregatorType, ATypeOK
<1>1. ASSUME NEW a \in Actor, NEW kind \in {"ensure", "force", "backfill", "cron"},
             NEW days \in SUBSET Day, NEW cookie \in Nat,
             actor' = [actor EXCEPT ![a] = [NoActor EXCEPT !.pc = "next", !.kind = kind,
                                                           !.days = days, !.cookie = cookie]]
      PROVE  ActorsOK
  <2> DEFINE y == [NoActor EXCEPT !.pc = "next", !.kind = kind, !.days = days, !.cookie = cookie]
  <2>1. y \in ActorState /\ Handles(y)
    BY InitialTypes DEF ActorState, Handles, Free
  <2>2. QED
    BY <1>1, <2>1, ActorMoves
<1>2. ASSUME NEW c \in Caller, NEW kind \in Kinds, NEW days \in SUBSET Day, Ask(c, kind, days)
      PROVE  AggregatorType'
  <2>1. ActorsOK
    BY <1>0, <1>1, <1>2 DEF Ask, Actor, Kinds
  <2>2. QED
    BY <1>0, <1>2, <2>1 DEF Ask, jobs, AggregatorType, ATypeOK
<1>3. CASE CronFires
  <2>1. Today \in Nat
    BY <1>0, AggregatorAssumption DEF Today, DayOf
  <2>2. {Today - 1, Today} \cap Day \in SUBSET Day /\ Cron \in Actor
    BY DEF Actor
  <2>3. ActorsOK
    BY <1>0, <1>1, <1>3, <2>2 DEF CronFires
  <2>4. QED
    BY <1>3, <2>1, <2>3 DEF CronFires, jobs, AggregatorType, ATypeOK
<1>4. CASE Remember \/ LogIn \/ Advance
  BY <1>0, <1>4 DEF Remember, LogIn, Advance, jobs, AggregatorType, ATypeOK
<1>5. ASSUME NEW s \in Session, NewSession(s) \/ Publish(s)
      PROVE  AggregatorType'
  <2>1. upstream' \in [Session -> [day : Day \cup {NoDay}, published : BOOLEAN]]
    <3> DEFINE Upstream == [day : Day \cup {NoDay}, published : BOOLEAN]
    <3>1. upstream \in [Session -> Upstream]
      BY DEF AggregatorType, ATypeOK
    <3>2. \E u \in Upstream : upstream' = [upstream EXCEPT ![s] = u]
      <4>1. upstream[s].day \in Day \cup {NoDay} /\ upstream[s].published \in BOOLEAN
        BY <3>1
      <4>2. CASE NewSession(s)
        <5>1. [upstream[s] EXCEPT !.day = Today] \in Upstream
          BY <3>1, <4>1, <4>2 DEF NewSession
        <5>2. QED
          BY <3>1, <4>2, <5>1 DEF NewSession
      <4>3. CASE Publish(s)
        <5>1. [upstream[s] EXCEPT !.published = TRUE] \in Upstream
          BY <3>1, <4>1
        <5>2. QED
          BY <3>1, <4>3, <5>1 DEF Publish
      <4>4. QED
        BY <1>5, <4>2, <4>3
    <3>3. QED
      BY <3>1, <3>2
  <2>2. QED
    BY <1>5, <2>1 DEF NewSession, Publish, jobs, AggregatorType, ATypeOK
<1>6. CASE Restart
  <2>1. ActorsOK
    BY <1>6, InitialTypes DEF Restart
  <2>2. dayStatus' \in [Day -> DayRow]
    <3>1. \A row \in DayRow : [row EXCEPT !.status = "failed"] \in DayRow
      BY DEF DayRow
    <3>2. \A d \in Day : dayStatus[d] \in DayRow
      BY DEF AggregatorType, ATypeOK
    <3>3. QED
      BY <1>6, <3>1, <3>2 DEF Restart
  <2>3. <<>> \in Seq(Job) /\ Len(<<>>) = 0 /\ 0 <= HighCap /\ 0 <= LowCap
    BY AggregatorAssumption
  <2>4. QED
    BY <1>0, <1>6, <2>1, <2>2, <2>3 DEF Restart, AggregatorType, ATypeOK
<1>7. QED
  BY <1>2, <1>3, <1>4, <1>5, <1>6

LEMMA TypeStep ==
  ASSUME AggregatorType, ANext
  PROVE  AggregatorType'
<1>1. CASE \E a \in Actor : Proceed(a) \/ Breaks(a)
  BY <1>1, AskingType, TakingType, RunningType DEF Proceed, Breaks
<1>2. QED
  BY <1>1, SurroundingsType DEF ANext

LEMMA AggregatorTyped == ASpec => []AggregatorType
<1>1. AInit => AggregatorType
  <2>1. ASSUME AInit PROVE ATypeOK
    <3>1. <<>> \in Seq(Job) /\ Len(<<>>) = 0 /\ 0 <= HighCap /\ 0 <= LowCap
      BY AggregatorAssumption
    <3>2. QED
      BY <2>1, <3>1, InitialTypes, AggregatorAssumption DEF AInit, ATypeOK
  <2>2. AInit => \A a \in Actor : Handles(actor[a])
    BY InitialTypes DEF AInit
  <2>3. QED
    BY <2>1, <2>2 DEF AggregatorType
<1>2. AggregatorType /\ [ANext]_avars => AggregatorType'
  <2>1. AggregatorType /\ UNCHANGED avars => AggregatorType'
    BY DEF AggregatorType, ATypeOK, avars
  <2>2. QED
    BY <2>1, TypeStep
<1>3. QED
  BY <1>1, <1>2, PTL DEF ASpec

(* The queues never exceed their capacities, a run makes no more rounds    *)
(* than it may, and everything else stays within its type.                 *)
THEOREM AggregatorTypeCorrect == ASpec => []ATypeOK
<1>1. AggregatorType => ATypeOK
  BY DEF AggregatorType
<1>2. QED
  BY <1>1, AggregatorTyped, PTL
-----------------------------------------------------------------------------
(* Days in flight.  Each of the three counts changes by one at a time.     *)
Bit(b) == IF b THEN 1 ELSE 0

LEMMA ActorsFinite == IsFiniteSet(Actor)
<1>1. IsFiniteSet(Caller \cup {Worker})
  BY AggregatorAssumption, FS_AddElement
<1>2. IsFiniteSet((Caller \cup {Worker}) \cup {Cron})
  BY <1>1, FS_AddElement
<1>3. Actor = (Caller \cup {Worker}) \cup {Cron}
  BY DEF Actor
<1>4. QED
  BY <1>2, <1>3

(* Only whether a itself holds the day matters when a takes a step. *)
LEMMA HandsCount ==
  ASSUME NEW S \in SUBSET Actor, NEW T \in SUBSET Actor, NEW a \in Actor,
         \A b \in Actor \ {a} : b \in S <=> b \in T
  PROVE  /\ Cardinality(S) \in Nat /\ Cardinality(T) \in Nat
         /\ a \in S => Cardinality(S) > 0
         /\ Cardinality(T) = Cardinality(S) + Bit(a \in T) - Bit(a \in S)
<1>1. IsFiniteSet(S) /\ IsFiniteSet(T) /\ Cardinality(S) \in Nat /\ Cardinality(T) \in Nat
  BY ActorsFinite, FS_Subset, FS_CardinalityType
<1>2. a \in S => Cardinality(S) > 0
  BY <1>1, FS_EmptySet
<1>3. CASE a \in S /\ a \notin T
  <2>1. T = S \ {a}
    BY <1>3
  <2>2. Cardinality(T) = Cardinality(S) - 1
    BY <1>1, <1>3, <2>1, FS_RemoveElement
  <2>3. QED
    BY <1>1, <1>2, <1>3, <2>2 DEF Bit
<1>4. CASE a \notin S /\ a \in T
  <2>1. T = S \cup {a}
    BY <1>4
  <2>2. Cardinality(T) = Cardinality(S) + 1
    BY <1>1, <1>4, <2>1, FS_AddElement
  <2>3. QED
    BY <1>1, <1>2, <1>4, <2>2 DEF Bit
<1>5. CASE a \in S <=> a \in T
  <2>1. S = T
    BY <1>5
  <2>2. QED
    BY <1>1, <1>2, <2>1 DEF Bit
<1>6. QED
  BY <1>3, <1>4, <1>5

LEMMA WaitingFinite ==
  ASSUME NEW q \in Seq(Job), NEW d
  PROVE  IsFiniteSet(Waiting(q, d)) /\ Cardinality(Waiting(q, d)) \in Nat
<1>1. Waiting(q, d) \in SUBSET (1 .. Len(q))
  BY DEF Waiting
<1>2. IsFiniteSet(1 .. Len(q))
  BY FS_Interval
<1>3. QED
  BY <1>1, <1>2, FS_Subset, FS_CardinalityType

LEMMA WaitingAppend ==
  ASSUME NEW q \in Seq(Job), NEW job \in Job, NEW d
  PROVE  Cardinality(Waiting(Append(q, job), d)) = Cardinality(Waiting(q, d)) + Bit(job.day = d)
<1>1. /\ Len(q) \in Nat /\ Len(Append(q, job)) = Len(q) + 1
      /\ DOMAIN q = 1 .. Len(q) /\ DOMAIN Append(q, job) = 1 .. (Len(q) + 1)
      /\ \A i \in 1 .. Len(q) : Append(q, job)[i] = q[i]
      /\ Append(q, job)[Len(q) + 1] = job
  BY SMT
<1>2. Waiting(Append(q, job), d)
        = IF job.day = d THEN Waiting(q, d) \cup {Len(q) + 1} ELSE Waiting(q, d)
  BY <1>1 DEF Waiting
<1>3. Len(q) + 1 \notin Waiting(q, d)
  BY <1>1 DEF Waiting
<1>4. IsFiniteSet(Waiting(q, d)) /\ Cardinality(Waiting(q, d)) \in Nat
  BY WaitingFinite
<1>5. Cardinality(Waiting(q, d) \cup {Len(q) + 1}) = Cardinality(Waiting(q, d)) + 1
  BY <1>3, <1>4, FS_AddElement
<1>6. QED
  BY <1>2, <1>4, <1>5 DEF Bit

LEMMA WaitingTail ==
  ASSUME NEW q \in Seq(Job), q # <<>>, NEW d
  PROVE  Cardinality(Waiting(q, d)) = Cardinality(Waiting(Tail(q), d)) + Bit(Head(q).day = d)
<1> DEFINE rest == Waiting(q, d) \ {1}
           f == [i \in Waiting(Tail(q), d) |-> i + 1]
<1>1. /\ Tail(q) \in Seq(Job) /\ Len(q) \in Nat \ {0} /\ Len(Tail(q)) = Len(q) - 1
      /\ DOMAIN q = 1 .. Len(q) /\ DOMAIN Tail(q) = 1 .. (Len(q) - 1)
      /\ \A i \in 1 .. (Len(q) - 1) : Tail(q)[i] = q[i + 1]
      /\ Head(q) = q[1]
  BY SMT
<1>2. f \in [Waiting(Tail(q), d) -> rest]
  BY <1>1 DEF Waiting
<1>3. \A i, j \in Waiting(Tail(q), d) : f[i] = f[j] => i = j
  BY <1>1 DEF Waiting
<1>4. \A k \in rest : \E i \in Waiting(Tail(q), d) : f[i] = k
  <2>1. ASSUME NEW k \in rest PROVE k - 1 \in Waiting(Tail(q), d) /\ f[k - 1] = k
    BY <1>1 DEF Waiting
  <2>2. QED
    BY <2>1
<1>5. ExistsBijection(Waiting(Tail(q), d), rest)
  BY <1>2, <1>3, <1>4, Fun_IsBij DEF ExistsBijection
<1>6. Cardinality(rest) = Cardinality(Waiting(Tail(q), d))
  BY <1>1, <1>5, WaitingFinite, FS_Bijection
<1>7. 1 \in Waiting(q, d) <=> Head(q).day = d
  BY <1>1 DEF Waiting
<1>8. IsFiniteSet(Waiting(q, d)) /\ Cardinality(Waiting(q, d)) \in Nat
  BY WaitingFinite
<1>9. Cardinality(rest) = IF 1 \in Waiting(q, d) THEN Cardinality(Waiting(q, d)) - 1
                          ELSE Cardinality(Waiting(q, d))
  BY <1>8, FS_RemoveElement
<1>10. QED
  BY <1>6, <1>7, <1>8, <1>9 DEF Bit

Hands(d) == {a \in Actor : Holds(a, d)}

Balanced(d) ==
  Cardinality(Hands(d)) + Cardinality(Waiting(highJobs, d)) + Cardinality(Waiting(lowJobs, d))
    = Bit(d \in flight)

LEMMA FlightsBalanced ==
  /\ FlightsAccounted <=> \A d \in Day : Balanced(d)
  /\ FlightsAccounted' <=> \A d \in Day : Balanced(d)'
BY DEF FlightsAccounted, Balanced, Hands, Bit, Actor

(* A step of one goroutine changes its hands only. *)
LEMMA HandsStep ==
  ASSUME AggregatorType, AggregatorType', NEW a \in Actor, NEW d,
         \A b \in Actor \ {a} : actor'[b] = actor[b]
  PROVE  /\ Cardinality(Hands(d)) \in Nat /\ Cardinality(Hands(d))' \in Nat
         /\ Holds(a, d) => Cardinality(Hands(d)) > 0
         /\ Cardinality(Hands(d))' = Cardinality(Hands(d)) + Bit(Holds(a, d)') - Bit(Holds(a, d))
         /\ Cardinality(Waiting(highJobs, d)) \in Nat /\ Cardinality(Waiting(highJobs, d))' \in Nat
         /\ Cardinality(Waiting(lowJobs, d)) \in Nat /\ Cardinality(Waiting(lowJobs, d))' \in Nat
<1>1. Hands(d) \in SUBSET Actor /\ Hands(d)' \in SUBSET Actor
  BY DEF Hands, Actor
<1>2. \A b \in Actor \ {a} : b \in Hands(d) <=> b \in Hands(d)'
  BY DEF Hands, Holds, Actor
<1>3. (a \in Hands(d) <=> Holds(a, d)) /\ (a \in Hands(d)' <=> Holds(a, d)')
  BY DEF Hands, Actor
<1>4. /\ highJobs \in Seq(Job) /\ highJobs' \in Seq(Job)
      /\ lowJobs \in Seq(Job) /\ lowJobs' \in Seq(Job)
  BY DEF AggregatorType, ATypeOK
<1>5. /\ Cardinality(Hands(d)) \in Nat /\ Cardinality(Hands(d)') \in Nat
      /\ a \in Hands(d) => Cardinality(Hands(d)) > 0
      /\ Cardinality(Hands(d)')
           = Cardinality(Hands(d)) + Bit(a \in Hands(d)') - Bit(a \in Hands(d))
  BY <1>1, <1>2, HandsCount
<1>6. /\ Cardinality(Waiting(highJobs, d)) \in Nat /\ Cardinality(Waiting(highJobs', d)) \in Nat
      /\ Cardinality(Waiting(lowJobs, d)) \in Nat /\ Cardinality(Waiting(lowJobs', d)) \in Nat
  BY <1>4, WaitingFinite
<1>7. Waiting(highJobs, d)' = Waiting(highJobs', d) /\ Waiting(lowJobs, d)' = Waiting(lowJobs', d)
  BY DEF Waiting
<1>8. QED
  BY <1>3, <1>5, <1>6, <1>7 DEF Bit

(* A step in which nobody takes, passes on or gives back a day. *)
LEMMA FlightsStay ==
  ASSUME FlightsAccounted, UNCHANGED jobs,
         \A a \in Actor, d \in Day : Holds(a, d)' <=> Holds(a, d)
  PROVE  FlightsAccounted'
<1>1. ASSUME NEW d \in Day PROVE {a \in Actor : Holds(a, d)}' = {a \in Actor : Holds(a, d)}
  BY DEF Actor
<1>2. QED
  BY <1>1 DEF FlightsAccounted, jobs, Waiting

LEMMA FlightsStep ==
  ASSUME AggregatorType, AggregatorType', FlightsAccounted, ANext
  PROVE  FlightsAccounted'
<1>0. actor \in [Actor -> ActorState] /\ highJobs \in Seq(Job) /\ lowJobs \in Seq(Job)
  BY DEF AggregatorType, ATypeOK
<1> DEFINE Alone(a) == \A b \in Actor \ {a} : actor'[b] = actor[b]
<1>1. ASSUME NEW a \in Actor, AcquireDateFlight(a) PROVE FlightsAccounted'
  <2>1. CASE actor[a].day \in flight
    <3>1. Alone(a) /\ UNCHANGED jobs /\ actor[a].pc = "acquire"
      BY <1>0, <1>1, <2>1 DEF AcquireDateFlight, Goes, Ends, jobs
    <3>2. actor'[a].pc \in Free
      BY <1>0, <1>1, <2>1 DEF AcquireDateFlight, Goes, Ends, NoActor, ActorState, Free
    <3>3. QED
      BY <3>1, <3>2, FlightsStay DEF Holds, Free
  <2>2. CASE actor[a].day \notin flight
    <3>1. Alone(a)
      BY <1>0, <1>1, <2>2 DEF AcquireDateFlight, Goes
    <3>2. ASSUME NEW d \in Day PROVE Balanced(d)'
      <4>1. /\ ~Holds(a, d) /\ (Holds(a, d)' <=> d = actor[a].day)
            /\ d \in flight' <=> d \in flight \/ d = actor[a].day
            /\ UNCHANGED <<highJobs, lowJobs>>
        BY <1>0, <1>1, <2>2 DEF AcquireDateFlight, Goes, Holds, ActorState
      <4>2. Balanced(d)
        BY FlightsBalanced
      <4>3. QED
        BY <2>2, <3>1, <4>1, <4>2, HandsStep DEF Balanced, Bit
    <3>3. QED
      BY <3>2, FlightsBalanced
  <2>3. QED
    BY <2>1, <2>2
<1>2. ASSUME NEW a \in Actor, EnqueueJob(a) PROVE FlightsAccounted'
  <2> DEFINE job == [day |-> actor[a].day, cookie |-> actor[a].cookie]
  <2>1. Alone(a) /\ job \in Job /\ job.day = actor[a].day /\ flight' = flight
    BY <1>0, <1>2 DEF EnqueueJob, Goes, AggregatorType, Handles, Free, Job, ActorState
  <2> HIDE DEF job
  <2>2. \/ Goes(a, "putBack") /\ UNCHANGED <<highJobs, lowJobs>>
        \/ Goes(a, "next") /\ highJobs' = Append(highJobs, job) /\ UNCHANGED lowJobs
        \/ Goes(a, "next") /\ lowJobs' = Append(lowJobs, job) /\ UNCHANGED highJobs
    BY <1>2 DEF EnqueueJob, job
  <2>3. CASE Goes(a, "putBack") /\ UNCHANGED <<highJobs, lowJobs>>
    BY <1>0, <1>2, <2>1, <2>3, FlightsStay DEF EnqueueJob, Goes, Holds, ActorState, jobs
  <2>4. CASE Goes(a, "next") /\ ~UNCHANGED <<highJobs, lowJobs>>
    <3>1. ASSUME NEW d \in Day PROVE Balanced(d)'
      <4>1. (Holds(a, d) <=> job.day = d) /\ ~Holds(a, d)'
        BY <1>0, <1>2, <2>1, <2>4 DEF EnqueueJob, Goes, Holds, ActorState
      <4>2. Cardinality(Waiting(highJobs, d))' + Cardinality(Waiting(lowJobs, d))'
              = Cardinality(Waiting(highJobs, d)) + Cardinality(Waiting(lowJobs, d))
                  + Bit(job.day = d)
        <5>1. /\ Cardinality(Waiting(highJobs, d)) \in Nat
              /\ Cardinality(Waiting(lowJobs, d)) \in Nat
          BY <1>0, WaitingFinite
        <5>2. CASE highJobs' = Append(highJobs, job) /\ UNCHANGED lowJobs
          BY <1>0, <2>1, <5>1, <5>2, WaitingAppend DEF Bit
        <5>3. CASE lowJobs' = Append(lowJobs, job) /\ UNCHANGED highJobs
          BY <1>0, <2>1, <5>1, <5>3, WaitingAppend DEF Bit
        <5>4. QED
          BY <2>2, <2>4, <5>2, <5>3
      <4>3. Balanced(d)
        BY FlightsBalanced
      <4>4. QED
        BY <2>1, <4>1, <4>2, <4>3, HandsStep DEF Balanced, Bit
    <3>2. QED
      BY <3>1, FlightsBalanced
  <2>5. QED
    BY <1>2, <2>2, <2>3, <2>4
<1>3. ASSUME NEW a \in Actor, PutBack(a) \/ ReleaseDateFlight(a) PROVE FlightsAccounted'
  <2>1. ASSUME NEW d \in Day PROVE Balanced(d)'
    <3>1. Alone(a)
      BY <1>0, <1>3 DEF PutBack, ReleaseDateFlight, Goes, Ends
    <3>2. /\ (Holds(a, d) <=> d = actor[a].day) /\ ~Holds(a, d)'
          /\ d \in flight' <=> d \in flight /\ d # actor[a].day
          /\ UNCHANGED <<highJobs, lowJobs>>
      BY <1>0, <1>3 DEF PutBack, ReleaseDateFlight, Goes, Ends, Holds, ActorState, NoActor
    <3>3. Balanced(d)
      BY FlightsBalanced
    <3>4. QED
      BY <3>1, <3>2, <3>3, HandsStep DEF Balanced, Bit
  <2>2. QED
    BY <2>1, FlightsBalanced
<1>4. ASSUME TakeHigh \/ TakeLow PROVE FlightsAccounted'
  <2>0. Worker \in Actor
    BY DEF Actor
  <2>1. ASSUME NEW d \in Day PROVE Balanced(d)'
    <3>1. Alone(Worker) /\ ~Holds(Worker, d) /\ flight' = flight
      BY <1>0, <1>4 DEF TakeHigh, TakeLow, Takes, Holds
    <3>2. Cardinality(Waiting(highJobs, d)) + Cardinality(Waiting(lowJobs, d))
            = Cardinality(Waiting(highJobs, d))' + Cardinality(Waiting(lowJobs, d))'
                + Bit(Holds(Worker, d)')
      <4>1. CASE TakeHigh
        <5>1. Holds(Worker, d)' <=> Head(highJobs).day = d
          BY <1>0, <2>0, <4>1 DEF TakeHigh, Takes, Holds, NoActor
        <5>2. highJobs # <<>> /\ highJobs' = Tail(highJobs) /\ lowJobs' = lowJobs
          BY <4>1 DEF TakeHigh
        <5>3. Tail(highJobs) \in Seq(Job)
          BY <1>0, <5>2
        <5>4. /\ Waiting(highJobs, d)' = Waiting(highJobs', d)
              /\ Waiting(lowJobs, d)' = Waiting(lowJobs', d)
          BY DEF Waiting
        <5>5. Cardinality(Waiting(highJobs, d))
                = Cardinality(Waiting(Tail(highJobs), d)) + Bit(Head(highJobs).day = d)
          BY <1>0, <5>2, WaitingTail
        <5>6. /\ Cardinality(Waiting(highJobs, d)) \in Nat
              /\ Cardinality(Waiting(lowJobs, d)) \in Nat
              /\ Cardinality(Waiting(Tail(highJobs), d)) \in Nat
          BY <1>0, <5>3, WaitingFinite
        <5>7. /\ Cardinality(Waiting(highJobs, d))' = Cardinality(Waiting(Tail(highJobs), d))
              /\ Cardinality(Waiting(lowJobs, d))' = Cardinality(Waiting(lowJobs, d))
          BY <5>2, <5>4
        <5>8. QED
          BY <5>1, <5>5, <5>6, <5>7 DEF Bit
      <4>2. CASE TakeLow
        <5>1. Holds(Worker, d)' <=> Head(lowJobs).day = d
          BY <1>0, <2>0, <4>2 DEF TakeLow, Takes, Holds, NoActor
        <5>2. lowJobs # <<>> /\ lowJobs' = Tail(lowJobs) /\ highJobs' = highJobs
          BY <4>2 DEF TakeLow
        <5>3. Tail(lowJobs) \in Seq(Job)
          BY <1>0, <5>2
        <5>4. /\ Waiting(highJobs, d)' = Waiting(highJobs', d)
              /\ Waiting(lowJobs, d)' = Waiting(lowJobs', d)
          BY DEF Waiting
        <5>5. Cardinality(Waiting(lowJobs, d))
                = Cardinality(Waiting(Tail(lowJobs), d)) + Bit(Head(lowJobs).day = d)
          BY <1>0, <5>2, WaitingTail
        <5>6. /\ Cardinality(Waiting(highJobs, d)) \in Nat
              /\ Cardinality(Waiting(lowJobs, d)) \in Nat
              /\ Cardinality(Waiting(Tail(lowJobs), d)) \in Nat
          BY <1>0, <5>3, WaitingFinite
        <5>7. /\ Cardinality(Waiting(lowJobs, d))' = Cardinality(Waiting(Tail(lowJobs), d))
              /\ Cardinality(Waiting(highJobs, d))' = Cardinality(Waiting(highJobs, d))
          BY <5>2, <5>4
        <5>8. QED
          BY <5>1, <5>5, <5>6, <5>7 DEF Bit
      <4>3. QED
        BY <1>4, <4>1, <4>2
    <3>3. Balanced(d)
      BY FlightsBalanced
    <3>4. QED
      BY <2>0, <3>1, <3>2, <3>3, HandsStep DEF Balanced, Bit
  <2>2. QED
    BY <2>1, FlightsBalanced
<1>5. CASE Restart
  <2>1. ASSUME NEW d \in Day PROVE Balanced(d)'
    <3>1. Hands(d)' = {} /\ Waiting(highJobs, d)' = {} /\ Waiting(lowJobs, d)' = {}
      BY <1>5 DEF Restart, Hands, Holds, Actor, NoActor, Waiting
    <3>2. d \notin flight'
      BY <1>5 DEF Restart
    <3>3. QED
      BY <3>1, <3>2, FS_EmptySet DEF Balanced, Bit
  <2>2. QED
    BY <2>1, FlightsBalanced
<1>6. ASSUME NEW a \in Actor,
             \/ Consider(a) \/ (a = Worker /\ Select)
             \/ \E kind \in Kinds, days \in SUBSET Day : Ask(a, kind, days)
             \/ a = Cron /\ CronFires
      PROVE FlightsAccounted'
  <2>1. actor[a].pc \in Free /\ Alone(a) /\ UNCHANGED jobs
    BY <1>0, <1>6 DEF Consider, Select, Ask, CronFires, Goes, Ends, Free, jobs
  <2>2. actor'[a].pc \in Free \cup {"acquire"}
    <3>1. CASE Consider(a)
      <4>1. ASSUME NEW d \in actor[a].days, NEW high \in BOOLEAN,
                   LET rest == [actor[a] EXCEPT !.days = @ \ {d}]
                       taken == [rest EXCEPT !.pc = "acquire", !.day = d, !.high = high]
                   IN  actor' = [actor EXCEPT ![a] = rest] \/ actor' = [actor EXCEPT ![a] = taken]
            PROVE  actor'[a].pc \in Free \cup {"acquire"}
        <5> DEFINE rest == [actor[a] EXCEPT !.days = @ \ {d}]
                   taken == [rest EXCEPT !.pc = "acquire", !.day = d, !.high = high]
        <5>1. actor[a] \in ActorState /\ actor[a].pc = "next"
          BY <1>0, <3>1 DEF Consider
        <5>2. rest.pc = "next" /\ DOMAIN rest = DOMAIN actor[a]
          BY <5>1 DEF ActorState
        <5>3. "pc" \in DOMAIN rest
          BY <5>1, <5>2 DEF ActorState
        <5> HIDE DEF rest
        <5>4. taken.pc = "acquire"
          BY <5>3
        <5> HIDE DEF taken
        <5>5. actor' = [actor EXCEPT ![a] = rest] \/ actor' = [actor EXCEPT ![a] = taken]
          BY <4>1 DEF rest, taken
        <5>6. QED
          BY <1>0, <5>2, <5>4, <5>5 DEF Free
      <4>2. QED
        <5>1. CASE Ends(a)
          BY <1>0, <5>1 DEF Ends, NoActor, Free
        <5>2. QED
          BY <3>1, <4>1, <5>1 DEF Consider
    <3>2. CASE a = Worker /\ Select
      BY <1>0, <3>2 DEF Select, Goes, Free, ActorState
    <3>3. CASE ~Consider(a) /\ ~(a = Worker /\ Select)
      BY <1>0, <1>6, <3>3 DEF Ask, CronFires, Free, NoActor
    <3>4. QED
      BY <3>1, <3>2, <3>3
  <2>3. QED
    BY <2>1, <2>2, FlightsStay DEF Holds, Free
<1>7. ASSUME NEW a \in Actor,
             \/ Begin(a) \/ ListUnpublished(a) \/ ListPublished(a) \/ ListRefused(a)
             \/ RunBreaks(a) \/ AggregateSession(a) \/ AbortForMemory(a) \/ EndRound(a)
             \/ Finish(a)
      PROVE FlightsAccounted'
  <2> DEFINE Running == {"begin", "list", "listPublished", "work", "finish", "release"}
  <2>1. Alone(a) /\ UNCHANGED jobs
    BY <1>0, <1>7 DEF Begin, ListUnpublished, ListPublished, ListRefused, RunBreaks, RunFails,
                      AggregateSession, AbortForMemory, EndRound, Finish, Goes, jobs
  <2>2. actor[a].pc \in Running
    BY <1>7 DEF Begin, ListUnpublished, ListPublished, ListRefused, RunBreaks, AggregateSession,
                AbortForMemory, EndRound, Finish
  <2>3. actor'[a].pc \in Running /\ actor'[a].day = actor[a].day
    <3>1. actor[a] \in ActorState
      BY <1>0
    <3>2. CASE Begin(a)
      BY <3>2, RunSteps
    <3>3. CASE ListUnpublished(a) \/ ListPublished(a)
      BY <3>3, RunSteps
    <3>4. CASE AggregateSession(a)
      BY <2>2, <3>4, RunSteps
    <3>5. CASE AbortForMemory(a)
      BY <3>5, RunSteps
    <3>6. CASE EndRound(a) /\ actor[a].pending # {} /\ actor[a].round < RetryRounds
      BY <2>2, <3>6, RunSteps
    <3>7. CASE /\ ListRefused(a) \/ RunBreaks(a) \/ Finish(a) \/ EndRound(a)
               /\ ~(EndRound(a) /\ actor[a].pending # {} /\ actor[a].round < RetryRounds)
      <4>1. Goes(a, "finish") \/ Goes(a, "release")
        BY <3>7 DEF ListRefused, RunBreaks, RunFails, Finish, EndRound
      <4>2. QED
        BY <1>0, <3>1, <4>1 DEF Goes, ActorState
    <3>8. QED
      BY <1>7, <3>2, <3>3, <3>4, <3>5, <3>6, <3>7
  <2>4. QED
    BY <2>1, <2>2, <2>3, FlightsStay DEF Holds
<1>8. ASSUME \/ Remember \/ LogIn \/ Advance
             \/ \E s \in Session : NewSession(s) \/ Publish(s)
      PROVE FlightsAccounted'
  BY <1>8, FlightsStay DEF Remember, LogIn, Advance, NewSession, Publish, Holds
<1>9. Worker \in Actor /\ Cron \in Actor /\ Caller \subseteq Actor
  BY DEF Actor
<1>10. ASSUME NEW a \in Actor, Proceed(a) \/ Breaks(a) PROVE FlightsAccounted'
  <2>1. CASE \/ AcquireDateFlight(a) \/ EnqueueJob(a) \/ PutBack(a) \/ ReleaseDateFlight(a)
    BY <1>1, <1>2, <1>3, <2>1
  <2>2. CASE Consider(a) \/ (a = Worker /\ Select)
    BY <1>6, <2>2
  <2>3. CASE TakeHigh \/ TakeLow
    BY <1>4, <2>3
  <2>4. CASE \/ Begin(a) \/ ListUnpublished(a) \/ ListPublished(a) \/ ListRefused(a)
             \/ RunBreaks(a) \/ AggregateSession(a) \/ AbortForMemory(a) \/ EndRound(a)
             \/ Finish(a)
    BY <1>7, <2>4
  <2>5. CASE Breaks(a)
    BY <2>4, <2>5 DEF Breaks
  <2>6. CASE Proceed(a)
    BY <2>1, <2>2, <2>3, <2>4, <2>6 DEF Proceed
  <2>7. QED
    BY <1>10, <2>5, <2>6
<1>11. QED
  BY <1>5, <1>6, <1>8, <1>9, <1>10 DEF ANext

(* A day in flight is in exactly one pair of hands and a day that is not   *)
(* is in none: a day never runs twice at once and is never locked with     *)
(* nobody left to unlock it, however full the channels are and whoever     *)
(* asks, breaks off or restarts.                                           *)
THEOREM FlightsKept == ASpec => []FlightsAccounted
<1>1. AInit => FlightsAccounted
  <2>1. ASSUME AInit, NEW d \in Day PROVE Balanced(d)
    <3>1. Hands(d) = {} /\ Waiting(highJobs, d) = {} /\ Waiting(lowJobs, d) = {} /\ d \notin flight
      BY <2>1 DEF AInit, Hands, Holds, Actor, NoActor, Waiting
    <3>2. QED
      BY <3>1, FS_EmptySet DEF Balanced, Bit
  <2>2. QED
    BY <2>1, FlightsBalanced
<1>2. AggregatorType /\ AggregatorType' /\ FlightsAccounted /\ [ANext]_avars => FlightsAccounted'
  <2>1. FlightsAccounted /\ UNCHANGED avars => FlightsAccounted'
    BY FlightsStay DEF avars, jobs, Holds
  <2>2. QED
    BY <2>1, FlightsStep
<1>3. QED
  BY <1>1, <1>2, AggregatorTyped, PTL DEF ASpec
-----------------------------------------------------------------------------
(* Completed days.  What upstream had of a run's day when the run began    *)
(* has a row already, or is listed, or left for a later round, or was      *)
(* published since and will be in the second list.                         *)
Running == {"list", "listPublished", "work", "finish"}

RunOK(a) ==
  LET x == actor[a] IN
  /\ x.kind # "backfill"
  /\ x.pc \in Running => \A s \in x.known : upstream[s].day = x.day
  /\ x.pc = "listPublished" =>
       \A s \in x.known : s \in x.todo \cup full \/ upstream[s].published
  /\ x.pc = "work" => x.known \subseteq full \cup x.todo \cup x.pending
  /\ x.pc = "finish" /\ ~x.aborted => x.known \subseteq full \cup x.pending

RunsOK == \A a \in Actor : RunOK(a)

\* Rows stay, sessions stay on their day and published ones stay published.
Grows ==
  /\ full \subseteq full'
  /\ \A s \in Session : upstream[s].day # NoDay =>
       /\ upstream'[s].day = upstream[s].day
       /\ upstream[s].published => upstream'[s].published

LEMMA Growth ==
  ASSUME AggregatorType, ANext
  PROVE  Grows
<1>1. upstream \in [Session -> [day : Day \cup {NoDay}, published : BOOLEAN]]
  BY DEF AggregatorType, ATypeOK
<1>2. ASSUME NEW s \in Session, NewSession(s) \/ Publish(s) PROVE Grows
  BY <1>1, <1>2 DEF NewSession, Publish, Grows
<1>3. ASSUME NEW a \in Actor, AggregateSession(a) PROVE Grows
  BY <1>3 DEF AggregateSession, Grows
<1>4. ASSUME UNCHANGED <<full, upstream>> PROVE Grows
  BY <1>4 DEF Grows
<1>5. ASSUME NEW a \in Actor, Proceed(a) \/ Breaks(a) PROVE Grows
  <2>1. \/ AggregateSession(a) \/ UNCHANGED <<full, upstream>>
    BY <1>5 DEF Proceed, Breaks, Consider, AcquireDateFlight, EnqueueJob, PutBack, TakeHigh, Select,
                TakeLow, Begin, ListUnpublished, ListPublished, ListRefused, RunBreaks, RunFails,
                EndRound, Finish, ReleaseDateFlight, AbortForMemory
  <2>2. QED
    BY <1>3, <1>4, <2>1
<1>6. QED
  BY <1>2, <1>4, <1>5 DEF ANext, Ask, Remember, CronFires, LogIn, Restart, Advance

(* A goroutine that does nothing itself. *)
LEMMA RunStays ==
  ASSUME AggregatorType, Grows, NEW b \in Actor, RunOK(b), actor'[b] = actor[b]
  PROVE  RunOK(b)'
<1> DEFINE x == actor[b]
<1>1. /\ x.pc \in Running => x.day \in Day
      /\ x.known \subseteq Session
  BY DEF AggregatorType, ATypeOK, ActorState, Handles, Free, Running
<1>2. NoDay \notin Day
  BY AggregatorAssumption DEF NoDay
<1>3. x.pc \in Running =>
        \A s \in x.known : /\ upstream'[s].day = x.day
                           /\ upstream[s].published => upstream'[s].published
  BY <1>1, <1>2 DEF Grows, RunOK
<1>4. full \subseteq full'
  BY DEF Grows
<1>5. QED
  BY <1>3, <1>4 DEF RunOK, Running

(* A step of a goroutine that is in none of the middle stages of a run. *)
LEMMA RunAway ==
  ASSUME AggregatorType, Grows, RunsOK, NEW a \in Actor,
         \A b \in Actor \ {a} : actor'[b] = actor[b],
         actor'[a].pc \notin Running, actor'[a].kind # "backfill"
  PROVE  RunsOK'
<1>1. RunOK(a)'
  BY DEF RunOK, Running
<1>2. QED
  BY <1>1, RunStays DEF RunsOK, Actor

LEMMA RunGoes ==
  ASSUME AggregatorType, NEW a \in Actor, RunOK(a), NEW pc, Goes(a, pc) \/ Ends(a)
  PROVE  /\ \A b \in Actor \ {a} : actor'[b] = actor[b]
         /\ actor'[a].pc \in {pc, "idle"} /\ actor'[a].kind # "backfill"
<1>1. actor \in [Actor -> ActorState]
  BY DEF AggregatorType, ATypeOK
<1>2. CASE Goes(a, pc)
  BY <1>1, <1>2 DEF Goes, RunOK, ActorState
<1>3. CASE Ends(a)
  BY <1>1, <1>3 DEF Ends, NoActor
<1>4. QED
  BY <1>2, <1>3

(* The steps of goroutines that are not in a run. *)
LEMMA RunsAsking ==
  ASSUME AggregatorType, Grows, RunsOK, ~Backfill, NEW a \in Actor,
         \/ Consider(a) \/ AcquireDateFlight(a) \/ EnqueueJob(a) \/ PutBack(a)
         \/ ReleaseDateFlight(a) \/ (a = Worker /\ (TakeHigh \/ Select \/ TakeLow))
         \/ (\E kind \in Kinds, days \in SUBSET Day : Ask(a, kind, days))
         \/ (a = Cron /\ CronFires)
  PROVE  RunsOK'
<1>0. actor \in [Actor -> ActorState] /\ RunOK(a)
  BY DEF AggregatorType, ATypeOK, RunsOK
<1>1. ASSUME NEW pc, pc \notin Running, Goes(a, pc) \/ Ends(a) PROVE RunsOK'
  <2>1. /\ \A b \in Actor \ {a} : actor'[b] = actor[b]
        /\ actor'[a].pc \in {pc, "idle"} /\ actor'[a].kind # "backfill"
    BY <1>0, <1>1, RunGoes
  <2>2. QED
    BY <1>1, <2>1, RunAway DEF Running
<1>2. ASSUME NEW y, actor' = [actor EXCEPT ![a] = y], y.pc \notin Running, y.kind # "backfill"
      PROVE  RunsOK'
  BY <1>0, <1>2, RunAway
<1>3. CASE Consider(a)
  <2>1. ASSUME NEW d \in actor[a].days, NEW high \in BOOLEAN,
               LET rest == [actor[a] EXCEPT !.days = @ \ {d}]
                   taken == [rest EXCEPT !.pc = "acquire", !.day = d, !.high = high]
               IN  actor' = [actor EXCEPT ![a] = rest] \/ actor' = [actor EXCEPT ![a] = taken]
        PROVE  RunsOK'
    <3> DEFINE rest == [actor[a] EXCEPT !.days = @ \ {d}]
               taken == [rest EXCEPT !.pc = "acquire", !.day = d, !.high = high]
    <3>1. actor[a] \in ActorState /\ actor[a].pc = "next" /\ actor[a].kind # "backfill"
      BY <1>0, <1>3 DEF Consider, RunOK
    <3>2. rest.pc = "next" /\ rest.kind # "backfill" /\ rest \in ActorState
      BY <3>1 DEF ActorState
    <3> HIDE DEF rest
    <3>3. taken.pc = "acquire" /\ taken.kind # "backfill"
      BY <3>2 DEF ActorState
    <3> HIDE DEF taken
    <3>4. actor' = [actor EXCEPT ![a] = rest] \/ actor' = [actor EXCEPT ![a] = taken]
      BY <2>1 DEF rest, taken
    <3>5. QED
      BY <1>2, <3>2, <3>3, <3>4 DEF Running
  <2>2. CASE Ends(a)
    <3>1. Goes(a, "idle") \/ Ends(a)
      BY <2>2
    <3>2. QED
      BY <1>1, <3>1 DEF Running
  <2>3. CASE actor[a].days # {} /\ ~Ends(a)
    <3>1. PICK d \in actor[a].days :
            LET rest == [actor[a] EXCEPT !.days = @ \ {d}]
                taken == [rest EXCEPT !.pc = "acquire", !.day = d,
                                      !.high = rest.kind = "cron" \/ High(d)]
            IN  actor' = [actor EXCEPT ![a] = rest] \/ actor' = [actor EXCEPT ![a] = taken]
      BY <1>3, <2>3 DEF Consider
    <3>2. ([actor[a] EXCEPT !.days = @ \ {d}].kind = "cron" \/ High(d)) \in BOOLEAN
      OBVIOUS
    <3>3. QED
      BY <2>1, <3>1, <3>2
  <2>4. QED
    BY <1>3, <2>2, <2>3 DEF Consider
<1>4. CASE AcquireDateFlight(a) \/ EnqueueJob(a) \/ PutBack(a) \/ ReleaseDateFlight(a)
  <2>1. \/ Ends(a) \/ Goes(a, "next") \/ Goes(a, "begin") \/ Goes(a, "enqueue")
        \/ Goes(a, "putBack")
    BY <1>4 DEF AcquireDateFlight, EnqueueJob, PutBack, ReleaseDateFlight
  <2>2. QED
    BY <1>1, <2>1 DEF Running
<1>5. CASE a = Worker /\ (TakeHigh \/ Select \/ TakeLow)
  <2>1. CASE Select
    BY <1>1, <1>5, <2>1 DEF Select, Running
  <2>2. ASSUME NEW job, Takes(job) PROVE RunsOK'
    <3> DEFINE y == [NoActor EXCEPT !.pc = "begin", !.day = job.day, !.cookie = job.cookie]
    <3>1. y.pc = "begin" /\ y.kind = "worker"
      BY DEF NoActor
    <3>2. actor' = [actor EXCEPT ![a] = y]
      BY <1>5, <2>2 DEF Takes
    <3> HIDE DEF y
    <3>3. QED
      BY <1>2, <3>1, <3>2 DEF Running
  <2>3. QED
    BY <1>5, <2>1, <2>2 DEF TakeHigh, TakeLow
<1>6. CASE \E kind \in Kinds, days \in SUBSET Day : Ask(a, kind, days)
  <2>1. PICK kind \in Kinds, days \in SUBSET Day : Ask(a, kind, days)
    BY <1>6
  <2> DEFINE y == [NoActor EXCEPT !.pc = "next", !.kind = kind, !.days = days, !.cookie = login]
  <2>2. y.pc = "next" /\ y.kind # "backfill"
    BY <2>1 DEF NoActor, Ask
  <2>3. actor' = [actor EXCEPT ![a] = y]
    BY <2>1 DEF Ask
  <2> HIDE DEF y
  <2>4. QED
    BY <1>2, <2>2, <2>3 DEF Running
<1>7. CASE a = Cron /\ CronFires
  <2> DEFINE y == [NoActor EXCEPT !.pc = "next", !.kind = "cron",
                                  !.days = {Today - 1, Today} \cap Day, !.cookie = lastCookie]
  <2>1. y.pc = "next" /\ y.kind = "cron"
    BY DEF NoActor
  <2>2. actor' = [actor EXCEPT ![a] = y]
    BY <1>7 DEF CronFires
  <2> HIDE DEF y
  <2>3. QED
    BY <1>2, <2>1, <2>2 DEF Running
<1>8. QED
  BY <1>3, <1>4, <1>5, <1>6, <1>7

(* The steps of a run. *)
LEMMA RunsRunning ==
  ASSUME AggregatorType, Grows, RunsOK, NEW a \in Actor,
         \/ Begin(a) \/ ListUnpublished(a) \/ ListPublished(a) \/ ListRefused(a) \/ RunBreaks(a)
         \/ AggregateSession(a) \/ AbortForMemory(a) \/ EndRound(a) \/ Finish(a)
  PROVE  RunsOK'
<1> DEFINE x == actor[a]
           y == actor'[a]
           Others == \A b \in Actor \ {a} : actor'[b] = actor[b]
<1>0. x \in ActorState /\ RunOK(a) /\ x.kind # "backfill" /\ full \in SUBSET Session
  BY DEF AggregatorType, ATypeOK, RunsOK, RunOK
<1>1. ASSUME Others, RunOK(a)' PROVE RunsOK'
  BY <1>1, RunStays DEF RunsOK
<1>2. CASE Begin(a)
  <2>1. /\ Others /\ y.day = x.day /\ y.kind = x.kind /\ y.pc = "list" /\ upstream' = upstream
        /\ y.known = {s \in Session : upstream[s].day = x.day}
    BY <1>2, RunSteps DEF Begin
  <2>2. RunOK(a)'
    BY <1>0, <2>1 DEF RunOK, Running
  <2>3. QED
    BY <1>1, <2>1, <2>2
<1>3. CASE ListUnpublished(a)
  <2>1. /\ Others /\ y.day = x.day /\ y.kind = x.kind /\ y.pc = "listPublished"
        /\ y.known = x.known /\ y.todo = OfDay(x.day, FALSE) /\ UNCHANGED <<full, upstream>>
    BY <1>0, <1>3, RunSteps DEF ListUnpublished
  <2>2. \A s \in x.known : s \in OfDay(x.day, FALSE) \/ upstream[s].published
    <3>1. x.known \subseteq Session /\ \A s \in x.known : upstream[s].day = x.day
      BY <1>0, <1>3 DEF ListUnpublished, RunOK, Running, ActorState
    <3>2. \A s \in Session : upstream[s].published \in BOOLEAN
      BY DEF AggregatorType, ATypeOK
    <3>3. QED
      BY <3>1, <3>2 DEF OfDay
  <2>3. \A s \in x.known : upstream[s].day = x.day
    BY <1>0, <1>3 DEF ListUnpublished, RunOK, Running
  <2>4. RunOK(a)'
    BY <1>0, <2>1, <2>2, <2>3 DEF RunOK, Running
  <2>5. QED
    BY <1>1, <2>1, <2>4
<1>4. CASE ListPublished(a)
  <2>1. /\ Others /\ y.day = x.day /\ y.kind = x.kind /\ y.pc = "work" /\ y.known = x.known
        /\ y.todo = (x.todo \cup OfDay(x.day, TRUE)) \ full /\ UNCHANGED <<full, upstream>>
    BY <1>0, <1>4, RunSteps DEF ListPublished
  <2>2. /\ x.known \subseteq Session
        /\ \A s \in x.known : upstream[s].day = x.day
        /\ \A s \in x.known : s \in x.todo \cup full \/ upstream[s].published
    BY <1>0, <1>4 DEF ListPublished, RunOK, Running, ActorState
  <2>3. \A s \in x.known : upstream[s].published => s \in OfDay(x.day, TRUE)
    <3>1. \A s \in Session : upstream[s].published \in BOOLEAN
      BY DEF AggregatorType, ATypeOK
    <3>2. QED
      BY <2>2, <3>1 DEF OfDay
  <2>4. y.known \subseteq full \cup y.todo
    BY <2>1, <2>2, <2>3
  <2>5. RunOK(a)'
    BY <1>0, <2>1, <2>2, <2>4 DEF RunOK, Running
  <2>6. QED
    BY <1>1, <2>1, <2>5
<1>5. CASE AggregateSession(a)
  <2>1. /\ Others /\ y.day = x.day /\ y.kind = x.kind /\ y.pc = x.pc /\ y.known = x.known
        /\ x.pc = "work" /\ upstream' = upstream
        /\ full \cup x.todo \cup x.pending \subseteq full' \cup y.todo \cup y.pending
    BY <1>5, RunSteps DEF AggregateSession
  <2>2. x.known \subseteq full' \cup y.todo \cup y.pending
    BY <1>0, <2>1 DEF RunOK
  <2>3. \A s \in x.known : upstream[s].day = x.day
    BY <1>0, <2>1 DEF RunOK, Running
  <2>4. RunOK(a)'
    BY <1>0, <2>1, <2>2, <2>3 DEF RunOK, Running
  <2>5. QED
    BY <1>1, <2>1, <2>4
<1>6. CASE AbortForMemory(a)
  <2>1. /\ Others /\ y.day = x.day /\ y.kind = x.kind /\ y.pc = "finish" /\ y.known = x.known
        /\ y.aborted /\ x.pc = "work" /\ upstream' = upstream
    BY <1>6, RunSteps DEF AbortForMemory
  <2>2. RunOK(a)'
    BY <1>0, <2>1 DEF RunOK, Running
  <2>3. QED
    BY <1>1, <2>1, <2>2
<1>7. CASE EndRound(a) /\ x.pending # {} /\ x.round < RetryRounds
  <2>1. /\ Others /\ y.day = x.day /\ y.kind = x.kind /\ y.pc = x.pc /\ y.known = x.known
        /\ y.todo = x.pending /\ x.todo = {} /\ x.pc = "work" /\ UNCHANGED <<full, upstream>>
    BY <1>7, RunSteps DEF EndRound
  <2>2. x.known \subseteq full \cup y.todo
    BY <1>0, <2>1 DEF RunOK
  <2>3. \A s \in x.known : upstream[s].day = x.day
    BY <1>0, <2>1 DEF RunOK, Running
  <2>4. RunOK(a)'
    BY <1>0, <2>1, <2>2, <2>3 DEF RunOK, Running
  <2>5. QED
    BY <1>1, <2>1, <2>4
<1>8. CASE EndRound(a) /\ ~(x.pending # {} /\ x.round < RetryRounds)
  <2>1. /\ Goes(a, "finish") /\ x.pc = "work" /\ x.todo = {} /\ UNCHANGED <<full, upstream>>
    BY <1>8 DEF EndRound
  <2>2. Others /\ y = [x EXCEPT !.pc = "finish"]
    BY <1>0, <2>1 DEF Goes, AggregatorType, ATypeOK
  <2>3. /\ y.day = x.day /\ y.kind = x.kind /\ y.pc = "finish" /\ y.known = x.known
        /\ y.pending = x.pending
    BY <1>0, <2>2 DEF ActorState
  <2>4. x.known \subseteq full \cup x.pending
    BY <1>0, <2>1 DEF RunOK
  <2>5. \A s \in x.known : upstream[s].day = x.day
    BY <1>0, <2>1 DEF RunOK, Running
  <2>6. RunOK(a)'
    BY <1>0, <2>1, <2>3, <2>4, <2>5 DEF RunOK, Running
  <2>7. QED
    BY <1>1, <2>2, <2>6
<1>9. CASE ListRefused(a) \/ RunBreaks(a) \/ Finish(a)
  <2>1. Goes(a, "release")
    BY <1>9 DEF ListRefused, RunBreaks, RunFails, Finish
  <2>2. Others /\ y.pc \in {"release", "idle"} /\ y.kind # "backfill"
    BY <1>0, <2>1, RunGoes
  <2>3. QED
    BY <2>2, RunAway DEF Running
<1> HIDE DEF x, y, Others
<1>10. QED
  BY <1>2, <1>3, <1>4, <1>5, <1>6, <1>7, <1>8, <1>9

(* What a step writes of a day: nothing that is completed, or the end of a *)
(* run.                                                                    *)
LEMMA DayWritten ==
  ASSUME AggregatorType, RunsOK, CompletedIsAggregated, Grows, NEW a \in Actor,
         Proceed(a) \/ Breaks(a)
  PROVE  CompletedIsAggregated'
<1>0. /\ actor[a] \in ActorState /\ Handles(actor[a]) /\ RunOK(a)
      /\ dayStatus \in [Day -> DayRow] /\ full \subseteq full'
  BY DEF AggregatorType, ATypeOK, RunsOK, Grows
<1>1. CASE UNCHANGED dayStatus
  BY <1>0, <1>1 DEF CompletedIsAggregated, Completed
<1>2. ASSUME NEW row, UpsertDayStatus(actor[a].day, row), actor[a].day \in Day,
             row.status = "completed" /\ row.failCount = 0 => row.known \subseteq full
      PROVE  CompletedIsAggregated'
  <2>1. CASE dayStatus' = [dayStatus EXCEPT ![actor[a].day] = row]
    BY <1>0, <1>2, <2>1 DEF CompletedIsAggregated, Completed
  <2>2. QED
    BY <1>1, <1>2, <2>1 DEF UpsertDayStatus
<1>3. CASE Begin(a)
  <2> DEFINE row == [NoRow EXCEPT !.status = "running", !.startedAt = clock,
                       !.known = {s \in Session : upstream[s].day = actor[a].day}]
  <2>1. row.status = "running"
    BY DEF NoRow
  <2>2. UpsertDayStatus(actor[a].day, row) /\ actor[a].day \in Day
    BY <1>0, <1>3 DEF Begin, Handles, Free
  <2> HIDE DEF row
  <2>3. QED
    BY <1>2, <2>1, <2>2
<1>4. CASE ListRefused(a) \/ RunBreaks(a)
  <2> DEFINE row == [NoRow EXCEPT !.status = "failed",
                                  !.startedAt = dayStatus[actor[a].day].startedAt]
  <2>1. row.status = "failed"
    BY DEF NoRow
  <2>2. UpsertDayStatus(actor[a].day, row) /\ actor[a].day \in Day
    BY <1>0, <1>4 DEF ListRefused, RunBreaks, RunFails, Handles, Free
  <2> HIDE DEF row
  <2>3. QED
    BY <1>2, <2>1, <2>2
<1>5. CASE Finish(a)
  <2> DEFINE row == [status |-> IF actor[a].aborted THEN "paused" ELSE "completed",
                     failCount |-> Cardinality(actor[a].pending),
                     startedAt |-> dayStatus[actor[a].day].startedAt,
                     completedAt |-> clock, known |-> actor[a].known]
  <2>1. UpsertDayStatus(actor[a].day, row) /\ actor[a].day \in Day
    BY <1>0, <1>5 DEF Finish, Handles, Free
  <2>2. ASSUME row.status = "completed", row.failCount = 0 PROVE row.known \subseteq full
    <3>1. ~actor[a].aborted /\ Cardinality(actor[a].pending) = 0
      BY <2>2
    <3>2. actor[a].pending \in SUBSET Session
      BY <1>0 DEF ActorState
    <3>3. actor[a].pending = {}
      BY <3>1, <3>2, CountType, FS_EmptySet
    <3>4. QED
      BY <1>0, <1>5, <3>1, <3>3 DEF Finish, RunOK
  <2> HIDE DEF row
  <2>3. QED
    BY <1>2, <2>1, <2>2
<1>6. \/ Begin(a) \/ ListRefused(a) \/ RunBreaks(a) \/ Finish(a) \/ UNCHANGED dayStatus
  BY DEF Proceed, Breaks, Consider, AcquireDateFlight, EnqueueJob, PutBack, TakeHigh, Select,
         TakeLow, ListUnpublished, ListPublished, AggregateSession, EndRound, ReleaseDateFlight,
         AbortForMemory
<1>7. QED
  BY <1>1, <1>3, <1>4, <1>5, <1>6

LEMMA CompletedStep ==
  ASSUME ~Backfill, AggregatorType, RunsOK, CompletedIsAggregated, ANext
  PROVE  RunsOK' /\ CompletedIsAggregated'
<1>0. Grows
  BY Growth
<1>1. Worker \in Actor /\ Cron \in Actor /\ Caller \subseteq Actor
  BY DEF Actor
<1>2. ASSUME UNCHANGED dayStatus PROVE CompletedIsAggregated'
  BY <1>0, <1>2 DEF CompletedIsAggregated, Completed, Grows
<1>3. ASSUME UNCHANGED actor PROVE RunsOK'
  BY <1>0, <1>3, RunStays DEF RunsOK
<1>4. ASSUME NEW a \in Actor, Proceed(a) \/ Breaks(a)
      PROVE  RunsOK' /\ CompletedIsAggregated'
  <2>1. CompletedIsAggregated'
    BY <1>0, <1>4, DayWritten
  <2>2. RunsOK'
    BY <1>0, <1>4, RunsAsking, RunsRunning DEF Proceed, Breaks
  <2>3. QED
    BY <2>1, <2>2
<1>5. CASE \E c \in Caller, kind \in Kinds, days \in SUBSET Day : Ask(c, kind, days)
  <2>1. RunsOK'
    BY <1>0, <1>1, <1>5, RunsAsking
  <2>2. QED
    BY <1>2, <1>5, <2>1 DEF Ask
<1>6. CASE CronFires
  <2>1. RunsOK'
    BY <1>0, <1>1, <1>6, RunsAsking
  <2>2. QED
    BY <1>2, <1>6, <2>1 DEF CronFires
<1>7. CASE Restart
  <2>1. RunsOK'
    <3>1. \A b \in Actor : actor'[b] = NoActor
      BY <1>7 DEF Restart
    <3>2. NoActor.pc = "idle" /\ NoActor.kind = "worker"
      BY DEF NoActor
    <3>3. QED
      BY <3>1, <3>2 DEF RunsOK, RunOK, Running, Actor
  <2>2. CompletedIsAggregated'
    <3>1. ASSUME NEW d \in Day, Completed(d)' PROVE dayStatus'[d] = dayStatus[d]
      <4>1. dayStatus[d] \in DayRow
        BY DEF AggregatorType, ATypeOK
      <4>2. dayStatus'[d] \in {dayStatus[d], [dayStatus[d] EXCEPT !.status = "failed"]}
        BY <1>7 DEF Restart
      <4>3. QED
        BY <3>1, <4>1, <4>2 DEF Completed, DayRow
    <3>2. QED
      BY <1>0, <3>1 DEF CompletedIsAggregated, Completed, Grows
  <2>3. QED
    BY <2>1, <2>2
<1>8. CASE \/ Remember \/ LogIn \/ Advance
           \/ \E s \in Session : NewSession(s) \/ Publish(s)
  BY <1>2, <1>3, <1>8 DEF Remember, LogIn, Advance, NewSession, Publish
<1>9. QED
  BY <1>4, <1>5, <1>6, <1>7, <1>8 DEF ANext

(* A day that is completed without failures has a row for every session    *)
(* upstream had of it when its run began, however sessions are published   *)
(* between the two lists and runs are refused, resumed, retried or given   *)
(* up.  It takes that backfillDay, which lists the unpublished sessions    *)
(* only, is not used.                                                      *)
THEOREM CompletedDaysAggregated ==
  ASSUME ~Backfill PROVE ASpec => []CompletedIsAggregated
<1>1. AInit => RunsOK /\ CompletedIsAggregated
  <2>1. NoActor.pc = "idle" /\ NoActor.kind = "worker" /\ NoRow.status = "none"
    BY DEF NoActor, NoRow
  <2>2. ASSUME AInit PROVE RunsOK
    <3>1. \A a \in Actor : actor[a] = NoActor
      BY <2>2 DEF AInit
    <3>2. QED
      BY <2>1, <3>1 DEF RunsOK, RunOK, Running
  <2>3. AInit => CompletedIsAggregated
    BY <2>1 DEF AInit, CompletedIsAggregated, Completed
  <2>4. QED
    BY <2>2, <2>3
<1>2. /\ AggregatorType /\ RunsOK /\ CompletedIsAggregated /\ [ANext]_avars
      => RunsOK' /\ CompletedIsAggregated'
  <2>1. RunsOK /\ CompletedIsAggregated /\ UNCHANGED avars => RunsOK' /\ CompletedIsAggregated'
    BY DEF avars, RunsOK, RunOK, CompletedIsAggregated, Completed
  <2>2. QED
    BY <2>1, CompletedStep
<1>3. QED
  BY <1>1, <1>2, AggregatorTyped, PTL DEF ASpec
=============================================================================
