----------------------------- MODULE Aggregator -----------------------------
(***************************************************************************)
(* The daily aggregator of one server process: which days are queued for   *)
(* aggregation, by whom, and what a run over a day leaves in the tables.   *)
(*                                                                         *)
(* Page requests (EnsureDays), the manual refresh of a range of days       *)
(* (ForceQueueDays) and the nightly cron take the day's flight and put the *)
(* day into one of two bounded channels; a single worker runs the days.    *)
(* backfillDay takes the flight and runs the day in its own goroutine.     *)
(*                                                                         *)
(* The clock counts ticks, TicksPerDay of them make a day; days are        *)
(* numbers.  Sessions have a trace file.  A cookie is the number of the    *)
(* login it comes from, and only the latest login's cookie is accepted.    *)
(***************************************************************************)
EXTENDS Integers, Sequences, FiniteSets

CONSTANTS
  Session,
  Caller,         \* request goroutines
  Worker, Cron,   \* the worker's and the cron's goroutine
  Day,            \* the days that are looked at
  StartTime,      \* the tick the server is first started at
  TicksPerDay,
  CronHour,       \* the tick of a day at which the cron runs it
  HighDays,       \* accessTriggeredHighPriorityDays
  LowDays,        \* accessTriggeredLowPriorityDays
  HighCap,        \* highPriorityQueueSize
  LowCap,         \* lowPriorityQueueSize
  RetryRounds,    \* aggregateRetryRounds
  StaleAfter,     \* staleRunningTimeout
  Backfill,       \* TRUE: backfillDay is used
  Reliable        \* TRUE: no error, no memory pressure, no restart

ASSUME AggregatorAssumption ==
  /\ IsFiniteSet(Session) /\ IsFiniteSet(Caller)
  /\ Worker \notin Caller /\ Cron \notin Caller /\ Worker # Cron
  /\ Day \subseteq Nat /\ IsFiniteSet(Day)
  /\ TicksPerDay \in Nat \ {0} /\ CronHour \in 0 .. (TicksPerDay - 1)
  /\ StartTime \in Nat
  /\ {HighDays, LowDays, HighCap, LowCap, RetryRounds, StaleAfter} \subseteq Nat
  /\ Backfill \in BOOLEAN /\ Reliable \in BOOLEAN

VARIABLES
  clock,
  login,        \* how often the users have logged in
  lastCookie,   \* a.lastCookie, 0 when it is empty
  lastRunDate,  \* of nightlyCron
  flight,       \* a.flight
  highJobs, lowJobs,
  actor,        \* actor[a]: the local state of a goroutine
  dayStatus,    \* the rows of api_daily_aggregate_status
  full,         \* the sessions with a complete row in api_session_aggregates
  upstream      \* upstream[s]: the day of a session and whether it is published

jobs == <<flight, highJobs, lowJobs>>
avars == <<clock, login, lastCookie, lastRunDate, flight, highJobs, lowJobs,
           actor, dayStatus, full, upstream>>

Actor == Caller \cup {Worker, Cron}
NoDay == -1

Job == [day : Day, cookie : Nat]

(* `known' is what upstream had of the day when the run began: a ghost. *)
DayRow == [status : {"none", "running", "failed", "paused", "completed"},
           failCount : Nat, startedAt : Nat, completedAt : Nat \cup {NoDay},
           known : SUBSET Session]

NoRow == [status |-> "none", failCount |-> 0, startedAt |-> 0, completedAt |-> NoDay,
          known |-> {}]

(* `days' are still to be looked at, `todo' and `pending' are the sessions *)
(* of this round and of the next one.                                      *)
ActorState ==
  [pc : {"idle", "next", "acquire", "enqueue", "putBack", "select",
         "begin", "list", "listPublished", "work", "finish", "release"},
   kind : {"ensure", "force", "backfill", "cron", "worker"},
   day : Day \cup {NoDay}, days : SUBSET Day, high : BOOLEAN, cookie : Nat,
   known : SUBSET Session, todo : SUBSET Session, pending : SUBSET Session,
   round : 0 .. RetryRounds, aborted : BOOLEAN]

NoActor == [pc |-> "idle", kind |-> "worker", day |-> NoDay, days |-> {}, high |-> TRUE,
            cookie |-> 0, known |-> {}, todo |-> {}, pending |-> {}, round |-> 0,
            aborted |-> FALSE]

DayOf(t) == t \div TicksPerDay
Today == DayOf(clock)

Goes(a, pc) == actor' = [actor EXCEPT ![a].pc = pc]
Ends(a) == actor' = [actor EXCEPT ![a] = NoActor]
-----------------------------------------------------------------------------
AInit ==
  /\ clock = StartTime
  /\ login = 1 /\ lastCookie = 0 /\ lastRunDate = NoDay
  /\ flight = {} /\ highJobs = <<>> /\ lowJobs = <<>>
  /\ actor = [a \in Actor |-> NoActor]
  /\ dayStatus = [d \in Day |-> NoRow]
  /\ full = {}
  /\ upstream = [s \in Session |-> [day |-> NoDay, published |-> FALSE]]
-----------------------------------------------------------------------------
(* Requests *)

(* rememberCookie: of any API request, and all that EnsureDays does during *)
(* the startup grace.                                                      *)
Remember ==
  /\ lastCookie' = login
  /\ UNCHANGED <<clock, login, lastRunDate, jobs, actor, dayStatus, full, upstream>>

(* EnsureDays, ForceQueueDays and backfillDay begin. *)
Ask(c, kind, days) ==
  /\ actor[c].pc = "idle"
  /\ kind = "backfill" => Backfill /\ Cardinality(days) = 1
  /\ lastCookie' = login
  /\ actor' = [actor EXCEPT ![c] = [NoActor EXCEPT !.pc = "next", !.kind = kind,
                                                   !.days = days, !.cookie = login]]
  /\ UNCHANGED <<clock, login, lastRunDate, jobs, dayStatus, full, upstream>>

(* nightlyCron: once a day, with the last cookie. *)
CronFires ==
  /\ actor[Cron].pc = "idle"
  /\ clock % TicksPerDay = CronHour
  /\ lastRunDate # Today
  /\ lastCookie # 0
  /\ lastRunDate' = Today
  /\ actor' = [actor EXCEPT ![Cron] =
                 [NoActor EXCEPT !.pc = "next", !.kind = "cron",
                                 !.days = {Today - 1, Today} \cap Day, !.cookie = lastCookie]]
  /\ UNCHANGED <<clock, login, lastCookie, jobs, dayStatus, full, upstream>>

(* isDateCompleted.  Rows of the day that are known to be incomplete count *)
(* like a status that cannot be read: the day is not completed.            *)
Completed(d) == dayStatus[d].status = "completed" /\ dayStatus[d].failCount = 0

(* shouldSkipNightlyDate with isNightlyFreshCompletion *)
Fresh(d) ==
  /\ Completed(d)
  /\ IF d = lastRunDate - 1
     THEN dayStatus[d].completedAt >= lastRunDate * TicksPerDay
     ELSE DayOf(dayStatus[d].completedAt) = d

(* aggregatePriorityForDate *)
High(d) == Today - d \in 0 .. (HighDays - 1)
Prioritised(d) == Today - d \in 0 .. (LowDays - 1) \/ High(d)

Skips(a, d) ==
  CASE actor[a].kind = "ensure" -> Completed(d) \/ ~Prioritised(d)
    [] actor[a].kind = "force" -> ~Prioritised(d)
    [] actor[a].kind = "cron" -> Fresh(d)
    [] OTHER -> FALSE

Misreads(a, d) == ~Reliable /\ (actor[a].kind = "ensure" => Prioritised(d))

(* Requests go from the newest day back, the cron begins with yesterday. *)
NextDay(a, d) ==
  \A e \in actor[a].days : IF actor[a].kind = "cron" THEN d <= e ELSE d >= e

(* The caps on days per request never bind: there are as many such days. *)
Consider(a) ==
  /\ actor[a].pc = "next"
  /\ \/ actor[a].days = {} /\ Ends(a)
     \/ \E d \in actor[a].days :
          LET rest == [actor[a] EXCEPT !.days = @ \ {d}]
              taken == [rest EXCEPT !.pc = "acquire", !.day = d,
                                    !.high = rest.kind = "cron" \/ High(d)]
          IN
          /\ NextDay(a, d)
          /\ \/ actor' = [actor EXCEPT ![a] = IF Skips(a, d) THEN rest ELSE taken]
             \/ /\ actor[a].kind \in {"ensure", "cron"}
                /\ Misreads(a, d)
                /\ actor' = [actor EXCEPT ![a] = taken]
  /\ UNCHANGED <<clock, login, lastCookie, lastRunDate, jobs, dayStatus, full, upstream>>

(* Mutant of AcquireDateFlight: the flight is not looked at. *)
AcquireAnyway(a) ==
  /\ actor[a].pc = "acquire"
  /\ flight' = flight \cup {actor[a].day}
  /\ Goes(a, IF actor[a].kind = "backfill" THEN "begin" ELSE "enqueue")
  /\ UNCHANGED <<clock, login, lastCookie, lastRunDate, highJobs, lowJobs, dayStatus, full,
                 upstream>>

(* acquireDateFlight: a day in flight is left alone. *)
AcquireDateFlight(a) ==
  LET backfill == actor[a].kind = "backfill" IN
  /\ actor[a].pc = "acquire"
  /\ IF actor[a].day \in flight
     THEN /\ IF backfill THEN Ends(a) ELSE Goes(a, "next")
          /\ UNCHANGED flight
     ELSE /\ flight' = flight \cup {actor[a].day}
          /\ Goes(a, IF backfill THEN "begin" ELSE "enqueue")
  /\ UNCHANGED <<clock, login, lastCookie, lastRunDate, highJobs, lowJobs, dayStatus, full,
                 upstream>>

(* enqueueJob: a send that does not block. *)
EnqueueJob(a) ==
  LET job == [day |-> actor[a].day, cookie |-> actor[a].cookie] IN
  /\ actor[a].pc = "enqueue"
  /\ IF actor[a].high
     THEN /\ highJobs' = IF Len(highJobs) < HighCap THEN Append(highJobs, job) ELSE highJobs
          /\ Goes(a, IF Len(highJobs) < HighCap THEN "next" ELSE "putBack")
          /\ UNCHANGED lowJobs
     ELSE /\ lowJobs' = IF Len(lowJobs) < LowCap THEN Append(lowJobs, job) ELSE lowJobs
          /\ Goes(a, IF Len(lowJobs) < LowCap THEN "next" ELSE "putBack")
          /\ UNCHANGED highJobs
  /\ UNCHANGED <<clock, login, lastCookie, lastRunDate, flight, dayStatus, full, upstream>>

(* Mutant of PutBack: a full channel keeps the day in flight. *)
PutBackNothing(a) ==
  /\ actor[a].pc = "putBack"
  /\ Goes(a, "next")
  /\ UNCHANGED <<clock, login, lastCookie, lastRunDate, jobs, dayStatus, full, upstream>>

(* The channel was full; EnsureDays gives up if it was the high one. *)
PutBack(a) ==
  /\ actor[a].pc = "putBack"
  /\ flight' = flight \ {actor[a].day}
  /\ IF actor[a].kind = "ensure" /\ actor[a].high THEN Ends(a) ELSE Goes(a, "next")
  /\ UNCHANGED <<clock, login, lastCookie, lastRunDate, highJobs, lowJobs, dayStatus, full,
                 upstream>>
-----------------------------------------------------------------------------
(* The worker: nextJob tries the high channel first and then waits for     *)
(* either.                                                                 *)

Takes(job) ==
  actor' = [actor EXCEPT ![Worker] = [NoActor EXCEPT !.pc = "begin", !.day = job.day,
                                                     !.cookie = job.cookie]]

TakeHigh ==
  /\ actor[Worker].pc \in {"idle", "select"}
  /\ highJobs # <<>>
  /\ Takes(Head(highJobs))
  /\ highJobs' = Tail(highJobs)
  /\ UNCHANGED <<clock, login, lastCookie, lastRunDate, flight, lowJobs, dayStatus, full,
                 upstream>>

Select ==
  /\ actor[Worker].pc = "idle"
  /\ highJobs = <<>>
  /\ Goes(Worker, "select")
  /\ UNCHANGED <<clock, login, lastCookie, lastRunDate, jobs, dayStatus, full, upstream>>

TakeLow ==
  /\ actor[Worker].pc = "select"
  /\ lowJobs # <<>>
  /\ Takes(Head(lowJobs))
  /\ lowJobs' = Tail(lowJobs)
  /\ UNCHANGED <<clock, login, lastCookie, lastRunDate, flight, highJobs, dayStatus, full,
                 upstream>>
-----------------------------------------------------------------------------
(* runAggregate *)

OfDay(d, published) ==
  {s \in Session : upstream[s].day = d /\ upstream[s].published = published}

(* upsertDayStatus; its error is only logged. *)
UpsertDayStatus(d, row) ==
  \/ dayStatus' = [dayStatus EXCEPT ![d] = row]
  \/ ~Reliable /\ UNCHANGED dayStatus

Begin(a) ==
  LET d == actor[a].day
      known == {s \in Session : upstream[s].day = d}
  IN
  /\ actor[a].pc = "begin"
  /\ UpsertDayStatus(d, [NoRow EXCEPT !.status = "running", !.startedAt = clock,
                                      !.known = known])
  /\ actor' = [actor EXCEPT ![a].pc = "list", ![a].known = known]
  /\ UNCHANGED <<clock, login, lastCookie, lastRunDate, jobs, full, upstream>>

RunFails(a) ==
  /\ UpsertDayStatus(actor[a].day, [NoRow EXCEPT !.status = "failed",
                                                 !.startedAt = dayStatus[actor[a].day].startedAt])
  /\ Goes(a, "release")
  /\ UNCHANGED <<clock, login, lastRunDate, jobs, full, upstream>>

(* Mutant of ListUnpublished: it lists the published sessions, as the next *)
(* list does once more.                                                    *)
ListPublishedTwice(a) ==
  /\ actor[a].pc = "list"
  /\ actor[a].cookie = login
  /\ actor' = [actor EXCEPT ![a].pc = "listPublished", ![a].todo = OfDay(actor[a].day, TRUE)]
  /\ UNCHANGED <<clock, login, lastCookie, lastRunDate, jobs, dayStatus, full, upstream>>

(* listAggregateSessions: the unpublished sessions of the day, *)
ListUnpublished(a) ==
  LET listed == OfDay(actor[a].day, FALSE) IN
  /\ actor[a].pc = "list"
  /\ actor[a].cookie = login
  /\ actor' = IF actor[a].kind = "backfill"
              THEN [actor EXCEPT ![a].pc = "work", ![a].todo = listed \ full]
              ELSE [actor EXCEPT ![a].pc = "listPublished", ![a].todo = listed]
  /\ UNCHANGED <<clock, login, lastCookie, lastRunDate, jobs, dayStatus, full, upstream>>

(* then, if includePublished, the published ones; the sessions that        *)
(* already have a complete row are left out.                               *)
ListPublished(a) ==
  /\ actor[a].pc = "listPublished"
  /\ actor[a].cookie = login
  /\ actor' = [actor EXCEPT ![a].pc = "work",
                            ![a].todo = (@ \cup OfDay(actor[a].day, TRUE)) \ full]
  /\ UNCHANGED <<clock, login, lastCookie, lastRunDate, jobs, dayStatus, full, upstream>>

(* A cookie that is refused is forgotten: whichever is the last now. *)
ListRefused(a) ==
  /\ actor[a].pc \in {"list", "listPublished"}
  /\ actor[a].cookie # login
  /\ RunFails(a)
  /\ lastCookie' = 0

(* Another error of a list, or a panic. *)
RunBreaks(a) ==
  /\ ~Reliable
  /\ actor[a].pc \in {"list", "listPublished", "work", "finish"}
  /\ RunFails(a)
  /\ UNCHANGED lastCookie

(* A session is fetched and its row written, or is left for the next round. *)
AggregateSession(a) ==
  /\ actor[a].pc = "work"
  /\ \E s \in actor[a].todo :
       \/ /\ full' = full \cup {s}
          /\ actor' = [actor EXCEPT ![a].todo = @ \ {s}]
       \/ /\ ~Reliable
          /\ actor' = [actor EXCEPT ![a].todo = @ \ {s}, ![a].pending = @ \cup {s}]
          /\ UNCHANGED full
  /\ UNCHANGED <<clock, login, lastCookie, lastRunDate, jobs, dayStatus, upstream>>

(* The memory gate (waitForMemory) gives up before a session. *)
AbortForMemory(a) ==
  /\ ~Reliable
  /\ actor[a].pc = "work"
  /\ actor[a].todo # {}
  /\ actor' = [actor EXCEPT ![a].pc = "finish", ![a].aborted = TRUE, ![a].todo = {},
                            ![a].pending = @ \cup actor[a].todo]
  /\ UNCHANGED <<clock, login, lastCookie, lastRunDate, jobs, dayStatus, full, upstream>>

(* Mutant of EndRound: one round too many. *)
EndRoundOnceMore(a) ==
  /\ actor[a].pc = "work"
  /\ actor[a].todo = {}
  /\ IF actor[a].pending # {} /\ actor[a].round <= RetryRounds
     THEN actor' = [actor EXCEPT ![a].todo = actor[a].pending, ![a].pending = {},
                                 ![a].round = @ + 1]
     ELSE Goes(a, "finish")
  /\ UNCHANGED <<clock, login, lastCookie, lastRunDate, jobs, dayStatus, full, upstream>>

EndRound(a) ==
  /\ actor[a].pc = "work"
  /\ actor[a].todo = {}
  /\ IF actor[a].pending # {} /\ actor[a].round < RetryRounds
     THEN actor' = [actor EXCEPT ![a].todo = actor[a].pending, ![a].pending = {},
                                 ![a].round = @ + 1]
     ELSE Goes(a, "finish")
  /\ UNCHANGED <<clock, login, lastCookie, lastRunDate, jobs, dayStatus, full, upstream>>

Finish(a) ==
  LET d == actor[a].day IN
  /\ actor[a].pc = "finish"
  /\ UpsertDayStatus(d,
       [status |-> IF actor[a].aborted THEN "paused" ELSE "completed",
        failCount |-> Cardinality(actor[a].pending), startedAt |-> dayStatus[d].startedAt,
        completedAt |-> clock, known |-> actor[a].known])
  /\ Goes(a, "release")
  /\ UNCHANGED <<clock, login, lastCookie, lastRunDate, jobs, full, upstream>>

ReleaseDateFlight(a) ==
  /\ actor[a].pc = "release"
  /\ flight' = flight \ {actor[a].day}
  /\ Ends(a)
  /\ UNCHANGED <<clock, login, lastCookie, lastRunDate, highJobs, lowJobs, dayStatus, full,
                 upstream>>
-----------------------------------------------------------------------------
(* The surroundings *)

NewSession(s) ==
  /\ upstream[s].day = NoDay
  /\ Today \in Day
  /\ upstream' = [upstream EXCEPT ![s].day = Today]
  /\ UNCHANGED <<clock, login, lastCookie, lastRunDate, jobs, actor, dayStatus, full>>

Publish(s) ==
  /\ upstream[s].day # NoDay
  /\ upstream' = [upstream EXCEPT ![s].published = TRUE]
  /\ UNCHANGED <<clock, login, lastCookie, lastRunDate, jobs, actor, dayStatus, full>>

(* The users' login runs out and they log in again. *)
LogIn ==
  /\ login' = login + 1
  /\ UNCHANGED <<clock, lastCookie, lastRunDate, jobs, actor, dayStatus, full, upstream>>

(* The process stops and starts again, with cleanupStaleRunning. *)
Restart ==
  /\ ~Reliable
  /\ lastCookie' = 0 /\ lastRunDate' = NoDay
  /\ flight' = {} /\ highJobs' = <<>> /\ lowJobs' = <<>>
  /\ actor' = [a \in Actor |-> NoActor]
  /\ dayStatus' = [d \in Day |->
       IF dayStatus[d].status = "running" /\ dayStatus[d].startedAt < clock - StaleAfter
       THEN [dayStatus[d] EXCEPT !.status = "failed"] ELSE dayStatus[d]]
  /\ UNCHANGED <<clock, login, full, upstream>>

Advance ==
  /\ clock' = clock + 1
  /\ UNCHANGED <<login, lastCookie, lastRunDate, jobs, actor, dayStatus, full, upstream>>

(* What a goroutine does once it has something to do. *)
Proceed(a) ==
  \/ Consider(a)
  \/ AcquireDateFlight(a)
  \/ EnqueueJob(a)
  \/ PutBack(a)
  \/ a = Worker /\ (TakeHigh \/ Select \/ TakeLow)
  \/ Begin(a)
  \/ ListUnpublished(a)
  \/ ListPublished(a)
  \/ ListRefused(a)
  \/ AggregateSession(a)
  \/ EndRound(a)
  \/ Finish(a)
  \/ ReleaseDateFlight(a)

Breaks(a) == RunBreaks(a) \/ AbortForMemory(a)

Kinds == {"ensure", "force", "backfill"}

ANext ==
  \/ \E c \in Caller, kind \in Kinds, days \in SUBSET Day : Ask(c, kind, days)
  \/ Remember
  \/ CronFires
  \/ \E a \in Actor : Proceed(a) \/ Breaks(a)
  \/ \E s \in Session : NewSession(s) \/ Publish(s)
  \/ LogIn
  \/ Restart
  \/ Advance

ASpec == AInit /\ [][ANext]_avars

(* Goroutines run: a run ends, since downloads and lists have time limits. *)
(* A select with both channels ready picks one at random, so that it does  *)
(* not always pick the high one.                                           *)
AFairness == (\A a \in Actor : WF_avars(Proceed(a))) /\ SF_avars(TakeLow)
-----------------------------------------------------------------------------
ATypeOK ==
  /\ {clock, login, lastCookie} \subseteq Nat
  /\ lastRunDate \in Nat \cup {NoDay}
  /\ flight \subseteq Day
  /\ highJobs \in Seq(Job) /\ Len(highJobs) <= HighCap
  /\ lowJobs \in Seq(Job) /\ Len(lowJobs) <= LowCap
  /\ actor \in [Actor -> ActorState]
  /\ dayStatus \in [Day -> DayRow]
  /\ full \subseteq Session
  /\ upstream \in [Session -> [day : Day \cup {NoDay}, published : BOOLEAN]]

Holds(a, d) ==
  /\ actor[a].day = d
  /\ actor[a].pc \in {"enqueue", "putBack", "begin", "list", "listPublished",
                      "work", "finish", "release"}

Waiting(queue, d) == {i \in DOMAIN queue : queue[i].day = d}

(* A day in flight is in one pair of hands: a goroutine that has just      *)
(* taken it, one job of one channel, or one run; a day that is not is in   *)
(* none.  So a day is never run twice at once, nor twice in the channels,  *)
(* nor locked with nobody left to unlock it.                               *)
FlightsAccounted ==
  \A d \in Day :
    Cardinality({a \in Actor : Holds(a, d)})
      + Cardinality(Waiting(highJobs, d)) + Cardinality(Waiting(lowJobs, d))
    = IF d \in flight THEN 1 ELSE 0

(* A day that is completed without failures, and that page requests will   *)
(* therefore not have run again, has a row for every session that upstream *)
(* had of that day when its run began, although sessions are published     *)
(* between the two lists and runs are resumed, retried and aborted.        *)
CompletedIsAggregated ==
  \A d \in Day : Completed(d) => dayStatus[d].known \subseteq full

\* A day waits for good, since the worker always finds a high job.
PassedOver(d) ==
  /\ <>[](Waiting(lowJobs, d) # {} /\ actor[Worker].pc # "select")
  /\ []<><<TakeHigh>>_avars

(* Whoever takes a flight gives it back, on every path: full channels,     *)
(* refused cookies, broken runs and restarts.  The one way for a day to    *)
(* stay locked is to wait in the low channel while high jobs keep coming,  *)
(* so that the worker, which tries the high channel first, never gets to   *)
(* the select that would let the low one have its turn.                    *)
FlightsEnd ==
  \A d \in Day : (d \in flight ~> d \notin flight) \/ PassedOver(d)
=============================================================================
