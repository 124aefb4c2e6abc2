-------------------------- MODULE SessionFreshness --------------------------
(***************************************************************************)
(* How a session's stored aggregate follows the session's trace file.      *)
(* Every turn of the user makes the upstream service publish a new file;   *)
(* the server keeps the file it knows in stg_session_sources (`index') and *)
(* what it computed from it in api_session_aggregates (`agg').  Three      *)
(* kinds of actors move them: the freshness endpoint, which detects a      *)
(* newer file and asks SessionRefreshQueue for a refresh, the queue's      *)
(* worker, and the session detail endpoint, which refreshes on its own.    *)
(* They share nothing but the tables: each acts on what it read.           *)
(*                                                                         *)
(* Files and times are versions: 0 is no file, an unknown or NULL time.    *)
(* Sessions have supported ids and index rows have a URL.                  *)
(***************************************************************************)
EXTENDS SessionRefreshQueue

CONSTANTS
  Visitor,          \* requests being served concurrently
  Reliable,         \* TRUE: upstream answers and the database accepts writes
  DetailReads       \* TRUE: the detail endpoint is in use

High == 2    \* sessionRefreshPriorityHigh

ASSUME FreshnessAssumption ==
  /\ High \in Priority
  /\ Reliable \in BOOLEAN
  /\ DetailReads \in BOOLEAN

VARIABLES
  upstream,   \* upstream[s]: newest file, update_at, timestamp in its name
  index,      \* index[s]: the indexed source
  agg,        \* agg[s]: the aggregate row
  work,       \* work[w]: the local variables of runSessionRefreshJob
  visit       \* visit[v]: the local variables of a request handler

data == <<upstream, index, agg>>
fvars == <<row, job, now, upstream, index, agg, work, visit>>

Hit == [file : Nat, at : Nat, stamp : Nat]
Source == [file : Nat, at : Nat]
Aggregate == [file : Nat, at : Nat, invalidated : BOOLEAN]

Work == [step : {"start", "resolve", "fetch", "writeback"},
         src : Source, writeback : BOOLEAN]

Visit == [step : {"idle", "freshness", "resolve", "compare", "mark",
                  "detail", "source", "persist", "writeback"},
          session : Session \cup {NoSession}, agg : Aggregate, index : Source,
          hit : Hit, writeback : BOOLEAN]

NoHit == [file |-> 0, at |-> 0, stamp |-> 0]
NoSource == [file |-> 0, at |-> 0]
NoAggregate == [file |-> 0, at |-> 0, invalidated |-> FALSE]

NoWork == [step |-> "start", src |-> NoSource, writeback |-> FALSE]
NoVisit == [step |-> "idle", session |-> NoSession, agg |-> NoAggregate,
            index |-> NoSource, hit |-> NoHit, writeback |-> FALSE]

Exists(x) == x.file # 0

(* A handler begins with the aggregate it read. *)
Arrived(step, s) ==
  [NoVisit EXCEPT !.step = step, !.session = s, !.agg = agg[s]]

(* parseUpstreamTime(UpdateAt), else the timestamp in the file's name.     *)
SeenAt(hit) == IF hit.at # 0 THEN hit.at ELSE hit.stamp

(* Mutant of SourceOf: the upstream's record is stored as it came. *)
SourceVerbatim(hit) == hit

(* sessionToStgSource: only update_at becomes source_updated_at. *)
SourceOf(hit) == [file |-> hit.file, at |-> hit.at]

(* indexedSourceStaleVsUpstream: both file keys are known. *)
Stale(src, hit) == Exists(hit) /\ src.file # hit.file

(* What a read may return: nothing when there is no cookie, the call fails *)
(* or the session is outside the window of the upstream's list.            *)
OrNothing(x, nothing) == {x} \cup (IF Reliable THEN {} ELSE {nothing})

(* Mutant of Lookups: the upstream's list comes from a cache. *)
LookupsCached(s) ==
  {[upstream[s] EXCEPT !.file = f] : f \in 1 .. upstream[s].file}

Lookups(s) == OrNothing(upstream[s], NoHit)

(* upsertSessionAggregate *)
Persisted(src) == [file |-> src.file, at |-> src.at, invalidated |-> FALSE]

(* PersistBundle writes the aggregate, then the day's summary: it fails    *)
(* before the first or between the two.                                    *)
Persists(s, src, ok) ==
  /\ ok \/ ~Reliable
  /\ \/ agg' = [agg EXCEPT ![s] = Persisted(src)]
     \/ ~ok /\ UNCHANGED agg

(* writebackIndexedSource is best effort. *)
WritesBack(s, src) ==
  \/ index' = [index EXCEPT ![s] = src]
  \/ ~Reliable /\ UNCHANGED index
-----------------------------------------------------------------------------
FInit ==
  /\ Init
  /\ upstream = [s \in Session |-> [file |-> 1, at |-> 1, stamp |-> 1]]
  /\ index \in [Session -> {NoSource, [file |-> 1, at |-> 1]}]
  /\ agg \in [Session -> {NoAggregate, Persisted([file |-> 1, at |-> 1])}]
  /\ work = [w \in Worker |-> NoWork]
  /\ visit = [v \in Visitor |-> NoVisit]

(* The user adds a turn: a new file; its times may be missing. *)
UserTurn(s) ==
  /\ \E at, stamp \in {0, upstream[s].file + 1} :
       upstream' = [upstream EXCEPT ![s] =
                      [file |-> @.file + 1, at |-> at, stamp |-> stamp]]
  /\ UNCHANGED <<vars, index, agg, work, visit>>
-----------------------------------------------------------------------------
(* GET .../freshness *)

FreshnessRead(v, s) ==
  /\ visit[v].step = "idle"
  /\ Exists(agg[s])
  /\ visit' = [visit EXCEPT ![v] = Arrived("freshness", s)]
  /\ UNCHANGED <<vars, data, work>>

(* An error of this read is taken for "not indexed". *)
FreshnessIndex(v) ==
  /\ visit[v].step = "freshness"
  /\ \E src \in OrNothing(index[visit[v].session], NoSource) :
       visit' = [visit EXCEPT ![v] = [@ EXCEPT !.step = "resolve", !.index = src]]
  /\ UNCHANGED <<vars, data, work>>

(* Upstream is not asked about a row already marked invalid. *)
FreshnessResolve(v) ==
  /\ visit[v].step = "resolve"
  /\ \E hit \in IF visit[v].agg.invalidated THEN {NoHit}
                ELSE Lookups(visit[v].session) :
       visit' = [visit EXCEPT ![v] = [@ EXCEPT !.step = "compare", !.hit = hit]]
  /\ UNCHANGED <<vars, data, work>>

(* A time that is known and later than the aggregate's, if it has one. *)
Later(at, row_at) == at # 0 /\ (row_at = 0 \/ at > row_at)

NewerByTime(a, src, hit) ==
  \/ Exists(src) /\ Later(src.at, a.at)
  \/ Exists(hit) /\ Later(SeenAt(hit), a.at)

(* Mutant of NewerByFile: times alone are compared. *)
NewerByTimeOnly(a, src, hit) == FALSE

NewerByFile(a, src, hit) ==
  ~NewerByTime(a, src, hit) /\ Exists(src) /\ Stale(src, hit)

(* Mutant of NeedsRefresh: a mark alone is no reason to ask again. *)
NeedsRefreshByFile(x) == NewerByFile(x.agg, x.index, x.hit)

(* resp.NeedsRefresh and shouldEnqueue || resp.NeedsRefresh *)
NeedsRefresh(x) == x.agg.invalidated \/ NewerByFile(x.agg, x.index, x.hit)
AsksRefresh(x) == NeedsRefresh(x) \/ NewerByTime(x.agg, x.index, x.hit)

(* The errors of the enqueueing and of the marking are ignored. *)
FreshnessEnqueue(v) ==
  LET x == visit[v] IN
  /\ x.step = "compare"
  /\ \/ AsksRefresh(x) /\ Enqueue(x.session, High)
     \/ (~AsksRefresh(x) \/ ~Reliable) /\ UNCHANGED vars
  /\ visit' = [visit EXCEPT ![v] =
                 IF NeedsRefresh(x) THEN [x EXCEPT !.step = "mark"] ELSE NoVisit]
  /\ UNCHANGED <<data, work>>

(* markSessionAggregateInvalidated, whatever the row has become. *)
FreshnessMark(v) ==
  /\ visit[v].step = "mark"
  /\ \/ agg' = [agg EXCEPT ![visit[v].session].invalidated = TRUE]
     \/ ~Reliable /\ UNCHANGED agg
  /\ visit' = [visit EXCEPT ![v] = NoVisit]
  /\ UNCHANGED <<vars, upstream, index, work>>
-----------------------------------------------------------------------------
(* GET of the session bundle *)

DetailRead(v, s) ==
  /\ DetailReads
  /\ visit[v].step = "idle"
  /\ visit' = [visit EXCEPT ![v] = Arrived("detail", s)]
  /\ UNCHANGED <<vars, data, work>>

DetailResolve(v) ==
  /\ visit[v].step = "detail"
  /\ \E hit \in Lookups(visit[v].session) :
       visit' = [visit EXCEPT ![v] = [@ EXCEPT !.step = "source", !.hit = hit]]
  /\ UNCHANGED <<vars, data, work>>

(* The cached bundle is good enough: whole (hasDetailTraces, at the current *)
(* DetailVersion), not invalidated, and not older than what upstream says   *)
(* (detailBundleNeedsSourceRefresh).                                       *)
CacheServes(a, hit, whole) ==
  /\ Exists(a)
  /\ whole
  /\ ~a.invalidated
  /\ ~(Exists(hit) /\ a.at < SeenAt(hit))

(* The bundle built from a file is to be persisted. *)
Fetched(x, src, writeback) ==
  [x EXCEPT !.step = "persist", !.index = src, !.writeback = writeback]

(* The indexed file unless upstream has another one; else the cache; else  *)
(* upstream's file.  A fetch that fails falls through, or ends the visit.  *)
DetailSource(v) ==
  LET x == visit[v]
      src == index[x.session]
      current == Exists(src) /\ ~Stale(src, x.hit)
      proceed(y) == visit' = [visit EXCEPT ![v] = y]
  IN
  /\ x.step = "source"
  /\ \/ /\ current
        /\ proceed(Fetched(x, src, FALSE))
     \/ /\ ~current \/ ~Reliable
        /\ \E whole \in BOOLEAN :
             IF ~CacheServes(x.agg, x.hit, whole) /\ Exists(x.hit)
             THEN \/ proceed(Fetched(x, SourceOf(x.hit), TRUE))
                  \/ ~Reliable /\ proceed(NoVisit)
             ELSE proceed(NoVisit)
  /\ UNCHANGED <<vars, data, work>>

(* persist(): the index is written back whether or not the row was.        *)
DetailPersist(v) ==
  LET x == visit[v] IN
  /\ x.step = "persist"
  /\ \E ok \in BOOLEAN : Persists(x.session, x.index, ok)
  /\ visit' = [visit EXCEPT ![v] =
                 IF x.writeback THEN [x EXCEPT !.step = "writeback"] ELSE NoVisit]
  /\ UNCHANGED <<vars, upstream, index, work>>

DetailWriteback(v) ==
  /\ visit[v].step = "writeback"
  /\ WritesBack(visit[v].session, visit[v].index)
  /\ visit' = [visit EXCEPT ![v] = NoVisit]
  /\ UNCHANGED <<vars, upstream, agg, work>>
-----------------------------------------------------------------------------
(* runSessionRefreshJob *)

JobClaim(w) ==
  /\ Claim(w)
  /\ work' = [work EXCEPT ![w] = NoWork]
  /\ UNCHANGED <<data, visit>>

JobReturns(w, outcome) ==
  /\ RunJob(w)
  /\ job'[w].stage = outcome
  /\ work' = [work EXCEPT ![w] = NoWork]

JobReadIndex(w) ==
  /\ job[w].stage = "claimed"
  /\ work[w].step = "start"
  /\ \/ /\ work' = [work EXCEPT ![w] = 
                      [NoWork EXCEPT !.step = "resolve", !.src = index[job[w].session]]]
        /\ UNCHANGED vars
     \/ ~Reliable /\ JobReturns(w, "errored")
  /\ UNCHANGED <<data, visit>>

(* Upstream's file when the index has another one or none, else the        *)
(* indexed file, else an error.                                            *)
JobResolve(w) ==
  LET src == work[w].src IN
  /\ job[w].stage = "claimed"
  /\ work[w].step = "resolve"
  /\ \E hit \in Lookups(job[w].session) :
       IF Stale(src, hit)
       THEN /\ work' = [work EXCEPT ![w] = [step |-> "fetch", src |-> SourceOf(hit),
                                            writeback |-> TRUE]]
            /\ UNCHANGED vars
       ELSE IF Exists(src)
       THEN /\ work' = [work EXCEPT ![w].step = "fetch"]
            /\ UNCHANGED vars
       ELSE JobReturns(w, "errored")
  /\ UNCHANGED <<data, visit>>

(* Mutant of JobRefresh: the job is over when the aggregate is written. *)
JobRefreshDone(w) ==
  /\ job[w].stage = "claimed"
  /\ work[w].step = "fetch"
  /\ \E ok \in BOOLEAN :
       /\ Persists(job[w].session, work[w].src, ok)
       /\ JobReturns(w, IF ok THEN "refreshed" ELSE "errored")
  /\ UNCHANGED <<upstream, index, visit>>

(* refreshSessionFromSource: an error of the fetch or of PersistBundle     *)
(* ends the job.                                                           *)
JobRefresh(w) ==
  LET s == job[w].session IN
  /\ job[w].stage = "claimed"
  /\ work[w].step = "fetch"
  /\ \E ok \in BOOLEAN :
       /\ Persists(s, work[w].src, ok)
       /\ IF ok /\ work[w].writeback
          THEN /\ work' = [work EXCEPT ![w].step = "writeback"]
               /\ UNCHANGED vars
          ELSE JobReturns(w, IF ok THEN "refreshed" ELSE "errored")
  /\ UNCHANGED <<upstream, index, visit>>

JobWriteback(w) ==
  /\ job[w].stage = "claimed"
  /\ work[w].step = "writeback"
  /\ WritesBack(job[w].session, work[w].src)
  /\ JobReturns(w, "refreshed")
  /\ UNCHANGED <<upstream, agg, visit>>

JobSettle(w) ==
  /\ Finish(w) \/ Fail(w)
  /\ UNCHANGED <<data, work, visit>>

JobFault(w) ==
  /\ LoseUpdate(w) \/ Crash(w)
  /\ work' = [work EXCEPT ![w] = NoWork]
  /\ UNCHANGED <<data, visit>>

FTick == Tick /\ UNCHANGED <<data, work, visit>>
-----------------------------------------------------------------------------
JobStep(w) ==
  \/ JobClaim(w)
  \/ JobReadIndex(w)
  \/ JobResolve(w)
  \/ JobRefresh(w)
  \/ JobWriteback(w)
  \/ JobSettle(w)

FreshnessStep(v) ==
  \/ \E s \in Session : FreshnessRead(v, s)
  \/ FreshnessIndex(v)
  \/ FreshnessResolve(v)
  \/ FreshnessEnqueue(v)
  \/ FreshnessMark(v)

DetailStep(v) ==
  \/ \E s \in Session : DetailRead(v, s)
  \/ DetailResolve(v)
  \/ DetailSource(v)
  \/ DetailPersist(v)
  \/ DetailWriteback(v)

FNext ==
  \/ \E s \in Session : UserTurn(s)
  \/ \E v \in Visitor : FreshnessStep(v) \/ DetailStep(v)
  \/ \E w \in Worker : JobStep(w) \/ JobFault(w)
  \/ FTick

FSpec == FInit /\ [][FNext]_fvars

(* Loops and handlers go on; a page that shows a session keeps asking      *)
(* whether it is fresh.  Nobody owes a turn, a fault or a detail read, but *)
(* a detail read that began goes on.                                       *)
FFairness ==
  /\ \A w \in Worker : WF_fvars(JobStep(w))
  /\ \A v \in Visitor : WF_fvars(FreshnessStep(v) \/ DetailStep(v))
  /\ \A v \in Visitor, s \in Session : SF_fvars(FreshnessRead(v, s))
  /\ WF_fvars(FTick)
-----------------------------------------------------------------------------
FTypeOK ==
  /\ TypeOK
  /\ upstream \in [Session -> Hit]
  /\ index \in [Session -> Source]
  /\ agg \in [Session -> Aggregate]
  /\ work \in [Worker -> Work]
  /\ visit \in [Visitor -> Visit]
  /\ \A v \in Visitor : visit[v].step # "idle" => visit[v].session \in Session

(* While upstream answers and writes succeed, one worker serving freshness *)
(* requests never replaces an aggregate or an index entry by an older one, *)
(* whatever turns and requests fall between its steps.                     *)
NeverOlder ==
  [][\A s \in Session : agg'[s].file >= agg[s].file
                        /\ index'[s].file >= index[s].file]_fvars

(* If users stop adding turns and the page keeps asking, the aggregate of  *)
(* an indexed session ends up, for good, computed from the newest file,    *)
(* although a request made during a refresh is swallowed by it and the     *)
(* upstream's times may be missing.                                        *)
EventuallyFresh ==
  \A s \in Session : Exists(agg[s]) /\ Exists(index[s]) ~>
                        [](agg[s].file = upstream[s].file)

(* An invalidated aggregate is recomputed in the end, though the mark is   *)
(* set apart from the request: it may come after the job it was meant for, *)
(* when nothing else is newer than the aggregate, and no row is open.      *)
MarksAreWorkedOff ==
  \A s \in Session : agg[s].invalidated ~> ~agg[s].invalidated

(* An index that fell behind its aggregate is not left behind: a worker    *)
(* that stops after the one was written and before the other leaves the    *)
(* row of the session open, whoever asks and whatever is lost meanwhile.   *)
IndexKeepsUp ==
  \A s \in Session : Exists(index[s]) /\ index[s].file < agg[s].file =>
                        row[s].status \in {"pending", "running"}
=============================================================================
