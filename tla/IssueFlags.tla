----------------------------- MODULE IssueFlags -----------------------------
(***************************************************************************)
(* The has_issue flag of the aggregated sessions and the summaries of the  *)
(* days, and everybody who writes them: the aggregation of a page or of    *)
(* the refresh queue (PersistBundle), the run of a day, a verdict that is  *)
(* saved, and the backfill.  None of them holds a lock or a transaction:   *)
(* each reads, computes and writes in separate statements.                 *)
(*                                                                         *)
(* The rules failed by a version of a session's file and the verdict of    *)
(* the judge are stored apart; has_issue is derived from both and a day's  *)
(* summary is derived from the day's rows.  The question is when the       *)
(* derived copies are right.                                               *)
(***************************************************************************)
EXTENDS DailySummaries

CONSTANTS
  Session,
  Day,         \* days are numbers
  Content,     \* the versions of a session's trace file
  Verdicts,    \* what may be saved for a session
  Worker,
  Chunk,       \* rows per UPDATE of the backfill
  MaxListed,   \* bound: sessions a run finds on its day
  MaxJobs      \* bound: jobs begun

\* What a job settles is a session or a day, never both.
ASSUME SessionsAreNotDays == Session \cap Day = {}

\* A range of days holds every date between its ends.
ASSUME DaysAreConsecutive == Day \subseteq Int /\ \A lo, hi \in Day : lo .. hi \subseteq Day

ASSUME ContentAssumption ==
    /\ IsFiniteSet(Session) /\ MaxJobs \in Nat
    /\ \A c \in Content : /\ c.started \in Day
                          /\ {c.failedRule, c.loop, c.odd} \subseteq BOOLEAN
                          /\ c.score \in Score /\ c.axes \in [Axis -> Score]

VARIABLES
  rows,        \* api_session_aggregates
  verdict,     \* stg_session_quality_evaluations
  summary,     \* api_daily_summary
  known,       \* the server's cached column list has has_issue
  job,         \* what each worker is doing
  begun,
  reasons      \* history: sessions that ever had a failing rule or a bad verdict

vars == <<rows, verdict, summary, known, job, begun, reasons>>

NoRow == [session |-> "none"]
Rows == {rows[s] : s \in Session} \ {NoRow}
RowsOf(d) == {r \in Rows : r.day = d}
RowOf(s, day, flag, c) ==
    [session |-> s, day |-> day, flag |-> flag, started |-> c.started, user |-> c.user,
     failedRule |-> c.failedRule, loop |-> c.loop, odd |-> c.odd, score |-> c.score,
     axes |-> c.axes, duration |-> c.duration, traces |-> c.traces]

(* A job: the sessions to build, the rows built or scanned and not dealt   *)
(* with, the sessions to set and to clear, the days to refresh, the day    *)
(* and the summary being refreshed.  History: the sessions whose flag and  *)
(* the days whose summary it settled, and, in `clean', the sessions and    *)
(* days nobody else wrote since it read them.                              *)
NoJob == [kind |-> "none", step |-> "write", day |-> 0, verdict |-> NoVerdict,
          todo |-> {}, built |-> {}, on |-> {}, off |-> {}, days |-> {},
          at |-> 0, read |-> NoSummary, settled |-> {}, clean |-> {}, failed |-> FALSE]

Written(j) == j.step = "write" /\ j.todo = {} /\ j.built = {} /\ j.on = {} /\ j.off = {}
Done(j) == Written(j) /\ j.days = {}

(* The table is as the server finds it when it starts: without the column, *)
(* or with flags that an update which failed may have left behind.         *)
Init ==
    /\ known \in BOOLEAN
    /\ \E have \in [Session -> Content \cup {NoRow}], v \in Verdicts \cup {NoVerdict} :
          /\ rows = [s \in Session |-> IF have[s] = NoRow THEN NoRow
                                       ELSE RowOf(s, have[s].started, known, have[s])]
          /\ verdict = [s \in Session |-> v]
    /\ summary = [d \in Day |-> buildDailySummaryFromAggregateRows(RowsOf(d))]
    /\ job = [w \in Worker |-> NoJob]
    /\ begun = 0
    /\ reasons = {s \in Session : \/ rows[s] # NoRow /\ aggregateRowHasIssue(rows[s])
                                  \/ qualityEvaluationHasLLMIssue(verdict[s])}

\* Of a job that ended, what it settled and nobody wrote since is kept.
Ended(j) ==
    LET kept == j.settled \cap j.clean IN
    [NoJob EXCEPT !.kind = j.kind, !.settled = kept, !.failed = j.failed,
                  !.clean = IF j.kind = "backfill" THEN j.clean ELSE kept]
Rest(j) == IF Done(j) THEN Ended(j) ELSE j

\* w goes on with j, having written `items' under the eyes of the others.
Goes(w, j, items) ==
    job' = [v \in Worker |-> Rest(IF v = w THEN j ELSE [job[v] EXCEPT !.clean = @ \ items])]

Begins(w, j, items) ==
    /\ Done(job[w]) /\ begun < MaxJobs
    /\ begun' = begun + 1
    /\ Goes(w, j, items)
-----------------------------------------------------------------------------
(* The column is added to the table while the server runs: every flag is   *)
(* FALSE until the server, which asks again every minute, has seen it.     *)
apiSessionAggregateColumns ==
    /\ ~known
    /\ known' = TRUE
    /\ UNCHANGED <<rows, verdict, summary, job, begun, reasons>>
-----------------------------------------------------------------------------
(* PersistBundle and the run of a day *)

PersistBundle(w, s) ==
    /\ Begins(w, [NoJob EXCEPT !.kind = "persist", !.todo = {s}], {})
    /\ UNCHANGED <<rows, verdict, summary, known, reasons>>

run(w, listed, d) ==
    /\ Begins(w, [NoJob EXCEPT !.kind = "run", !.todo = listed, !.day = d, !.days = {d}], {})
    /\ UNCHANGED <<rows, verdict, summary, known, reasons>>

\* The day in a timezone behind the local one.
DayForWest(j, c) == IF j.kind = "run" THEN j.day ELSE c.started - 1

\* A run puts a session on the day it was asked for.
DayFor(j, c) == IF j.kind = "run" THEN j.day ELSE c.started

\* A verdict that cannot be read counts as none.
Readable(s) == IF verdict[s] = NoVerdict THEN {TRUE} ELSE BOOLEAN
VerdictRead(s, readable) == IF readable THEN verdict[s] ELSE NoVerdict
CleanAfter(j, s, readable) == IF readable THEN j.clean \cup {s} ELSE j.clean \ {s}

\* The file is fetched, the bundle built and the flag computed.
Build(w, s) ==
    LET j == job[w] IN
    /\ j.kind \in {"persist", "run"} /\ s \in j.todo
    /\ \E c \in Content, readable \in Readable(s) :
          LET flag == aggregateIssueFlagForSession(c.failedRule, VerdictRead(s, readable))
          IN  Goes(w, [j EXCEPT !.todo = @ \ {s},
                                !.built = @ \cup {RowOf(s, DayFor(j, c), flag, c)},
                                !.clean = CleanAfter(j, s, readable)], {})
    /\ UNCHANGED <<rows, verdict, summary, known, begun, reasons>>

\* An issue once flagged is never taken back.
StoredFlagSticky(r) == r.flag \/ (rows[r.session] # NoRow /\ rows[r.session].flag)

StoredFlag(r) ==
    IF known THEN r.flag ELSE rows[r.session] # NoRow /\ rows[r.session].flag

DaysOfRow(s) == IF rows[s] = NoRow THEN {} ELSE {rows[s].day}

upsertSessionAggregate(w, r) ==
    LET j == job[w] IN
    /\ j.kind \in {"persist", "run"} /\ r \in j.built
    /\ rows' = [rows EXCEPT ![r.session] = [r EXCEPT !.flag = StoredFlag(r)]]
    /\ reasons' = IF r.failedRule THEN reasons \cup {r.session} ELSE reasons
    /\ Goes(w, [j EXCEPT !.built = @ \ {r}, !.days = @ \cup {r.day},
                         !.settled = IF known THEN @ \cup {r.session} ELSE @],
            {r.session, r.day} \cup DaysOfRow(r.session))
    /\ UNCHANGED <<verdict, summary, known, begun>>

\* The day's file cannot be had or the row not be written, on any attempt.
RunSkips(w) ==
    LET j == job[w] IN
    /\ j.kind = "run"
    /\ \/ \E s \in j.todo : Goes(w, [j EXCEPT !.todo = @ \ {s}], {})
       \/ \E r \in j.built : Goes(w, [j EXCEPT !.built = @ \ {r}], {})
    /\ UNCHANGED <<rows, verdict, summary, known, begun, reasons>>

\* An error elsewhere ends the job.
Fails(w) ==
    LET j == job[w] IN
    /\ j.kind \in {"persist", "backfill", "judge"} /\ ~Written(j) /\ j.step # "summarise"
    /\ Goes(w, [NoJob EXCEPT !.kind = j.kind, !.failed = TRUE], {})
    /\ UNCHANGED <<rows, verdict, summary, known, begun, reasons>>
-----------------------------------------------------------------------------
(* A verdict is saved and the session's flag derived again *)

\* The page's own verdict is used as it is; the asynchronous job's is read again.
SaveVerdict(w, s, v, posted) ==
    LET j == [NoJob EXCEPT !.kind = "judge", !.todo = {s}, !.verdict = v,
                           !.step = IF posted THEN "row" ELSE "verdict",
                           !.clean = {s}]
    IN
    /\ verdict' = [verdict EXCEPT ![s] = v]
    /\ reasons' = IF qualityEvaluationHasLLMIssue(v) THEN reasons \cup {s} ELSE reasons
    /\ Begins(w, IF known THEN j ELSE [NoJob EXCEPT !.kind = "judge"], {s})
    /\ UNCHANGED <<rows, summary, known>>

refreshAggregateIssueForSessionID(w, s) ==
    LET j == job[w] IN
    /\ j.step = "verdict" /\ s \in j.todo
    /\ Goes(w, [j EXCEPT !.verdict = verdict[s], !.step = "row", !.clean = @ \cup {s}], {})
    /\ UNCHANGED <<rows, verdict, summary, known, begun, reasons>>

ReadRow(w, s) ==
    LET j == job[w] IN
    /\ j.step = "row" /\ s \in j.todo
    /\ Goes(w, IF rows[s] = NoRow THEN [j EXCEPT !.todo = {}, !.step = "write"]
               ELSE [j EXCEPT !.todo = {}, !.step = "mark",
                              !.built = {[rows[s] EXCEPT !.flag =
                                  aggregateIssueFlagForSession(rows[s].failedRule, j.verdict)]}], {})
    /\ UNCHANGED <<rows, verdict, summary, known, begun, reasons>>

\* The update goes by the row's id: what was aggregated meanwhile keeps its place.
refreshAggregateIssueForQualityEvaluation(w, r) ==
    LET j == job[w] IN
    /\ j.step = "mark" /\ r \in j.built
    /\ rows' = [rows EXCEPT ![r.session].flag = r.flag]
    /\ Goes(w, [j EXCEPT !.built = {}, !.step = "write", !.verdict = NoVerdict, !.days = {r.day},
                         !.settled = {r.session}],
            {r.session} \cup DaysOfRow(r.session))
    /\ UNCHANGED <<verdict, summary, known, begun, reasons>>
-----------------------------------------------------------------------------
(* The backfill of a range of days *)

\* Only the days where a flag is wrong now.
BackfillDaysChanged(scanned) ==
    {r.day : r \in {q \in scanned :
        q.flag # aggregateIssueFlagForSession(q.failedRule, verdict[q.session])}}

\* A day's summary may be of an older meaning although its flags are right.
BackfillDays(scanned) == {r.day : r \in scanned}

backfillIssueFlags(w, range) ==
    LET scanned == {r \in Rows : r.day \in range} IN
    /\ known
    /\ Begins(w, [NoJob EXCEPT !.kind = "backfill", !.built = scanned,
                               !.days = BackfillDays(scanned),
                               !.clean = {r.session : r \in scanned} \cup range], {})
    /\ UNCHANGED <<rows, verdict, summary, known, reasons>>

\* Sorts one scanned row by what its flag should be.
Judge(w, r) ==
    /\ job[w].kind = "backfill" /\ r \in job[w].built
    /\ \E readable \in Readable(r.session) :
          LET want == aggregateIssueFlagForSession(r.failedRule,
                                                   VerdictRead(r.session, readable))
              j == [job[w] EXCEPT !.built = @ \ {r},
                                  !.clean = IF readable THEN @ ELSE @ \ {r.session}]
          IN  Goes(w, IF want = r.flag THEN [j EXCEPT !.settled = @ \cup {r.session}]
                     ELSE IF want THEN [j EXCEPT !.on = @ \cup {r.session}]
                     ELSE [j EXCEPT !.off = @ \cup {r.session}], {})
    /\ UNCHANGED <<rows, verdict, summary, known, begun, reasons>>

\* First all that are set, then all that are cleared, a chunk at a time.
bulkUpdateHasIssue(w) ==
    LET j == job[w]
        value == j.on # {}
        ids == IF value THEN j.on ELSE j.off
    IN
    /\ j.kind = "backfill" /\ j.built = {} /\ ids # {}
    /\ \E chunk \in kSubset(Min({Chunk, Cardinality(ids)}), ids) :
          /\ rows' = [s \in Session |-> IF s \in chunk THEN [rows[s] EXCEPT !.flag = value]
                                        ELSE rows[s]]
          /\ Goes(w, [j EXCEPT !.on = @ \ chunk, !.off = @ \ chunk,
                               !.settled = @ \cup chunk],
                  chunk \cup UNION {DaysOfRow(s) : s \in chunk})
    /\ UNCHANGED <<verdict, summary, known, begun, reasons>>
-----------------------------------------------------------------------------
(* refreshDailySummary: the rows are read, then the summary is written *)

refreshDailySummary(w, d) ==
    LET j == job[w] IN
    /\ Written(j) /\ d \in j.days
    /\ Goes(w, [j EXCEPT !.step = "summarise", !.at = d, !.clean = @ \cup {d},
                         !.read = buildDailySummaryFromAggregateRows(RowsOf(d))], {})
    /\ UNCHANGED <<rows, verdict, summary, known, begun, reasons>>

upsertDailySummary(w) ==
    LET j == job[w] IN
    /\ j.step = "summarise"
    /\ summary' = [summary EXCEPT ![j.at] = j.read]
    /\ Goes(w, [j EXCEPT !.step = "write", !.days = @ \ {j.at}, !.at = 0, !.read = NoSummary,
                         !.settled = @ \cup {j.at}], {j.at})
    /\ UNCHANGED <<rows, verdict, known, begun, reasons>>

\* A summary that cannot be written is logged and left as it was.
RefreshFails(w) ==
    LET j == job[w] IN
    /\ j.step = "summarise"
    /\ Goes(w, [j EXCEPT !.step = "write", !.days = @ \ {j.at}, !.at = 0, !.read = NoSummary,
                         !.failed = TRUE], {})
    /\ UNCHANGED <<rows, verdict, summary, known, begun, reasons>>
-----------------------------------------------------------------------------
Next ==
    \/ apiSessionAggregateColumns
    \/ \E w \in Worker :
          \/ \E s \in Session :
                \/ PersistBundle(w, s) \/ Build(w, s)
                \/ \E v \in Verdicts, posted \in BOOLEAN : SaveVerdict(w, s, v, posted)
                \/ refreshAggregateIssueForSessionID(w, s) \/ ReadRow(w, s)
          \/ \E listed \in kSubset(MaxListed, Session), d \in Day : run(w, listed, d)
          \/ \E r \in job[w].built :
                \/ upsertSessionAggregate(w, r) \/ Judge(w, r)
                \/ refreshAggregateIssueForQualityEvaluation(w, r)
          \/ \E d \in Day : backfillIssueFlags(w, {d}) \/ refreshDailySummary(w, d)
          \/ backfillIssueFlags(w, Day)
          \/ RunSkips(w) \/ Fails(w) \/ bulkUpdateHasIssue(w)
          \/ upsertDailySummary(w) \/ RefreshFails(w)

Spec == Init /\ [][Next]_vars
-----------------------------------------------------------------------------
(* Properties *)

FlagIsDerived(s) ==
    rows[s] # NoRow =>
        rows[s].flag = aggregateIssueFlagForSession(rows[s].failedRule, verdict[s])

SummaryIsDerived(d) == summary[d] = buildDailySummaryFromAggregateRows(RowsOf(d))

(* A job that has ended leaves right what it settled, unless somebody else *)
(* wrote the same session or the same day since the job read it: what goes *)
(* on in other sessions and other days never spoils it.                    *)
UndisturbedWriterAligns ==
    \A w \in Worker :
        Done(job[w]) =>
            /\ \A s \in Session \cap job[w].settled \cap job[w].clean : FlagIsDerived(s)
            /\ \A d \in Day \cap job[w].settled \cap job[w].clean : SummaryIsDerived(d)

(* No interleaving of writers invents an issue: a flagged session had a    *)
(* failing rule or a bad verdict at some time.                             *)
FlagHasReason == \A r \in Rows : r.flag => r.session \in reasons

(* The comment of backfillIssueFlags says that it aligns the three menus:  *)
(* dashboard, anomalies, list.  Once the whole table was backfilled        *)
(* undisturbed, and no session was put on another day than its own (a      *)
(* run's day, or a day it was moved from),                                 *)
(*   - dashboard by days, dashboard by rows and list count the same        *)
(*     sessions, on whichever page of the list one looks,                  *)
(*   - the summaries of the days count as many issues as the anomaly page  *)
(*     has sessions, and so does the dashboard of any window,              *)
(*   - the means of both dashboards agree; those by days are means of a    *)
(*     day's means, so that they may be off by a hundredth.                *)
(* The labels on a single session of the list, and the issues counted from *)
(* rows without has_issue, are not compared: there the code has no traces  *)
(* to match a verdict with and does not select the rules.                  *)
Backfilled(j) ==
    /\ j.kind = "backfill" /\ Done(j) /\ ~j.failed
    /\ Day \subseteq j.clean
    /\ \A r \in Rows : r.session \in j.settled \cap j.clean /\ r.day = r.started
    /\ \A d \in Day : RowsOf(d) = {} => summary[d] = NoSummary

Near(a, b) == a - b \in -1 .. 1

MenusAgree ==
    \A w \in Worker, lo, hi \in Day :
        (Backfilled(job[w]) /\ lo <= hi) =>
            LET daily == buildDashboardSummaryFromDailySummaries(verdict, summary, lo, hi)
                exact == buildDashboardSummaryFromAggregates(Rows, verdict, lo, hi)
                found == queryDashboardAnomalyBundles(Rows, verdict, lo, hi, known)
                shown(wholeDays) == buildDashboardSummaryOptimized(Rows, verdict, summary,
                                                                   lo, hi, wholeDays, known)
            IN  /\ daily.total = exact.total
                /\ \A limit \in 1 .. 2, offset \in 0 .. daily.total :
                      ListTotal(Rows, summary, lo, hi, limit, offset) = daily.total
                /\ daily.anomalies = Cardinality(found)
                /\ \A wholeDays \in BOOLEAN : shown(wholeDays).anomalies = Cardinality(found)
                /\ daily.total > 0 =>
                      \A a \in Axis \ ToolAxis : Near(daily.axes[a], exact.axes[a])

(* The list reads one row more than its page and takes its total from the  *)
(* daily summaries, which may be stale: it still promises more rows        *)
(* exactly when there are more.                                            *)
ListShowsThereIsMore ==
    \A lo, hi \in Day, offset \in 0 .. 1 :
        lo <= hi =>
            ((ListTotal(Rows, summary, lo, hi, 1, offset)
                > offset + PageLength(Rows, lo, hi, 1, offset))
             <=> Cardinality(StartedIn(Rows, lo, hi)) > offset + 1)

(* apiDashboardSummary: LLMAvgScore and LLMRadar cover the whole window.   *)
(* Then every session whose own traces were judged counts as evaluated, on *)
(* a window that is not made of whole days too.                            *)
VerdictsAreShown ==
    \A lo, hi \in Day :
        buildDashboardSummaryOptimized(Rows, verdict, summary, lo, hi, FALSE, known).evaluated
            >= Cardinality({r \in StartedIn(Rows, lo, hi) :
                               /\ verdict[r.session].status = "succeeded"
                               /\ verdict[r.session].traces = r.traces})

(* A row holds what one version of its session's file gives, and a job is  *)
(* about rows, sessions and days.                                          *)
Row == {RowOf(s, d, flag, c) : s \in Session, d \in Day, flag \in BOOLEAN, c \in Content}

JobOK(j) ==
    /\ j.kind \in {"none", "persist", "run", "judge", "backfill"}
    /\ j.step \in {"write", "verdict", "row", "mark", "summarise"}
    /\ j.day \in Day \cup {0} /\ j.at \in Day \cup {0}
    /\ j.kind = "run" /\ j.todo # {} => j.day \in Day
    /\ j.verdict \in Verdicts \cup {NoVerdict}
    /\ j.todo \cup j.on \cup j.off \subseteq Session /\ j.built \subseteq Row
    /\ j.days \subseteq Day /\ j.settled \cup j.clean \subseteq Session \cup Day
    /\ j.failed \in BOOLEAN /\ j.read.sessions \in Nat

IssueTypeOK ==
    /\ \A s \in Session : rows[s] = NoRow \/ (rows[s] \in Row /\ rows[s].session = s)
    /\ verdict \in [Session -> Verdicts \cup {NoVerdict}]
    /\ DOMAIN summary = Day /\ \A d \in Day : summary[d].sessions \in Nat
    /\ known \in BOOLEAN
    /\ \A w \in Worker : JobOK(job[w])
    /\ begun \in 0 .. MaxJobs /\ reasons \subseteq Session
=============================================================================
