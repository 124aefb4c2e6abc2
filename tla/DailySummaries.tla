--------------------------- MODULE DailySummaries ---------------------------
(***************************************************************************)
(* What the pages compute from the rows of api_session_aggregates, of      *)
(* stg_session_quality_evaluations and of api_daily_summary: the issue tag *)
(* of a session, the summary of a day, and the dashboard of a range of     *)
(* days, which is read from the daily summaries when it can be and from    *)
(* the sessions' rows when it cannot.                                      *)
(*                                                                         *)
(* A row is what aggregating one version of a session's trace file gives:  *)
(* the day the session started, its user, whether a rule failed, whether   *)
(* it looped, whether it has a chip or an abnormal level, its score, its   *)
(* five axes, its duration and its traces, which stand for their           *)
(* fingerprint.  Averages are in hundredths, as round2 leaves them.        *)
(***************************************************************************)
EXTENDS Integers, Sequences, FiniteSets, FiniteSetsExt, SequencesExt

CONSTANTS
  NoScore,     \* a nil *int
  NoTraces     \* the fingerprint of a bundle that carries no traces

Score == 0 .. 100
NoVerdict == [status |-> "none"]

Dim == {"resolved", "intent_match", "sentiment", "efficiency_feel", "actionability",
        "hallucination_risk"}
Threshold(d) == IF d = "sentiment" THEN 60 ELSE 70

Axis == {"response", "thinking", "resource", "stability", "orchestration"}
\* Axes that say nothing of a session without tools: 0 is left out of the mean.
ToolAxis == {"stability", "orchestration"}

(* A verdict: the score columns, the scores the stored JSON result also    *)
(* has, and the day and the fingerprint of the traces that were judged.    *)
Verdict == [status : {"running", "succeeded", "failed"}, llm : Score \cup {NoScore},
            combined : Score \cup {NoScore}, dims : [Dim -> Score \cup {NoScore}],
            result : [Dim -> Score \cup {NoScore}], started : Int, traces : STRING]
-----------------------------------------------------------------------------
(* The issue tag *)

hasDashboardLLMScoreEvidence(llm, dims) ==
    \/ llm # NoScore /\ llm > 0
    \/ \E d \in Dim : dims[d] # NoScore

dashboardBundleHasLLMIssueTag(llm, dims) ==
    /\ hasDashboardLLMScoreEvidence(llm, dims)
    /\ \E d \in Dim : dims[d] # NoScore /\ dims[d] < Threshold(d)

\* From the columns alone, whatever traces the verdict is of.
qualityEvaluationHasLLMIssue(v) ==
    v # NoVerdict /\ dashboardBundleHasLLMIssueTag(v.llm, v.dims)

\* A verdict of any scores counts.
aggregateIssueFlagAnyVerdict(failedRule, v) ==
    failedRule \/ (v # NoVerdict /\ hasDashboardLLMScoreEvidence(v.llm, v.dims))

aggregateIssueFlagForSession(failedRule, v) == failedRule \/ qualityEvaluationHasLLMIssue(v)

aggregateRowHasIssue(row) == row.flag \/ row.failedRule
-----------------------------------------------------------------------------
(* The summary of a day *)

\* n / d in hundredths, rounded half up.
round2(n, d) == (200 * n + d) \div (2 * d)

percentile(sorted, percent) ==
    IF sorted = <<>> THEN 0
    ELSE sorted[Max({1, Min({Len(sorted), (Len(sorted) * percent + 99) \div 100})})]

\* The mean of a function's values.
Mean(value) ==
    IF DOMAIN value = {} THEN 0 ELSE round2(SumFunction(value), Cardinality(DOMAIN value))

MeanOfAxis(rows, a) ==
    LET counted == IF a \in ToolAxis THEN {r \in rows : r.axes[a] > 0} ELSE rows
    IN  Mean([r \in counted |-> r.axes[a]])

Durations(rows) == SetToSortSeq(rows, LAMBDA r, q : r.duration < q.duration)
DurationAt(rows, percent) ==
    percentile([i \in 1 .. Cardinality(rows) |-> Durations(rows)[i].duration], percent)

NoSummary == [sessions |-> 0]

buildDailySummaryFromAggregateRows(rows) ==
    IF rows = {} THEN NoSummary
    ELSE [sessions |-> Cardinality(rows),
          users    |-> Cardinality({r.user : r \in rows} \ {""}),
          abnormal |-> Cardinality({r \in rows : aggregateRowHasIssue(r)}),
          loops    |-> Cardinality({r \in rows : r.loop}),
          score    |-> Mean([r \in rows |-> r.score]),
          p50      |-> DurationAt(rows, 50),
          p90      |-> DurationAt(rows, 90),
          axes     |-> [a \in Axis |-> MeanOfAxis(rows, a)]]
-----------------------------------------------------------------------------
(* The verdict a page shows with a bundle *)

\* The bundles of the list and the dashboard come from columns: they have no traces.
Matches(v, traces) == v.traces = "" \/ v.traces = traces

\* A dimension without a column's score falls back to the JSON result's.
AppliedDims(v) == [d \in Dim |-> IF v.dims[d] # NoScore THEN v.dims[d] ELSE v.result[d]]

NoDims == [d \in Dim |-> NoScore]

\* `traces' is the fingerprint of the bundle the verdict is applied to.
applyQualityEvaluation(row, v, traces) ==
    IF v # NoVerdict /\ Matches(v, traces)
    THEN [row |-> row, llm |-> v.llm, combined |-> v.combined, dims |-> AppliedDims(v)]
    ELSE [row |-> row, llm |-> NoScore, combined |-> NoScore, dims |-> NoDims]

LLMScoreOf(b) ==
    IF b.llm = 0 /\ ~hasDashboardLLMScoreEvidence(b.llm, b.dims) THEN NoScore ELSE b.llm

\* A stored 0 beside a positive rule score and no verdict was never computed.
sanitizeDashboardCombinedScore(b) ==
    IF b.combined = 0 /\ LLMScoreOf(b) = NoScore /\ b.row.score > 0 THEN NoScore
    ELSE b.combined

CombinedScoreOf(b) ==
    LET stored == sanitizeDashboardCombinedScore(b) IN
    IF stored # NoScore THEN stored
    ELSE IF LLMScoreOf(b) # NoScore THEN (b.row.score + LLMScoreOf(b) + 1) \div 2
    ELSE b.row.score

dashboardBundleHasIssueTag(b) ==
    b.row.failedRule \/ dashboardBundleHasLLMIssueTag(b.llm, b.dims)
-----------------------------------------------------------------------------
(* The dashboard of the days lo .. hi *)

StartedIn(rows, lo, hi) == {r \in rows : r.started \in lo .. hi}

Blank == [total |-> 0, anomalies |-> 0, evaluated |-> 0]

summarizeDashboardBundles(bundles) ==
    IF bundles = {} THEN Blank
    ELSE [total     |-> Cardinality(bundles),
          anomalies |-> Cardinality({b \in bundles : dashboardBundleHasIssueTag(b)}),
          evaluated |-> Cardinality({b \in bundles : LLMScoreOf(b) # NoScore}),
          score     |-> Mean([b \in bundles |-> CombinedScoreOf(b)]),
          axes      |-> [a \in Axis |-> MeanOfAxis({b.row : b \in bundles}, a)]]

\* The rules are not among the columns it selects.
listSummaryBundlesFromDB(rows, lo, hi) ==
    {[r EXCEPT !.failedRule = FALSE] : r \in StartedIn(rows, lo, hi)}

buildDashboardSummaryFromAggregates(rows, verdict, lo, hi) ==
    summarizeDashboardBundles({applyQualityEvaluation(r, verdict[r.session], NoTraces) :
                               r \in listSummaryBundlesFromDB(rows, lo, hi)})

\* The means of days, each weighted by its day's sessions.
Weighted(mean, sessions) ==
    LET total == SumFunction(sessions)
        sum == SumFunction([d \in DOMAIN sessions |-> mean[d] * sessions[d]])
    IN  (2 * sum + total) \div (2 * total)

\* The sessions with a finished verdict, whatever traces it is of.
aggregateDashboardLLMFromStaging(verdict, lo, hi) ==
    Cardinality({s \in DOMAIN verdict : /\ verdict[s].status = "succeeded"
                                        /\ verdict[s].started \in lo .. hi})

buildDashboardSummaryFromDailySummaries(verdict, summary, lo, hi) ==
    LET days == {d \in lo .. hi : summary[d].sessions > 0}
        sessions == [d \in days |-> summary[d].sessions]
    IN  IF days = {} THEN Blank
        ELSE [total     |-> SumFunction(sessions),
              anomalies |-> SumFunction([d \in days |-> summary[d].abnormal]),
              evaluated |-> aggregateDashboardLLMFromStaging(verdict, lo, hi),
              score     |-> Weighted([d \in days |-> summary[d].score], sessions),
              axes      |-> [a \in Axis |->
                                Weighted([d \in days |-> summary[d].axes[a]], sessions)]]

countDashboardIssueSessions(rows, lo, hi) ==
    Cardinality({r \in StartedIn(rows, lo, hi) : r.flag})

(* `wholeDays': the range begins and ends at midnight.  `column': has_issue *)
(* exists as far as the server knows.                                       *)
buildDashboardSummaryOptimized(rows, verdict, summary, lo, hi, wholeDays, column) ==
    LET daily == buildDashboardSummaryFromDailySummaries(verdict, summary, lo, hi)
        found == IF wholeDays /\ daily.total > 0 THEN daily
                 ELSE buildDashboardSummaryFromAggregates(rows, verdict, lo, hi)
    IN  IF column
        THEN [found EXCEPT !.anomalies = countDashboardIssueSessions(rows, lo, hi)]
        ELSE found

\* Without the column, the rows worth a look are those the rules found odd.
loadDashboardAnomalyCandidateRows(rows, lo, hi) ==
    {r \in StartedIn(rows, lo, hi) : r.odd \/ r.loop \/ r.score < 85}

\* The sessions of the anomaly page; the limit on the rows it scans is 200 or more.
queryDashboardAnomalyBundles(rows, verdict, lo, hi, column) ==
    IF column THEN {r \in StartedIn(rows, lo, hi) : r.flag}
    ELSE {r \in loadDashboardAnomalyCandidateRows(rows, lo, hi) :
              dashboardBundleHasIssueTag(applyQualityEvaluation(r, verdict[r.session], NoTraces))}
-----------------------------------------------------------------------------
(* The list of the sessions of a range, `limit' of them from `offset' on   *)

PageLength(rows, lo, hi, limit, offset) ==
    Min({limit, Max({0, Cardinality(StartedIn(rows, lo, hi)) - offset})})

\* One row more than the page is read, to see that there is one.
Truncated(rows, lo, hi, limit, offset) ==
    Cardinality(StartedIn(rows, lo, hi)) - offset > limit

countSessionsFromDailySummary(summary, lo, hi) ==
    SumFunction([d \in lo .. hi |-> summary[d].sessions])

\* The days' sessions, however few they are.
ListTotalOfDays(rows, summary, lo, hi, limit, offset) ==
    LET seen == offset + PageLength(rows, lo, hi, limit, offset) IN
    IF Truncated(rows, lo, hi, limit, offset)
    THEN Max({countSessionsFromDailySummary(summary, lo, hi), seen})
    ELSE seen

ListTotal(rows, summary, lo, hi, limit, offset) ==
    LET seen == offset + PageLength(rows, lo, hi, limit, offset) IN
    IF Truncated(rows, lo, hi, limit, offset)
    THEN Max({countSessionsFromDailySummary(summary, lo, hi), seen + 1})
    ELSE seen
=============================================================================
