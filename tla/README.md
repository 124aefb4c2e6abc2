# Verification of agentic_trace_server

TLA+ models of the Go back end under `src/backend/internal`: its stateful parts, and
the computations on traces on which its pages rest; TLC configurations that check
them on small instances, and TLAPS proofs of what matters most. File names below are relative to `src/backend/internal/` unless they
begin with `src/`.

The server shows the traces of agent sessions that an upstream service stores as
JSONL files. It keeps derived data in a MySQL database shared by all server
processes and works on it from request goroutines, from three loops per process
and from goroutines that requests leave behind. There is no lock across
processes: what keeps things right is the order of single SQL statements, one
transaction (the claim of a refresh job) and a few in-process maps.

## The system's parts

| Part | Source | State | Operations |
| --- | --- | --- | --- |
| Session refresh queue | `api/session_refresh_queue.go` | table `stg_session_refresh_queue`, one row per session | `EnqueueSessionRefresh`, `claimNextSessionRefreshJob`, `finishSessionRefreshJob`, `failSessionRefreshJob`, polled by `refreshQueueLoop` in every process |
| Freshness and detail pages | `api/session_refresh_api.go`, `api/bundle_api.go` | index `stg_session_sources`, aggregates `api_session_aggregates` | `getSessionBundleFreshness`, `markSessionAggregateInvalidated`, `getSessionBundleAPI`, `writebackIndexedSource`, `PersistBundle`, `runSessionRefreshJob` |
| Daily aggregator | `api/aggregator.go`, `api/backfill_day_api.go`, `api/backfill_range_api.go` | `flight`, `highJobs`, `lowJobs`, `lastCookie` in memory; `api_daily_aggregate_status`, `api_session_aggregates` | `EnsureDays`, `ForceQueueDays`, `backfillDay`, `nightlyCron`, `worker`, `runAggregate`, `cleanupStaleRunning` |
| Asynchronous LLM judge | `api/llm_judge_async_api.go`, `api/trace_fingerprint.go`, `api/quality_evaluation_api.go` | `inflightLLMJudge` in memory; one row per session of `stg_session_quality_evaluations` | start, evaluate, succeed, fail, save, status |
| Trace fetcher | `tracelog/fetcher.go` | LRU list, map, byte counter; `inflight`; semaphore `dlSem` | `FetchAndParse`, `Invalidate`, `Prewarm` |
| Stream collector | `tracelog/parser.go` | calls by log id, loose events, bytes retained, per call of `ParseStream` | `Add`, `applyPayloadBudget`, `Result` |
| Trace parser | `tracelog/parser.go` | none | `Parse`, `ParseStream`: four formats tried one after the other |
| Spans, rules and scores | `api/bundle_tos.go`, `api/handler.go`, `api/efficiency_scores.go` | none | `buildSpansFromRound`, `deriveSessionSignals`, `computeBundlePrecomputedMetrics` |
| Issue flags and daily summaries | `api/issue_flag.go`, `api/backfill_issue_flags_api.go`, `api/aggregate_summary.go` | `has_issue` of aggregates, `api_daily_summary`, the cached list of columns | `PersistBundle`, the run of a day, saving a verdict, `backfillIssueFlags`, `refreshDailySummary` |
| Dashboard, anomaly page, list | `api/dashboard_summary_api.go`, `api/bundle_api.go` | none | `buildDashboardSummaryOptimized`, `queryDashboardAnomalyBundles`, `listSessionBundlesFromDB` |
| Other lists and metrics | `api/handler.go` | `stg_session_sources.extra` | queries, `writeBackMetrics` |
| Manual review, diagnosis, assistant | `api/manual_review_api.go`, `api/ai_diagnose_api.go`, `api/assistant_api.go`, `api/llm_judge_api.go` | one inserted row, or none | requests forwarded to model services |
| Clients, database, secrets, tools, front end | `upstream/`, `db/`, `secret/`, `src/backend/cmd`, `src/frontend` | none of their own | I/O |

How they meet: the freshness endpoint compares an upstream answer with index and
aggregate, enqueues a refresh and marks the aggregate as invalidated; the queue's
loop runs the refresh, which resolves the session upstream, downloads its file
through the fetcher (which parses it while it streams in) and writes aggregate, index and daily
summary, after rules and scores were derived from the spans; the detail
endpoint does the same work in the request; the aggregator writes the same
aggregate rows for whole days through the same fetcher; saved and automatic
evaluations change the issue flag of those rows; dashboard, anomaly page and list
read rows, summaries and verdicts. All of this happens concurrently and in several
processes.

What is hard about it, and what makes each part correct:

* **Queue.** Processes crash with a job in hand, updates are lost, requests arrive
  during a run. A row must never be stranded, a lease must be honoured while it
  lasts, retries must count on top of the right number, every request must be
  settled, and nothing may be settled that was not asked for.
* **Freshness.** Six reads and writes of a request interleave with those of a job.
  An older file must not replace a newer one, and the newest must be in the
  aggregate in the end, although times are missing or do not move.
* **Aggregator.** A day's flight goes from a request to a channel to the worker, with
  failing sends, failing runs and panics on the way. It must be in exactly one pair
  of hands, and come back. A day that is marked as complete must be complete.
* **Judge.** The verdict of a long evaluation arrives when the session may have
  grown, another evaluation may have been started, or the process may have been
  restarted. It must not be shown for another trace.
* **Fetcher.** Waiting calls must be woken on every path, slots given back on every
  path, and list, map and counter of the cache must agree.
* **Collector and parser.** Events of several calls are interleaved, repeated and late;
  data is replaced by other data while the bytes are counted. The collector must
  come to the rounds that the batch parser finds in the same file, count what it
  retains, and stop in time. No call may be lost or be in two rounds, the counts of
  a round must be those of its calls, and what the framework wrote into a message
  must not be shown as the user's question.
* **Rules and scores.** The verdict on a session is computed twice, by rules and by a
  score, from the same spans but along different ways. They must not contradict each
  other on the page.
* **Flags, summaries, dashboard.** Derived copies with four writers and no lock. A writer
  that nobody disturbs must leave them right, no interleaving may invent an issue, and
  after a backfill dashboard and anomaly page must count the same issues, and dashboard
  and list the same sessions.

## Modules

| Module | Stands for |
| --- | --- |
| `RefreshRequests` | what callers may rely on: a refresh is open or settled; the abstract specification of the queue |
| `SessionRefreshQueue` | the queue table and the loop of every process |
| `SessionFreshness` | freshness and detail requests, the body of a refresh job, index and aggregates, users adding turns; extends the queue |
| `Aggregator` | the daily aggregator of one process with its two tables |
| `LLMJudge` | the evaluations of one session in several processes |
| `TraceFetcher` | the fetcher of one process |
| `StreamCollector` | the collector of `ParseStream` and its byte budget |
| `TraceValues` | JSON values as the parser looks at them; the text a user really wrote |
| `TraceParser` | what the data of events says about a call, and how calls become rounds |
| `TraceFormats` | wrapped response items, arrays of anything, the Neeko log, `Parse` |
| `TraceParsing` | `ParseStream` at work on one file; composes the collector with the formats |
| `SessionBundles` | spans, rules, axes and score of a parsed session; extends `TraceParsing` |
| `DailySummaries` | verdicts, summaries of days, dashboard, anomaly page and list as operators on rows |
| `IssueFlags` | the writers of flags and summaries, statement by statement; extends `DailySummaries` |
| `...Proofs` | theorems about the module of that name; `SessionFreshnessProofs` has those about the queue as well, `TraceParsingProofs` those about the collector and the formats |
| `SumLemmas` | lemmas about sums over finite sets, for the proofs about bytes, counts and means |
| `RecursionLemmas` | what a recursive function and a fold over a list compute, whatever their step is; a proof takes an instance with the step of one definition |
| `MC...` | small instances: bounds on requests, faults, logins and the clock, symmetry, fairness of the bounded actions |

Each handler is cut into actions where another goroutine or process can get in
between: at every SQL statement (or transaction), at every section under a mutex,
at channel operations, before and after downloads and upstream calls. A goroutine's
local variables are a record with the place it is at.

**`SessionRefreshQueue`.** `row[s]` is the queue's row (status, priority, retry count,
next retry, lease), `job[w]` the copy a process holds, and what it is about to do
with it. `Enqueue` is the upsert with its `GREATEST` of the priorities; `Claim` is
the transaction with its `SELECT ... FOR UPDATE`, the query's order and its two ways
of being claimable; `RunJob` decides the outcome; `Finish`, `Fail` write it,
`LoseUpdate` is an update that fails (its error is logged only), `Crash` ends the
process between two statements; `Tick` lets time pass. A claim whose commit is
done but whose answer is lost is a `Claim` followed by a `Crash`. Requests of the
code all have the highest priority; the model allows the declared range.

**`SessionFreshness`.** `upstream`, `index` and `agg` are what the three places know of
a session's file: a number (0 for none, larger for newer), the time it claims, or
none. The file number in an aggregate is a ghost: the table keeps its consequences
only. `visit[v]` is a freshness or detail request, `work[w]` the body of a job;
both keep what they have read until they write it. Every session id is one the
server supports, every indexed row has an address, and the optional columns exist.
With `Reliable`, upstream answers, downloads and writes succeed (processes may
still crash); with `DetailReads`, detail pages are opened too. An index that is older
than its aggregate comes from a worker that stopped between the two writes; the row is
open then, since the update that settles it comes last (`IndexKeepsUp`).

**`Aggregator`.** `actor[a]` is a request's goroutine, the cron or the worker.
`Consider` is one round of the loop over days, then `AcquireDateFlight`,
`EnqueueJob` and, when the channel is full, `PutBack`. `Begin`, `ListUnpublished`,
`ListPublished`, `AggregateSession`, `EndRound`, `Finish` are `runAggregate`;
`ReleaseDateFlight` is the deferred release. A session's day does not change and
every session has a file. `known` in a status row is a ghost. Only the cookie of
the users' latest login is accepted upstream. The per-request caps on days never
bind, since as many days have the priority; the startup grace lets a request do no
more than `Remember`. The daily summary and the publication status written along
with the rows are left out.

**`LLMJudge`.** `eval` is the session's row with three fingerprints: of the columns,
of `llm_raw_result` (the running mark) and of `llm_eval_result` (the verdict).
`run[r]` is a start request and the goroutine it leaves, or a save. Sessions share
nothing, so one is modelled. `CheckInflight` takes the look into the map and the removal
of an entry that is too old (`api/llm_judge_async_api.go:183`) as one step; requests
without a fingerprint, and the comparison of trace counts for them, are left out.

**`TraceFetcher`.** `ll`, `index`, `curBytes`, `inflight`, `slots` are the fields of
`Fetcher`. A panic in a download is a failed download (the deferred functions run).
`Invalidate` has no caller outside the tests, but is part of the type.

**`StreamCollector`.** The variables are the collector's fields; a payload is a record
with a size, and `Slot` says which field of a call an event fills. `Add` is one line;
its two disjuncts are the events without ids and those of a call. Whether the memory
is above the threshold when it is looked at is a choice. The module knows nothing of
what a payload says, so that its theorem holds of any.

**`TraceValues`, `TraceParser`, `TraceFormats`.** Pure functions of the source become
operators of the same names. A JSON value is a tagged value, a text a sequence of
words; the words the code looks for (tags, phrases of the framework, an answer
payload) are named in `TraceValues`, all others are the user's. Letter case, white
space and truncation of texts are left out, and so are finish reasons, HTTP status,
cached tokens and tool results, which are passed on. Go visits the keys of a map in
any order: `keys` is the order of one run, and the properties hold for each order in
`KeyOrders`. A string that holds JSON is not looked into. `Value` is the set of the
values that occur in files, closed under taking parts, and `Depth` says how deep they
are nested: the searches of the code go from a value to its parts, and end since the
parts are less deep (`ValueAssumption`, which holds of everything JSON decodes to).

**`TraceParsing`.** `lines` is what has been read, `phase` how far the parse is; each
line is one action and so is the end, which computes `out`. A line that is not JSON
is skipped, one beyond the scanner's buffer fails the parse, a broken element
fails an array. The batch parser is `ParseLines` and `ParseArray` on the same lines.

**`SessionBundles`.** The spans of `out.rounds`, the rules and the score. Two words stand
for long texts. The module has no variables: its properties are invariants of
`TraceParsing`.

**`DailySummaries`, `IssueFlags`.** `rows[s]` is a session's row of
`api_session_aggregates`, `verdict[s]` its stored evaluation, `summary[d]` the row of
a day, `known` whether the cached column list has `has_issue`. `job[w]` is what a
request, job or backfill holds between two statements: sessions to build, rows built
or scanned, ids to set and to clear, days to refresh. `PersistBundle`, `run`,
`SaveVerdict`, `backfillIssueFlags` begin one; `Build`, `upsertSessionAggregate`,
`ReadRow`, `refreshAggregateIssueForQualityEvaluation`, `Judge`, `bulkUpdateHasIssue`,
`refreshDailySummary`, `upsertDailySummary` are its statements; `Fails`, `RunSkips`,
`RefreshFails` are their errors. Ghosts: `settled` and `clean` in a job (what it wrote,
and what nobody else wrote since it read it) and `reasons` (sessions that ever had a
failed rule or a bad verdict). The pages are operators on rows, verdicts and
summaries, with the code's arithmetic in hundredths. Every row has a time at which its
session started: the list's handling of rows without one, and its filter on ids that
begin with `ses_` (`api/bundle_api.go:698`), are left out.

## Runs

Every MC module bounds requests, faults and the clock by counters in the guards of
its actions; these bounds and the sizes of the sets are all that is small. `AggFlights`
has no bound on requests and faults (`MCBusySpec`), since they are what a day may have to
wait for.
`CHECK_DEADLOCK FALSE` is set since bounded instances stop when their budget is
used up, and the server is idle without requests.

| Run | Question | Instance |
| --- | --- | --- |
| `QueueSingle` | Does the queue with one process implement `RefreshRequests`, reopen nothing by itself, settle every request, and count retries from the right number? | 1 process, 2 sessions, 3 requests, 1 fault; lease 2, one retry: a crash, a takeover, a retry and a request in the middle of each occur |
| `QueueMulti` | Are leases sound and honoured, and is no row out of reach, with two processes? | 2 processes, 2 sessions, 3 requests, 1 fault |
| `FreshReliable` | Is an older file never put in place of a newer one, is the newest one in the aggregate in the end, is a mark of invalidation always worked off, and does no crash leave an index behind its aggregate? | 1 request at a time, 1 worker, 2 turns, a crash or lost update of the queue |
| `FreshUnreliable` | Does the composed state stay well formed when lookups, downloads and writes fail and details are read? | 1 request, 1 worker, 1 turn, 1 fault |
| `FetchCalls` | Are cache, flights and slots consistent, and does every call return? | 2 calls at a time, 3 files of sizes 1 or 3 in a cache of 2 entries and 3 bytes, so that both caps bind; 1 slot; entries expire |
| `JudgeRuns` | Does a verdict stay with its trace, is the map free of dead entries, do evaluations end? | 2 processes, 2 traces, 2 requests or saves, 1 fault |
| `AggFlights` | Is every flight in one pair of hands, and does it end, when requests, errors and restarts never stop? | 2 days, one caller beside cron and worker, channels of 1 (the high one fills up), no bound on requests and faults; the clock stands still |
| `AggCompleted` | Is a completed day complete? | 1 day, 2 sessions that appear and are published at any moment, 1 request and the cron, 2 logins, 1 retry round, 1 fault; one tick, so that a restart may find a stale running row |
| `ParseFiles` | Does the collector agree with the batch parser, count its bytes and stop in time; are calls, counts and questions right in every format; do rules and score agree? | files of up to 4 lines or 3 elements out of one of six families of 5 to 10 events: interleaved calls, sizes around the limit, framework texts, the Neeko log, wrapped items, sessions that loop, fail or idle; broken lines; two orders of keys; limits of 8, 4 and 2 bytes |
| `IssueFlags` | Does an undisturbed writer leave flags and summaries right, is no issue invented, and do dashboard, anomaly page and list agree after a backfill? | 2 sessions, 2 days, 2 versions of a file, 2 verdicts, 2 jobs at a time or in turn, chunks of 1; stored flags are wrong at the start, in one direction or the other |
| `DashVerdicts` | *violated:* every session whose own traces were judged counts as evaluated | 2 sessions, 2 days, 1 job; a window that is not made of whole days |
| `AggBackfill` | *violated:* a completed day is complete | `backfillDay` in use, a published session |

The bounds suffice in the sense that one more of each kind adds repetitions, not
new situations: every row, flight, entry or evaluation is in the hands of at most
two actors at a time in the code's logic (an owner and one that takes over or
comes in between), and each run has one more actor or request than that. For the
parser, the interplay is between the events of at most two calls and the order they
come in: four lines hold two calls with request and answer in every order, or one
call with repeated data and another; what one event says does not depend on the
others. The state of `TraceParsing` is the list of the lines, so that every file
over a family is covered, not a sample.

**Fairness.** Liveness is checked under weak fairness of each goroutine's or
process's own steps: goroutines are scheduled, downloads and upstream calls have
timeouts, the polling loops never return. `EventuallyFresh` also needs the page to
go on asking (strong fairness of starting a freshness request: the front end polls
while it is open) and the clock to pass while a deadline lies ahead;
`EveryCallReturns` needs senders blocked on a Go channel to be served in turn
(strong fairness of `Acquire`). `FlightsEnd` needs Go's `select` not to pass over the
low channel forever when both are ready, as it picks at random (strong fairness of
`TakeLow`); it claims nothing of a worker that never gets to that `select`, since the
high channel had a job every time it looked (`PassedOver`). Requests, faults, turns and logins are never fair.
In the MC modules fairness is stated for the bounded actions; fairness of an
unbounded clock would make every bounded behaviour unfair and the property vacuous.
`EvaluationSettles` makes no claim after a restart or a lost failure mark: such a
row stays at running until someone asks again after `llmJudgeJobTTL`.

Each property is also checked against a mutant of the model: an operator that
stands right before the mapped definition it replaces and says which mistake it is.

## Statements that do not hold

Two have a run (above) and an entry under `findings`: `AggBackfill` and `DashVerdicts`.
The following were found with the same models and are not kept as runs; each needs
only the instance given.

Queue, freshness, fetcher, judge, aggregator:

* An invalidation is taken back although the change is not in the aggregate: a job
  whose upstream lookup fails aggregates the indexed file and clears the mark
  (`api/session_refresh_queue.go:192`).
* All calls that wait for a download that fails go on to download at once, since a
  waiter does not register itself (`tracelog/fetcher.go:107`; 3 calls).
* The status endpoint reports `not_found` for an evaluation that is running when the
  session has grown since it began (`api/trace_fingerprint.go:92`), which the head of
  `api/llm_judge_async_api.go` does not expect.
* A request made while its session is being refreshed is settled by the run that
  began before it: `finishSessionRefreshJob` (`api/session_refresh_queue.go:345`)
  updates by id alone. `[][\A s : row[s].status = "pending" => row'[s].status \in {"pending", "running"}]_vars`
  fails with one process, one session and two requests. The page's next freshness
  check asks again, which is why `EventuallyFresh` holds.
* The same upsert clears the lease of a running row, so that a second process runs
  the session at the same time (two processes, one session, two requests).
* `retry_count` is kept when a session is requested again and then exceeds
  `max_retry_count` (one process, two requests, failing jobs).
* A detail read whose upstream answer is outdated writes it over a newer index entry
  (`api/bundle_api.go:672`; two requests).
* A file without times goes unnoticed when the aggregate is older than the index,
  since `indexedSourceStaleVsUpstream` looks at the index (`DetailReads`, a failed
  persist).
* Two start requests in the same moment evaluate twice: check and store of
  `inflightLLMJudge` are apart. Its comment calls it best effort.
* The cron takes a run that listed a day before midnight and ended after it for a run
  of the new day and skips the sessions added in between (`api/aggregator.go:363`).
* A job with an outdated cookie makes the aggregator forget the valid one that was
  remembered since (`api/aggregator.go:272`).
* With two recent days requested in turn, the high channel is never empty when the
  worker looks and the low one is never served (`api/aggregator.go:501`):
  `\A d \in Day : d \in flight ~> d \notin flight` fails in the instance of `AggFlights`.
  `FlightsEnd` makes this exception, `PassedOver`, and no other.
* A restart soon after the start of a run leaves the day at running:
  `cleanupStaleRunning` runs once, at the start, and passes over young rows.

Parser (`tracelog/parser.go`):

* Rounds with ids are in the order of the first event of their first call; a comment
  says they are sorted by time.
* `ParseStream` does not try the Neeko format for lines, `Parse` does; it tries the
  fallback on events without ids only, `Parse` on all; and it does not try the
  fallback for arrays at all. When the collector falls back, a truncation is not
  reported (lines 425 to 431).
* Noise behind an array that only the fallback would understand gives an empty page.
* Of a Neeko log that is read as lines, the wrapped items are looked for, whose
  questions are not stripped of what the framework wrote (line 708): `QuestionIsTheUsers`
  speaks of rounds with ids and of the rounds that `Parse` finds in a Neeko log.
* What the fallback finds depends on the order in which Go visits a map, and a
  message of the user with `role` and `content` at the top counts as an answer
  (`payloadFromSimpleMap`).

Rules and scores:

* `handler.go` has its own copy of `isSyntheticToolPrompt`, which knows more phrases:
  the framework's calls are left out of the rules but not of the score.
* A call whose output is reasoning only is idle for the rules and an answer for the
  score. `AnswersAgree` says of every call, and of the session, that rules and score
  differ in calls of these two kinds, if they have no tools (`OnlyForScore`), and in no
  others.
* Two rounds with the same prompt id share span ids, so that the tools of one count
  for the calls of the other (`PromptsDiffer` in the properties).
* No rule has the label `执行失败`, so that `hasExecutionFailureRule` never caps a score;
  `HasRootFail` is always false; rounds without a question count as effective.

Flags, summaries, dashboard:

* A page that aggregates a session reads the verdict before the judge saves it and
  writes its row after the judge has set the flag: the flag is lost until the next
  writer. Two refreshes of one day's summary lose an update in the same way, and an
  error ends a backfill between flags and summaries. Hence `UndisturbedWriterAligns`
  speaks of writers nobody disturbed, and `FlagHasReason` does not exclude that a flag
  outlives its reason.
* A session that is put on another day leaves the summary of its old day stale, and a
  day without rows keeps its last summary: `backfillIssueFlags` refreshes the days of
  the rows it finds. `MenusAgree` therefore asks for rows on their own days.
* A verdict that cannot be read counts as none and clears a flag; the flag looks at
  the columns of a verdict only, the pages also at its JSON, and neither the flag nor
  the dashboard's mean looks at the fingerprint.
* Without the column `has_issue` the path by rows counts no failed rules.
* The bundles of list and dashboard by rows have no traces, so that they drop verdicts
  that have a fingerprint (`api/quality_evaluation_api.go:527`), and the list selects no rules
  for them: the labels of a session on the list need not be those of the anomaly page,
  although `backfillIssueFlags` speaks of three menus. `MenusAgree` compares the
  numbers of sessions of dashboards and list, the numbers of issues of the daily
  summaries, the dashboard as shown and the anomaly page, and the means.
* The dashboard by days weighs stability and orchestration by all sessions, the one
  by rows by those with tools (`MenusAgree` compares the other axes, and up to
  a hundredth, the rounding of a day's mean).
* `writeBackMetrics` writes `extra` from a row read before the download, over what the
  importer wrote meanwhile (`api/handler.go:521`).

## Proofs

TLAPS checks the following for all values of the constants that satisfy the named
assumptions of the modules.

* `TypeCorrect`, `LeasesSound`: `TypeOK`, and `LeasedIffRunning` with
  `NoStrandedRow`, are invariants of the queue for any number of processes and
  sessions. The latter two are not inductive as they stand: the copy a process holds
  can be older than the row, so that its update must be known to keep the row
  sound whatever the row has become. The inductive invariant `RowsSound` says of
  each row by itself that status, lease and next retry fit together.
* `UnexpiredLeaseHonoured`: the action property `LeaseHonoured`; from the invariant,
  a running row whose lease has not run out is not claimable.
* `OneProcessJobIsCurrent`, `OneProcessImplementsRequests`: with one process, the
  row of the job in hand is open and has the job's retry count; from this invariant,
  every step of the queue is a step of `RefreshRequests` or a stutter, and a step
  that opens a refresh is a request for it.
* `FreshnessTypeCorrect`, `FreshnessLeasesSound`: types and leases of the composed
  system of requests, jobs and tables. The second is the queue's theorem: each action has
  one of the queue's steps in it or none (lemma `QueueInside`), which shows how the
  module is put together and says nothing of the code by itself.
* `IndexFollows`: `IndexKeepsUp`, under `OneReliableWorker`. The invariant `JobsKeepUp`
  says what a job has done to the index at each of its stages: one that is about to
  settle its row has brought the index up, one that decides not to write the index has
  fetched the file that the index names, and the row of an index that lags is open. It
  needs `JobIsCurrent`: the row settled is the one whose index was brought up.
* `NothingGrowsOlder`: `NeverOlder`, with one process, a reliable upstream and no
  detail reads (`OneReliableWorker`; with two workers or a detail read in between, an
  older file may be written over a newer one). `VersionsOrdered` adds what makes it
  inductive: nothing stored is newer than upstream, and what a worker has resolved is at
  least as new as what is stored, since nobody else writes until it does.
* `WakeupsKept`, `SlotsKept`: `NoLostWakeup` and `SlotsAccounted` of the fetcher, for
  any number of calls, urls and slots. `NoLostWakeup` becomes inductive with
  `LeadersRegister`: only a call that registered its channel runs the deferred
  function, and it registered before it asked for a slot (`FlightInv`). A step that
  leaves the map alone is covered by one lemma, `QuietMove`. The slots need in
  addition that the calls are finitely many and that a step takes one call into or
  out of the set that downloads.

* `BudgetHonoured`, `EveryByteCounted`: `WithinBudget` and `BytesCounted` of the
  collector, for any events, sizes and limits. The first is inductive once the counts are
  known to be integers: data that is replaced is no longer counted, so that the count may
  go down between two looks. The second needs that the log ids in `order` are those of
  `calls`, each once (`Ordered`), so that an event changes one summand (`SumChanges`) or
  adds one (`SumPutsIn`). `FilesStayWithinBudget` says both of the parse of a file.
* `StreamsParseAlike`: `StreamMatchesParse`, for files of any length made of any events
  and for any limits. The invariant `ParseInv` contains `Collects`: for the events read
  so far, the log ids of the collector are those that the batch parser finds, in the
  same order, and each call has the prompt id, the times and the data that grouping all
  its events at once gives. One more event is one more step of each of the batch
  parser's folds (`IntactOfAppend` to `MineOfAppend`), of which the collector does the
  same to one call (`AddCollects`). The theorem holds until the collector stops, as the
  property says.
* `CallsAreAccounted`: `CallsAccounted`. The rounds are a fold of `AddCall` over the calls;
  `CallsInGrow` says what one more call does to the calls of all rounds and to the log
  ids in each, whichever round it joins.
* `NeekoCallsAreAccounted`: `NeekoCallsAccounted`, for logs of any length. The fold over
  the events is proved along with the requests seen: the calls made are those of the
  requests but for the one that still waits (`Waits`), with their messages and models, and
  what ends its wait adds its call (`FlushAnswers`) to the last round if it asks that
  round's question or none, and to a new one otherwise.
* `QuestionsAreTheUsers`: `QuestionIsTheUsers`, for any words and values. What is left
  of a message is a part of the text behind the last closing tag and is not one the
  framework writes alone (`PlainText`, `UserPromptIsClean`); a round keeps the first
  such text, whichever calls join it.
* `RoundsAreSums`: `RoundsAddUp`, for files of any length in any of the formats. A call's
  times and counts, and what a round says of its calls, are kept by each step of the fold
  that builds the rounds: by `AddCall` for events with ids (`WholeAddsUp`), by the
  requests of a Neeko log, by one response item (`ItemStepType`) and by one turn of the
  fallback (`FallbackStepType`); sorting only permutes the rounds (`SortedRounds`). The
  searches for a prompt, an answer and the turns of a conversation descend into values,
  which get less deep (`ValueAssumption`), so that what they return has its type at any
  depth (`PromptType`, `AnswerType`, `TurnsType`).
* `AnswersMeanTheSame`: `AnswersAgree`, for the rounds of any file. Flattening, sorting and
  filtering lose no span and add none (`FlattenRange`, `KeptRange`, `SortedRounds`), so
  that the model and tool spans are those of the calls (`ModelsAre`, `ToolsAre`); when the
  prompt ids differ a tool span hangs below the call that asked for it and below no
  other (`UsesAre`). What a call says is told apart from what it leaves out by the text the
  score extracts (`SaysUnlessSilent`), so that the equivalence holds call by call
  (`AnswersAreAnswers`).
* `LevelsAreExplained`: `LevelIsExplained`, for the rounds of any file. Each axis has a
  lower bound, and a better one when the rules passed that look at its numbers:
  39 for the response, 35 for the thinking, 100 for the others (`ResponseBounds` to
  `OrchestrationBounds`). Their mean is thus at least 58 when no rule failed, which is not
  red (`AxesSum`), and a failed rule gives the session a label that is not the healthy one
  (`ChipOfBroken`), so that it is not green.
* `CacheKeptConsistent`, `CapsKept`: `CacheConsistent` and `WithinCaps` of the fetcher,
  for any urls, sizes, caps and times. The argument is arithmetic on lists: the total of
  a list is split by concatenation (`TotalOfConcat`), so that removing an entry,
  putting one in front and keeping the first ones change it by what they take or add,
  and the counter that the code adds to and subtracts from never reaches its clamp at
  0. Induction over the length is by the least counterexample (`LeastNumber`). `CacheInv`
  is inductive together with the calls' types, which `FlightInv` supplies.
* `JudgeTypeCorrect`, `VerdictsBelong`, `NothingLeaks`: `JudgeTypeOK`,
  `VerdictIsOfTheTrace` and `InflightIsAlive`, for any number of processes, runs
  and traces. `VerdictIsOfTheTrace` is inductive by itself, given the types: the
  statement that stores a late verdict compares the trace the row is marked for, and
  the page's save writes trace and verdict at once.
* `AggregatorTypeCorrect`, `FlightsKept`: `ATypeOK` and `FlightsAccounted` of the
  aggregator, for any days, callers, capacities and rounds. The types become
  inductive when a goroutine that is neither idle nor between days is known to have
  a day (`Handles`). `FlightsAccounted` adds three numbers, of goroutines and of places in
  either channel, and is inductive because a step changes one goroutine
  (`HandsCount`) and the end of one channel (`WaitingAppend`, `WaitingTail`).
* `CompletedDaysAggregated`: `CompletedIsAggregated`, provided that `Backfill` is FALSE;
  with it the property is violated (run `AggBackfill`). The invariant `RunsOK` says
  for each stage of a run where the sessions of its day are: listed, already in a row,
  left for a later round, or published since the first list and thus in the second.
* `FlagsHaveReasons`: `FlagHasReason`, for any number of writers, sessions and days.
  Inductive once the copies in a writer's hands are covered (`ReasonsKnown`): a row that
  was built but not stored may be flagged for a rule that becomes a reason only when the
  row is stored, a row that a verdict or a backfill works on must have its reason already.
* `UndisturbedWritersAlign`: `UndisturbedWriterAligns`, provided that sessions and days
  are told apart (`SessionsAreNotDays`: a job's `settled` holds both). The invariant
  `Aligned` says of every job that what it read, built, sorted or settled of a session or
  a day that nobody else wrote since still agrees with the tables (`JobReads`), and that
  a job reads again only what it has not settled, the days after all rows (`JobShape`).
  A step of one writer touches the others only by what it declares as written
  (`OthersWrite`), so that each action is proved for the job that takes it.
* `IssueTypesKept`: `IssueTypeOK`, for any sessions, days and versions of files that
  satisfy `DaysAreConsecutive` (days are dates, and a range holds all dates between its
  ends) and `ContentAssumption` (finitely many sessions; a version of a file gives a day,
  Booleans, and scores from 0 to 100). `Typed` carries one more part, `CoversDays`: every
  day of a row that a backfill scanned and nobody wrote since is among the days it has to
  summarise or has summarised.
* `ListsShowThereIsMore`: `ListShowsThereIsMore`, from the types; the lemma `TotalShowsMore`
  is about pages of any length and offset. Nothing is assumed of the daily summaries.
* `MenusAgreeOnceBackfilled`: `MenusAgree`, for any number of sessions and days. From
  `Aligned` and `CoversDays`, a backfill of every day that nobody disturbed leaves every
  flag and every summary right, those it did not write too (`BackfilledTables`). The
  rest is about the pages alone: counts by day add up to counts by row (`CountByClass`),
  bundles are as many as rows since a session has one row (`ExactPages`), and a day's
  mean is off by half a hundredth at most, weighted by its sessions, so that the
  mean of means is off by less than one and a half before it is rounded, hence by one
  (`MeanIsNear`, `SumsAreNear`, `MeanOfMeansIsNear`). The list's total is exact since the
  summaries are (`DaysCountAll`, `TotalIsExact`).
* `RecursionLemmas`: a function that is defined recursively satisfies its equation if its
  recursion descends (`RecursionSolves`), a fold over a list is the run of its steps, and
  what each step keeps holds of the result (`HoldsAlong`). The step is a parameter
  of the module, since the provers cannot instantiate one of a theorem. That numbers
  have a least counterexample is a hypothesis of its lemmas, `LeastNumbers`, which every
  use discharges with `SumLemmas!LeastNumber`: loading the library in the module
  would put it into every instance and make each obligation several times slower.
* `SumLemmas`: the sum of the community modules is a fold that takes elements in an
  unspecified order; `SumTakesOut` proves that the order does not matter, by the least
  counterexample, and the others follow from it.

Only model-checked: all liveness and fairness (`SettlesRequests`, `EventuallyFresh`,
`MarksAreWorkedOff`, `EveryCallReturns`, `EvaluationSettles`, `FlightsEnd`), which this
prover cannot express.

## Not modelled

* Of the parser: letter case and white space, JSON inside a text, what a tool returned,
  finish reasons, HTTP status and cached tokens.
* Bundles read from the artifact tables (`handler.go`), titles, previews, labels and
  the realtime variants of lists and metrics: queries and presentation.
* Several processes running the same day: the flight is per process, so two of them
  may aggregate a day at once. Their rows are upserts of the same data.
* `writeBackMetrics`, which writes `extra` from an earlier read of the row.
* Manual review, diagnosis and assistant: one insert, or a request passed on.
* Upstream clients, database, secrets, command line tools, front end: I/O.

## Plan

Order: what can lose or falsify data first.

1. Done: queue, freshness, aggregator, judge, fetcher; flags, summaries and dashboard;
   collector, parser, rules and scores; the safety theorems listed above.
2. Two processes in `Aggregator`; `backfillDay` without an aggregator; runs across
   midnight.
3. The list and bundle from the artifact tables, with the merge of cached bundles.
