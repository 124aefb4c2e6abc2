-------------------------- MODULE IssueFlagsProofs --------------------------
(***************************************************************************)
(* Theorems about IssueFlags, for any number of writers, sessions, days    *)
(* and verdicts: why a session is flagged, what a writer nobody disturbs   *)
(* leaves right, the types, the list's total, and that the pages agree     *)
(* once everything was backfilled.                                         *)
(***************************************************************************)
EXTENDS IssueFlags, SumLemmas

JobFields == {"kind", "step", "day", "verdict", "todo", "built", "on", "off",
              "days", "at", "read", "settled", "clean", "failed"}
RowFields == {"session", "day", "flag", "failedRule"}

IsRow(r) == RowFields \subseteq DOMAIN r /\ r.session \in Session

(* What is found wrong about a session has a reason R knows of. *)
Reasoned(r, R) == r.flag \/ r.failedRule => r.session \in R

(* A row that was built is not stored yet: its failed rule is only a reason *)
(* once it is.                                                             *)
Reasonable(r, R) == r.flag => r.failedRule \/ r.session \in R

JobReasoned(j, R) ==
  /\ JobFields \subseteq DOMAIN j
  /\ j.todo \subseteq Session
  /\ \A r \in j.built : IsRow(r) /\ Reasonable(r, R)
  /\ j.kind \notin {"persist", "run"} => \A r \in j.built : Reasoned(r, R)
  /\ j.step \in {"verdict", "row", "mark"} => j.kind = "judge"
  /\ j.step \in {"verdict", "row"} => \A s, t \in j.todo : s = t
  /\ j.step = "row" /\ qualityEvaluationHasLLMIssue(j.verdict) => j.todo \subseteq R
  /\ j.on \subseteq R

ReasonsKnown ==
  /\ DOMAIN rows = Session /\ DOMAIN verdict = Session
  /\ \A s \in Session : rows[s] # NoRow =>
       IsRow(rows[s]) /\ rows[s].session = s /\ Reasoned(rows[s], reasons)
  /\ \A s \in Session : qualityEvaluationHasLLMIssue(verdict[s]) => s \in reasons
  /\ \A w \in Worker : JobReasoned(job[w], reasons)

LEMMA NewJob ==
  ASSUME NEW R
  PROVE  JobReasoned(NoJob, R)
BY DEF JobReasoned, NoJob, JobFields

(* A job keeps what it knows when others learn more, touch what it has     *)
(* read, or it ends.                                                       *)
LEMMA JobLasts ==
  ASSUME NEW j, NEW R, NEW Q, R \subseteq Q, JobReasoned(j, R)
  PROVE  JobReasoned(j, Q)
BY DEF JobReasoned, Reasoned, Reasonable

LEMMA JobUnclean ==
  ASSUME NEW j, NEW R, JobReasoned(j, R), NEW items
  PROVE  JobReasoned([j EXCEPT !.clean = @ \ items], R)
BY DEF JobReasoned, JobFields

LEMMA JobRests ==
  ASSUME NEW j, NEW R, JobReasoned(j, R)
  PROVE  JobReasoned(Rest(j), R)
<1>1. Ended(j).built = {} /\ Ended(j).todo = {} /\ Ended(j).on = {} /\ Ended(j).step = "write"
      /\ JobFields \subseteq DOMAIN Ended(j)
  BY DEF Ended, NoJob, JobFields
<1>2. JobReasoned(Ended(j), R)
  BY <1>1 DEF JobReasoned
<1>3. QED
  BY <1>2 DEF Rest

LEMMA JobsGo ==
  ASSUME ReasonsKnown, NEW w \in Worker, NEW j, NEW items, NEW R,
         reasons \subseteq R, JobReasoned(j, R), Goes(w, j, items)
  PROVE  \A v \in Worker : JobReasoned(job'[v], R)
<1> SUFFICES ASSUME NEW v \in Worker PROVE JobReasoned(job'[v], R)
  OBVIOUS
<1>1. job'[v] = Rest(IF v = w THEN j ELSE [job[v] EXCEPT !.clean = @ \ items])
  BY DEF Goes
<1>2. JobReasoned(job[v], R)
  BY JobLasts DEF ReasonsKnown
<1>3. JobReasoned([job[v] EXCEPT !.clean = @ \ items], R)
  BY <1>2, JobUnclean
<1>4. QED
  BY <1>1, <1>3, JobRests

(* A step that stores nothing: only what the worker does next matters. *)
LEMMA NothingStored ==
  ASSUME ReasonsKnown, NEW w \in Worker, NEW j, NEW items, JobReasoned(j, reasons),
         Goes(w, j, items), UNCHANGED <<rows, verdict, reasons>>
  PROVE  ReasonsKnown'
<1>1. \A v \in Worker : JobReasoned(job'[v], reasons)
  BY JobsGo
<1>2. QED
  BY <1>1 DEF ReasonsKnown
(* What is left of a row when its flag is written. *)
LEMMA FlagOf ==
  ASSUME ReasonsKnown, NEW s \in Session, NEW flag, flag => s \in reasons,
         [rows[s] EXCEPT !.flag = flag] # NoRow
  PROVE  /\ IsRow([rows[s] EXCEPT !.flag = flag])
         /\ [rows[s] EXCEPT !.flag = flag].session = s
         /\ Reasoned([rows[s] EXCEPT !.flag = flag], reasons)
<1>1. rows[s] # NoRow
  BY DEF NoRow
<1>2. IsRow(rows[s]) /\ rows[s].session = s /\ Reasoned(rows[s], reasons)
  BY <1>1 DEF ReasonsKnown
<1>3. QED
  BY <1>2 DEF IsRow, RowFields, Reasoned
-----------------------------------------------------------------------------
LEMMA AggregationReasoned ==
  ASSUME ReasonsKnown, NEW w \in Worker,
         \/ \E s \in Session : PersistBundle(w, s) \/ Build(w, s)
         \/ \E listed \in kSubset(MaxListed, Session), d \in Day : run(w, listed, d)
         \/ RunSkips(w)
  PROVE  ReasonsKnown'
<1>0. JobReasoned(job[w], reasons)
  BY DEF ReasonsKnown
<1>1. ASSUME NEW s \in Session, PersistBundle(w, s) PROVE ReasonsKnown'
  <2> DEFINE j == [NoJob EXCEPT !.kind = "persist", !.todo = {s}]
  <2>1. JobReasoned(j, reasons)
    BY DEF JobReasoned, NoJob, JobFields
  <2>2. Goes(w, j, {}) /\ UNCHANGED <<rows, verdict, reasons>>
    BY <1>1 DEF PersistBundle, Begins
  <2> HIDE DEF j
  <2>3. QED
    BY <2>1, <2>2, NothingStored
<1>2. ASSUME NEW listed \in SUBSET Session, NEW d \in Day, run(w, listed, d) PROVE ReasonsKnown'
  <2> DEFINE j == [NoJob EXCEPT !.kind = "run", !.todo = listed, !.day = d, !.days = {d}]
  <2>1. JobReasoned(j, reasons)
    BY DEF JobReasoned, NoJob, JobFields
  <2>2. Goes(w, j, {}) /\ UNCHANGED <<rows, verdict, reasons>>
    BY <1>2 DEF run, Begins
  <2> HIDE DEF j
  <2>3. QED
    BY <2>1, <2>2, NothingStored
<1>3. ASSUME NEW s \in Session, Build(w, s) PROVE ReasonsKnown'
  <2>1. PICK c \in Content, readable \in Readable(s) :
          Goes(w, [job[w] EXCEPT
                     !.todo = @ \ {s},
                     !.built = @ \cup {RowOf(s, DayFor(job[w], c),
                                         aggregateIssueFlagForSession(c.failedRule,
                                           VerdictRead(s, readable)), c)},
                     !.clean = CleanAfter(job[w], s, readable)], {})
    BY <1>3 DEF Build
  <2> DEFINE r == RowOf(s, DayFor(job[w], c),
                    aggregateIssueFlagForSession(c.failedRule, VerdictRead(s, readable)), c)
             j == [job[w] EXCEPT !.todo = @ \ {s}, !.built = @ \cup {r},
                                 !.clean = CleanAfter(job[w], s, readable)]
  <2>2. IsRow(r) /\ r.session = s /\ r.failedRule = c.failedRule
        /\ r.flag = aggregateIssueFlagForSession(c.failedRule, VerdictRead(s, readable))
    BY DEF IsRow, RowFields, RowOf
  <2>3. qualityEvaluationHasLLMIssue(VerdictRead(s, readable)) => s \in reasons
    BY DEF VerdictRead, ReasonsKnown, qualityEvaluationHasLLMIssue
  <2>4. Reasonable(r, reasons)
    BY <2>2, <2>3 DEF Reasonable, aggregateIssueFlagForSession
  <2> HIDE DEF r
  <2>5. job[w].kind \in {"persist", "run"}
    BY <1>3 DEF Build
  <2>6. JobReasoned(j, reasons)
    BY <1>0, <2>2, <2>4, <2>5 DEF JobReasoned, JobFields
  <2>7. Goes(w, j, {}) /\ UNCHANGED <<rows, verdict, reasons>>
    BY <1>3, <2>1 DEF Build, r
  <2> HIDE DEF j
  <2>8. QED
    BY <2>6, <2>7, NothingStored
<1>4. ASSUME RunSkips(w) PROVE ReasonsKnown'
  <2>1. ASSUME NEW s, Goes(w, [job[w] EXCEPT !.todo = @ \ {s}], {}) PROVE ReasonsKnown'
    <3> DEFINE j == [job[w] EXCEPT !.todo = @ \ {s}]
    <3>1. JobReasoned(j, reasons)
      BY <1>0 DEF JobReasoned, JobFields
    <3>2. Goes(w, j, {}) /\ UNCHANGED <<rows, verdict, reasons>>
      BY <1>4, <2>1 DEF RunSkips
    <3> HIDE DEF j
    <3>3. QED
      BY <3>1, <3>2, NothingStored
  <2>2. ASSUME NEW r, Goes(w, [job[w] EXCEPT !.built = @ \ {r}], {}) PROVE ReasonsKnown'
    <3> DEFINE j == [job[w] EXCEPT !.built = @ \ {r}]
    <3>1. JobReasoned(j, reasons)
      BY <1>0 DEF JobReasoned, JobFields
    <3>2. Goes(w, j, {}) /\ UNCHANGED <<rows, verdict, reasons>>
      BY <1>4, <2>2 DEF RunSkips
    <3> HIDE DEF j
    <3>3. QED
      BY <3>1, <3>2, NothingStored
  <2>3. QED
    BY <1>4, <2>1, <2>2 DEF RunSkips
<1>5. kSubset(MaxListed, Session) \subseteq SUBSET Session
  BY DEF kSubset
<1>6. QED
  BY <1>1, <1>2, <1>3, <1>4, <1>5

(* A row that is stored makes its failed rule a reason. *)
LEMMA UpsertReasoned ==
  ASSUME ReasonsKnown, NEW w \in Worker, NEW r \in job[w].built, upsertSessionAggregate(w, r)
  PROVE  ReasonsKnown'
<1> DEFINE q == [r EXCEPT !.flag = StoredFlag(r)]
           j == [job[w] EXCEPT !.built = @ \ {r}, !.days = @ \cup {r.day},
                               !.settled = IF known THEN @ \cup {r.session} ELSE @]
<1>0. JobReasoned(job[w], reasons) /\ IsRow(r) /\ Reasonable(r, reasons)
  BY DEF ReasonsKnown, JobReasoned
<1>1. /\ rows' = [rows EXCEPT ![r.session] = q] /\ verdict' = verdict
      /\ reasons' = IF r.failedRule THEN reasons \cup {r.session} ELSE reasons
      /\ Goes(w, j, {r.session, r.day} \cup DaysOfRow(r.session))
  BY DEF upsertSessionAggregate
<1>2. reasons \subseteq reasons' /\ (r.failedRule => r.session \in reasons')
  BY <1>1
<1>3. IsRow(q) /\ q.session = r.session /\ q.flag = StoredFlag(r) /\ q.failedRule = r.failedRule
  BY <1>0 DEF IsRow, RowFields
<1>4. StoredFlag(r) => r.session \in reasons'
  <2>1. CASE known
    BY <1>0, <1>2, <2>1 DEF StoredFlag, Reasonable
  <2>2. CASE ~known
    BY <1>0, <1>2, <2>2 DEF StoredFlag, IsRow, ReasonsKnown, Reasoned
  <2>3. QED
    BY <2>1, <2>2
<1> HIDE DEF q
<1>5. Reasoned(q, reasons')
  BY <1>2, <1>3, <1>4 DEF Reasoned
<1>6. JobReasoned(j, reasons)
  BY <1>0 DEF JobReasoned, JobFields
<1> HIDE DEF j
<1>7. \A v \in Worker : JobReasoned(job'[v], reasons')
  BY <1>1, <1>2, <1>6, JobLasts, JobsGo
<1>8. \A s \in Session : rows'[s] # NoRow =>
        IsRow(rows'[s]) /\ rows'[s].session = s /\ Reasoned(rows'[s], reasons')
  <2> SUFFICES ASSUME NEW s \in Session, rows'[s] # NoRow
               PROVE  IsRow(rows'[s]) /\ rows'[s].session = s /\ Reasoned(rows'[s], reasons')
    OBVIOUS
  <2>1. CASE s = r.session
    BY <1>0, <1>1, <1>3, <1>5, <2>1 DEF ReasonsKnown
  <2>2. CASE s # r.session
    BY <1>1, <1>2, <2>2 DEF ReasonsKnown, Reasoned
  <2>3. QED
    BY <2>1, <2>2
<1>9. DOMAIN rows' = Session /\ DOMAIN verdict' = Session
  BY <1>1 DEF ReasonsKnown
<1>10. \A s \in Session : qualityEvaluationHasLLMIssue(verdict'[s]) => s \in reasons'
  BY <1>1, <1>2 DEF ReasonsKnown
<1>11. QED
  BY <1>7, <1>8, <1>9, <1>10 DEF ReasonsKnown

(* A bad verdict that is saved is a reason. *)
LEMMA VerdictReasoned ==
  ASSUME ReasonsKnown, NEW w \in Worker, NEW s \in Session, NEW v, NEW posted \in BOOLEAN,
         SaveVerdict(w, s, v, posted)
  PROVE  ReasonsKnown'
<1> DEFINE j == [NoJob EXCEPT !.kind = "judge", !.todo = {s}, !.verdict = v,
                              !.step = IF posted THEN "row" ELSE "verdict", !.clean = {s}]
           i == [NoJob EXCEPT !.kind = "judge"]
<1>1. /\ rows' = rows /\ verdict' = [verdict EXCEPT ![s] = v]
      /\ reasons' = IF qualityEvaluationHasLLMIssue(v) THEN reasons \cup {s} ELSE reasons
      /\ Goes(w, IF known THEN j ELSE i, {s})
  BY DEF SaveVerdict, Begins
<1>2. reasons \subseteq reasons' /\ (qualityEvaluationHasLLMIssue(v) => s \in reasons')
  BY <1>1
<1>3. JobReasoned(j, reasons')
  <2>1. /\ JobFields \subseteq DOMAIN j /\ j.todo = {s} /\ j.built = {} /\ j.on = {}
        /\ j.kind = "judge" /\ j.verdict = v
    BY DEF NoJob, JobFields
  <2> HIDE DEF j
  <2>2. QED
    BY <1>2, <2>1 DEF JobReasoned
<1>4. JobReasoned(i, reasons')
  BY DEF JobReasoned, NoJob, JobFields
<1> HIDE DEF i, j
<1>5. \A u \in Worker : JobReasoned(job'[u], reasons')
  BY <1>1, <1>2, <1>3, <1>4, JobsGo
<1>6. /\ DOMAIN verdict' = Session
      /\ \A t \in Session : qualityEvaluationHasLLMIssue(verdict'[t]) => t \in reasons'
  BY <1>1, <1>2 DEF ReasonsKnown
<1>7. QED
  BY <1>1, <1>2, <1>5, <1>6 DEF ReasonsKnown, Reasoned

LEMMA JudgementReasoned ==
  ASSUME ReasonsKnown, NEW w \in Worker, NEW s \in Session,
         refreshAggregateIssueForSessionID(w, s) \/ ReadRow(w, s)
  PROVE  ReasonsKnown'
<1>0. JobReasoned(job[w], reasons)
  BY DEF ReasonsKnown
<1>1. CASE refreshAggregateIssueForSessionID(w, s)
  <2> DEFINE j == [job[w] EXCEPT !.verdict = verdict[s], !.step = "row", !.clean = @ \cup {s}]
  <2>1. JobReasoned(j, reasons)
    <3>1. /\ JobFields \subseteq DOMAIN j /\ j.todo = job[w].todo /\ j.built = job[w].built
          /\ j.on = job[w].on /\ j.kind = job[w].kind /\ j.verdict = verdict[s] /\ j.step = "row"
      BY <1>0 DEF JobReasoned, JobFields
    <3>2. /\ job[w].step = "verdict" /\ s \in job[w].todo /\ job[w].kind = "judge"
          /\ \A t \in job[w].todo : t = s
      BY <1>0, <1>1 DEF refreshAggregateIssueForSessionID, JobReasoned
    <3>3. qualityEvaluationHasLLMIssue(verdict[s]) => s \in reasons
      BY DEF ReasonsKnown
    <3> HIDE DEF j
    <3>4. QED
      BY <1>0, <3>1, <3>2, <3>3 DEF JobReasoned
  <2>2. Goes(w, j, {}) /\ UNCHANGED <<rows, verdict, reasons>>
    BY <1>1 DEF refreshAggregateIssueForSessionID
  <2> HIDE DEF j
  <2>3. QED
    BY <2>1, <2>2, NothingStored
<1>2. CASE ReadRow(w, s) /\ rows[s] = NoRow
  <2> DEFINE j == [job[w] EXCEPT !.todo = {}, !.step = "write"]
  <2>1. JobReasoned(j, reasons)
    BY <1>0 DEF JobReasoned, JobFields
  <2>2. Goes(w, j, {}) /\ UNCHANGED <<rows, verdict, reasons>>
    BY <1>2 DEF ReadRow
  <2> HIDE DEF j
  <2>3. QED
    BY <2>1, <2>2, NothingStored
<1>3. CASE ReadRow(w, s) /\ rows[s] # NoRow
  <2> DEFINE r == [rows[s] EXCEPT !.flag =
                     aggregateIssueFlagForSession(rows[s].failedRule, job[w].verdict)]
             j == [job[w] EXCEPT !.todo = {}, !.step = "mark", !.built = {r}]
  <2>1. /\ IsRow(r) /\ r.session = s /\ r.failedRule = rows[s].failedRule
        /\ r.flag = aggregateIssueFlagForSession(rows[s].failedRule, job[w].verdict)
    BY <1>3 DEF ReasonsKnown, IsRow, RowFields
  <2>2. rows[s].failedRule => s \in reasons
    BY <1>3 DEF ReasonsKnown, Reasoned
  <2>3. qualityEvaluationHasLLMIssue(job[w].verdict) => s \in reasons
    BY <1>0, <1>3 DEF ReadRow, JobReasoned
  <2>4. Reasoned(r, reasons) /\ Reasonable(r, reasons)
    BY <2>1, <2>2, <2>3 DEF Reasoned, Reasonable, aggregateIssueFlagForSession
  <2> HIDE DEF r
  <2>5. JobReasoned(j, reasons)
    <3>1. job[w].kind = "judge"
      BY <1>0, <1>3 DEF ReadRow, JobReasoned
    <3>2. /\ JobFields \subseteq DOMAIN j /\ j.todo = {} /\ j.built = {r}
          /\ j.on = job[w].on /\ j.kind = job[w].kind /\ j.step = "mark"
      BY <1>0 DEF JobReasoned, JobFields
    <3>3. QED
      BY <1>0, <2>1, <2>4, <3>1, <3>2 DEF JobReasoned
  <2>6. Goes(w, j, {}) /\ UNCHANGED <<rows, verdict, reasons>>
    BY <1>3 DEF ReadRow, r
  <2> HIDE DEF j
  <2>7. QED
    BY <2>5, <2>6, NothingStored
<1>4. QED
  BY <1>1, <1>2, <1>3

LEMMA MarkReasoned ==
  ASSUME ReasonsKnown, NEW w \in Worker, NEW r \in job[w].built,
         refreshAggregateIssueForQualityEvaluation(w, r)
  PROVE  ReasonsKnown'
<1> DEFINE j == [job[w] EXCEPT !.built = {}, !.step = "write", !.verdict = NoVerdict,
                               !.days = {r.day}, !.settled = {r.session}]
<1>0. JobReasoned(job[w], reasons)
  BY DEF ReasonsKnown
<1>1. /\ rows' = [rows EXCEPT ![r.session].flag = r.flag]
      /\ UNCHANGED <<verdict, reasons>>
      /\ Goes(w, j, {r.session} \cup DaysOfRow(r.session))
      /\ job[w].step = "mark"
  BY DEF refreshAggregateIssueForQualityEvaluation
<1>2. r.flag => r.session \in reasons
  BY <1>0, <1>1 DEF JobReasoned, Reasoned
<1>3. JobReasoned(j, reasons)
  BY <1>0 DEF JobReasoned, JobFields
<1> HIDE DEF j
<1>4. \A v \in Worker : JobReasoned(job'[v], reasons)
  BY <1>1, <1>3, JobsGo
<1>5. \A s \in Session : rows'[s] # NoRow =>
        IsRow(rows'[s]) /\ rows'[s].session = s /\ Reasoned(rows'[s], reasons)
  <2> SUFFICES ASSUME NEW s \in Session, rows'[s] # NoRow
               PROVE  IsRow(rows'[s]) /\ rows'[s].session = s /\ Reasoned(rows'[s], reasons)
    OBVIOUS
  <2>1. CASE s = r.session
    <3>1. rows'[s] = [rows[s] EXCEPT !.flag = r.flag]
      BY <1>1, <2>1 DEF ReasonsKnown
    <3>2. r.flag => s \in reasons
      BY <1>2, <2>1
    <3>3. QED
      BY <3>1, <3>2, FlagOf
  <2>2. CASE s # r.session
    BY <1>1, <2>2 DEF ReasonsKnown
  <2>3. QED
    BY <2>1, <2>2
<1>6. QED
  BY <1>1, <1>4, <1>5 DEF ReasonsKnown
-----------------------------------------------------------------------------
LEMMA BackfillReasoned ==
  ASSUME ReasonsKnown, NEW w \in Worker,
         \/ \E range \in SUBSET Day : backfillIssueFlags(w, range)
         \/ \E r \in job[w].built : Judge(w, r)
         \/ bulkUpdateHasIssue(w)
  PROVE  ReasonsKnown'
<1>0. JobReasoned(job[w], reasons)
  BY DEF ReasonsKnown
<1>1. ASSUME NEW range \in SUBSET Day, backfillIssueFlags(w, range) PROVE ReasonsKnown'
  <2> DEFINE scanned == {r \in Rows : r.day \in range}
             j == [NoJob EXCEPT !.kind = "backfill", !.built = scanned,
                                !.days = BackfillDays(scanned),
                                !.clean = {r.session : r \in scanned} \cup range]
  <2>1. \A r \in scanned : IsRow(r) /\ Reasoned(r, reasons)
    BY DEF Rows, ReasonsKnown
  <2>2. Goes(w, j, {}) /\ UNCHANGED <<rows, verdict, reasons>>
    BY <1>1 DEF backfillIssueFlags, Begins
  <2> HIDE DEF scanned
  <2>3. /\ JobFields \subseteq DOMAIN j /\ j.todo = {} /\ j.on = {} /\ j.built = scanned
        /\ j.kind = "backfill" /\ j.step = "write"
    BY DEF NoJob, JobFields
  <2> HIDE DEF j
  <2>4. JobReasoned(j, reasons)
    BY <2>1, <2>3 DEF JobReasoned, Reasoned, Reasonable
  <2>5. QED
    BY <2>2, <2>4, NothingStored
<1>2. ASSUME NEW r \in job[w].built, Judge(w, r) PROVE ReasonsKnown'
  <2>1. PICK readable \in Readable(r.session) :
          LET want == aggregateIssueFlagForSession(r.failedRule, VerdictRead(r.session, readable))
              j == [job[w] EXCEPT !.built = @ \ {r},
                                  !.clean = IF readable THEN @ ELSE @ \ {r.session}]
          IN  Goes(w, IF want = r.flag THEN [j EXCEPT !.settled = @ \cup {r.session}]
                     ELSE IF want THEN [j EXCEPT !.on = @ \cup {r.session}]
                     ELSE [j EXCEPT !.off = @ \cup {r.session}], {})
    BY <1>2 DEF Judge
  <2> DEFINE want == aggregateIssueFlagForSession(r.failedRule,
                                                  VerdictRead(r.session, readable))
             j == [job[w] EXCEPT !.built = @ \ {r},
                                 !.clean = IF readable THEN @ ELSE @ \ {r.session}]
             k == IF want = r.flag THEN [j EXCEPT !.settled = @ \cup {r.session}]
                  ELSE IF want THEN [j EXCEPT !.on = @ \cup {r.session}]
                  ELSE [j EXCEPT !.off = @ \cup {r.session}]
  <2>2. job[w].kind = "backfill" /\ IsRow(r) /\ Reasoned(r, reasons)
    BY <1>0, <1>2 DEF Judge, JobReasoned
  <2>3. qualityEvaluationHasLLMIssue(VerdictRead(r.session, readable)) => r.session \in reasons
    BY <2>2 DEF VerdictRead, ReasonsKnown, qualityEvaluationHasLLMIssue, IsRow
  <2>4. want => r.session \in reasons
    BY <2>2, <2>3 DEF aggregateIssueFlagForSession, Reasoned
  <2>5. Goes(w, k, {}) /\ UNCHANGED <<rows, verdict, reasons>>
    BY <1>2, <2>1 DEF Judge
  <2> HIDE DEF want
  <2>6. JobReasoned(j, reasons) /\ JobFields \subseteq DOMAIN j
    BY <1>0 DEF JobReasoned, JobFields
  <2> HIDE DEF j
  <2>7. JobReasoned(k, reasons)
    BY <2>4, <2>6 DEF JobReasoned, JobFields
  <2> HIDE DEF k
  <2>8. QED
    BY <2>5, <2>7, NothingStored
<1>3. ASSUME bulkUpdateHasIssue(w) PROVE ReasonsKnown'
  <2> DEFINE value == job[w].on # {}
             ids == IF value THEN job[w].on ELSE job[w].off
  <2>1. PICK chunk \in kSubset(Min({Chunk, Cardinality(ids)}), ids) :
          /\ rows' = [s \in Session |-> IF s \in chunk THEN [rows[s] EXCEPT !.flag = value]
                                        ELSE rows[s]]
          /\ Goes(w, [job[w] EXCEPT !.on = @ \ chunk, !.off = @ \ chunk,
                                    !.settled = @ \cup chunk],
                  chunk \cup UNION {DaysOfRow(s) : s \in chunk})
    BY <1>3 DEF bulkUpdateHasIssue
  <2> DEFINE j == [job[w] EXCEPT !.on = @ \ chunk, !.off = @ \ chunk,
                                 !.settled = @ \cup chunk]
             items == chunk \cup UNION {DaysOfRow(s) : s \in chunk}
  <2>2. value => chunk \subseteq reasons
    BY <1>0, <2>1 DEF kSubset, JobReasoned
  <2>3. Goes(w, j, items) /\ UNCHANGED <<verdict, reasons>>
    BY <1>3, <2>1 DEF bulkUpdateHasIssue
  <2>4. JobReasoned(j, reasons)
    BY <1>0 DEF JobReasoned, JobFields
  <2> HIDE DEF j, items, value
  <2>5. \A v \in Worker : JobReasoned(job'[v], reasons)
    BY <2>3, <2>4, JobsGo
  <2>6. \A s \in Session : rows'[s] # NoRow =>
          IsRow(rows'[s]) /\ rows'[s].session = s /\ Reasoned(rows'[s], reasons)
    <3> SUFFICES ASSUME NEW s \in Session, rows'[s] # NoRow
                 PROVE  IsRow(rows'[s]) /\ rows'[s].session = s /\ Reasoned(rows'[s], reasons)
      OBVIOUS
    <3>1. CASE s \in chunk
      BY <2>1, <2>2, <3>1, FlagOf
    <3>2. CASE s \notin chunk
      BY <2>1, <3>2 DEF ReasonsKnown
    <3>3. QED
      BY <3>1, <3>2
  <2>7. DOMAIN rows' = Session
    BY <2>1
  <2>8. QED
    BY <2>3, <2>5, <2>6, <2>7 DEF ReasonsKnown
<1>4. QED
  BY <1>1, <1>2, <1>3
-----------------------------------------------------------------------------
(* A job that fails starts over as an ended one. *)
LEMMA FailureReasoned ==
  ASSUME ReasonsKnown, NEW w \in Worker, Fails(w)
  PROVE  ReasonsKnown'
<1> DEFINE j == [NoJob EXCEPT !.kind = job[w].kind, !.failed = TRUE]
<1>1. JobReasoned(j, reasons)
  BY DEF JobReasoned, NoJob, JobFields
<1>2. Goes(w, j, {}) /\ UNCHANGED <<rows, verdict, reasons>>
  BY DEF Fails
<1> HIDE DEF j
<1>3. QED
  BY <1>1, <1>2, NothingStored

LEMMA SummaryReasoned ==
  ASSUME ReasonsKnown, NEW w \in Worker,
         (\E d \in Day : refreshDailySummary(w, d)) \/ upsertDailySummary(w) \/ RefreshFails(w)
  PROVE  ReasonsKnown'
<1>0. JobReasoned(job[w], reasons)
  BY DEF ReasonsKnown
<1>1. ASSUME NEW d \in Day, refreshDailySummary(w, d) PROVE ReasonsKnown'
  <2> DEFINE j == [job[w] EXCEPT !.step = "summarise", !.at = d, !.clean = @ \cup {d},
                     !.read = buildDailySummaryFromAggregateRows(RowsOf(d))]
  <2>1. JobReasoned(j, reasons)
    BY <1>0 DEF JobReasoned, JobFields
  <2>2. Goes(w, j, {}) /\ UNCHANGED <<rows, verdict, reasons>>
    BY <1>1 DEF refreshDailySummary
  <2> HIDE DEF j
  <2>3. QED
    BY <2>1, <2>2, NothingStored
<1>2. ASSUME upsertDailySummary(w) PROVE ReasonsKnown'
  <2> DEFINE j == [job[w] EXCEPT !.step = "write", !.days = @ \ {job[w].at}, !.at = 0,
                     !.read = NoSummary, !.settled = @ \cup {job[w].at}]
  <2>1. JobReasoned(j, reasons)
    BY <1>0 DEF JobReasoned, JobFields
  <2>2. Goes(w, j, {job[w].at}) /\ UNCHANGED <<rows, verdict, reasons>>
    BY <1>2 DEF upsertDailySummary
  <2> HIDE DEF j
  <2>3. QED
    BY <2>1, <2>2, NothingStored
<1>3. ASSUME RefreshFails(w) PROVE ReasonsKnown'
  <2> DEFINE j == [job[w] EXCEPT !.step = "write", !.days = @ \ {job[w].at}, !.at = 0,
                     !.read = NoSummary, !.failed = TRUE]
  <2>1. JobReasoned(j, reasons)
    BY <1>0 DEF JobReasoned, JobFields
  <2>2. Goes(w, j, {}) /\ UNCHANGED <<rows, verdict, reasons>>
    BY <1>3 DEF RefreshFails
  <2> HIDE DEF j
  <2>3. QED
    BY <2>1, <2>2, NothingStored
<1>4. QED
  BY <1>1, <1>2, <1>3
-----------------------------------------------------------------------------
LEMMA ReasonsAtFirst == Init => ReasonsKnown
<1> SUFFICES ASSUME Init PROVE ReasonsKnown
  OBVIOUS
<1>1. PICK have \in [Session -> Content \cup {NoRow}], v \in Verdicts \cup {NoVerdict} :
        /\ rows = [s \in Session |-> IF have[s] = NoRow THEN NoRow
                                     ELSE RowOf(s, have[s].started, known, have[s])]
        /\ verdict = [s \in Session |-> v]
  BY DEF Init
<1>2. reasons = {s \in Session : \/ rows[s] # NoRow /\ aggregateRowHasIssue(rows[s])
                                 \/ qualityEvaluationHasLLMIssue(verdict[s])}
  BY DEF Init
<1>3. \A s \in Session : rows[s] # NoRow =>
        IsRow(rows[s]) /\ rows[s].session = s /\ Reasoned(rows[s], reasons)
  <2> SUFFICES ASSUME NEW s \in Session, rows[s] # NoRow
               PROVE  IsRow(rows[s]) /\ rows[s].session = s /\ Reasoned(rows[s], reasons)
    OBVIOUS
  <2>1. rows[s] = RowOf(s, have[s].started, known, have[s])
    BY <1>1
  <2>2. IsRow(rows[s]) /\ rows[s].session = s
    BY <2>1 DEF IsRow, RowFields, RowOf
  <2>3. Reasoned(rows[s], reasons)
    BY <1>2, <2>2 DEF Reasoned, aggregateRowHasIssue
  <2>4. QED
    BY <2>2, <2>3
<1>4. \A w \in Worker : JobReasoned(job[w], reasons)
  BY NewJob DEF Init
<1>5. QED
  BY <1>1, <1>2, <1>3, <1>4 DEF ReasonsKnown

LEMMA ReasonsStay == ReasonsKnown /\ [Next]_vars => ReasonsKnown'
<1> SUFFICES ASSUME ReasonsKnown, [Next]_vars PROVE ReasonsKnown'
  OBVIOUS
<1>1. CASE apiSessionAggregateColumns
  BY <1>1 DEF apiSessionAggregateColumns, ReasonsKnown
<1>2. ASSUME NEW w \in Worker, NEW s \in Session, NEW v \in Verdicts, NEW posted \in BOOLEAN,
             SaveVerdict(w, s, v, posted)
      PROVE  ReasonsKnown'
  BY <1>2, VerdictReasoned
<1>3. ASSUME NEW w \in Worker, NEW s \in Session,
             refreshAggregateIssueForSessionID(w, s) \/ ReadRow(w, s)
      PROVE  ReasonsKnown'
  BY <1>3, JudgementReasoned
<1>4. ASSUME NEW w \in Worker, NEW r \in job[w].built,
             upsertSessionAggregate(w, r) \/ refreshAggregateIssueForQualityEvaluation(w, r)
      PROVE  ReasonsKnown'
  BY <1>4, UpsertReasoned, MarkReasoned
<1>5. CASE UNCHANGED vars
  BY <1>5 DEF vars, ReasonsKnown
<1>6. \A d \in Day : {d} \in SUBSET Day
  OBVIOUS
<1>7. QED
  BY <1>1, <1>2, <1>3, <1>4, <1>5, <1>6, AggregationReasoned, BackfillReasoned,
     FailureReasoned, SummaryReasoned DEF Next

(* No interleaving of page loads, queue refreshes, runs, verdicts and      *)
(* backfills invents an issue: a session that is flagged once had a        *)
(* failing rule or a bad verdict.                                          *)
THEOREM FlagsHaveReasons == Spec => []FlagHasReason
<1>1. ReasonsKnown => FlagHasReason
  BY DEF ReasonsKnown, FlagHasReason, Rows, Reasoned
<1>2. QED
  BY <1>1, ReasonsAtFirst, ReasonsStay, PTL DEF Spec
-----------------------------------------------------------------------------
(***************************************************************************)
(* The second theorem: a writer nobody disturbs leaves its sessions and    *)
(* its days right.  What a job has read or settled of a session or a day   *)
(* in its `clean' still agrees with the tables.  R, V and S stand for the  *)
(* tables of rows, of verdicts and of summaries.                           *)
(***************************************************************************)
DayRows(R, d) == {r \in {R[s] : s \in Session} \ {NoRow} : r.day = d}

FlagOfTables(R, V, s) == aggregateIssueFlagForSession(R[s].failedRule, V[s])

Derived(R, V, s) == R[s] # NoRow => R[s].flag = FlagOfTables(R, V, s)

Summed(R, S, d) == S[d] = buildDailySummaryFromAggregateRows(DayRows(R, d))

BuiltFrom(j, r, R, V) ==
  /\ j.kind # "backfill" => r.flag = aggregateIssueFlagForSession(r.failedRule, V[r.session])
  /\ j.kind = "backfill" => R[r.session] = r
  /\ j.kind = "judge" => R[r.session].failedRule = r.failedRule

JobReads(j, R, V, S) ==
  /\ \A s \in Session \cap j.settled \cap j.clean : Derived(R, V, s)
  /\ \A d \in Day \cap j.settled \cap j.clean : Summed(R, S, d)
  /\ \A r \in j.built : r.session \in j.clean => BuiltFrom(j, r, R, V)
  /\ \A s \in j.on \cap j.clean : FlagOfTables(R, V, s) = TRUE
  /\ \A s \in j.off \cap j.clean : FlagOfTables(R, V, s) = FALSE
  /\ j.step = "row" => \A s \in j.todo \cap j.clean : j.verdict = V[s]
  /\ j.step = "summarise" /\ j.at \in j.clean =>
       j.read = buildDailySummaryFromAggregateRows(DayRows(R, j.at))

(* The days come last, and what is read again was not settled before. *)
JobShape(j) ==
  /\ JobFields \subseteq DOMAIN j
  /\ j.todo \subseteq Session /\ j.on \subseteq Session /\ j.off \subseteq Session
  /\ \A r \in j.built : r.session \in Session
  /\ j.kind \in {"persist", "run"} =>
       /\ j.todo \cap j.settled = {}
       /\ \A r \in j.built : r.session \notin j.todo \cup j.settled
       /\ \A r, q \in j.built : r.session = q.session => r = q
  /\ j.kind # "backfill" => j.on = {} /\ j.off = {}
  /\ j.step \in {"verdict", "row", "mark"} => j.settled = {} /\ j.kind = "judge"
  /\ j.step \in {"verdict", "row"} => j.built = {}
  /\ j.step = "summarise" \/ Day \cap j.settled # {} =>
       j.todo = {} /\ j.built = {} /\ j.on = {} /\ j.off = {}
  /\ Day \cap j.days \cap j.settled = {}
  /\ j.step = "summarise" => j.at \in Day

Aligned ==
  /\ ReasonsKnown
  /\ DOMAIN summary = Day
  /\ \A w \in Worker : JobShape(job[w]) /\ JobReads(job[w], rows, verdict, summary)

LEMMA NewJobAligned ==
  ASSUME NEW R, NEW V, NEW S
  PROVE  JobShape(NoJob) /\ JobReads(NoJob, R, V, S)
BY DEF JobShape, JobReads, NoJob, JobFields

LEMMA JobRestsAligned ==
  ASSUME NEW j, NEW R, NEW V, NEW S, JobShape(j), JobReads(j, R, V, S)
  PROVE  JobShape(Rest(j)) /\ JobReads(Rest(j), R, V, S)
<1> DEFINE e == Ended(j)
<1>1. /\ JobFields \subseteq DOMAIN e /\ e.todo = {} /\ e.on = {} /\ e.off = {} /\ e.built = {}
      /\ e.days = {} /\ e.step = "write" /\ e.kind = j.kind
      /\ e.settled = j.settled \cap j.clean /\ e.clean \subseteq j.clean
  BY DEF Ended, NoJob, JobFields
<1> HIDE DEF e
<1>2. JobShape(e)
  BY <1>1 DEF JobShape
<1>3. JobReads(e, R, V, S)
  BY <1>1 DEF JobReads
<1>4. QED
  BY <1>2, <1>3 DEF Rest, e

Unclean(j, items) == [j EXCEPT !.clean = @ \ items]

(* Two states of the tables differ at most in `items'. *)
DiffersIn(items, R, V, S, R2, V2, S2) ==
  /\ \A s \in Session \ items : R2[s] = R[s] /\ V2[s] = V[s]
  /\ \A d \in Day \ items : S2[d] = S[d] /\ DayRows(R2, d) = DayRows(R, d)

(* What the others write is not clean any more, and the rest agrees. *)
LEMMA OthersWrite ==
  ASSUME NEW j, NEW items, NEW R, NEW V, NEW S, NEW R2, NEW V2, NEW S2,
         JobShape(j), JobReads(j, R, V, S), DiffersIn(items, R, V, S, R2, V2, S2)
  PROVE  JobShape(Unclean(j, items)) /\ JobReads(Unclean(j, items), R2, V2, S2)
<1> DEFINE k == Unclean(j, items)
<1> USE DEF DiffersIn
<1>1. /\ JobFields \subseteq DOMAIN k /\ k.todo = j.todo /\ k.on = j.on /\ k.off = j.off
      /\ k.built = j.built /\ k.days = j.days /\ k.step = j.step /\ k.kind = j.kind
      /\ k.settled = j.settled /\ k.clean = j.clean \ items /\ k.verdict = j.verdict
      /\ k.at = j.at /\ k.read = j.read
  BY DEF JobShape, JobFields, Unclean
<1> HIDE DEF k
<1>2. JobShape(k)
  BY <1>1 DEF JobShape
<1>3. \A s \in Session \cap k.settled \cap k.clean : Derived(R2, V2, s)
  BY <1>1 DEF JobReads, Derived, FlagOfTables
<1>4. \A d \in Day \cap k.settled \cap k.clean : Summed(R2, S2, d)
  BY <1>1 DEF JobReads, Summed
<1>5. \A r \in k.built : r.session \in k.clean => BuiltFrom(k, r, R2, V2)
  BY <1>1 DEF JobReads, JobShape, BuiltFrom
<1>6. /\ \A s \in k.on \cap k.clean : FlagOfTables(R2, V2, s) = TRUE
      /\ \A s \in k.off \cap k.clean : FlagOfTables(R2, V2, s) = FALSE
  BY <1>1 DEF JobReads, JobShape, FlagOfTables
<1>7. k.step = "row" => \A s \in k.todo \cap k.clean : k.verdict = V2[s]
  BY <1>1 DEF JobReads, JobShape
<1>8. k.step = "summarise" /\ k.at \in k.clean =>
        k.read = buildDailySummaryFromAggregateRows(DayRows(R2, k.at))
  <2> SUFFICES ASSUME j.step = "summarise", j.at \in j.clean, j.at \notin items
               PROVE  j.read = buildDailySummaryFromAggregateRows(DayRows(R2, j.at))
    BY <1>1
  <2>1. DayRows(R2, j.at) = DayRows(R, j.at)
    BY DEF JobShape
  <2>2. QED
    BY <2>1 DEF JobReads
<1>9. JobReads(k, R2, V2, S2)
  BY <1>3, <1>4, <1>5, <1>6, <1>7, <1>8 DEF JobReads
<1>10. QED
  BY <1>2, <1>9 DEF k

(* Nothing is written but what the others are told of. *)
OnlyWrites(items) == DiffersIn(items, rows, verdict, summary, rows', verdict', summary')

LEMMA WorkersGo ==
  ASSUME Aligned, ReasonsKnown', DOMAIN summary' = Day,
         NEW w \in Worker, NEW j, NEW items, Goes(w, j, items), OnlyWrites(items),
         JobShape(j), JobReads(j, rows', verdict', summary')
  PROVE  Aligned'
<1>1. ASSUME NEW v \in Worker
      PROVE  JobShape(job'[v]) /\ JobReads(job'[v], rows', verdict', summary')
  <2> DEFINE k == IF v = w THEN j ELSE [job[v] EXCEPT !.clean = @ \ items]
  <2>1. job'[v] = Rest(k)
    BY DEF Goes
  <2>2. JobShape(job[v]) /\ JobReads(job[v], rows, verdict, summary)
    BY DEF Aligned
  <2>3. JobShape(k) /\ JobReads(k, rows', verdict', summary')
    <3>1. CASE v = w
      BY <3>1
    <3>2. CASE v # w
      <4>1. k = Unclean(job[v], items)
        BY <3>2 DEF Unclean
      <4> HIDE DEF k
      <4>2. QED
        BY <2>2, <4>1, OthersWrite DEF OnlyWrites
    <3>3. QED
      BY <3>1, <3>2
  <2> HIDE DEF k
  <2>4. QED
    BY <2>1, <2>3, JobRestsAligned
<1>2. QED
  BY <1>1 DEF Aligned

(* A step that writes nothing to the tables. *)
LEMMA OnlyTheJob ==
  ASSUME Aligned, ReasonsKnown', NEW w \in Worker, NEW j, Goes(w, j, {}),
         UNCHANGED <<rows, verdict, summary>>,
         JobShape(j), JobReads(j, rows, verdict, summary)
  PROVE  Aligned'
<1>1. OnlyWrites({})
  BY DEF OnlyWrites, DiffersIn
<1>2. DOMAIN summary' = Day
  BY DEF Aligned
<1>3. QED
  BY <1>1, <1>2, WorkersGo

(* The rows of a day change only when a row of that day does. *)
LEMMA OtherDays ==
  ASSUME NEW R, NEW Q, NEW items,
         \A s \in Session : \/ Q[s] = R[s]
                            \/ /\ R[s] # NoRow => R[s].day \in items
                               /\ Q[s] # NoRow => Q[s].day \in items
  PROVE  \A d \in Day \ items : DayRows(Q, d) = DayRows(R, d)
BY DEF DayRows
-----------------------------------------------------------------------------
LEMMA StartsAligned ==
  ASSUME Aligned, ReasonsKnown', NEW w \in Worker,
         \/ \E s \in Session : PersistBundle(w, s)
         \/ \E listed \in SUBSET Session, d \in Day : run(w, listed, d)
         \/ \E range \in SUBSET Day : backfillIssueFlags(w, range)
         \/ Fails(w)
  PROVE  Aligned'
<1>1. ASSUME NEW s \in Session, PersistBundle(w, s) PROVE Aligned'
  <2> DEFINE j == [NoJob EXCEPT !.kind = "persist", !.todo = {s}]
  <2>1. JobShape(j) /\ JobReads(j, rows, verdict, summary)
    BY DEF JobShape, JobReads, NoJob, JobFields
  <2>2. Goes(w, j, {}) /\ UNCHANGED <<rows, verdict, summary>>
    BY <1>1 DEF PersistBundle, Begins
  <2> HIDE DEF j
  <2>3. QED
    BY <2>1, <2>2, OnlyTheJob
<1>2. ASSUME NEW listed \in SUBSET Session, NEW d \in Day, run(w, listed, d) PROVE Aligned'
  <2> DEFINE j == [NoJob EXCEPT !.kind = "run", !.todo = listed, !.day = d, !.days = {d}]
  <2>1. JobShape(j) /\ JobReads(j, rows, verdict, summary)
    BY DEF JobShape, JobReads, NoJob, JobFields
  <2>2. Goes(w, j, {}) /\ UNCHANGED <<rows, verdict, summary>>
    BY <1>2 DEF run, Begins
  <2> HIDE DEF j
  <2>3. QED
    BY <2>1, <2>2, OnlyTheJob
<1>3. ASSUME NEW range \in SUBSET Day, backfillIssueFlags(w, range) PROVE Aligned'
  <2> DEFINE scanned == {r \in Rows : r.day \in range}
             j == [NoJob EXCEPT !.kind = "backfill", !.built = scanned,
                                !.days = BackfillDays(scanned),
                                !.clean = {r.session : r \in scanned} \cup range]
  <2>1. \A r \in scanned : r.session \in Session /\ rows[r.session] = r
    BY DEF Rows, Aligned, ReasonsKnown
  <2>2. Goes(w, j, {}) /\ UNCHANGED <<rows, verdict, summary>>
    BY <1>3 DEF backfillIssueFlags, Begins
  <2> HIDE DEF scanned
  <2>3. /\ JobFields \subseteq DOMAIN j /\ j.todo = {} /\ j.on = {} /\ j.off = {}
        /\ j.built = scanned /\ j.settled = {} /\ j.kind = "backfill" /\ j.step = "write"
    BY DEF NoJob, JobFields
  <2> HIDE DEF j
  <2>4. JobShape(j)
    BY <2>1, <2>3 DEF JobShape
  <2>5. JobReads(j, rows, verdict, summary)
    BY <2>1, <2>3 DEF JobReads, BuiltFrom
  <2>6. QED
    BY <2>2, <2>4, <2>5, OnlyTheJob
<1>4. ASSUME Fails(w) PROVE Aligned'
  <2> DEFINE j == [NoJob EXCEPT !.kind = job[w].kind, !.failed = TRUE]
  <2>1. JobShape(j) /\ JobReads(j, rows, verdict, summary)
    BY DEF JobShape, JobReads, NoJob, JobFields
  <2>2. Goes(w, j, {}) /\ UNCHANGED <<rows, verdict, summary>>
    BY <1>4 DEF Fails
  <2> HIDE DEF j
  <2>3. QED
    BY <2>1, <2>2, OnlyTheJob
<1>5. QED
  BY <1>1, <1>2, <1>3, <1>4

(* What is built was never settled, so reading it makes it clean again. *)
LEMMA BuildAligned ==
  ASSUME Aligned, ReasonsKnown', NEW w \in Worker, NEW s \in Session, Build(w, s)
  PROVE  Aligned'
<1>1. PICK c \in Content, readable \in Readable(s) :
        Goes(w, [job[w] EXCEPT
                   !.todo = @ \ {s},
                   !.built = @ \cup {RowOf(s, DayFor(job[w], c),
                                       aggregateIssueFlagForSession(c.failedRule,
                                         VerdictRead(s, readable)), c)},
                   !.clean = CleanAfter(job[w], s, readable)], {})
  BY DEF Build
<1> DEFINE r == RowOf(s, DayFor(job[w], c),
                  aggregateIssueFlagForSession(c.failedRule, VerdictRead(s, readable)), c)
           clean == CleanAfter(job[w], s, readable)
           j == [job[w] EXCEPT !.todo = @ \ {s}, !.built = @ \cup {r}, !.clean = clean]
<1>2. JobShape(job[w]) /\ JobReads(job[w], rows, verdict, summary)
  BY DEF Aligned
<1>3. Goes(w, j, {}) /\ UNCHANGED <<rows, verdict, summary>>
      /\ job[w].kind \in {"persist", "run"} /\ s \in job[w].todo
  BY <1>1 DEF Build
<1>4. /\ r.session = s
      /\ s \in clean => r.flag = aggregateIssueFlagForSession(r.failedRule, verdict[s])
  BY DEF RowOf, CleanAfter, VerdictRead
<1>5. clean \ {s} \subseteq job[w].clean
  BY DEF CleanAfter
<1> HIDE DEF r, clean
<1>6. /\ JobFields \subseteq DOMAIN j /\ j.todo = job[w].todo \ {s} /\ j.on = job[w].on
      /\ j.off = job[w].off /\ j.built = job[w].built \cup {r} /\ j.days = job[w].days
      /\ j.step = job[w].step /\ j.kind = job[w].kind /\ j.settled = job[w].settled
      /\ j.clean = clean
  BY <1>2 DEF JobShape, JobFields
<1>7. /\ job[w].on = {} /\ job[w].off = {} /\ Day \cap job[w].settled = {}
      /\ s \notin job[w].settled /\ job[w].step \notin {"summarise", "verdict", "row", "mark"}
      /\ \A q \in job[w].built : q.session # s
  BY <1>2, <1>3 DEF JobShape
<1> HIDE DEF j
<1>8. JobShape(j)
  BY <1>2, <1>3, <1>4, <1>6, <1>7 DEF JobShape
<1>9. JobReads(j, rows, verdict, summary)
  BY <1>2, <1>3, <1>4, <1>5, <1>6, <1>7 DEF JobReads, BuiltFrom
<1>10. QED
  BY <1>3, <1>8, <1>9, OnlyTheJob

LEMMA RunSkipsAligned ==
  ASSUME Aligned, ReasonsKnown', NEW w \in Worker, RunSkips(w)
  PROVE  Aligned'
<1>1. /\ JobShape(job[w]) /\ JobReads(job[w], rows, verdict, summary)
      /\ UNCHANGED <<rows, verdict, summary>>
  BY DEF Aligned, RunSkips
<1>2. ASSUME NEW s, Goes(w, [job[w] EXCEPT !.todo = @ \ {s}], {}) PROVE Aligned'
  <2> DEFINE j == [job[w] EXCEPT !.todo = @ \ {s}]
  <2>1. JobShape(j)
    BY <1>1 DEF JobShape, JobFields
  <2>2. JobReads(j, rows, verdict, summary)
    BY <1>1 DEF JobShape, JobFields, JobReads, BuiltFrom
  <2> HIDE DEF j
  <2>3. QED
    BY <1>1, <1>2, <2>1, <2>2, OnlyTheJob DEF j
<1>3. ASSUME NEW r, Goes(w, [job[w] EXCEPT !.built = @ \ {r}], {}) PROVE Aligned'
  <2> DEFINE j == [job[w] EXCEPT !.built = @ \ {r}]
  <2>1. JobShape(j)
    BY <1>1 DEF JobShape, JobFields
  <2>2. JobReads(j, rows, verdict, summary)
    BY <1>1 DEF JobShape, JobFields, JobReads, BuiltFrom
  <2> HIDE DEF j
  <2>3. QED
    BY <1>1, <1>3, <2>1, <2>2, OnlyTheJob DEF j
<1>4. QED
  BY <1>2, <1>3 DEF RunSkips

LEMMA UpsertAligned ==
  ASSUME Aligned, ReasonsKnown', NEW w \in Worker, NEW r \in job[w].built,
         upsertSessionAggregate(w, r)
  PROVE  Aligned'
<1> DEFINE q == [r EXCEPT !.flag = StoredFlag(r)]
           s == r.session
           items == {r.session, r.day} \cup DaysOfRow(r.session)
           j == [job[w] EXCEPT !.built = @ \ {r}, !.days = @ \cup {r.day},
                               !.settled = IF known THEN @ \cup {r.session} ELSE @]
<1>1. /\ rows' = [rows EXCEPT ![s] = q] /\ verdict' = verdict /\ summary' = summary
      /\ Goes(w, j, items) /\ job[w].kind \in {"persist", "run"}
  BY DEF upsertSessionAggregate
<1>2. JobShape(job[w]) /\ JobReads(job[w], rows, verdict, summary) /\ ReasonsKnown
      /\ DOMAIN summary' = Day
  BY <1>1 DEF Aligned
<1>3. IsRow(r) /\ s \in Session
  BY <1>2 DEF ReasonsKnown, JobReasoned, IsRow
<1>4. q.day = r.day /\ q.failedRule = r.failedRule /\ q.flag = StoredFlag(r)
  BY <1>3 DEF IsRow, RowFields
<1>5. rows'[s] = q /\ \A t \in Session \ {s} : rows'[t] = rows[t]
  BY <1>1, <1>2, <1>3 DEF ReasonsKnown
<1> HIDE DEF q
<1>6. OnlyWrites(items)
  <2>1. \A t \in Session : \/ rows'[t] = rows[t]
                           \/ /\ rows[t] # NoRow => rows[t].day \in items
                              /\ rows'[t] # NoRow => rows'[t].day \in items
    BY <1>4, <1>5 DEF DaysOfRow
  <2>2. \A d \in Day \ items : DayRows(rows', d) = DayRows(rows, d)
    BY <2>1, OtherDays
  <2>3. s \in items
    OBVIOUS
  <2> HIDE DEF items
  <2>4. QED
    BY <1>1, <1>5, <2>2, <2>3 DEF OnlyWrites, DiffersIn
<1> HIDE DEF items
<1>7. /\ JobFields \subseteq DOMAIN j /\ j.todo = job[w].todo /\ j.on = job[w].on
      /\ j.off = job[w].off /\ j.built = job[w].built \ {r}
      /\ j.step = job[w].step /\ j.kind = job[w].kind /\ j.clean = job[w].clean
      /\ j.settled = IF known THEN job[w].settled \cup {s} ELSE job[w].settled
  BY <1>2 DEF JobShape, JobFields
<1>8. /\ job[w].on = {} /\ job[w].off = {} /\ Day \cap job[w].settled = {}
      /\ job[w].step \notin {"summarise", "verdict", "row", "mark"}
      /\ s \notin job[w].todo /\ s \notin job[w].settled
      /\ \A p \in job[w].built \ {r} : p.session # s
  BY <1>1, <1>2 DEF JobShape
<1>9. Day \cap j.settled = {}
  BY <1>3, <1>7, <1>8, SessionsAreNotDays
<1> HIDE DEF j
<1>10. JobShape(j)
  BY <1>1, <1>2, <1>7, <1>8, <1>9 DEF JobShape
<1>11. ASSUME known, s \in job[w].clean PROVE Derived(rows', verdict', s)
  BY <1>1, <1>2, <1>4, <1>5, <1>11 DEF JobReads, BuiltFrom, Derived, FlagOfTables, StoredFlag
<1>12. ASSUME NEW t \in Session \cap j.settled \cap j.clean PROVE Derived(rows', verdict', t)
  <2>1. CASE t = s
    BY <1>7, <1>8, <1>11, <1>12, <2>1
  <2>2. CASE t # s
    BY <1>1, <1>2, <1>5, <1>7, <2>2 DEF JobReads, Derived, FlagOfTables
  <2>3. QED
    BY <2>1, <2>2
<1>13. \A p \in j.built : p.session \in j.clean => BuiltFrom(j, p, rows', verdict')
  BY <1>1, <1>2, <1>7 DEF JobReads, BuiltFrom
<1>14. JobReads(j, rows', verdict', summary')
  BY <1>7, <1>8, <1>9, <1>12, <1>13 DEF JobReads
<1>15. QED
  BY <1>1, <1>2, <1>6, <1>10, <1>14, WorkersGo

LEMMA VerdictAligned ==
  ASSUME Aligned, ReasonsKnown', NEW w \in Worker, NEW s \in Session, NEW v,
         NEW posted \in BOOLEAN, SaveVerdict(w, s, v, posted)
  PROVE  Aligned'
<1> DEFINE j == [NoJob EXCEPT !.kind = "judge", !.todo = {s}, !.verdict = v,
                              !.step = IF posted THEN "row" ELSE "verdict", !.clean = {s}]
           i == [NoJob EXCEPT !.kind = "judge"]
           k == IF known THEN j ELSE i
<1>1. /\ rows' = rows /\ verdict' = [verdict EXCEPT ![s] = v] /\ summary' = summary
      /\ Goes(w, k, {s})
  BY DEF SaveVerdict, Begins
<1>2. verdict'[s] = v /\ \A t \in Session \ {s} : verdict'[t] = verdict[t]
  BY <1>1 DEF Aligned, ReasonsKnown
<1>3. OnlyWrites({s}) /\ DOMAIN summary' = Day
  BY <1>1, <1>2 DEF OnlyWrites, DiffersIn, Aligned
<1>4. JobShape(j) /\ JobReads(j, rows', verdict', summary')
  <2>1. /\ JobFields \subseteq DOMAIN j /\ j.todo = {s} /\ j.built = {} /\ j.on = {}
        /\ j.off = {} /\ j.settled = {} /\ j.days = {} /\ j.kind = "judge" /\ j.verdict = v
        /\ j.step \in {"row", "verdict"}
    BY DEF NoJob, JobFields
  <2> HIDE DEF j
  <2>2. QED
    BY <1>2, <2>1 DEF JobShape, JobReads
<1>5. JobShape(i) /\ JobReads(i, rows', verdict', summary')
  BY DEF JobShape, JobReads, NoJob, JobFields
<1> HIDE DEF i, j
<1>6. JobShape(k) /\ JobReads(k, rows', verdict', summary')
  BY <1>4, <1>5
<1> HIDE DEF k
<1>7. QED
  BY <1>1, <1>3, <1>6, WorkersGo

LEMMA JudgementAligned ==
  ASSUME Aligned, ReasonsKnown', NEW w \in Worker, NEW s \in Session,
         refreshAggregateIssueForSessionID(w, s) \/ ReadRow(w, s)
  PROVE  Aligned'
<1>0. JobShape(job[w]) /\ JobReads(job[w], rows, verdict, summary)
      /\ ReasonsKnown /\ JobReasoned(job[w], reasons)
  BY DEF Aligned, ReasonsKnown
<1>1. CASE refreshAggregateIssueForSessionID(w, s)
  <2> DEFINE j == [job[w] EXCEPT !.verdict = verdict[s], !.step = "row", !.clean = @ \cup {s}]
  <2>1. /\ JobFields \subseteq DOMAIN j /\ j.todo = job[w].todo /\ j.built = job[w].built
        /\ j.on = job[w].on /\ j.off = job[w].off /\ j.kind = job[w].kind
        /\ j.verdict = verdict[s] /\ j.step = "row" /\ j.settled = job[w].settled
        /\ j.days = job[w].days
    BY <1>0 DEF JobShape, JobFields
  <2>2. job[w].step = "verdict" /\ s \in job[w].todo
    BY <1>1 DEF refreshAggregateIssueForSessionID
  <2>3. /\ job[w].kind = "judge" /\ \A t \in job[w].todo : t = s
        /\ job[w].built = {} /\ job[w].settled = {} /\ job[w].on = {} /\ job[w].off = {}
    BY <1>0, <2>2 DEF JobReasoned, JobShape
  <2>4. Goes(w, j, {}) /\ UNCHANGED <<rows, verdict, summary>>
    BY <1>1 DEF refreshAggregateIssueForSessionID
  <2> HIDE DEF j
  <2>5. JobShape(j)
    BY <1>0, <2>1, <2>3 DEF JobShape
  <2>6. JobReads(j, rows, verdict, summary)
    BY <2>1, <2>3 DEF JobReads
  <2>7. QED
    BY <2>4, <2>5, <2>6, OnlyTheJob
<1>2. CASE ReadRow(w, s) /\ rows[s] = NoRow
  <2> DEFINE j == [job[w] EXCEPT !.todo = {}, !.step = "write"]
  <2>1. JobShape(j)
    BY <1>0 DEF JobShape, JobFields
  <2>2. JobReads(j, rows, verdict, summary)
    BY <1>0 DEF JobShape, JobFields, JobReads, BuiltFrom
  <2>3. Goes(w, j, {}) /\ UNCHANGED <<rows, verdict, summary>>
    BY <1>2 DEF ReadRow
  <2> HIDE DEF j
  <2>4. QED
    BY <2>1, <2>2, <2>3, OnlyTheJob
<1>3. CASE ReadRow(w, s) /\ rows[s] # NoRow
  <2> DEFINE r == [rows[s] EXCEPT !.flag =
                     aggregateIssueFlagForSession(rows[s].failedRule, job[w].verdict)]
             j == [job[w] EXCEPT !.todo = {}, !.step = "mark", !.built = {r}]
  <2>1. /\ r.session = s /\ r.failedRule = rows[s].failedRule
        /\ r.flag = aggregateIssueFlagForSession(rows[s].failedRule, job[w].verdict)
    BY <1>0, <1>3 DEF ReasonsKnown, IsRow, RowFields
  <2>2. job[w].step = "row" /\ s \in job[w].todo
    BY <1>3 DEF ReadRow
  <2>3. s \in job[w].clean => job[w].verdict = verdict[s]
    BY <1>0, <2>2 DEF JobReads
  <2> HIDE DEF r
  <2>4. /\ JobFields \subseteq DOMAIN j /\ j.todo = {} /\ j.built = {r}
        /\ j.on = job[w].on /\ j.off = job[w].off /\ j.kind = job[w].kind
        /\ j.step = "mark" /\ j.settled = job[w].settled /\ j.clean = job[w].clean
    BY <1>0 DEF JobShape, JobFields
  <2>5. job[w].kind = "judge" /\ job[w].settled = {} /\ job[w].on = {} /\ job[w].off = {}
    BY <1>0, <2>2 DEF JobShape
  <2>6. Goes(w, j, {}) /\ UNCHANGED <<rows, verdict, summary>>
    BY <1>3 DEF ReadRow, r
  <2> HIDE DEF j
  <2>7. JobShape(j)
    BY <2>1, <2>4, <2>5 DEF JobShape
  <2>8. JobReads(j, rows, verdict, summary)
    BY <2>1, <2>3, <2>4, <2>5 DEF JobReads, BuiltFrom
  <2>9. QED
    BY <2>6, <2>7, <2>8, OnlyTheJob
<1>4. QED
  BY <1>1, <1>2, <1>3

LEMMA MarkAligned ==
  ASSUME Aligned, ReasonsKnown', NEW w \in Worker, NEW r \in job[w].built,
         refreshAggregateIssueForQualityEvaluation(w, r)
  PROVE  Aligned'
<1> DEFINE s == r.session
           items == {r.session} \cup DaysOfRow(r.session)
           q == [rows[s] EXCEPT !.flag = r.flag]
           j == [job[w] EXCEPT !.built = {}, !.step = "write", !.verdict = NoVerdict,
                               !.days = {r.day}, !.settled = {r.session}]
<1>1. /\ rows' = [rows EXCEPT ![s].flag = r.flag] /\ verdict' = verdict /\ summary' = summary
      /\ Goes(w, j, items) /\ job[w].step = "mark"
  BY DEF refreshAggregateIssueForQualityEvaluation
<1>2. JobShape(job[w]) /\ JobReads(job[w], rows, verdict, summary) /\ ReasonsKnown
      /\ DOMAIN summary' = Day
  BY <1>1 DEF Aligned
<1>3. s \in Session
  BY <1>2 DEF JobShape
<1>4. rows'[s] = q /\ \A t \in Session \ {s} : rows'[t] = rows[t]
  BY <1>1, <1>2, <1>3 DEF ReasonsKnown
<1>5. q # NoRow => /\ rows[s] # NoRow /\ q.day = rows[s].day
                   /\ q.failedRule = rows[s].failedRule /\ q.flag = r.flag
  <2>1. q # NoRow => rows[s] # NoRow
    BY DEF NoRow
  <2>2. rows[s] # NoRow => IsRow(rows[s])
    BY <1>2, <1>3 DEF ReasonsKnown
  <2>3. QED
    BY <2>1, <2>2 DEF IsRow, RowFields
<1> HIDE DEF q
<1>6. OnlyWrites(items)
  <2>1. \A t \in Session : \/ rows'[t] = rows[t]
                           \/ /\ rows[t] # NoRow => rows[t].day \in items
                              /\ rows'[t] # NoRow => rows'[t].day \in items
    BY <1>4, <1>5 DEF DaysOfRow
  <2>2. \A d \in Day \ items : DayRows(rows', d) = DayRows(rows, d)
    BY <2>1, OtherDays
  <2>3. s \in items
    OBVIOUS
  <2> HIDE DEF items
  <2>4. QED
    BY <1>1, <1>4, <2>2, <2>3 DEF OnlyWrites, DiffersIn
<1> HIDE DEF items
<1>7. /\ JobFields \subseteq DOMAIN j /\ j.todo = job[w].todo /\ j.on = job[w].on
      /\ j.off = job[w].off /\ j.built = {} /\ j.days = {r.day} /\ j.settled = {s}
      /\ j.step = "write" /\ j.kind = job[w].kind /\ j.clean = job[w].clean
  BY <1>2 DEF JobShape, JobFields
<1>8. job[w].kind = "judge" /\ job[w].on = {} /\ job[w].off = {}
  BY <1>1, <1>2 DEF JobShape
<1>9. Day \cap {s} = {}
  BY <1>3, SessionsAreNotDays
<1> HIDE DEF j
<1>10. JobShape(j)
  BY <1>2, <1>7, <1>8, <1>9 DEF JobShape
<1>11. s \in job[w].clean => Derived(rows', verdict', s)
  BY <1>1, <1>2, <1>4, <1>5, <1>8 DEF JobReads, BuiltFrom, Derived, FlagOfTables
<1>12. JobReads(j, rows', verdict', summary')
  BY <1>7, <1>8, <1>9, <1>11 DEF JobReads
<1>13. QED
  BY <1>1, <1>2, <1>6, <1>10, <1>12, WorkersGo

LEMMA ScanAligned ==
  ASSUME Aligned, ReasonsKnown', NEW w \in Worker, NEW r \in job[w].built, Judge(w, r)
  PROVE  Aligned'
<1>1. PICK readable \in Readable(r.session) :
        LET want == aggregateIssueFlagForSession(r.failedRule, VerdictRead(r.session, readable))
            j == [job[w] EXCEPT !.built = @ \ {r},
                                !.clean = IF readable THEN @ ELSE @ \ {r.session}]
        IN  Goes(w, IF want = r.flag THEN [j EXCEPT !.settled = @ \cup {r.session}]
                   ELSE IF want THEN [j EXCEPT !.on = @ \cup {r.session}]
                   ELSE [j EXCEPT !.off = @ \cup {r.session}], {})
  BY DEF Judge
<1> DEFINE s == r.session
           want == aggregateIssueFlagForSession(r.failedRule, VerdictRead(s, readable))
           clean == IF readable THEN job[w].clean ELSE job[w].clean \ {s}
           j == [job[w] EXCEPT !.built = @ \ {r}, !.clean = clean]
           k == IF want = r.flag THEN [j EXCEPT !.settled = @ \cup {s}]
                ELSE IF want THEN [j EXCEPT !.on = @ \cup {s}]
                ELSE [j EXCEPT !.off = @ \cup {s}]
<1>2. JobShape(job[w]) /\ JobReads(job[w], rows, verdict, summary)
  BY DEF Aligned
<1>3. /\ Goes(w, k, {}) /\ UNCHANGED <<rows, verdict, summary>>
      /\ job[w].kind = "backfill" /\ s \in Session
  BY <1>1, <1>2 DEF Judge, JobShape
<1>4. s \in clean => /\ rows[s] = r /\ want = FlagOfTables(rows, verdict, s)
  BY <1>2, <1>3 DEF JobReads, BuiltFrom, FlagOfTables, VerdictRead
<1>5. want \in BOOLEAN
  BY DEF aggregateIssueFlagForSession
<1> HIDE DEF want
<1>6. clean \subseteq job[w].clean
  OBVIOUS
<1> HIDE DEF clean
<1>7. /\ JobFields \subseteq DOMAIN k /\ k.todo = job[w].todo /\ k.built = job[w].built \ {r}
      /\ k.days = job[w].days /\ k.step = job[w].step /\ k.kind = job[w].kind
      /\ k.clean = clean
      /\ k.settled = IF want = r.flag THEN job[w].settled \cup {s} ELSE job[w].settled
      /\ k.on = IF want # r.flag /\ want THEN job[w].on \cup {s} ELSE job[w].on
      /\ k.off = IF want # r.flag /\ ~want THEN job[w].off \cup {s} ELSE job[w].off
  BY <1>2, <1>5 DEF JobShape, JobFields
<1>8. /\ job[w].step \notin {"summarise", "verdict", "row", "mark"}
      /\ Day \cap job[w].settled = {}
  BY <1>2, <1>3 DEF JobShape
<1>9. Day \cap k.settled = {}
  BY <1>3, <1>7, <1>8, SessionsAreNotDays
<1> HIDE DEF k
<1>10. JobShape(k)
  BY <1>2, <1>3, <1>7, <1>8, <1>9 DEF JobShape
<1>11. \A t \in Session \cap k.settled \cap k.clean : Derived(rows, verdict, t)
  BY <1>2, <1>4, <1>6, <1>7 DEF JobReads, Derived
<1>12. \A t \in k.on \cap k.clean : FlagOfTables(rows, verdict, t) = TRUE
  BY <1>2, <1>4, <1>5, <1>6, <1>7 DEF JobReads
<1>13. \A t \in k.off \cap k.clean : FlagOfTables(rows, verdict, t) = FALSE
  BY <1>2, <1>4, <1>5, <1>6, <1>7 DEF JobReads
<1>14. \A q \in k.built : q.session \in k.clean => BuiltFrom(k, q, rows, verdict)
  BY <1>2, <1>6, <1>7 DEF JobReads, BuiltFrom
<1>15. JobReads(k, rows, verdict, summary)
  BY <1>7, <1>8, <1>9, <1>11, <1>12, <1>13, <1>14 DEF JobReads
<1>16. QED
  BY <1>3, <1>10, <1>15, OnlyTheJob

LEMMA BulkAligned ==
  ASSUME Aligned, ReasonsKnown', NEW w \in Worker, bulkUpdateHasIssue(w)
  PROVE  Aligned'
<1> DEFINE value == job[w].on # {}
           ids == IF value THEN job[w].on ELSE job[w].off
<1>1. PICK chunk \in kSubset(Min({Chunk, Cardinality(ids)}), ids) :
        /\ rows' = [s \in Session |-> IF s \in chunk THEN [rows[s] EXCEPT !.flag = value]
                                      ELSE rows[s]]
        /\ Goes(w, [job[w] EXCEPT !.on = @ \ chunk, !.off = @ \ chunk,
                                  !.settled = @ \cup chunk],
                chunk \cup UNION {DaysOfRow(s) : s \in chunk})
  BY DEF bulkUpdateHasIssue
<1> DEFINE j == [job[w] EXCEPT !.on = @ \ chunk, !.off = @ \ chunk, !.settled = @ \cup chunk]
           items == chunk \cup UNION {DaysOfRow(s) : s \in chunk}
<1>2. /\ JobShape(job[w]) /\ JobReads(job[w], rows, verdict, summary) /\ ReasonsKnown
      /\ verdict' = verdict /\ summary' = summary /\ DOMAIN summary' = Day
      /\ Goes(w, j, items)
  BY <1>1 DEF Aligned, bulkUpdateHasIssue
<1>3. job[w].kind = "backfill" /\ job[w].built = {} /\ ids # {}
  BY DEF bulkUpdateHasIssue
<1>4. chunk \subseteq ids /\ chunk \subseteq Session
  BY <1>1, <1>2 DEF kSubset, JobShape
<1>5. \A s \in chunk \cap job[w].clean : FlagOfTables(rows, verdict, s) = value
  BY <1>2, <1>4 DEF JobReads
<1>6. /\ job[w].step \notin {"summarise", "verdict", "row", "mark"}
      /\ Day \cap job[w].settled = {}
  BY <1>2, <1>3 DEF JobShape
<1> HIDE DEF value
<1>7. ASSUME NEW s \in chunk
      PROVE  rows'[s] # NoRow => /\ rows[s] # NoRow /\ rows'[s].day = rows[s].day
                                 /\ rows'[s].failedRule = rows[s].failedRule
                                 /\ rows'[s].flag = value
  <2>1. rows'[s] = [rows[s] EXCEPT !.flag = value]
    BY <1>1, <1>4
  <2>2. rows'[s] # NoRow => rows[s] # NoRow
    BY <2>1 DEF NoRow
  <2>3. rows[s] # NoRow => IsRow(rows[s])
    BY <1>2, <1>4 DEF ReasonsKnown
  <2>4. QED
    BY <2>1, <2>2, <2>3 DEF IsRow, RowFields
<1>8. \A s \in Session \ chunk : rows'[s] = rows[s]
  BY <1>1
<1>9. OnlyWrites(items)
  <2>1. \A s \in Session : \/ rows'[s] = rows[s]
                           \/ /\ rows[s] # NoRow => rows[s].day \in items
                              /\ rows'[s] # NoRow => rows'[s].day \in items
    BY <1>7, <1>8 DEF DaysOfRow
  <2>2. \A d \in Day \ items : DayRows(rows', d) = DayRows(rows, d)
    BY <2>1, OtherDays
  <2>3. chunk \subseteq items
    OBVIOUS
  <2> HIDE DEF items
  <2>4. QED
    BY <1>2, <1>8, <2>2, <2>3 DEF OnlyWrites, DiffersIn
<1> HIDE DEF items
<1>10. /\ JobFields \subseteq DOMAIN j /\ j.todo = job[w].todo /\ j.on = job[w].on \ chunk
       /\ j.off = job[w].off \ chunk /\ j.built = {} /\ j.days = job[w].days
       /\ j.settled = job[w].settled \cup chunk /\ j.step = job[w].step
       /\ j.kind = job[w].kind /\ j.clean = job[w].clean
  BY <1>2, <1>3 DEF JobShape, JobFields
<1>11. Day \cap j.settled = {}
  BY <1>4, <1>6, <1>10, SessionsAreNotDays
<1> HIDE DEF j
<1>12. JobShape(j)
  BY <1>2, <1>3, <1>6, <1>10, <1>11 DEF JobShape
<1>13. ASSUME NEW s \in Session \cap j.settled \cap j.clean
       PROVE  Derived(rows', verdict', s)
  <2>1. CASE s \in chunk
    BY <1>2, <1>5, <1>7, <1>10, <2>1 DEF Derived, FlagOfTables
  <2>2. CASE s \notin chunk
    BY <1>2, <1>8, <1>10, <2>2 DEF JobReads, Derived, FlagOfTables
  <2>3. QED
    BY <2>1, <2>2
<1>14. /\ \A s \in j.on \cap j.clean : FlagOfTables(rows', verdict', s) = TRUE
       /\ \A s \in j.off \cap j.clean : FlagOfTables(rows', verdict', s) = FALSE
  BY <1>2, <1>8, <1>10 DEF JobReads, JobShape, FlagOfTables
<1>15. JobReads(j, rows', verdict', summary')
  BY <1>6, <1>10, <1>11, <1>13, <1>14 DEF JobReads
<1>16. QED
  BY <1>2, <1>9, <1>12, <1>15, WorkersGo

(* A day is read when all rows are written, and was not settled before. *)
LEMMA SummaryAligned ==
  ASSUME Aligned, ReasonsKnown', NEW w \in Worker,
         (\E d \in Day : refreshDailySummary(w, d)) \/ upsertDailySummary(w) \/ RefreshFails(w)
  PROVE  Aligned'
<1>0. JobShape(job[w]) /\ JobReads(job[w], rows, verdict, summary)
  BY DEF Aligned
<1>1. ASSUME NEW d \in Day, refreshDailySummary(w, d) PROVE Aligned'
  <2> DEFINE j == [job[w] EXCEPT !.step = "summarise", !.at = d, !.clean = @ \cup {d},
                     !.read = buildDailySummaryFromAggregateRows(RowsOf(d))]
  <2>1. /\ JobFields \subseteq DOMAIN j /\ j.todo = job[w].todo /\ j.on = job[w].on
        /\ j.off = job[w].off /\ j.built = job[w].built /\ j.days = job[w].days
        /\ j.settled = job[w].settled /\ j.step = "summarise" /\ j.kind = job[w].kind
        /\ j.clean = job[w].clean \cup {d} /\ j.at = d
        /\ j.read = buildDailySummaryFromAggregateRows(RowsOf(d))
    BY <1>0 DEF JobShape, JobFields
  <2>2. /\ Goes(w, j, {}) /\ UNCHANGED <<rows, verdict, summary>>
        /\ d \in job[w].days /\ Written(job[w])
    BY <1>1 DEF refreshDailySummary
  <2>3. /\ job[w].todo = {} /\ job[w].built = {} /\ job[w].on = {} /\ job[w].off = {}
        /\ d \notin job[w].settled /\ d \notin Session
    BY <1>0, <2>2, SessionsAreNotDays DEF Written, JobShape
  <2>4. RowsOf(d) = DayRows(rows, d)
    BY DEF RowsOf, Rows, DayRows
  <2> HIDE DEF j
  <2>5. JobShape(j)
    BY <1>0, <2>1, <2>3 DEF JobShape
  <2>6. JobReads(j, rows, verdict, summary)
    BY <1>0, <2>1, <2>3, <2>4 DEF JobReads
  <2>7. QED
    BY <2>2, <2>5, <2>6, OnlyTheJob
<1>2. ASSUME upsertDailySummary(w) PROVE Aligned'
  <2> DEFINE d == job[w].at
             j == [job[w] EXCEPT !.step = "write", !.days = @ \ {job[w].at}, !.at = 0,
                     !.read = NoSummary, !.settled = @ \cup {job[w].at}]
  <2>1. /\ JobFields \subseteq DOMAIN j /\ j.todo = job[w].todo /\ j.on = job[w].on
        /\ j.off = job[w].off /\ j.built = job[w].built /\ j.days = job[w].days \ {d}
        /\ j.settled = job[w].settled \cup {d} /\ j.step = "write" /\ j.kind = job[w].kind
        /\ j.clean = job[w].clean
    BY <1>0 DEF JobShape, JobFields
  <2>2. /\ Goes(w, j, {d}) /\ rows' = rows /\ verdict' = verdict
        /\ summary' = [summary EXCEPT ![d] = job[w].read] /\ job[w].step = "summarise"
    BY <1>2 DEF upsertDailySummary
  <2>3. /\ job[w].todo = {} /\ job[w].built = {} /\ job[w].on = {} /\ job[w].off = {}
        /\ d \in Day /\ d \notin Session
    BY <1>0, <2>2, SessionsAreNotDays DEF JobShape
  <2>4. /\ DOMAIN summary' = Day /\ summary'[d] = job[w].read
        /\ \A e \in Day \ {d} : summary'[e] = summary[e]
    BY <2>2, <2>3 DEF Aligned
  <2>5. OnlyWrites({d})
    BY <2>2, <2>4 DEF OnlyWrites, DiffersIn
  <2> HIDE DEF j
  <2>6. JobShape(j)
    BY <1>0, <2>1, <2>3 DEF JobShape
  <2>7. d \in job[w].clean => Summed(rows', summary', d)
    BY <1>0, <2>2, <2>4 DEF JobReads, Summed
  <2> HIDE DEF d
  <2>8. \A e \in Day \cap j.settled \cap j.clean : Summed(rows', summary', e)
    BY <1>0, <2>1, <2>2, <2>4, <2>7 DEF JobReads, Summed
  <2>9. JobReads(j, rows', verdict', summary')
    BY <1>0, <2>1, <2>2, <2>3, <2>8 DEF JobReads
  <2>10. QED
    BY <2>2, <2>4, <2>5, <2>6, <2>9, WorkersGo
<1>3. ASSUME RefreshFails(w) PROVE Aligned'
  <2> DEFINE j == [job[w] EXCEPT !.step = "write", !.days = @ \ {job[w].at}, !.at = 0,
                     !.read = NoSummary, !.failed = TRUE]
  <2>1. /\ JobFields \subseteq DOMAIN j /\ j.todo = job[w].todo /\ j.on = job[w].on
        /\ j.off = job[w].off /\ j.built = job[w].built /\ j.days \subseteq job[w].days
        /\ j.settled = job[w].settled /\ j.step = "write" /\ j.kind = job[w].kind
        /\ j.clean = job[w].clean
    BY <1>0 DEF JobShape, JobFields
  <2>2. /\ Goes(w, j, {}) /\ UNCHANGED <<rows, verdict, summary>> /\ job[w].step = "summarise"
    BY <1>3 DEF RefreshFails
  <2>3. job[w].todo = {} /\ job[w].built = {} /\ job[w].on = {} /\ job[w].off = {}
    BY <1>0, <2>2 DEF JobShape
  <2> HIDE DEF j
  <2>4. JobShape(j)
    BY <1>0, <2>1, <2>3 DEF JobShape
  <2>5. JobReads(j, rows, verdict, summary)
    BY <1>0, <2>1, <2>3 DEF JobReads
  <2>6. QED
    BY <2>2, <2>4, <2>5, OnlyTheJob
<1>4. QED
  BY <1>1, <1>2, <1>3
-----------------------------------------------------------------------------
LEMMA AlignedAtFirst == Init => Aligned
<1> SUFFICES ASSUME Init PROVE Aligned
  OBVIOUS
<1>1. \A w \in Worker : JobShape(job[w]) /\ JobReads(job[w], rows, verdict, summary)
  BY NewJobAligned DEF Init
<1>2. DOMAIN summary = Day
  BY DEF Init
<1>3. QED
  BY <1>1, <1>2, ReasonsAtFirst DEF Aligned

LEMMA AlignedStays == Aligned /\ [Next]_vars => Aligned'
<1> SUFFICES ASSUME Aligned, [Next]_vars PROVE Aligned'
  OBVIOUS
<1>0. ReasonsKnown'
  BY ReasonsStay DEF Aligned
<1>1. CASE apiSessionAggregateColumns
  BY <1>0, <1>1 DEF apiSessionAggregateColumns, Aligned
<1>2. ASSUME NEW w \in Worker, NEW s \in Session, NEW v \in Verdicts, NEW posted \in BOOLEAN,
             SaveVerdict(w, s, v, posted)
      PROVE  Aligned'
  BY <1>0, <1>2, VerdictAligned
<1>3. ASSUME NEW w \in Worker, NEW s \in Session,
             refreshAggregateIssueForSessionID(w, s) \/ ReadRow(w, s)
      PROVE  Aligned'
  BY <1>0, <1>3, JudgementAligned
<1>4. ASSUME NEW w \in Worker, NEW r \in job[w].built,
             \/ upsertSessionAggregate(w, r) \/ Judge(w, r)
             \/ refreshAggregateIssueForQualityEvaluation(w, r)
      PROVE  Aligned'
  BY <1>0, <1>4, UpsertAligned, ScanAligned, MarkAligned
<1>5. ASSUME NEW w \in Worker, NEW s \in Session, Build(w, s) PROVE Aligned'
  BY <1>0, <1>5, BuildAligned
<1>6. ASSUME NEW w \in Worker,
             \/ \E s \in Session : PersistBundle(w, s)
             \/ \E listed \in kSubset(MaxListed, Session), d \in Day : run(w, listed, d)
             \/ \E d \in Day : backfillIssueFlags(w, {d})
             \/ backfillIssueFlags(w, Day)
             \/ Fails(w)
      PROVE  Aligned'
  <2>1. kSubset(MaxListed, Session) \subseteq SUBSET Session /\ Day \in SUBSET Day
        /\ \A d \in Day : {d} \in SUBSET Day
    BY DEF kSubset
  <2>2. QED
    BY <1>0, <1>6, <2>1, StartsAligned
<1>7. ASSUME NEW w \in Worker,
             \/ RunSkips(w) \/ bulkUpdateHasIssue(w)
             \/ (\E d \in Day : refreshDailySummary(w, d))
             \/ upsertDailySummary(w) \/ RefreshFails(w)
      PROVE  Aligned'
  BY <1>0, <1>7, RunSkipsAligned, BulkAligned, SummaryAligned
<1>8. CASE UNCHANGED vars
  BY <1>0, <1>8 DEF vars, Aligned
<1>9. QED
  BY <1>1, <1>2, <1>3, <1>4, <1>5, <1>6, <1>7, <1>8 DEF Next

(* A page load, a queue refresh, a run, a verdict or a backfill that ended *)
(* leaves right the flags and the summaries it settled, unless another of  *)
(* them wrote the same session or day since it read them.                  *)
THEOREM UndisturbedWritersAlign == Spec => []UndisturbedWriterAligns
<1>1. Aligned => UndisturbedWriterAligns
  <2> SUFFICES ASSUME Aligned, NEW w \in Worker
               PROVE  /\ \A s \in Session \cap job[w].settled \cap job[w].clean :
                           FlagIsDerived(s)
                      /\ \A d \in Day \cap job[w].settled \cap job[w].clean :
                           SummaryIsDerived(d)
    BY DEF UndisturbedWriterAligns
  <2>1. JobReads(job[w], rows, verdict, summary)
    BY DEF Aligned
  <2>2. \A d : RowsOf(d) = DayRows(rows, d)
    BY DEF RowsOf, Rows, DayRows
  <2>3. QED
    BY <2>1, <2>2 DEF JobReads, FlagIsDerived, SummaryIsDerived, Derived, Summed, FlagOfTables
<1>2. QED
  BY <1>1, AlignedAtFirst, AlignedStays, PTL DEF Spec
-----------------------------------------------------------------------------
(***************************************************************************)
(* The third theorem: types, and with them which days a backfill has still *)
(* to summarise.                                                           *)
(***************************************************************************)

(* Every day with a row the backfill scanned and nobody wrote since is     *)
(* among the days it will summarise or has summarised.                     *)
CoversDays(j, R) ==
  j.kind = "backfill" /\ ~j.failed =>
    \A s \in Session \cap j.clean :
       R[s] # NoRow /\ R[s].day \in j.clean => R[s].day \in j.days \cup j.settled

IsTyped(r, s) == r = NoRow \/ (r \in Row /\ r.session = s)

JobTyped(j, R, k) ==
  /\ JobFields \subseteq DOMAIN j
  /\ JobOK(j)
  /\ j.step = "summarise" => j.at \in Day
  /\ CoversDays(j, R)
  /\ j.kind = "backfill" => k

Typed ==
  /\ DOMAIN rows = Session
  /\ IssueTypeOK
  /\ \A w \in Worker : JobTyped(job[w], rows, known)

\* What is read of a row, and that a flag is all that is changed of it.
LEMMA RowReads ==
  ASSUME NEW r \in Row
  PROVE  /\ r.session \in Session /\ r.day \in Day /\ r.flag \in BOOLEAN
         /\ r.started \in Day /\ r.failedRule \in BOOLEAN
         /\ r.score \in Score /\ r.axes \in [Axis -> Score]
         /\ r # NoRow
<1>1. PICK s \in Session, d \in Day, flag \in BOOLEAN, c \in Content : r = RowOf(s, d, flag, c)
  BY DEF Row
<1>2. /\ r.session = s /\ r.day = d /\ r.flag = flag /\ r.started = c.started
      /\ r.failedRule = c.failedRule /\ r.score = c.score /\ r.axes = c.axes
  BY <1>1 DEF RowOf
<1>3. r # NoRow
  <2>1. "day" \in DOMAIN r /\ "day" \notin DOMAIN NoRow
    BY <1>1 DEF RowOf, NoRow
  <2>2. QED
    BY <2>1
<1>4. c.failedRule \in BOOLEAN
  BY ContentAssumption
<1>5. QED
  BY <1>2, <1>3, <1>4, ContentAssumption

LEMMA RowFlagged ==
  ASSUME NEW r \in Row, NEW f \in BOOLEAN
  PROVE  /\ [r EXCEPT !.flag = f] \in Row
         /\ [r EXCEPT !.flag = f].session = r.session /\ [r EXCEPT !.flag = f].day = r.day
<1>1. PICK s \in Session, d \in Day, flag \in BOOLEAN, c \in Content : r = RowOf(s, d, flag, c)
  BY DEF Row
<1>2. [r EXCEPT !.flag = f] = RowOf(s, d, f, c)
  BY <1>1 DEF RowOf
<1>3. RowOf(s, d, f, c) \in Row
  BY DEF Row
<1>4. /\ RowOf(s, d, f, c).session = r.session
      /\ RowOf(s, d, f, c).day = r.day
  BY <1>1 DEF RowOf
<1>5. QED
  BY <1>2, <1>3, <1>4

LEMMA NoRowFlagged ==
  ASSUME NEW f
  PROVE  [NoRow EXCEPT !.flag = f] = NoRow
BY DEF NoRow

LEMMA FlagIsBoolean ==
  ASSUME NEW failed, NEW v
  PROVE  aggregateIssueFlagForSession(failed, v) \in BOOLEAN
BY DEF aggregateIssueFlagForSession

LEMMA RowsAreFinite ==
  ASSUME NEW d
  PROVE  IsFiniteSet(RowsOf(d)) /\ RowsOf(d) \subseteq Rows /\ IsFiniteSet(Rows)
<1>1. IsFiniteSet({rows[s] : s \in Session})
  BY ContentAssumption, ImageIsFinite
<1>2. Rows \subseteq {rows[s] : s \in Session} /\ RowsOf(d) \subseteq Rows
  BY DEF Rows, RowsOf
<1>3. QED
  BY <1>1, <1>2, FS_Subset

LEMMA SummaryCounts ==
  ASSUME NEW R, IsFiniteSet(R)
  PROVE  buildDailySummaryFromAggregateRows(R).sessions = Cardinality(R)
         /\ Cardinality(R) \in Nat
BY FS_CardinalityType, FS_EmptySet DEF buildDailySummaryFromAggregateRows, NoSummary

LEMMA NewJobTyped ==
  ASSUME NEW R, NEW k
  PROVE  JobTyped(NoJob, R, k)
BY DEF JobTyped, JobOK, CoversDays, NoJob, JobFields, NoSummary

LEMMA JobRestsTyped ==
  ASSUME NEW j, NEW R, NEW k, JobTyped(j, R, k)
  PROVE  JobTyped(Rest(j), R, k)
<1> DEFINE e == Ended(j)
<1>1. /\ JobFields \subseteq DOMAIN e /\ e.todo = {} /\ e.on = {} /\ e.off = {} /\ e.built = {}
      /\ e.days = {} /\ e.step = "write" /\ e.kind = j.kind /\ e.day = 0 /\ e.at = 0
      /\ e.verdict = NoVerdict /\ e.read.sessions = 0 /\ e.failed = j.failed
      /\ e.settled = j.settled \cap j.clean
      /\ e.clean = IF j.kind = "backfill" THEN j.clean ELSE j.settled \cap j.clean
  BY DEF Ended, NoJob, JobFields, NoSummary
<1> HIDE DEF e
<1>2. JobOK(e)
  BY <1>1 DEF JobTyped, JobOK
<1>3. Done(j) => CoversDays(e, R)
  BY <1>1 DEF JobTyped, CoversDays, Done
<1>4. Done(j) => JobTyped(e, R, k)
  BY <1>1, <1>2, <1>3 DEF JobTyped
<1>5. QED
  BY <1>4 DEF Rest, e

\* Others who write items leave a job its types and the days it covers.
LEMMA OthersTyped ==
  ASSUME NEW j, NEW items, NEW R, NEW Q, NEW k, NEW l, JobTyped(j, R, k), k => l,
         \A s \in Session \ items : Q[s] = R[s]
  PROVE  JobTyped(Unclean(j, items), Q, l)
<1> DEFINE u == Unclean(j, items)
<1>1. /\ JobFields \subseteq DOMAIN u /\ u.todo = j.todo /\ u.on = j.on /\ u.off = j.off
      /\ u.built = j.built /\ u.days = j.days /\ u.step = j.step /\ u.kind = j.kind
      /\ u.settled = j.settled /\ u.clean = j.clean \ items /\ u.verdict = j.verdict
      /\ u.at = j.at /\ u.read = j.read /\ u.day = j.day /\ u.failed = j.failed
  BY DEF JobTyped, JobFields, Unclean
<1> HIDE DEF u
<1>2. JobOK(u)
  BY <1>1 DEF JobTyped, JobOK
<1>3. CoversDays(u, Q)
  BY <1>1 DEF JobTyped, CoversDays
<1>4. JobTyped(u, Q, l)
  BY <1>1, <1>2, <1>3 DEF JobTyped
<1>5. QED
  BY <1>4 DEF u

TablesTyped ==
  /\ DOMAIN rows = Session
  /\ \A s \in Session : IsTyped(rows[s], s)
  /\ verdict \in [Session -> Verdicts \cup {NoVerdict}]
  /\ DOMAIN summary = Day /\ \A d \in Day : summary[d].sessions \in Nat
  /\ known \in BOOLEAN
  /\ begun \in 0 .. MaxJobs /\ reasons \subseteq Session

LEMMA TypedTables == Typed => TablesTyped
BY DEF Typed, TablesTyped, IssueTypeOK, IsTyped

LEMMA WorkersTyped ==
  ASSUME Typed, TablesTyped', NEW w \in Worker, NEW j, NEW items, Goes(w, j, items),
         \A s \in Session \ items : rows'[s] = rows[s], known => known',
         JobTyped(j, rows', known')
  PROVE  Typed'
<1>1. ASSUME NEW v \in Worker PROVE JobTyped(job'[v], rows', known')
  <2> DEFINE k == IF v = w THEN j ELSE [job[v] EXCEPT !.clean = @ \ items]
  <2>1. job'[v] = Rest(k)
    BY DEF Goes
  <2>2. JobTyped(k, rows', known')
    <3>1. CASE v = w
      BY <3>1
    <3>2. CASE v # w
      <4>1. k = Unclean(job[v], items)
        BY <3>2 DEF Unclean
      <4>2. JobTyped(job[v], rows, known)
        BY DEF Typed
      <4> HIDE DEF k
      <4>3. QED
        BY <4>1, <4>2, OthersTyped
    <3>3. QED
      BY <3>1, <3>2
  <2> HIDE DEF k
  <2>3. QED
    BY <2>1, <2>2, JobRestsTyped
<1>2. IssueTypeOK'
  BY <1>1 DEF IssueTypeOK, TablesTyped, IsTyped, JobTyped
<1>3. QED
  BY <1>1, <1>2 DEF Typed, TablesTyped

\* A step that writes no table, and one that begins a job.
LEMMA OnlyTheJobTyped ==
  ASSUME Typed, NEW w \in Worker, NEW j, Goes(w, j, {}), JobTyped(j, rows, known),
         UNCHANGED <<rows, verdict, summary, known, begun, reasons>>
  PROVE  Typed'
<1>1. TablesTyped'
  BY TypedTables DEF TablesTyped
<1>2. QED
  BY <1>1, WorkersTyped

LEMMA BegunTyped ==
  ASSUME Typed, begun < MaxJobs, begun' = begun + 1
  PROVE  begun' \in 0 .. MaxJobs
BY ContentAssumption DEF Typed, IssueTypeOK

LEMMA BeginsTyped ==
  ASSUME Typed, NEW w \in Worker, NEW j, Begins(w, j, {}), JobTyped(j, rows, known),
         UNCHANGED <<rows, verdict, summary, known, reasons>>
  PROVE  Typed'
<1>1. TablesTyped'
  BY TypedTables, BegunTyped DEF TablesTyped, Begins
<1>2. QED
  BY <1>1, WorkersTyped DEF Begins
-----------------------------------------------------------------------------
LEMMA StartsTyped ==
  ASSUME Typed, NEW w \in Worker,
         \/ \E s \in Session : PersistBundle(w, s)
         \/ \E listed \in SUBSET Session, d \in Day : run(w, listed, d)
         \/ \E range \in SUBSET Day : backfillIssueFlags(w, range)
         \/ Fails(w)
  PROVE  Typed'
<1>1. ASSUME NEW s \in Session, PersistBundle(w, s) PROVE Typed'
  <2> DEFINE j == [NoJob EXCEPT !.kind = "persist", !.todo = {s}]
  <2>1. JobTyped(j, rows, known)
    BY DEF JobTyped, JobOK, CoversDays, NoJob, JobFields, NoSummary
  <2>2. Begins(w, j, {}) /\ UNCHANGED <<rows, verdict, summary, known, reasons>>
    BY <1>1 DEF PersistBundle
  <2> HIDE DEF j
  <2>3. QED
    BY <2>1, <2>2, BeginsTyped
<1>2. ASSUME NEW listed \in SUBSET Session, NEW d \in Day, run(w, listed, d) PROVE Typed'
  <2> DEFINE j == [NoJob EXCEPT !.kind = "run", !.todo = listed, !.day = d, !.days = {d}]
  <2>1. JobTyped(j, rows, known)
    BY DEF JobTyped, JobOK, CoversDays, NoJob, JobFields, NoSummary
  <2>2. Begins(w, j, {}) /\ UNCHANGED <<rows, verdict, summary, known, reasons>>
    BY <1>2 DEF run
  <2> HIDE DEF j
  <2>3. QED
    BY <2>1, <2>2, BeginsTyped
<1>3. ASSUME NEW range \in SUBSET Day, backfillIssueFlags(w, range) PROVE Typed'
  <2> DEFINE scanned == {r \in Rows : r.day \in range}
             j == [NoJob EXCEPT !.kind = "backfill", !.built = scanned,
                                !.days = BackfillDays(scanned),
                                !.clean = {r.session : r \in scanned} \cup range]
  <2>1. known /\ Begins(w, j, {}) /\ UNCHANGED <<rows, verdict, summary, known, reasons>>
    BY <1>3 DEF backfillIssueFlags
  <2>2. \A r \in scanned : r \in Row /\ r.session \in Session /\ rows[r.session] = r
                           /\ r.day \in Day
    BY RowReads DEF Rows, Typed, IssueTypeOK
  <2>3. \A r \in scanned : r.day \in BackfillDays(scanned)
    BY DEF BackfillDays
  <2>4. BackfillDays(scanned) \subseteq Day
    BY <2>2 DEF BackfillDays
  <2>5. {r.session : r \in scanned} \subseteq Session
    BY <2>2
  <2> HIDE DEF scanned
  <2>6. /\ JobFields \subseteq DOMAIN j /\ j.todo = {} /\ j.on = {} /\ j.off = {}
        /\ j.built = scanned /\ j.settled = {} /\ j.kind = "backfill" /\ j.step = "write"
        /\ j.days = BackfillDays(scanned) /\ j.failed \in BOOLEAN /\ j.read.sessions = 0
        /\ j.day = 0 /\ j.at = 0 /\ j.verdict = NoVerdict
        /\ j.clean = {r.session : r \in scanned} \cup range
    BY DEF NoJob, JobFields, NoSummary
  <2> HIDE DEF j
  <2>7. JobOK(j)
    <3>1. j.built \subseteq Row /\ j.days \subseteq Day
      BY <2>2, <2>4, <2>6
    <3>2. j.settled \cup j.clean \subseteq Session \cup Day
      BY <2>5, <2>6
    <3>3. j.todo \cup j.on \cup j.off \subseteq Session
      BY <2>6
    <3>4. /\ j.day \in Day \cup {0} /\ j.at \in Day \cup {0} /\ j.read.sessions \in Nat
          /\ j.verdict \in Verdicts \cup {NoVerdict} /\ j.failed \in BOOLEAN
          /\ j.kind = "backfill" /\ j.step = "write"
      BY <2>6
    <3>5. QED
      BY <3>1, <3>2, <3>3, <3>4 DEF JobOK
  <2>8. CoversDays(j, rows)
    <3>1. SUFFICES ASSUME NEW s \in Session \cap j.clean, rows[s] # NoRow
                   PROVE  rows[s].day \in j.days
      BY DEF CoversDays
    <3>2. s \notin range
      BY SessionsAreNotDays
    <3>3. PICK r \in scanned : r.session = s
      BY <2>6, <3>1, <3>2
    <3>4. QED
      BY <2>2, <2>3, <2>6, <3>3
  <2>9. JobTyped(j, rows, known)
    BY <2>1, <2>6, <2>7, <2>8 DEF JobTyped
  <2>10. QED
    BY <2>1, <2>9, BeginsTyped
<1>4. ASSUME Fails(w) PROVE Typed'
  <2> DEFINE j == [NoJob EXCEPT !.kind = job[w].kind, !.failed = TRUE]
  <2>1. job[w].kind \in {"persist", "backfill", "judge"} /\ (job[w].kind = "backfill" => known)
    BY <1>4 DEF Fails, Typed, JobTyped
  <2>2. JobTyped(j, rows, known)
    BY <2>1 DEF JobTyped, JobOK, CoversDays, NoJob, JobFields, NoSummary
  <2>3. Goes(w, j, {}) /\ UNCHANGED <<rows, verdict, summary, known, begun, reasons>>
    BY <1>4 DEF Fails
  <2> HIDE DEF j
  <2>4. QED
    BY <2>2, <2>3, OnlyTheJobTyped
<1>5. QED
  BY <1>1, <1>2, <1>3, <1>4

LEMMA BuildTyped ==
  ASSUME Typed, NEW w \in Worker, NEW s \in Session, Build(w, s)
  PROVE  Typed'
<1>1. PICK c \in Content, readable \in Readable(s) :
        Goes(w, [job[w] EXCEPT
                   !.todo = @ \ {s},
                   !.built = @ \cup {RowOf(s, DayFor(job[w], c),
                                       aggregateIssueFlagForSession(c.failedRule,
                                         VerdictRead(s, readable)), c)},
                   !.clean = CleanAfter(job[w], s, readable)], {})
  BY DEF Build
<1> DEFINE r == RowOf(s, DayFor(job[w], c),
                  aggregateIssueFlagForSession(c.failedRule, VerdictRead(s, readable)), c)
           clean == CleanAfter(job[w], s, readable)
           j == [job[w] EXCEPT !.todo = @ \ {s}, !.built = @ \cup {r}, !.clean = clean]
<1>2. JobTyped(job[w], rows, known)
  BY DEF Typed
<1>3. Goes(w, j, {}) /\ UNCHANGED <<rows, verdict, summary, known, begun, reasons>>
      /\ job[w].kind \in {"persist", "run"} /\ s \in job[w].todo
  BY <1>1 DEF Build
<1>4. DayFor(job[w], c) \in Day
  BY <1>2, <1>3, ContentAssumption DEF DayFor, JobTyped, JobOK
<1>5. r \in Row
  BY <1>4, FlagIsBoolean DEF Row
<1>6. clean \subseteq Session \cup Day
  BY <1>2 DEF CleanAfter, JobTyped, JobOK
<1> HIDE DEF r, clean
<1>7. /\ JobFields \subseteq DOMAIN j /\ j.todo = job[w].todo \ {s} /\ j.on = job[w].on
      /\ j.off = job[w].off /\ j.built = job[w].built \cup {r} /\ j.days = job[w].days
      /\ j.step = job[w].step /\ j.kind = job[w].kind /\ j.settled = job[w].settled
      /\ j.clean = clean /\ j.day = job[w].day /\ j.at = job[w].at /\ j.read = job[w].read
      /\ j.verdict = job[w].verdict /\ j.failed = job[w].failed
  BY <1>2 DEF JobTyped, JobFields
<1> HIDE DEF j
<1>8. JobOK(j)
  BY <1>2, <1>5, <1>6, <1>7 DEF JobTyped, JobOK
<1>9. JobTyped(j, rows, known)
  BY <1>2, <1>3, <1>7, <1>8 DEF JobTyped, CoversDays
<1>10. QED
  BY <1>3, <1>9, OnlyTheJobTyped

LEMMA RunSkipsTyped ==
  ASSUME Typed, NEW w \in Worker, RunSkips(w)
  PROVE  Typed'
<1>1. JobTyped(job[w], rows, known)
  BY DEF Typed
<1>2. job[w].kind = "run" /\ UNCHANGED <<rows, verdict, summary, known, begun, reasons>>
  BY DEF RunSkips
<1>3. ASSUME NEW s \in job[w].todo, Goes(w, [job[w] EXCEPT !.todo = @ \ {s}], {}) PROVE Typed'
  <2> DEFINE j == [job[w] EXCEPT !.todo = @ \ {s}]
  <2>1. /\ JobFields \subseteq DOMAIN j /\ j.todo = job[w].todo \ {s} /\ j.on = job[w].on
        /\ j.off = job[w].off /\ j.built = job[w].built /\ j.days = job[w].days
        /\ j.step = job[w].step /\ j.kind = job[w].kind /\ j.settled = job[w].settled
        /\ j.clean = job[w].clean /\ j.day = job[w].day /\ j.at = job[w].at
        /\ j.read = job[w].read /\ j.verdict = job[w].verdict /\ j.failed = job[w].failed
    BY <1>1 DEF JobTyped, JobFields
  <2>2. Goes(w, j, {})
    BY <1>3
  <2> HIDE DEF j
  <2>3. JobOK(j)
    BY <1>1, <2>1 DEF JobTyped, JobOK
  <2>4. JobTyped(j, rows, known)
    BY <1>1, <1>2, <2>1, <2>3 DEF JobTyped, CoversDays
  <2>5. QED
    BY <1>2, <2>2, <2>4, OnlyTheJobTyped
<1>4. ASSUME NEW r \in job[w].built, Goes(w, [job[w] EXCEPT !.built = @ \ {r}], {}) PROVE Typed'
  <2> DEFINE j == [job[w] EXCEPT !.built = @ \ {r}]
  <2>1. /\ JobFields \subseteq DOMAIN j /\ j.todo = job[w].todo /\ j.on = job[w].on
        /\ j.off = job[w].off /\ j.built = job[w].built \ {r} /\ j.days = job[w].days
        /\ j.step = job[w].step /\ j.kind = job[w].kind /\ j.settled = job[w].settled
        /\ j.clean = job[w].clean /\ j.day = job[w].day /\ j.at = job[w].at
        /\ j.read = job[w].read /\ j.verdict = job[w].verdict /\ j.failed = job[w].failed
    BY <1>1 DEF JobTyped, JobFields
  <2>2. Goes(w, j, {})
    BY <1>4
  <2> HIDE DEF j
  <2>3. JobOK(j)
    BY <1>1, <2>1 DEF JobTyped, JobOK
  <2>4. JobTyped(j, rows, known)
    BY <1>1, <1>2, <2>1, <2>3 DEF JobTyped, CoversDays
  <2>5. QED
    BY <1>2, <2>2, <2>4, OnlyTheJobTyped
<1>5. QED
  BY <1>3, <1>4 DEF RunSkips

LEMMA UpsertTyped ==
  ASSUME Typed, NEW w \in Worker, NEW r \in job[w].built, upsertSessionAggregate(w, r)
  PROVE  Typed'
<1> DEFINE q == [r EXCEPT !.flag = StoredFlag(r)]
           s == r.session
           items == {r.session, r.day} \cup DaysOfRow(r.session)
           j == [job[w] EXCEPT !.built = @ \ {r}, !.days = @ \cup {r.day},
                               !.settled = IF known THEN @ \cup {r.session} ELSE @]
<1>1. /\ rows' = [rows EXCEPT ![s] = q] /\ UNCHANGED <<verdict, summary, known, begun>>
      /\ Goes(w, j, items) /\ job[w].kind \in {"persist", "run"}
      /\ reasons' = IF r.failedRule THEN reasons \cup {s} ELSE reasons
  BY DEF upsertSessionAggregate
<1>2. JobTyped(job[w], rows, known) /\ TablesTyped
  BY TypedTables DEF Typed
<1>3. r \in Row /\ s \in Session /\ r.day \in Day /\ r.flag \in BOOLEAN
  BY <1>2, RowReads DEF JobTyped, JobOK
<1>4. StoredFlag(r) \in BOOLEAN
  <2>1. (rows[s] # NoRow /\ rows[s].flag) \in BOOLEAN
    OBVIOUS
  <2>2. QED
    BY <1>3, <2>1 DEF StoredFlag
<1>5. q \in Row /\ q.session = s
  BY <1>3, <1>4, RowFlagged
<1> HIDE DEF q
<1>6. rows'[s] = q /\ DOMAIN rows' = Session /\ \A t \in Session \ {s} : rows'[t] = rows[t]
  BY <1>1, <1>2, <1>3 DEF TablesTyped
<1>7. TablesTyped'
  BY <1>1, <1>2, <1>3, <1>5, <1>6 DEF TablesTyped, IsTyped
<1>8. \A t \in Session \ items : rows'[t] = rows[t]
  BY <1>6
<1> HIDE DEF items
<1>9. /\ JobFields \subseteq DOMAIN j /\ j.todo = job[w].todo /\ j.on = job[w].on
      /\ j.off = job[w].off /\ j.built = job[w].built \ {r}
      /\ j.step = job[w].step /\ j.kind = job[w].kind /\ j.clean = job[w].clean
      /\ j.settled = IF known THEN job[w].settled \cup {s} ELSE job[w].settled
      /\ j.days = job[w].days \cup {r.day} /\ j.day = job[w].day /\ j.at = job[w].at
      /\ j.read = job[w].read /\ j.verdict = job[w].verdict /\ j.failed = job[w].failed
  BY <1>2 DEF JobTyped, JobFields
<1> HIDE DEF j
<1>10. JobOK(j)
  BY <1>2, <1>3, <1>9 DEF JobTyped, JobOK
<1>11. JobTyped(j, rows', known')
  BY <1>1, <1>2, <1>9, <1>10 DEF JobTyped, CoversDays
<1>12. known => known'
  BY <1>1
<1>13. QED
  BY <1>1, <1>7, <1>8, <1>11, <1>12, WorkersTyped

LEMMA VerdictTyped ==
  ASSUME Typed, NEW w \in Worker, NEW s \in Session, NEW v \in Verdicts,
         NEW posted \in BOOLEAN, SaveVerdict(w, s, v, posted)
  PROVE  Typed'
<1> DEFINE j == [NoJob EXCEPT !.kind = "judge", !.todo = {s}, !.verdict = v,
                              !.step = IF posted THEN "row" ELSE "verdict", !.clean = {s}]
           i == [NoJob EXCEPT !.kind = "judge"]
           k == IF known THEN j ELSE i
<1>1. /\ rows' = rows /\ verdict' = [verdict EXCEPT ![s] = v] /\ summary' = summary
      /\ known' = known /\ begun < MaxJobs /\ begun' = begun + 1 /\ Goes(w, k, {s})
      /\ reasons' = IF qualityEvaluationHasLLMIssue(v) THEN reasons \cup {s} ELSE reasons
  BY DEF SaveVerdict, Begins
<1>2. TablesTyped'
  <2>1. verdict' \in [Session -> Verdicts \cup {NoVerdict}] /\ reasons' \subseteq Session
    BY <1>1, TypedTables DEF TablesTyped
  <2>2. QED
    BY <1>1, <2>1, TypedTables, BegunTyped DEF TablesTyped
<1>3. JobTyped(j, rows', known')
  <2>1. /\ JobFields \subseteq DOMAIN j /\ j.todo = {s} /\ j.built = {} /\ j.on = {}
        /\ j.off = {} /\ j.settled = {} /\ j.days = {} /\ j.kind = "judge" /\ j.verdict = v
        /\ j.step \in {"row", "verdict"} /\ j.clean = {s} /\ j.day = 0 /\ j.at = 0
        /\ j.failed \in BOOLEAN /\ j.read.sessions = 0
    BY DEF NoJob, JobFields, NoSummary
  <2> HIDE DEF j
  <2>2. /\ j.verdict \in Verdicts \cup {NoVerdict} /\ j.todo \cup j.on \cup j.off \subseteq Session
        /\ j.built \subseteq Row /\ j.days \subseteq Day
        /\ j.settled \cup j.clean \subseteq Session \cup Day
    BY <2>1
  <2>3. JobOK(j)
    BY <2>1, <2>2 DEF JobOK
  <2>4. QED
    BY <2>1, <2>3 DEF JobTyped, CoversDays
<1>4. JobTyped(i, rows', known')
  BY DEF JobTyped, JobOK, CoversDays, NoJob, JobFields, NoSummary
<1> HIDE DEF i, j
<1>5. JobTyped(k, rows', known')
  BY <1>3, <1>4
<1> HIDE DEF k
<1>6. QED
  BY <1>1, <1>2, <1>5, WorkersTyped

LEMMA JudgementTyped ==
  ASSUME Typed, NEW w \in Worker, NEW s \in Session,
         job[w].step \in {"verdict", "row"} => job[w].kind = "judge",
         refreshAggregateIssueForSessionID(w, s) \/ ReadRow(w, s)
  PROVE  Typed'
<1>0. JobTyped(job[w], rows, known) /\ TablesTyped /\ job[w].kind = "judge"
      /\ UNCHANGED <<rows, verdict, summary, known, begun, reasons>>
  BY TypedTables DEF Typed, refreshAggregateIssueForSessionID, ReadRow
<1>1. CASE refreshAggregateIssueForSessionID(w, s)
  <2> DEFINE j == [job[w] EXCEPT !.verdict = verdict[s], !.step = "row", !.clean = @ \cup {s}]
  <2>1. /\ JobFields \subseteq DOMAIN j /\ j.todo = job[w].todo /\ j.built = job[w].built
        /\ j.on = job[w].on /\ j.off = job[w].off /\ j.kind = job[w].kind
        /\ j.verdict = verdict[s] /\ j.step = "row" /\ j.settled = job[w].settled
        /\ j.days = job[w].days /\ j.clean = job[w].clean \cup {s} /\ j.day = job[w].day
        /\ j.at = job[w].at /\ j.read = job[w].read /\ j.failed = job[w].failed
    BY <1>0 DEF JobTyped, JobFields
  <2>2. Goes(w, j, {})
    BY <1>1 DEF refreshAggregateIssueForSessionID
  <2> HIDE DEF j
  <2>3. verdict[s] \in Verdicts \cup {NoVerdict}
    BY <1>0 DEF TablesTyped
  <2>4. JobTyped(j, rows, known)
    BY <1>0, <2>1, <2>3 DEF JobTyped, JobOK, CoversDays
  <2>5. QED
    BY <1>0, <2>2, <2>4, OnlyTheJobTyped
<1>2. CASE ReadRow(w, s) /\ rows[s] = NoRow
  <2> DEFINE j == [job[w] EXCEPT !.todo = {}, !.step = "write"]
  <2>1. /\ JobFields \subseteq DOMAIN j /\ j.todo = {} /\ j.built = job[w].built
        /\ j.on = job[w].on /\ j.off = job[w].off /\ j.kind = job[w].kind
        /\ j.verdict = job[w].verdict /\ j.step = "write" /\ j.settled = job[w].settled
        /\ j.days = job[w].days /\ j.clean = job[w].clean /\ j.day = job[w].day
        /\ j.at = job[w].at /\ j.read = job[w].read /\ j.failed = job[w].failed
    BY <1>0 DEF JobTyped, JobFields
  <2>2. Goes(w, j, {})
    BY <1>2 DEF ReadRow
  <2> HIDE DEF j
  <2>3. JobTyped(j, rows, known)
    BY <1>0, <2>1 DEF JobTyped, JobOK, CoversDays
  <2>4. QED
    BY <1>0, <2>2, <2>3, OnlyTheJobTyped
<1>3. CASE ReadRow(w, s) /\ rows[s] # NoRow
  <2> DEFINE f == aggregateIssueFlagForSession(rows[s].failedRule, job[w].verdict)
             r == [rows[s] EXCEPT !.flag = f]
             j == [job[w] EXCEPT !.todo = {}, !.step = "mark", !.built = {r}]
  <2>1. r \in Row
    <3>1. rows[s] \in Row /\ f \in BOOLEAN
      BY <1>0, <1>3, FlagIsBoolean DEF TablesTyped, IsTyped
    <3> HIDE DEF f
    <3>2. QED
      BY <3>1, RowFlagged
  <2>2. Goes(w, j, {})
    BY <1>3 DEF ReadRow
  <2> HIDE DEF r
  <2>3. /\ JobFields \subseteq DOMAIN j /\ j.todo = {} /\ j.built = {r}
        /\ j.on = job[w].on /\ j.off = job[w].off /\ j.kind = job[w].kind
        /\ j.verdict = job[w].verdict /\ j.step = "mark" /\ j.settled = job[w].settled
        /\ j.days = job[w].days /\ j.clean = job[w].clean /\ j.day = job[w].day
        /\ j.at = job[w].at /\ j.read = job[w].read /\ j.failed = job[w].failed
    BY <1>0 DEF JobTyped, JobFields
  <2> HIDE DEF j
  <2>4. JobTyped(j, rows, known)
    BY <1>0, <2>1, <2>3 DEF JobTyped, JobOK, CoversDays
  <2>5. QED
    BY <1>0, <2>2, <2>4, OnlyTheJobTyped
<1>4. QED
  BY <1>1, <1>2, <1>3

\* Setting the flag of a row, if there is one.
LEMMA FlaggedTyped ==
  ASSUME NEW r, NEW s \in Session, IsTyped(r, s), NEW f \in BOOLEAN
  PROVE  /\ IsTyped([r EXCEPT !.flag = f], s)
         /\ [r EXCEPT !.flag = f] # NoRow => r # NoRow /\ [r EXCEPT !.flag = f].day = r.day
<1>1. CASE r = NoRow
  BY <1>1, NoRowFlagged DEF IsTyped
<1>2. CASE r # NoRow
  BY <1>2, RowFlagged DEF IsTyped
<1>3. QED
  BY <1>1, <1>2

LEMMA MarkTyped ==
  ASSUME Typed, NEW w \in Worker, NEW r \in job[w].built,
         job[w].step = "mark" => job[w].kind = "judge",
         refreshAggregateIssueForQualityEvaluation(w, r)
  PROVE  Typed'
<1> DEFINE s == r.session
           items == {r.session} \cup DaysOfRow(r.session)
           q == [rows[s] EXCEPT !.flag = r.flag]
           j == [job[w] EXCEPT !.built = {}, !.step = "write", !.verdict = NoVerdict,
                               !.days = {r.day}, !.settled = {r.session}]
<1>1. /\ rows' = [rows EXCEPT ![s] = q] /\ UNCHANGED <<verdict, summary, known, begun, reasons>>
      /\ Goes(w, j, items) /\ job[w].kind = "judge"
  BY DEF refreshAggregateIssueForQualityEvaluation
<1>2. JobTyped(job[w], rows, known) /\ TablesTyped
  BY TypedTables DEF Typed
<1>3. r \in Row /\ s \in Session /\ r.day \in Day /\ r.flag \in BOOLEAN
  BY <1>2, RowReads DEF JobTyped, JobOK
<1>4. IsTyped(q, s)
  BY <1>2, <1>3, FlaggedTyped DEF TablesTyped
<1> HIDE DEF q
<1>5. rows'[s] = q /\ DOMAIN rows' = Session /\ \A t \in Session \ {s} : rows'[t] = rows[t]
  BY <1>1, <1>2, <1>3 DEF TablesTyped
<1>6. TablesTyped'
  <2>1. \A t \in Session : IsTyped(rows'[t], t)
    BY <1>2, <1>4, <1>5 DEF TablesTyped
  <2>2. QED
    BY <1>1, <1>2, <1>5, <2>1 DEF TablesTyped, IsTyped
<1>7. \A t \in Session \ items : rows'[t] = rows[t]
  BY <1>5
<1> HIDE DEF items
<1>8. /\ JobFields \subseteq DOMAIN j /\ j.todo = job[w].todo /\ j.built = {}
      /\ j.on = job[w].on /\ j.off = job[w].off /\ j.kind = job[w].kind
      /\ j.verdict = NoVerdict /\ j.step = "write" /\ j.settled = {s}
      /\ j.days = {r.day} /\ j.clean = job[w].clean /\ j.day = job[w].day
      /\ j.at = job[w].at /\ j.read = job[w].read /\ j.failed = job[w].failed
  BY <1>2 DEF JobTyped, JobFields
<1> HIDE DEF j
<1>9. JobTyped(j, rows', known')
  BY <1>1, <1>2, <1>3, <1>8 DEF JobTyped, JobOK, CoversDays
<1>10. known => known'
  BY <1>1
<1>11. QED
  BY <1>1, <1>6, <1>7, <1>9, <1>10, WorkersTyped
-----------------------------------------------------------------------------
LEMMA ScanTyped ==
  ASSUME Typed, NEW w \in Worker, NEW r \in job[w].built, Judge(w, r)
  PROVE  Typed'
<1>1. PICK readable \in Readable(r.session) :
        LET want == aggregateIssueFlagForSession(r.failedRule, VerdictRead(r.session, readable))
            j == [job[w] EXCEPT !.built = @ \ {r},
                                !.clean = IF readable THEN @ ELSE @ \ {r.session}]
        IN  Goes(w, IF want = r.flag THEN [j EXCEPT !.settled = @ \cup {r.session}]
                   ELSE IF want THEN [j EXCEPT !.on = @ \cup {r.session}]
                   ELSE [j EXCEPT !.off = @ \cup {r.session}], {})
  BY DEF Judge
<1> DEFINE s == r.session
           want == aggregateIssueFlagForSession(r.failedRule, VerdictRead(s, readable))
           clean == IF readable THEN job[w].clean ELSE job[w].clean \ {s}
           j == [job[w] EXCEPT !.built = @ \ {r}, !.clean = clean]
           k == IF want = r.flag THEN [j EXCEPT !.settled = @ \cup {s}]
                ELSE IF want THEN [j EXCEPT !.on = @ \cup {s}]
                ELSE [j EXCEPT !.off = @ \cup {s}]
<1>2. JobTyped(job[w], rows, known)
  BY DEF Typed
<1>3. /\ Goes(w, k, {}) /\ UNCHANGED <<rows, verdict, summary, known, begun, reasons>>
      /\ job[w].kind = "backfill"
  BY <1>1 DEF Judge
<1>4. s \in Session
  BY <1>2, RowReads DEF JobTyped, JobOK
<1>5. clean \subseteq job[w].clean
  OBVIOUS
<1> HIDE DEF clean, want, s
<1>6. /\ JobFields \subseteq DOMAIN k /\ k.todo = job[w].todo /\ k.built = job[w].built \ {r}
      /\ k.days = job[w].days /\ k.step = job[w].step /\ k.kind = job[w].kind
      /\ k.clean = clean /\ k.day = job[w].day /\ k.at = job[w].at
      /\ k.read = job[w].read /\ k.verdict = job[w].verdict /\ k.failed = job[w].failed
      /\ job[w].settled \subseteq k.settled /\ k.settled \subseteq job[w].settled \cup {s}
      /\ k.on \subseteq job[w].on \cup {s} /\ k.off \subseteq job[w].off \cup {s}
  <2>1. CASE want = r.flag
    BY <1>2, <2>1 DEF JobTyped, JobFields
  <2>2. CASE want # r.flag /\ want
    BY <1>2, <2>2 DEF JobTyped, JobFields
  <2>3. CASE want # r.flag /\ ~want
    BY <1>2, <2>3 DEF JobTyped, JobFields
  <2>4. QED
    BY <2>1, <2>2, <2>3
<1> HIDE DEF k
<1>7. JobOK(k)
  <2>1. k.built \subseteq Row /\ k.days \subseteq Day
    BY <1>2, <1>6 DEF JobTyped, JobOK
  <2>2. k.settled \cup k.clean \subseteq Session \cup Day
    BY <1>2, <1>4, <1>5, <1>6 DEF JobTyped, JobOK
  <2>3. k.todo \cup k.on \cup k.off \subseteq Session
    BY <1>2, <1>4, <1>6 DEF JobTyped, JobOK
  <2>4. /\ k.kind \in {"none", "persist", "run", "judge", "backfill"}
        /\ k.step \in {"write", "verdict", "row", "mark", "summarise"}
        /\ k.day \in Day \cup {0} /\ k.at \in Day \cup {0}
        /\ (k.kind = "run" /\ k.todo # {} => k.day \in Day)
        /\ k.verdict \in Verdicts \cup {NoVerdict}
        /\ k.failed \in BOOLEAN /\ k.read.sessions \in Nat
    BY <1>2, <1>6 DEF JobTyped, JobOK
  <2>5. QED
    BY <2>1, <2>2, <2>3, <2>4 DEF JobOK
<1>8. CoversDays(k, rows)
  BY <1>2, <1>5, <1>6 DEF JobTyped, CoversDays
<1>9. JobTyped(k, rows, known)
  BY <1>2, <1>6, <1>7, <1>8 DEF JobTyped
<1>10. QED
  BY <1>3, <1>9, OnlyTheJobTyped

LEMMA BulkTyped ==
  ASSUME Typed, NEW w \in Worker, bulkUpdateHasIssue(w)
  PROVE  Typed'
<1> DEFINE value == job[w].on # {}
           ids == IF value THEN job[w].on ELSE job[w].off
<1>1. PICK chunk \in kSubset(Min({Chunk, Cardinality(ids)}), ids) :
        /\ rows' = [s \in Session |-> IF s \in chunk THEN [rows[s] EXCEPT !.flag = value]
                                      ELSE rows[s]]
        /\ Goes(w, [job[w] EXCEPT !.on = @ \ chunk, !.off = @ \ chunk,
                                  !.settled = @ \cup chunk],
                chunk \cup UNION {DaysOfRow(s) : s \in chunk})
  BY DEF bulkUpdateHasIssue
<1> DEFINE j == [job[w] EXCEPT !.on = @ \ chunk, !.off = @ \ chunk, !.settled = @ \cup chunk]
           items == chunk \cup UNION {DaysOfRow(s) : s \in chunk}
<1>2. JobTyped(job[w], rows, known) /\ TablesTyped
  BY TypedTables DEF Typed
<1>3. /\ UNCHANGED <<verdict, summary, known, begun, reasons>>
      /\ job[w].kind = "backfill" /\ Goes(w, j, items)
  BY <1>1 DEF bulkUpdateHasIssue
<1>4. chunk \subseteq Session
  BY <1>1, <1>2 DEF kSubset, JobTyped, JobOK
<1>5. value \in BOOLEAN
  OBVIOUS
<1> HIDE DEF value
<1>6. ASSUME NEW s \in Session
      PROVE  /\ IsTyped(rows'[s], s)
             /\ rows'[s] # NoRow => rows[s] # NoRow /\ rows'[s].day = rows[s].day
  <2>1. CASE s \in chunk
    <3>1. rows'[s] = [rows[s] EXCEPT !.flag = value] /\ IsTyped(rows[s], s)
      BY <1>1, <1>2, <2>1 DEF TablesTyped
    <3>2. QED
      BY <1>5, <3>1, FlaggedTyped
  <2>2. CASE s \notin chunk
    BY <1>1, <1>2, <2>2 DEF TablesTyped
  <2>3. QED
    BY <2>1, <2>2
<1>7. DOMAIN rows' = Session /\ \A s \in Session \ items : rows'[s] = rows[s]
  BY <1>1
<1>8. TablesTyped'
  BY <1>2, <1>3, <1>6, <1>7 DEF TablesTyped, IsTyped
<1>9. /\ JobFields \subseteq DOMAIN j /\ j.todo = job[w].todo /\ j.on = job[w].on \ chunk
      /\ j.off = job[w].off \ chunk /\ j.built = job[w].built /\ j.days = job[w].days
      /\ j.settled = job[w].settled \cup chunk /\ j.step = job[w].step
      /\ j.kind = job[w].kind /\ j.clean = job[w].clean /\ j.day = job[w].day
      /\ j.at = job[w].at /\ j.read = job[w].read /\ j.verdict = job[w].verdict
      /\ j.failed = job[w].failed
  BY <1>2 DEF JobTyped, JobFields
<1> HIDE DEF j, items
<1>10. JobOK(j)
  <2>1. j.settled \cup j.clean \subseteq Session \cup Day
    BY <1>2, <1>4, <1>9 DEF JobTyped, JobOK
  <2>2. j.todo \cup j.on \cup j.off \subseteq Session
    BY <1>2, <1>9 DEF JobTyped, JobOK
  <2>3. /\ j.kind \in {"none", "persist", "run", "judge", "backfill"}
        /\ j.step \in {"write", "verdict", "row", "mark", "summarise"}
        /\ j.day \in Day \cup {0} /\ j.at \in Day \cup {0}
        /\ (j.kind = "run" /\ j.todo # {} => j.day \in Day)
        /\ j.verdict \in Verdicts \cup {NoVerdict}
        /\ j.built \subseteq Row /\ j.days \subseteq Day
        /\ j.failed \in BOOLEAN /\ j.read.sessions \in Nat
    BY <1>2, <1>9 DEF JobTyped, JobOK
  <2>4. QED
    BY <2>1, <2>2, <2>3 DEF JobOK
<1>11. CoversDays(j, rows')
  <2>1. CoversDays(job[w], rows)
    BY <1>2 DEF JobTyped
  <2>2. QED
    BY <1>6, <1>9, <2>1 DEF CoversDays
<1>12. JobTyped(j, rows', known')
  BY <1>2, <1>3, <1>9, <1>10, <1>11 DEF JobTyped
<1>13. known => known'
  BY <1>3
<1>14. QED
  BY <1>3, <1>7, <1>8, <1>12, <1>13, WorkersTyped

LEMMA SummaryTyped ==
  ASSUME Typed, NEW w \in Worker,
         (\E d \in Day : refreshDailySummary(w, d)) \/ upsertDailySummary(w) \/ RefreshFails(w)
  PROVE  Typed'
<1>0. JobTyped(job[w], rows, known) /\ TablesTyped
  BY TypedTables DEF Typed
<1>1. ASSUME NEW d \in Day, refreshDailySummary(w, d) PROVE Typed'
  <2> DEFINE read == buildDailySummaryFromAggregateRows(RowsOf(d))
             j == [job[w] EXCEPT !.step = "summarise", !.at = d, !.clean = @ \cup {d},
                                 !.read = read]
  <2>1. Goes(w, j, {}) /\ UNCHANGED <<rows, verdict, summary, known, begun, reasons>>
        /\ d \in job[w].days
    BY <1>1 DEF refreshDailySummary
  <2>2. read.sessions \in Nat
    BY RowsAreFinite, SummaryCounts DEF Typed
  <2> HIDE DEF read
  <2>3. /\ JobFields \subseteq DOMAIN j /\ j.todo = job[w].todo /\ j.on = job[w].on
        /\ j.off = job[w].off /\ j.built = job[w].built /\ j.days = job[w].days
        /\ j.settled = job[w].settled /\ j.step = "summarise" /\ j.kind = job[w].kind
        /\ j.clean = job[w].clean \cup {d} /\ j.at = d /\ j.read = read
        /\ j.day = job[w].day /\ j.verdict = job[w].verdict /\ j.failed = job[w].failed
    BY <1>0 DEF JobTyped, JobFields
  <2> HIDE DEF j
  <2>4. JobOK(j)
    BY <1>0, <2>2, <2>3 DEF JobTyped, JobOK
  <2>5. CoversDays(j, rows)
    <3>1. d \notin Session
      BY SessionsAreNotDays
    <3>2. QED
      BY <1>0, <2>1, <2>3, <3>1 DEF JobTyped, CoversDays
  <2>6. JobTyped(j, rows, known)
    BY <1>0, <2>3, <2>4, <2>5 DEF JobTyped
  <2>7. QED
    BY <2>1, <2>6, OnlyTheJobTyped
<1>2. ASSUME upsertDailySummary(w) PROVE Typed'
  <2> DEFINE d == job[w].at
             j == [job[w] EXCEPT !.step = "write", !.days = @ \ {job[w].at}, !.at = 0,
                     !.read = NoSummary, !.settled = @ \cup {job[w].at}]
  <2>1. /\ Goes(w, j, {d}) /\ UNCHANGED <<rows, verdict, known, begun, reasons>>
        /\ summary' = [summary EXCEPT ![d] = job[w].read] /\ d \in Day
    BY <1>0, <1>2 DEF upsertDailySummary, JobTyped
  <2>2. /\ JobFields \subseteq DOMAIN j /\ j.todo = job[w].todo /\ j.on = job[w].on
        /\ j.off = job[w].off /\ j.built = job[w].built /\ j.days = job[w].days \ {d}
        /\ j.settled = job[w].settled \cup {d} /\ j.step = "write" /\ j.kind = job[w].kind
        /\ j.clean = job[w].clean /\ j.at = 0 /\ j.read.sessions = 0
        /\ j.day = job[w].day /\ j.verdict = job[w].verdict /\ j.failed = job[w].failed
    BY <1>0 DEF JobTyped, JobFields, NoSummary
  <2>3. TablesTyped'
    BY <1>0, <2>1 DEF TablesTyped, IsTyped, JobTyped, JobOK
  <2> HIDE DEF j
  <2>4. JobOK(j)
    BY <1>0, <2>1, <2>2 DEF JobTyped, JobOK
  <2>5. CoversDays(j, rows')
    BY <1>0, <2>1, <2>2 DEF JobTyped, CoversDays
  <2>6. JobTyped(j, rows', known')
    BY <1>0, <2>1, <2>2, <2>4, <2>5 DEF JobTyped
  <2>7. /\ \A s \in Session \ {d} : rows'[s] = rows[s]
        /\ known => known'
    BY <2>1
  <2>8. QED
    BY <2>1, <2>3, <2>6, <2>7, WorkersTyped
<1>3. ASSUME RefreshFails(w) PROVE Typed'
  <2> DEFINE j == [job[w] EXCEPT !.step = "write", !.days = @ \ {job[w].at}, !.at = 0,
                     !.read = NoSummary, !.failed = TRUE]
  <2>1. Goes(w, j, {}) /\ UNCHANGED <<rows, verdict, summary, known, begun, reasons>>
    BY <1>3 DEF RefreshFails
  <2>2. /\ JobFields \subseteq DOMAIN j /\ j.todo = job[w].todo /\ j.on = job[w].on
        /\ j.off = job[w].off /\ j.built = job[w].built /\ j.days \subseteq job[w].days
        /\ j.settled = job[w].settled /\ j.step = "write" /\ j.kind = job[w].kind
        /\ j.clean = job[w].clean /\ j.at = 0 /\ j.read.sessions = 0
        /\ j.day = job[w].day /\ j.verdict = job[w].verdict /\ j.failed /\ j.failed \in BOOLEAN
    BY <1>0 DEF JobTyped, JobFields, NoSummary
  <2> HIDE DEF j
  <2>3. JobOK(j)
    BY <1>0, <2>2 DEF JobTyped, JobOK
  <2>4. JobTyped(j, rows, known)
    BY <1>0, <2>2, <2>3 DEF JobTyped, CoversDays
  <2>5. QED
    BY <2>1, <2>4, OnlyTheJobTyped
<1>4. QED
  BY <1>1, <1>2, <1>3

LEMMA ColumnTyped ==
  ASSUME Typed, apiSessionAggregateColumns
  PROVE  Typed'
<1>1. /\ known' = TRUE /\ UNCHANGED <<rows, verdict, summary, job, begun, reasons>>
  BY DEF apiSessionAggregateColumns
<1>2. \A w \in Worker : JobTyped(job'[w], rows', known')
  BY <1>1 DEF Typed, JobTyped, CoversDays
<1>3. QED
  BY <1>1, <1>2 DEF Typed, IssueTypeOK
-----------------------------------------------------------------------------
LEMMA TypedAtFirst == Init => Typed
<1> SUFFICES ASSUME Init PROVE Typed
  OBVIOUS
<1>1. PICK have \in [Session -> Content \cup {NoRow}], v \in Verdicts \cup {NoVerdict} :
        /\ rows = [s \in Session |-> IF have[s] = NoRow THEN NoRow
                                     ELSE RowOf(s, have[s].started, known, have[s])]
        /\ verdict = [s \in Session |-> v]
  BY DEF Init
<1>2. known \in BOOLEAN
  BY DEF Init
<1>3. ASSUME NEW s \in Session PROVE IsTyped(rows[s], s)
  <2>1. CASE have[s] = NoRow
    BY <1>1, <2>1 DEF IsTyped
  <2>2. CASE have[s] # NoRow
    <3>1. have[s] \in Content /\ have[s].started \in Day
      BY <2>2, ContentAssumption
    <3>2. rows[s] = RowOf(s, have[s].started, known, have[s])
      BY <1>1, <2>2
    <3>3. rows[s] \in Row
      BY <1>2, <3>1, <3>2 DEF Row
    <3>4. rows[s].session = s
      BY <3>2 DEF RowOf
    <3>5. QED
      BY <3>3, <3>4 DEF IsTyped
  <2>3. QED
    BY <2>1, <2>2
<1>4. \A d \in Day : summary[d].sessions \in Nat
  BY RowsAreFinite, SummaryCounts DEF Init
<1>5. verdict \in [Session -> Verdicts \cup {NoVerdict}]
  BY <1>1
<1>6. \A w \in Worker : JobTyped(job[w], rows, known)
  BY NewJobTyped DEF Init
<1>7. begun \in 0 .. MaxJobs /\ reasons \subseteq Session /\ DOMAIN summary = Day
  BY ContentAssumption DEF Init
<1>8. DOMAIN rows = Session
  BY <1>1
<1>9. QED
  BY <1>2, <1>3, <1>4, <1>5, <1>6, <1>7, <1>8 DEF Typed, IssueTypeOK, IsTyped, JobTyped

LEMMA TypedStays == ReasonsKnown /\ Typed /\ [Next]_vars => Typed'
<1> SUFFICES ASSUME ReasonsKnown, Typed, [Next]_vars PROVE Typed'
  OBVIOUS
<1>0. \A w \in Worker : job[w].step \in {"verdict", "row", "mark"} => job[w].kind = "judge"
  BY DEF ReasonsKnown, JobReasoned
<1>1. CASE apiSessionAggregateColumns
  BY <1>1, ColumnTyped
<1>2. ASSUME NEW w \in Worker, NEW s \in Session, NEW v \in Verdicts, NEW posted \in BOOLEAN,
             SaveVerdict(w, s, v, posted)
      PROVE  Typed'
  BY <1>2, VerdictTyped
<1>3. ASSUME NEW w \in Worker, NEW s \in Session,
             refreshAggregateIssueForSessionID(w, s) \/ ReadRow(w, s)
      PROVE  Typed'
  BY <1>0, <1>3, JudgementTyped
<1>4. ASSUME NEW w \in Worker, NEW r \in job[w].built,
             \/ upsertSessionAggregate(w, r) \/ Judge(w, r)
             \/ refreshAggregateIssueForQualityEvaluation(w, r)
      PROVE  Typed'
  BY <1>0, <1>4, UpsertTyped, ScanTyped, MarkTyped
<1>5. ASSUME NEW w \in Worker, NEW s \in Session, Build(w, s) PROVE Typed'
  BY <1>5, BuildTyped
<1>6. ASSUME NEW w \in Worker,
             \/ \E s \in Session : PersistBundle(w, s)
             \/ \E listed \in kSubset(MaxListed, Session), d \in Day : run(w, listed, d)
             \/ \E d \in Day : backfillIssueFlags(w, {d})
             \/ backfillIssueFlags(w, Day)
             \/ Fails(w)
      PROVE  Typed'
  <2>1. kSubset(MaxListed, Session) \subseteq SUBSET Session /\ Day \in SUBSET Day
        /\ \A d \in Day : {d} \in SUBSET Day
    BY DEF kSubset
  <2>2. QED
    BY <1>6, <2>1, StartsTyped
<1>7. ASSUME NEW w \in Worker,
             \/ RunSkips(w) \/ bulkUpdateHasIssue(w)
             \/ (\E d \in Day : refreshDailySummary(w, d))
             \/ upsertDailySummary(w) \/ RefreshFails(w)
      PROVE  Typed'
  BY <1>7, RunSkipsTyped, BulkTyped, SummaryTyped
<1>8. CASE UNCHANGED vars
  BY <1>8 DEF vars, Typed, IssueTypeOK, JobOK, JobTyped, CoversDays
<1>9. QED
  BY <1>1, <1>2, <1>3, <1>4, <1>5, <1>6, <1>7, <1>8 DEF Next

(* The rows, the verdicts, the summaries and what every writer holds have  *)
(* the types the code gives them; a scheduled run that still has sessions  *)
(* to read has a day to put them on.                                       *)
THEOREM IssueTypesKept == Spec => []IssueTypeOK
<1>1. Typed => IssueTypeOK
  BY DEF Typed
<1>2. QED
  BY <1>1, ReasonsAtFirst, ReasonsStay, TypedAtFirst, TypedStays, PTL DEF Spec
-----------------------------------------------------------------------------
(***************************************************************************)
(* The fourth theorem: the list's total, whatever the daily summaries say. *)
(***************************************************************************)
LEMMA MaxOfTwo ==
  ASSUME NEW a \in Int, NEW b \in Int
  PROVE  Max({a, b}) = IF a >= b THEN a ELSE b
<1> DEFINE top == IF a >= b THEN a ELSE b
<1>1. top \in {a, b} /\ \A y \in {a, b} : top >= y
  OBVIOUS
<1>2. \A x \in {a, b} : (\A y \in {a, b} : x >= y) => x = top
  OBVIOUS
<1> HIDE DEF top
<1>3. Max({a, b}) = top
  BY <1>1, <1>2 DEF Max
<1>4. QED
  BY <1>3 DEF top

LEMMA MinOfTwo ==
  ASSUME NEW a \in Int, NEW b \in Int
  PROVE  Min({a, b}) = IF a <= b THEN a ELSE b
<1> DEFINE low == IF a <= b THEN a ELSE b
<1>1. low \in {a, b} /\ \A y \in {a, b} : low <= y
  OBVIOUS
<1>2. \A x \in {a, b} : (\A y \in {a, b} : x <= y) => x = low
  OBVIOUS
<1> HIDE DEF low
<1>3. Min({a, b}) = low
  BY <1>1, <1>2 DEF Min
<1>4. QED
  BY <1>3 DEF low

(* Of any page of any range: the total is past the page's end exactly when *)
(* more rows are.                                                          *)
LEMMA TotalShowsMore ==
  ASSUME Typed, NEW lo \in Day, NEW hi \in Day, NEW limit \in Nat, limit >= 1, NEW offset \in Nat
  PROVE  (ListTotal(Rows, summary, lo, hi, limit, offset)
             > offset + PageLength(Rows, lo, hi, limit, offset))
         <=> Cardinality(StartedIn(Rows, lo, hi)) > offset + limit
<1> DEFINE n == Cardinality(StartedIn(Rows, lo, hi))
           length == PageLength(Rows, lo, hi, limit, offset)
           counted == countSessionsFromDailySummary(summary, lo, hi)
<1>1. n \in Nat
  <2>1. StartedIn(Rows, lo, hi) \subseteq Rows
    BY DEF StartedIn
  <2>2. QED
    BY <2>1, RowsAreFinite, FS_Subset, FS_CardinalityType
<1>2. counted \in Int
  <2> DEFINE f == [d \in lo .. hi |-> summary[d].sessions]
  <2>1. lo .. hi \subseteq Day /\ lo \in Int /\ hi \in Int
    BY DaysAreConsecutive
  <2>2. DOMAIN f = lo .. hi /\ \A d \in lo .. hi : f[d] \in Nat
    BY <2>1 DEF Typed, IssueTypeOK
  <2>3. IsFiniteSet(lo .. hi)
    BY <2>1, FS_Interval
  <2>4. counted = SumFunctionOnSet(f, lo .. hi)
    BY <2>2 DEF countSessionsFromDailySummary, SumFunction, SumFunctionOnSet, FoldFunction
  <2> HIDE DEF f, counted
  <2>5. SumFunctionOnSet(f, lo .. hi) \in Nat
    BY <2>2, <2>3, SumIsNat
  <2>6. QED
    BY <2>4, <2>5
<1>3. /\ length \in Int
      /\ n - offset > limit => length = limit
  <2> DEFINE left == IF 0 >= n - offset THEN 0 ELSE n - offset
  <2>1. Max({0, n - offset}) = left /\ left \in Int
    BY <1>1, MaxOfTwo
  <2>2. length = Min({limit, left})
    BY <2>1 DEF PageLength
  <2>3. length = IF limit <= left THEN limit ELSE left
    BY <2>1, <2>2, MinOfTwo
  <2> HIDE DEF n, length
  <2>4. QED
    BY <1>1, <2>1, <2>3
<1>4. Truncated(Rows, lo, hi, limit, offset) <=> n - offset > limit
  BY DEF Truncated
<1>5. ListTotal(Rows, summary, lo, hi, limit, offset)
        = IF n - offset > limit THEN Max({counted, offset + length + 1}) ELSE offset + length
  BY <1>4 DEF ListTotal
<1> HIDE DEF n, length, counted
<1>6. Max({counted, offset + length + 1})
        = IF counted >= offset + length + 1 THEN counted ELSE offset + length + 1
  BY <1>2, <1>3, MaxOfTwo
<1>7. QED
  BY <1>1, <1>2, <1>3, <1>5, <1>6 DEF n, length

(* The list never says that the page it shows is the last when it is not,  *)
(* nor that there is more when there is not, however stale the summaries.  *)
THEOREM ListsShowThereIsMore == Spec => []ListShowsThereIsMore
<1>1. Typed => ListShowsThereIsMore
  <2> SUFFICES ASSUME Typed, NEW lo \in Day, NEW hi \in Day, NEW offset \in 0 .. 1
               PROVE  (ListTotal(Rows, summary, lo, hi, 1, offset)
                         > offset + PageLength(Rows, lo, hi, 1, offset))
                      <=> Cardinality(StartedIn(Rows, lo, hi)) > offset + 1
    BY DEF ListShowsThereIsMore
  <2>1. offset \in Nat /\ 1 \in Nat /\ 1 >= 1
    OBVIOUS
  <2>2. QED
    BY <2>1, TotalShowsMore
<1>2. QED
  BY <1>1, ReasonsAtFirst, ReasonsStay, TypedAtFirst, TypedStays, PTL DEF Spec
-----------------------------------------------------------------------------
(***************************************************************************)
(* The fifth theorem: the pages agree after a backfill.                    *)
(***************************************************************************)
\* A mean is within half a hundredth of what it is the mean of,
LEMMA MeanIsNear ==
  ASSUME NEW n \in Int, NEW m \in Int, m >= 1
  PROVE  /\ round2(n, m) \in Int
         /\ -m <= 2 * (round2(n, m) * m) - 200 * n
         /\ 2 * (round2(n, m) * m) - 200 * n <= m
<1> DEFINE q == (200 * n + m) \div (2 * m)
<1>1. 200 * n + m \in Int /\ 2 * m \in Int /\ 2 * m >= 1
  OBVIOUS
<1>2. q \in Int /\ (2 * m) * q <= 200 * n + m /\ 200 * n + m < (2 * m) * q + 2 * m
  BY <1>1, Quotient
<1>3. round2(n, m) = q
  BY DEF round2
<1> HIDE DEF q
<1>4. (2 * m) * q = 2 * (q * m) /\ q * m \in Int
  BY <1>2
<1>5. QED
  BY <1>2, <1>3, <1>4

\* and the mean of such means within one of the mean of all.
LEMMA MeanOfMeansIsNear ==
  ASSUME NEW n \in Int, NEW s \in Int, NEW m \in Int, m >= 1,
         -m <= 2 * s - 200 * n, 2 * s - 200 * n <= m
  PROVE  Near((2 * s + m) \div (2 * m), round2(n, m))
<1> DEFINE w == (2 * s + m) \div (2 * m)
           e == (200 * n + m) \div (2 * m)
<1>1. 200 * n + m \in Int /\ 2 * s + m \in Int /\ 2 * m \in Int /\ 2 * m >= 1
  OBVIOUS
<1>2. w \in Int /\ (2 * m) * w <= 2 * s + m /\ 2 * s + m < (2 * m) * w + 2 * m
  BY <1>1, Quotient
<1>3. e \in Int /\ (2 * m) * e <= 200 * n + m /\ 200 * n + m < (2 * m) * e + 2 * m
  BY <1>1, Quotient
<1>4. round2(n, m) = e
  BY DEF round2
<1> HIDE DEF w, e
<1>5. (2 * m) * w \in Int /\ (2 * m) * e \in Int
  BY <1>2, <1>3
<1>6. (2 * m) * w < (2 * m) * e + 3 * m /\ (2 * m) * e < (2 * m) * w + 3 * m
  BY <1>2, <1>3, <1>5
<1>7. ASSUME NEW x \in Int, NEW y \in Int, (2 * m) * x < (2 * m) * y + 3 * m
      PROVE  x - y <= 1
  <2>1. SUFFICES ASSUME x - y >= 2 PROVE FALSE
    OBVIOUS
  <2> DEFINE k == x - y - 2
  <2>2. k \in Nat /\ x = y + 2 + k
    BY <2>1
  <2> HIDE DEF k
  <2>3. (2 * m) * x = (2 * m) * y + 4 * m + 2 * (m * k)
    BY <2>2
  <2>4. m * k >= 0 /\ m * k \in Int
    BY <2>2
  <2>5. (2 * m) * y \in Int
    OBVIOUS
  <2>6. QED
    BY <1>7, <2>3, <2>4, <2>5
<1>8. w - e <= 1 /\ e - w <= 1
  BY <1>2, <1>3, <1>6, <1>7
<1>9. w - e \in -1 .. 1
  BY <1>2, <1>3, <1>8
<1>10. QED
  BY <1>4, <1>9 DEF Near, w

LEMMA SumsAreNear ==
  ASSUME NEW n, NEW s, NEW m, NEW D, IsFiniteSet(D),
         \A d \in D : /\ n[d] \in Int /\ s[d] \in Int /\ m[d] \in Int
                      /\ -m[d] <= 2 * s[d] - 200 * n[d]
                      /\ 2 * s[d] - 200 * n[d] <= m[d]
  PROVE  /\ -SumFunctionOnSet(m, D) <= 2 * SumFunctionOnSet(s, D) - 200 * SumFunctionOnSet(n, D)
         /\ 2 * SumFunctionOnSet(s, D) - 200 * SumFunctionOnSet(n, D) <= SumFunctionOnSet(m, D)
<1> DEFINE OK(T) ==
      /\ -SumFunctionOnSet(m, T) <= 2 * SumFunctionOnSet(s, T) - 200 * SumFunctionOnSet(n, T)
      /\ 2 * SumFunctionOnSet(s, T) - 200 * SumFunctionOnSet(n, T) <= SumFunctionOnSet(m, T)
           Bad == {T \in SUBSET D : ~OK(T)}
<1>1. SUFFICES ASSUME Bad # {} PROVE FALSE
  OBVIOUS
<1>2. PICK T \in Bad : \A x \in T : T \ {x} \notin Bad
  <2>1. \A T \in Bad : IsFiniteSet(T)
    BY FS_Subset
  <2> HIDE DEF Bad
  <2>2. QED
    BY <1>1, <2>1, SmallestSet
<1>3. T \subseteq D /\ IsFiniteSet(T) /\ ~OK(T)
  BY FS_Subset
<1>4. CASE T = {}
  BY <1>3, <1>4, SumOfNone
<1>5. CASE T # {}
  <2>1. PICK x \in T : TRUE
    BY <1>5
  <2> DEFINE R == T \ {x}
  <2>2. OK(R) /\ IsFiniteSet(R)
    BY <1>2, <1>3, FS_Subset
  <2>3. /\ \A y \in T : n[y] \in Int
        /\ \A y \in T : s[y] \in Int
        /\ \A y \in T : m[y] \in Int
        /\ \A y \in R : n[y] \in Int
        /\ \A y \in R : s[y] \in Int
        /\ \A y \in R : m[y] \in Int
    BY <1>3
  <2>4. /\ SumFunctionOnSet(n, T) = n[x] + SumFunctionOnSet(n, R)
        /\ SumFunctionOnSet(s, T) = s[x] + SumFunctionOnSet(s, R)
        /\ SumFunctionOnSet(m, T) = m[x] + SumFunctionOnSet(m, R)
    BY <1>3, <2>3, SumTakesOut
  <2>5. /\ SumFunctionOnSet(n, R) \in Int
        /\ SumFunctionOnSet(s, R) \in Int
        /\ SumFunctionOnSet(m, R) \in Int
    BY <2>2, <2>3, SumIsInt
  <2>6. -m[x] <= 2 * s[x] - 200 * n[x] /\ 2 * s[x] - 200 * n[x] <= m[x]
    BY <1>3
  <2>7. OK(T)
    BY <2>2, <2>3, <2>4, <2>5, <2>6
  <2>8. QED
    BY <1>3, <2>7
<1>6. QED
  BY <1>4, <1>5
-----------------------------------------------------------------------------
LEMMA MeanOverRows ==
  ASSUME NEW R, R # {}, NEW a \in Axis \ ToolAxis
  PROVE  MeanOfAxis(R, a)
           = round2(SumFunctionOnSet([r \in R |-> r.axes[a]], R), Cardinality(R))
BY DEF MeanOfAxis, Mean, SumFunction, SumFunctionOnSet, FoldFunction

\* What the summary of a day with rows says.
LEMMA DaySummed ==
  ASSUME NEW R, R # {}
  PROVE  LET s == buildDailySummaryFromAggregateRows(R) IN
         /\ s.sessions = Cardinality(R)
         /\ s.abnormal = Cardinality({r \in R : aggregateRowHasIssue(r)})
         /\ \A a \in Axis \ ToolAxis :
               s.axes[a] = round2(SumFunctionOnSet([r \in R |-> r.axes[a]], R), Cardinality(R))
<1> DEFINE s == buildDailySummaryFromAggregateRows(R)
<1>1. /\ s.sessions = Cardinality(R)
      /\ s.abnormal = Cardinality({r \in R : aggregateRowHasIssue(r)})
      /\ s.axes = [a \in Axis |-> MeanOfAxis(R, a)]
  BY DEF buildDailySummaryFromAggregateRows
<1> HIDE DEF s
<1>2. QED
  BY <1>1, MeanOverRows DEF s
-----------------------------------------------------------------------------
LEMMA RowUnruled ==
  ASSUME NEW r \in Row
  PROVE  /\ [r EXCEPT !.failedRule = FALSE].session = r.session
         /\ [r EXCEPT !.failedRule = FALSE].axes = r.axes
<1>1. PICK s \in Session, d \in Day, flag \in BOOLEAN, c \in Content : r = RowOf(s, d, flag, c)
  BY DEF Row
<1>2. QED
  BY <1>1 DEF RowOf

\* Rows of sessions that have one row each.
OneEach(W) == IsFiniteSet(W) /\ W \subseteq Row /\ \A r, q \in W : r.session = q.session => r = q

\* The dashboard's exact side is about the rows themselves.
LEMMA ExactPages ==
  ASSUME NEW R, NEW V, NEW lo, NEW hi, OneEach(StartedIn(R, lo, hi))
  PROVE  LET exact == buildDashboardSummaryFromAggregates(R, V, lo, hi)
             W == StartedIn(R, lo, hi)
         IN  /\ exact.total = Cardinality(W)
             /\ W # {} =>
                  \A a \in Axis \ ToolAxis :
                     exact.axes[a] = round2(SumFunctionOnSet([r \in W |-> r.axes[a]], W),
                                            Cardinality(W))
<1> DEFINE W == StartedIn(R, lo, hi)
           U == [r \in W |-> [r EXCEPT !.failedRule = FALSE]]
           B == [r \in W |-> applyQualityEvaluation(U[r], V[U[r].session], NoTraces)]
           bundles == {B[r] : r \in W}
           shown == {U[r] : r \in W}
<1>1. buildDashboardSummaryFromAggregates(R, V, lo, hi) = summarizeDashboardBundles(bundles)
  <2>1. listSummaryBundlesFromDB(R, lo, hi) = shown
    BY DEF listSummaryBundlesFromDB
  <2>2. {applyQualityEvaluation(q, V[q.session], NoTraces) : q \in shown} = bundles
    OBVIOUS
  <2>3. QED
    BY <2>1, <2>2 DEF buildDashboardSummaryFromAggregates
<1>2. \A r \in W : r \in Row /\ U[r].session = r.session /\ U[r].axes = r.axes
  BY RowUnruled DEF OneEach
<1>3. \A r \in W : B[r].row = U[r]
  BY DEF applyQualityEvaluation
<1>4. \A r, q \in W : U[r] = U[q] => r = q
  <2> HIDE DEF W, U
  <2>1. QED
    BY <1>2 DEF OneEach, W
<1> HIDE DEF W, U, B
<1>5. \A r, q \in W : B[r] = B[q] => r = q
  <2>1. SUFFICES ASSUME NEW r \in W, NEW q \in W, B[r] = B[q] PROVE r = q
    OBVIOUS
  <2>2. U[r] = U[q]
    BY <1>3, <2>1
  <2>3. QED
    BY <1>4, <2>2
<1>6. IsFiniteSet(W) /\ Cardinality(bundles) = Cardinality(W) /\ Cardinality(shown) = Cardinality(W)
  <2>1. IsFiniteSet(W)
    BY DEF OneEach, W
  <2>2. Cardinality({B[r] : r \in W}) = Cardinality(W)
    BY <1>5, <2>1, ImageIsFinite
  <2>3. Cardinality({U[r] : r \in W}) = Cardinality(W)
    BY <1>4, <2>1, ImageIsFinite
  <2>4. QED
    BY <2>1, <2>2, <2>3
<1>7. {b.row : b \in bundles} = shown
  BY <1>3
<1>8. CASE W = {}
  <2>1. bundles = {} /\ Cardinality(W) = 0
    BY <1>8, FS_EmptySet
  <2> HIDE DEF bundles
  <2>2. summarizeDashboardBundles(bundles).total = 0
    BY <2>1 DEF summarizeDashboardBundles, Blank
  <2>3. QED
    BY <1>1, <1>8, <2>1, <2>2 DEF W
<1>9. CASE W # {}
  <2>1. bundles # {} /\ shown # {}
    BY <1>9
  <2>2. /\ summarizeDashboardBundles(bundles).total = Cardinality(bundles)
        /\ summarizeDashboardBundles(bundles).axes = [a \in Axis |-> MeanOfAxis(shown, a)]
    <3> HIDE DEF bundles, shown
    <3>1. QED
      BY <1>7, <2>1 DEF summarizeDashboardBundles
  <2>3. ASSUME NEW a \in Axis \ ToolAxis
        PROVE  MeanOfAxis(shown, a)
                 = round2(SumFunctionOnSet([r \in W |-> r.axes[a]], W), Cardinality(W))
    <3> DEFINE f == [q \in shown |-> q.axes[a]]
               g == [r \in W |-> f[U[r]]]
    <3>1. MeanOfAxis(shown, a) = round2(SumFunctionOnSet(f, shown), Cardinality(shown))
      BY <2>1, MeanOverRows
    <3>2. \A r \in W : f[U[r]] = r.axes[a] /\ f[U[r]] \in Int
      <4>1. ASSUME NEW r \in W PROVE f[U[r]] = r.axes[a] /\ f[U[r]] \in Int
        <5>1. U[r] \in shown
          OBVIOUS
        <5>2. f[U[r]] = r.axes[a]
          BY <1>2, <5>1
        <5>3. r.axes[a] \in Int
          BY <1>2, RowReads DEF Score
        <5>4. QED
          BY <5>2, <5>3
      <4>2. QED
        BY <4>1
    <3> HIDE DEF f
    <3>3. SumFunctionOnSet(f, shown) = SumFunctionOnSet(g, W)
      BY <1>4, <1>6, <3>2, SumOfImage
    <3>4. g = [r \in W |-> r.axes[a]]
      BY <3>2
    <3>5. QED
      BY <1>6, <3>1, <3>3, <3>4
  <2>4. QED
    BY <1>1, <1>6, <2>2, <2>3 DEF W
<1>10. QED
  BY <1>8, <1>9

\* Its quick side adds up the summaries of the days, when they are right.
LEMMA DailyPages ==
  ASSUME NEW W, OneEach(W), NEW V, NEW S, NEW lo \in Int, NEW hi \in Int,
         \A r \in W : r.day \in lo .. hi,
         \A d \in lo .. hi :
            S[d] = buildDailySummaryFromAggregateRows({r \in W : r.day = d})
  PROVE  LET daily == buildDashboardSummaryFromDailySummaries(V, S, lo, hi) IN
         /\ daily.total = Cardinality(W)
         /\ daily.anomalies = Cardinality({r \in W : aggregateRowHasIssue(r)})
         /\ W # {} =>
              \A a \in Axis \ ToolAxis :
                 Near(daily.axes[a], round2(SumFunctionOnSet([r \in W |-> r.axes[a]], W),
                                            Cardinality(W)))
<1> DEFINE Of(d) == {r \in W : r.day = d}
           days == {d \in lo .. hi : S[d].sessions > 0}
           dayOf == [r \in W |-> r.day]
           bad == {r \in W : aggregateRowHasIssue(r)}
           counts == [d \in days |-> Cardinality({r \in W : dayOf[r] = d})]
           bads == [d \in days |-> Cardinality({r \in bad : dayOf[r] = d})]
           sessions == [d \in days |-> S[d].sessions]
           abnormal == [d \in days |-> S[d].abnormal]
           daily == buildDashboardSummaryFromDailySummaries(V, S, lo, hi)
<1>1. IsFiniteSet(W) /\ W \subseteq Row /\ IsFiniteSet(lo .. hi) /\ Cardinality(W) \in Nat
  BY FS_Interval, FS_CardinalityType DEF OneEach
<1>2. \A d : IsFiniteSet(Of(d)) /\ Cardinality(Of(d)) \in Nat
             /\ (Cardinality(Of(d)) = 0 <=> Of(d) = {})
  BY <1>1, FS_Subset, FS_CardinalityType, FS_EmptySet
<1>3. \A d \in lo .. hi : S[d].sessions = Cardinality(Of(d))
  <2>1. ASSUME NEW d \in lo .. hi PROVE S[d].sessions = Cardinality(Of(d))
    <3>1. S[d] = buildDailySummaryFromAggregateRows(Of(d))
      OBVIOUS
    <3> HIDE DEF Of
    <3>2. QED
      BY <1>2, <3>1, SummaryCounts
  <2>2. QED
    BY <2>1
<1>4. days = {d \in lo .. hi : Of(d) # {}}
  <2> HIDE DEF Of
  <2>1. QED
    BY <1>2, <1>3
<1>5. IsFiniteSet(days) /\ \A r \in W : dayOf[r] = r.day /\ dayOf[r] \in days
  BY <1>1, <1>4, FS_Subset
<1>6. \A d \in days : S[d].sessions = counts[d]
  BY <1>3, <1>5
<1>7. ASSUME NEW d \in days
      PROVE  /\ Of(d) # {} /\ S[d] = buildDailySummaryFromAggregateRows(Of(d))
             /\ S[d].abnormal = bads[d]
             /\ \A a \in Axis \ ToolAxis :
                  S[d].axes[a] = round2(SumFunctionOnSet([r \in Of(d) |-> r.axes[a]], Of(d)),
                                        Cardinality(Of(d)))
  <2>1. Of(d) # {} /\ S[d] = buildDailySummaryFromAggregateRows(Of(d))
    BY <1>4
  <2>2. {r \in Of(d) : aggregateRowHasIssue(r)} = {r \in bad : dayOf[r] = d}
    OBVIOUS
  <2>3. bads[d] = Cardinality({r \in Of(d) : aggregateRowHasIssue(r)})
    BY <2>2
  <2> HIDE DEF Of, bads
  <2>4. QED
    BY <2>1, <2>3, DaySummed
<1>8. sessions = counts /\ abnormal = bads
  BY <1>6, <1>7
<1>9. SumFunctionOnSet(counts, days) = Cardinality(W)
  <2> HIDE DEF days, dayOf
  <2>1. QED
    BY <1>1, <1>5, CountByClass
<1>10. SumFunctionOnSet(bads, days) = Cardinality(bad)
  <2>1. bad \subseteq W /\ IsFiniteSet(bad)
    BY <1>1, FS_Subset
  <2> HIDE DEF days, dayOf, bad
  <2>2. QED
    BY <1>5, <2>1, CountByClass
<1>11. SumFunction(sessions) = Cardinality(W) /\ SumFunction(abnormal) = Cardinality(bad)
  <2>1. DOMAIN sessions = days /\ DOMAIN abnormal = days
    OBVIOUS
  <2> HIDE DEF sessions, abnormal, counts, bads, days, bad
  <2>2. QED
    BY <1>8, <1>9, <1>10, <2>1 DEF SumFunction, SumFunctionOnSet, FoldFunction
<1>12. CASE days = {}
  <2>1. W = {}
    BY <1>5, <1>12
  <2>2. Cardinality(W) = 0 /\ Cardinality(bad) = 0
    BY <2>1, FS_EmptySet
  <2>3. daily = Blank
    BY <1>12 DEF buildDashboardSummaryFromDailySummaries
  <2>4. QED
    BY <2>1, <2>2, <2>3 DEF Blank
<1>13. CASE days # {}
  <2>1. /\ daily.total = SumFunction(sessions) /\ daily.anomalies = SumFunction(abnormal)
        /\ daily.axes = [a \in Axis |-> Weighted([d \in days |-> S[d].axes[a]], sessions)]
    <3>1. days # {}
      BY <1>13
    <3>2. QED
      BY <3>1 DEF buildDashboardSummaryFromDailySummaries
  <2>2. ASSUME W # {}, NEW a \in Axis \ ToolAxis
        PROVE  Near(Weighted([d \in days |-> S[d].axes[a]], sessions),
                    round2(SumFunctionOnSet([r \in W |-> r.axes[a]], W), Cardinality(W)))
    <3> DEFINE f == [r \in W |-> r.axes[a]]
               n == [d \in days |-> SumFunctionOnSet(f, {r \in W : dayOf[r] = d})]
               mean == [d \in days |-> S[d].axes[a]]
               s == [d \in days |-> mean[d] * sessions[d]]
    <3>1. \A r \in W : f[r] \in Int
      <4>1. \A r \in W : r.axes \in [Axis -> Score] /\ f[r] = r.axes[a]
        BY <1>1, RowReads
      <4>2. Score \subseteq Int
        BY DEF Score
      <4>3. QED
        BY <4>1, <4>2
    <3>2. \A d \in days : /\ n[d] \in Int /\ s[d] \in Int /\ counts[d] \in Int
                          /\ -counts[d] <= 2 * s[d] - 200 * n[d]
                          /\ 2 * s[d] - 200 * n[d] <= counts[d]
      <4> SUFFICES ASSUME NEW d \in days
                   PROVE  /\ n[d] \in Int /\ s[d] \in Int /\ counts[d] \in Int
                          /\ -counts[d] <= 2 * s[d] - 200 * n[d]
                          /\ 2 * s[d] - 200 * n[d] <= counts[d]
        OBVIOUS
      <4>1. {r \in W : dayOf[r] = d} = Of(d)
        OBVIOUS
      <4>2. counts[d] = Cardinality(Of(d)) /\ n[d] = SumFunctionOnSet(f, Of(d))
        BY <4>1
      <4>3. SumFunctionOnSet([r \in Of(d) |-> r.axes[a]], Of(d)) = SumFunctionOnSet(f, Of(d))
        <5> DEFINE g == [r \in Of(d) |-> r.axes[a]]
        <5>1. \A r \in Of(d) : g[r] \in Int /\ g[r] = f[r]
          BY <3>1
        <5>2. IsFiniteSet(Of(d))
          BY <1>2
        <5> HIDE DEF g, f, Of
        <5>3. SumFunctionOnSet(g, Of(d)) = SumFunctionOnSet(f, Of(d))
          BY <5>1, <5>2, SumAgrees
        <5>4. QED
          BY <5>3 DEF g
      <4>4. n[d] \in Int
        <5>1. IsFiniteSet(Of(d)) /\ \A r \in Of(d) : f[r] \in Int
          BY <1>2, <3>1
        <5> HIDE DEF f, Of
        <5>2. SumFunctionOnSet(f, Of(d)) \in Int
          BY <5>1, SumIsInt
        <5>3. QED
          BY <4>2, <5>2
      <4>5. counts[d] \in Int /\ counts[d] >= 1
        <5>1. Cardinality(Of(d)) \in Nat /\ Cardinality(Of(d)) # 0
          BY <1>2, <1>7
        <5> HIDE DEF counts, Of
        <5>2. QED
          BY <4>2, <5>1
      <4>6. mean[d] = round2(n[d], counts[d])
        <5>1. mean[d] = S[d].axes[a]
          OBVIOUS
        <5> HIDE DEF mean, n, counts, Of, f, days
        <5>2. S[d].axes[a] = round2(SumFunctionOnSet([r \in Of(d) |-> r.axes[a]], Of(d)),
                                    Cardinality(Of(d)))
          BY <1>7
        <5>3. QED
          BY <4>2, <4>3, <5>1, <5>2
      <4>7. s[d] = round2(n[d], counts[d]) * counts[d]
        BY <1>8, <4>6
      <4> HIDE DEF n, s, counts
      <4>8. /\ round2(n[d], counts[d]) \in Int
            /\ -counts[d] <= 2 * (round2(n[d], counts[d]) * counts[d]) - 200 * n[d]
            /\ 2 * (round2(n[d], counts[d]) * counts[d]) - 200 * n[d] <= counts[d]
        BY <4>4, <4>5, MeanIsNear
      <4>9. round2(n[d], counts[d]) * counts[d] \in Int
        BY <4>5, <4>8
      <4>10. QED
        BY <4>4, <4>5, <4>7, <4>8, <4>9
    <3>3. SumFunctionOnSet(n, days) = SumFunctionOnSet(f, W)
      <4> HIDE DEF f, dayOf, days
      <4>1. QED
        BY <1>1, <1>5, <3>1, SumByClass
    <3>4. Weighted(mean, sessions) = (2 * SumFunctionOnSet(s, days) + Cardinality(W))
                                       \div (2 * Cardinality(W))
      <4>1. DOMAIN sessions = days /\ DOMAIN s = days
        OBVIOUS
      <4>2. SumFunction([d \in DOMAIN sessions |-> mean[d] * sessions[d]])
              = SumFunctionOnSet(s, days)
        BY <4>1 DEF SumFunction, SumFunctionOnSet, FoldFunction
      <4> HIDE DEF sessions, mean, s
      <4>3. QED
        BY <1>11, <4>2 DEF Weighted
    <3> HIDE DEF f, n, mean, s, counts, days
    <3>5. /\ -Cardinality(W) <= 2 * SumFunctionOnSet(s, days) - 200 * SumFunctionOnSet(f, W)
          /\ 2 * SumFunctionOnSet(s, days) - 200 * SumFunctionOnSet(f, W) <= Cardinality(W)
      BY <1>5, <1>9, <3>2, <3>3, SumsAreNear
    <3>6. SumFunctionOnSet(s, days) \in Int /\ SumFunctionOnSet(f, W) \in Int
      BY <1>1, <1>5, <3>1, <3>2, SumIsInt
    <3>7. Cardinality(W) \in Int /\ Cardinality(W) >= 1
      BY <1>1, <2>2, FS_EmptySet
    <3>8. Near((2 * SumFunctionOnSet(s, days) + Cardinality(W)) \div (2 * Cardinality(W)),
               round2(SumFunctionOnSet(f, W), Cardinality(W)))
      BY <3>5, <3>6, <3>7, MeanOfMeansIsNear
    <3>9. QED
      BY <3>4, <3>8 DEF f, mean
  <2> HIDE DEF daily, days, sessions, abnormal, bad
  <2>3. ASSUME W # {}, NEW a \in Axis \ ToolAxis
        PROVE  daily.axes[a] = Weighted([d \in days |-> S[d].axes[a]], sessions)
    BY <2>1
  <2>4. daily.total = Cardinality(W) /\ daily.anomalies = Cardinality(bad)
    BY <1>11, <2>1
  <2>5. QED
    BY <2>2, <2>3, <2>4 DEF daily, bad
<1>14. QED
  BY <1>12, <1>13
-----------------------------------------------------------------------------
(* What a backfill of every day that nobody disturbed leaves: every flag   *)
(* and every summary is right, those it had not to write too.              *)
LEMMA BackfilledTables ==
  ASSUME Aligned, Typed, NEW w \in Worker, Backfilled(job[w])
  PROVE  /\ known
         /\ \A r \in Rows : /\ r \in Row /\ r.session \in Session /\ r = rows[r.session]
                            /\ r.started = r.day /\ (aggregateRowHasIssue(r) <=> r.flag)
         /\ \A d \in Day : summary[d] = buildDailySummaryFromAggregateRows(RowsOf(d))
<1> DEFINE j == job[w]
<1>1. /\ j.kind = "backfill" /\ Done(j) /\ ~j.failed /\ Day \subseteq j.clean
      /\ \A r \in Rows : r.session \in j.settled \cap j.clean /\ r.day = r.started
      /\ \A d \in Day : RowsOf(d) = {} => summary[d] = NoSummary
  BY DEF Backfilled
<1>2. JobTyped(j, rows, known) /\ JobReads(j, rows, verdict, summary) /\ TablesTyped
  BY TypedTables DEF Typed, Aligned
<1> HIDE DEF j
<1>3. known
  BY <1>1, <1>2 DEF JobTyped
<1>4. \A r \in Rows : r \in Row /\ r.session \in Session /\ r = rows[r.session]
                      /\ r.day \in Day /\ rows[r.session] # NoRow
  <2>1. ASSUME NEW r \in Rows
        PROVE  r \in Row /\ r.session \in Session /\ r = rows[r.session]
               /\ r.day \in Day /\ rows[r.session] # NoRow
    <3>1. PICK s \in Session : r = rows[s] /\ r # NoRow
      BY DEF Rows
    <3>2. r \in Row /\ r.session = s
      BY <1>2, <3>1 DEF TablesTyped, IsTyped
    <3>3. QED
      BY <3>1, <3>2, RowReads
  <2>2. QED
    BY <2>1
<1>5. ASSUME NEW r \in Rows PROVE aggregateRowHasIssue(r) <=> r.flag
  <2>1. r.flag = aggregateIssueFlagForSession(r.failedRule, verdict[r.session])
    BY <1>1, <1>2, <1>4 DEF JobReads, Derived, FlagOfTables
  <2>2. QED
    BY <2>1 DEF aggregateRowHasIssue, aggregateIssueFlagForSession
<1>6. ASSUME NEW d \in Day PROVE summary[d] = buildDailySummaryFromAggregateRows(RowsOf(d))
  <2>1. CASE RowsOf(d) = {}
    BY <1>1, <2>1 DEF buildDailySummaryFromAggregateRows
  <2>2. CASE RowsOf(d) # {}
    <3>1. PICK r \in Rows : r.day = d
      BY <2>2 DEF RowsOf
    <3>2. d \in j.days \cup j.settled
      BY <1>1, <1>2, <1>4, <3>1 DEF JobTyped, CoversDays
    <3>3. d \in j.settled \cap j.clean
      BY <1>1, <3>2 DEF Done
    <3>4. RowsOf(d) = DayRows(rows, d)
      BY DEF RowsOf, Rows, DayRows
    <3>5. QED
      BY <1>2, <3>3, <3>4 DEF JobReads, Summed
  <2>3. QED
    BY <2>1, <2>2
<1>7. QED
  BY <1>1, <1>3, <1>4, <1>5, <1>6

\* The days of a range have its rows between them, as the list counts them,
LEMMA DaysCountAll ==
  ASSUME NEW W, OneEach(W), NEW S, NEW lo \in Int, NEW hi \in Int,
         \A r \in W : r.day \in lo .. hi,
         \A d \in lo .. hi :
            S[d] = buildDailySummaryFromAggregateRows({r \in W : r.day = d})
  PROVE  countSessionsFromDailySummary(S, lo, hi) = Cardinality(W)
<1> DEFINE Of(d) == {r \in W : r.day = d}
           dayOf == [r \in W |-> r.day]
           days == lo .. hi
           counts == [d \in days |-> Cardinality({r \in W : dayOf[r] = d})]
           sessions == [d \in days |-> S[d].sessions]
<1>1. IsFiniteSet(W) /\ W \subseteq Row /\ IsFiniteSet(days)
  BY FS_Interval DEF OneEach
<1>2. \A d : IsFiniteSet(Of(d))
  BY <1>1, FS_Subset
<1>3. \A d \in days : S[d].sessions = Cardinality(Of(d))
  <2>1. ASSUME NEW d \in days PROVE S[d].sessions = Cardinality(Of(d))
    <3>1. S[d] = buildDailySummaryFromAggregateRows(Of(d))
      OBVIOUS
    <3> HIDE DEF Of
    <3>2. QED
      BY <1>2, <3>1, SummaryCounts
  <2>2. QED
    BY <2>1
<1>4. \A d \in days : Of(d) = {r \in W : dayOf[r] = d}
  OBVIOUS
<1>5. sessions = counts
  BY <1>3, <1>4
<1>6. \A r \in W : dayOf[r] \in days
  OBVIOUS
<1>7. SumFunctionOnSet(counts, days) = Cardinality(W)
  <2> HIDE DEF days, dayOf
  <2>1. QED
    BY <1>1, <1>6, CountByClass
<1>8. countSessionsFromDailySummary(S, lo, hi) = SumFunctionOnSet(sessions, days)
  BY DEF countSessionsFromDailySummary, SumFunction, SumFunctionOnSet, FoldFunction
<1>9. QED
  <2> HIDE DEF sessions, counts, days
  <2>1. QED
    BY <1>5, <1>7, <1>8

\* so that the list's total is exact on every page that is not behind the last row.
LEMMA TotalIsExact ==
  ASSUME NEW R, NEW S, NEW lo, NEW hi, Cardinality(StartedIn(R, lo, hi)) \in Nat,
         countSessionsFromDailySummary(S, lo, hi) = Cardinality(StartedIn(R, lo, hi)),
         NEW limit \in Nat, NEW offset \in 0 .. Cardinality(StartedIn(R, lo, hi))
  PROVE  ListTotal(R, S, lo, hi, limit, offset) = Cardinality(StartedIn(R, lo, hi))
<1> DEFINE n == Cardinality(StartedIn(R, lo, hi))
           length == PageLength(R, lo, hi, limit, offset)
<1>1. Max({0, n - offset}) = n - offset
  <2>1. n - offset \in Int /\ n - offset >= 0
    OBVIOUS
  <2> HIDE DEF n
  <2>2. QED
    BY <2>1, MaxOfTwo
<1>2. length = IF limit <= n - offset THEN limit ELSE n - offset
  <2>1. length = Min({limit, n - offset})
    BY <1>1 DEF PageLength
  <2>2. limit \in Int /\ n - offset \in Int
    OBVIOUS
  <2> HIDE DEF n, length
  <2>3. QED
    BY <2>1, <2>2, MinOfTwo
<1>3. ListTotal(R, S, lo, hi, limit, offset)
        = IF n - offset > limit THEN Max({n, offset + length + 1}) ELSE offset + length
  BY DEF ListTotal, Truncated
<1>4. n \in Nat /\ offset \in Int
  OBVIOUS
<1> HIDE DEF n, length
<1>5. CASE n - offset > limit
  <2>1. length = limit /\ offset + length + 1 \in Int /\ offset + length + 1 <= n
    BY <1>2, <1>4, <1>5
  <2>2. Max({n, offset + length + 1}) = n
    BY <1>4, <2>1, MaxOfTwo
  <2>3. QED
    BY <1>3, <1>5, <2>2 DEF n
<1>6. CASE ~(n - offset > limit)
  <2>1. offset + length = n
    BY <1>2, <1>4, <1>6
  <2>2. QED
    BY <1>3, <1>6, <2>1 DEF n
<1>7. QED
  BY <1>5, <1>6

\* The dashboard of any window counts the flags, since the column is there.
LEMMA ShownCounts ==
  ASSUME known, NEW lo, NEW hi, NEW whole \in BOOLEAN
  PROVE  buildDashboardSummaryOptimized(Rows, verdict, summary, lo, hi, whole, known).anomalies
           = countDashboardIssueSessions(Rows, lo, hi)
<1> DEFINE daily == buildDashboardSummaryFromDailySummaries(verdict, summary, lo, hi)
           exact == buildDashboardSummaryFromAggregates(Rows, verdict, lo, hi)
           found == IF whole /\ daily.total > 0 THEN daily ELSE exact
<1>1. "anomalies" \in DOMAIN daily
  BY DEF buildDashboardSummaryFromDailySummaries, Blank
<1>2. "anomalies" \in DOMAIN exact
  BY DEF buildDashboardSummaryFromAggregates, summarizeDashboardBundles, Blank
<1>3. buildDashboardSummaryOptimized(Rows, verdict, summary, lo, hi, whole, known)
        = [found EXCEPT !.anomalies = countDashboardIssueSessions(Rows, lo, hi)]
  BY DEF buildDashboardSummaryOptimized
<1> HIDE DEF daily, exact
<1>4. "anomalies" \in DOMAIN found
  BY <1>1, <1>2
<1> HIDE DEF found
<1>5. QED
  BY <1>3, <1>4

(* After the backfill of every day, undisturbed, the dashboard's quick and *)
(* exact sides, the anomaly page and the list show the same numbers of any *)
(* range of days, and means that differ by a hundredth at most.            *)
THEOREM MenusAgreeOnceBackfilled == Spec => []MenusAgree
<1>1. Aligned /\ Typed => MenusAgree
  <2> SUFFICES ASSUME Aligned, Typed, NEW w \in Worker, NEW lo \in Day, NEW hi \in Day,
                      Backfilled(job[w]), lo <= hi
               PROVE  LET daily == buildDashboardSummaryFromDailySummaries(verdict, summary, lo, hi)
                          exact == buildDashboardSummaryFromAggregates(Rows, verdict, lo, hi)
                          found == queryDashboardAnomalyBundles(Rows, verdict, lo, hi, known)
                          shown(wholeDays) ==
                             buildDashboardSummaryOptimized(Rows, verdict, summary,
                                                            lo, hi, wholeDays, known)
                      IN  /\ daily.total = exact.total
                          /\ \A limit \in 1 .. 2, offset \in 0 .. daily.total :
                                ListTotal(Rows, summary, lo, hi, limit, offset) = daily.total
                          /\ daily.anomalies = Cardinality(found)
                          /\ \A wholeDays \in BOOLEAN :
                                shown(wholeDays).anomalies = Cardinality(found)
                          /\ daily.total > 0 =>
                                \A a \in Axis \ ToolAxis : Near(daily.axes[a], exact.axes[a])
    BY DEF MenusAgree
  <2> DEFINE W == StartedIn(Rows, lo, hi)
             daily == buildDashboardSummaryFromDailySummaries(verdict, summary, lo, hi)
             exact == buildDashboardSummaryFromAggregates(Rows, verdict, lo, hi)
  <2>1. /\ known
        /\ \A r \in Rows : /\ r \in Row /\ r.session \in Session /\ r = rows[r.session]
                           /\ r.started = r.day /\ (aggregateRowHasIssue(r) <=> r.flag)
        /\ \A d \in Day : summary[d] = buildDailySummaryFromAggregateRows(RowsOf(d))
    BY BackfilledTables
  <2>2. lo \in Int /\ hi \in Int /\ lo .. hi \subseteq Day
    BY DaysAreConsecutive
  <2>3. W = {r \in Rows : r.day \in lo .. hi}
    BY <2>1 DEF StartedIn
  <2>4. \A d \in lo .. hi : RowsOf(d) = {r \in W : r.day = d}
    BY <2>3 DEF RowsOf
  <2>5. OneEach(W)
    <3>1. W \subseteq Rows /\ IsFiniteSet(Rows)
      BY RowsAreFinite DEF StartedIn
    <3>2. IsFiniteSet(W)
      BY <3>1, FS_Subset
    <3> HIDE DEF W
    <3>3. QED
      BY <2>1, <3>1, <3>2 DEF OneEach
  <2>6. \A r \in W : r.day \in lo .. hi
    BY <2>3
  <2>7. \A d \in lo .. hi : summary[d] = buildDailySummaryFromAggregateRows({r \in W : r.day = d})
    BY <2>1, <2>2, <2>4
  <2>8. queryDashboardAnomalyBundles(Rows, verdict, lo, hi, known)
          = {r \in W : aggregateRowHasIssue(r)}
    <3>1. queryDashboardAnomalyBundles(Rows, verdict, lo, hi, known) = {r \in W : r.flag}
      BY <2>1 DEF queryDashboardAnomalyBundles
    <3>2. \A r \in W : aggregateRowHasIssue(r) <=> r.flag
      BY <2>1 DEF StartedIn
    <3> HIDE DEF W
    <3>3. QED
      BY <3>1, <3>2
  <2>9. /\ exact.total = Cardinality(W)
        /\ W # {} =>
             \A a \in Axis \ ToolAxis :
                exact.axes[a] = round2(SumFunctionOnSet([r \in W |-> r.axes[a]], W),
                                       Cardinality(W))
    BY <2>5, ExactPages
  <2> HIDE DEF W
  <2>10. /\ daily.total = Cardinality(W)
         /\ daily.anomalies = Cardinality({r \in W : aggregateRowHasIssue(r)})
         /\ W # {} =>
              \A a \in Axis \ ToolAxis :
                 Near(daily.axes[a], round2(SumFunctionOnSet([r \in W |-> r.axes[a]], W),
                                            Cardinality(W)))
    BY <2>2, <2>5, <2>6, <2>7, DailyPages, SMTT(60)
  <2>11. Cardinality(W) > 0 => W # {}
    BY FS_EmptySet
  <2>12. countSessionsFromDailySummary(summary, lo, hi) = Cardinality(W)
    BY <2>2, <2>5, <2>6, <2>7, DaysCountAll
  <2>13. \A limit \in 1 .. 2, offset \in 0 .. Cardinality(W) :
           ListTotal(Rows, summary, lo, hi, limit, offset) = Cardinality(W)
    <3>1. Cardinality(W) \in Nat
      BY <2>5, FS_CardinalityType DEF OneEach
    <3>2. QED
      BY <2>12, <3>1, TotalIsExact DEF W
  <2>14. \A wholeDays \in BOOLEAN :
           buildDashboardSummaryOptimized(Rows, verdict, summary, lo, hi, wholeDays, known).anomalies
             = Cardinality(queryDashboardAnomalyBundles(Rows, verdict, lo, hi, known))
    <3>1. known
      BY <2>1
    <3>2. queryDashboardAnomalyBundles(Rows, verdict, lo, hi, known)
            = {r \in StartedIn(Rows, lo, hi) : r.flag}
      BY <3>1 DEF queryDashboardAnomalyBundles
    <3>3. ASSUME NEW wholeDays \in BOOLEAN
          PROVE  buildDashboardSummaryOptimized(Rows, verdict, summary, lo, hi, wholeDays,
                                                known).anomalies
                   = countDashboardIssueSessions(Rows, lo, hi)
      BY <3>1, ShownCounts
    <3>4. QED
      BY <3>2, <3>3 DEF countDashboardIssueSessions
  <2> HIDE DEF daily, exact
  <2>15. ASSUME daily.total > 0, NEW a \in Axis \ ToolAxis
         PROVE  Near(daily.axes[a], exact.axes[a])
    <3>1. W # {}
      BY <2>10, <2>11, <2>15
    <3>2. exact.axes[a] = round2(SumFunctionOnSet([r \in W |-> r.axes[a]], W), Cardinality(W))
      BY <2>9, <3>1
    <3>3. Near(daily.axes[a], round2(SumFunctionOnSet([r \in W |-> r.axes[a]], W), Cardinality(W)))
      BY <2>10, <3>1
    <3>4. QED
      BY <3>2, <3>3
  <2>16. QED
    BY <2>8, <2>9, <2>10, <2>15, <2>13, <2>14 DEF daily, exact
<1>2. QED
  BY <1>1, AlignedAtFirst, AlignedStays, ReasonsAtFirst, ReasonsStay, TypedAtFirst, TypedStays,
     PTL DEF Spec
=============================================================================
