---------------------- MODULE SessionFreshnessProofs -----------------------
(***************************************************************************)
(* Theorems about SessionRefreshQueue, for any number of sessions,         *)
(* requests and faults: type correctness and the fate of leases with any   *)
(* number of processes, and the refinement of RefreshRequests with one.    *)
(*                                                                         *)
(* Theorems about SessionFreshness: its state is well formed, leases are   *)
(* as sound as in the queue alone, nothing is replaced by something older, *)
(* and the index does not stay behind an aggregate.                        *)
(***************************************************************************)
EXTENDS SessionFreshness, FiniteSetTheorems, TLAPS

(* The id of an inserted row is a number: the table is finite. *)
LEMMA NextIdType == NextId \in Nat
<1>1. IsFiniteSet({s \in Session : row[s].status # "absent"})
  BY QueueAssumption, FS_Subset
<1>2. QED
  BY <1>1, FS_CardinalityType DEF NextId

(* An upsert yields a row of the table's type, open and without a lease. *)
LEMMA UpsertedRow ==
  ASSUME NEW r \in Row, NEW p \in Priority, now \in Nat
  PROVE  /\ Upserted(r, p) \in Row
         /\ Upserted(r, p).status = "pending"
         /\ Upserted(r, p).nextRetryAt = now
         /\ Upserted(r, p).leaseOwner = NoWorker
         /\ Upserted(r, p).leaseExpiresAt = NoTime
         /\ r.status # "absent" => Upserted(r, p).retryCount = r.retryCount
<1>1. p \in Int
  BY QueueAssumption
<1>2. CASE r.status = "absent"
  BY <1>1, <1>2, NextIdType DEF Upserted, AbsentRow, Row, Time, NoTime, Status
<1>3. CASE r.status # "absent"
  BY <1>1, <1>3 DEF Upserted, Row, Time, NoTime, Status, Greatest
<1>4. QED
  BY <1>2, <1>3

(* The claimed row is running, under a lease of its claimer. *)
LEMMA LeasedRow ==
  ASSUME NEW r \in Row, NEW w \in Worker, now \in Nat
  PROVE  /\ Leased(r, w) \in Row
         /\ Leased(r, w).status = "running"
         /\ Leased(r, w).leaseOwner = w
         /\ Leased(r, w).leaseExpiresAt = now + LeaseTTL
         /\ Leased(r, w).retryCount = r.retryCount
<1>1. now + LeaseTTL \in Nat
  BY QueueAssumption
<1>2. QED
  BY <1>1 DEF Leased, Row, Time, Status

(* The row of a run that succeeded. *)
LEMMA SucceededRow ==
  ASSUME NEW r \in Row, now \in Nat
  PROVE  /\ Succeeded(r) \in Row
         /\ Succeeded(r).status = "succeeded"
         /\ Succeeded(r).leaseOwner = NoWorker
         /\ Succeeded(r).leaseExpiresAt = NoTime
BY DEF Succeeded, Row, Time, NoTime, Status

(* Backoffs grow with the number of retries. *)
LEMMA BackoffMonotone ==
  ASSUME NEW n \in Nat, NEW m \in Nat, NEW b \in Nat, n <= m
  PROVE  n * b \in Nat /\ n * b <= m * b
OBVIOUS

(* The row of a run that failed: to be tried again within the longest      *)
(* backoff, or failed for good.                                            *)
LEMMA RetriedRow ==
  ASSUME NEW r \in Row, NEW n \in Nat, now \in Nat
  PROVE  /\ Retried(r, n) \in Row
         /\ Retried(r, n).status \in {"pending", "failed"}
         /\ Retried(r, n).leaseOwner = NoWorker
         /\ Retried(r, n).leaseExpiresAt = NoTime
         /\ Retried(r, n).status = "pending" =>
              Retried(r, n).nextRetryAt \in 0 .. (now + MaxRetryCount * BackoffUnit)
<1> DEFINE later == n * BackoffUnit
           longest == MaxRetryCount * BackoffUnit
<1>1. later \in Nat /\ longest \in Nat
  BY QueueAssumption, BackoffMonotone
<1>2. n <= Greatest(MaxRetryCount, 0) => n <= MaxRetryCount
  BY QueueAssumption DEF Greatest
<1>3. n <= MaxRetryCount => later <= longest
  BY QueueAssumption, BackoffMonotone
<1>4. Retried(r, n) = [r EXCEPT !.status = IF n <= Greatest(MaxRetryCount, 0)
                                           THEN "pending" ELSE "failed",
                                !.retryCount = n, !.nextRetryAt = now + later,
                                !.leaseOwner = NoWorker, !.leaseExpiresAt = NoTime,
                                !.updatedAt = now]
  BY DEF Retried
<1> HIDE DEF later, longest
<1>5. now + later \in Nat
  BY <1>1
<1>6. Retried(r, n) \in Row
  BY <1>4, <1>5 DEF Row, Time, NoTime, Status
<1>7. /\ Retried(r, n).status \in {"pending", "failed"}
      /\ Retried(r, n).leaseOwner = NoWorker
      /\ Retried(r, n).leaseExpiresAt = NoTime
      /\ Retried(r, n).nextRetryAt = now + later
      /\ Retried(r, n).status = "pending" => n <= Greatest(MaxRetryCount, 0)
  BY <1>4 DEF Row
<1>8. Retried(r, n).status = "pending" => Retried(r, n).nextRetryAt \in 0 .. (now + longest)
  BY <1>1, <1>2, <1>3, <1>7
<1>9. QED
  BY <1>6, <1>7, <1>8 DEF longest

(* A job returned to the pool leaves the jobs well formed. *)
LEMMA DroppedJob ==
  ASSUME TypeOK, NEW w \in Worker, job' = [job EXCEPT ![w] = NoJob]
  PROVE  /\ job' \in [Worker -> Job]
         /\ \A v \in Worker : Busy(v)' => Busy(v) /\ job'[v] = job[v]
<1>1. NoJob \in Job
  BY DEF NoJob, Job, Time, NoTime, Stage
<1>2. QED
  BY <1>1 DEF TypeOK, NoJob, Busy

(* Rows and jobs keep their types under every step of every process. *)
LEMMA TypeStep ==
  ASSUME TypeOK, [Next]_vars
  PROVE  TypeOK'
<1>1. ASSUME NEW s \in Session, NEW p \in Priority, Enqueue(s, p) PROVE TypeOK'
  <2>1. Upserted(row[s], p) \in Row
    BY UpsertedRow DEF TypeOK
  <2>2. QED
    BY <1>1, <2>1 DEF TypeOK, Enqueue, Busy
<1>2. ASSUME NEW w \in Worker, Claim(w) PROVE TypeOK'
  <2>1. PICK s \in Session :
          /\ row' = [row EXCEPT ![s] = Leased(@, w)]
          /\ job' = [job EXCEPT ![w] = [session |-> s, retryCount |-> row[s].retryCount,
                                        leaseExpiresAt |-> now + LeaseTTL,
                                        stage |-> "claimed"]]
    BY <1>2 DEF Claim
  <2>2. Leased(row[s], w) \in Row /\ now + LeaseTTL \in Nat
    BY LeasedRow, QueueAssumption DEF TypeOK
  <2>3. row' \in [Session -> Row]
    BY <2>1, <2>2 DEF TypeOK
  <2>4. row[s].retryCount \in Nat
    BY DEF TypeOK, Row
  <2>5. job' \in [Worker -> Job] /\ (\A v \in Worker : Busy(v)' => job'[v].session \in Session)
    BY <2>1, <2>2, <2>4 DEF TypeOK, Job, Time, Stage, Busy
  <2>6. QED
    BY <1>2, <2>3, <2>5 DEF TypeOK, Claim
<1>3. ASSUME NEW w \in Worker, RunJob(w) PROVE TypeOK'
  BY <1>3 DEF TypeOK, RunJob, Job, Stage, Busy
<1>4. ASSUME NEW w \in Worker, Finish(w) PROVE TypeOK'
  <2>1. job[w].session \in Session
    BY <1>4 DEF TypeOK, Finish, Busy
  <2>2. Succeeded(row[job[w].session]) \in Row
    BY <2>1, SucceededRow DEF TypeOK
  <2>3. QED
    BY <1>4, <2>1, <2>2, DroppedJob DEF TypeOK, Finish
<1>5. ASSUME NEW w \in Worker, Fail(w) PROVE TypeOK'
  <2>1. job[w].session \in Session /\ job[w].retryCount + 1 \in Nat
    BY <1>5 DEF TypeOK, Fail, Busy, Job
  <2>2. Retried(row[job[w].session], job[w].retryCount + 1) \in Row
    BY <2>1, RetriedRow DEF TypeOK
  <2>3. QED
    BY <1>5, <2>1, <2>2, DroppedJob DEF TypeOK, Fail
<1>6. ASSUME NEW w \in Worker, LoseUpdate(w) \/ Crash(w) PROVE TypeOK'
  BY <1>6, DroppedJob DEF TypeOK, LoseUpdate, Crash
<1>7. CASE Tick
  BY <1>7 DEF TypeOK, Tick, Busy
<1>8. CASE UNCHANGED vars
  BY <1>8 DEF TypeOK, vars, Busy
<1>9. QED
  BY <1>1, <1>2, <1>3, <1>4, <1>5, <1>6, <1>7, <1>8 DEF Next

(***************************************************************************)
(* The state of the queue is well formed, whatever the interleaving.       *)
(***************************************************************************)
THEOREM TypeCorrect == Spec => []TypeOK
<1>1. Init => TypeOK
  BY QueueAssumption DEF Init, TypeOK, AbsentRow, NoJob, Row, Job, Time, NoTime, Status,
                         Stage, Busy
<1>2. TypeOK /\ [Next]_vars => TypeOK'
  BY TypeStep
<1>3. QED
  BY <1>1, <1>2, PTL DEF Spec

(***************************************************************************)
(* Leases, with any number of processes.  The two invariants speak of one  *)
(* row at a time and every step rewrites at most one row, so that both     *)
(* follow from what each step makes of that row.                           *)
(***************************************************************************)
RowSound(r, t) ==
  /\ r.status = "running" <=> r.leaseOwner \in Worker
  /\ r.status = "running" <=> r.leaseExpiresAt # NoTime
  /\ r.status = "running" => r.leaseExpiresAt \in 0 .. (t + LeaseTTL)
  /\ r.status = "pending" => r.nextRetryAt \in 0 .. (t + MaxRetryCount * BackoffUnit)

RowsSound == \A s \in Session : RowSound(row[s], now)

(* What a step may make of the rows. *)
LEMMA StepRows ==
  ASSUME TypeOK, Next
  PROVE  \/ UNCHANGED <<row, now>>
         \/ row' = row /\ now' = now + 1
         \/ /\ now' = now
            /\ \E s \in Session, r \in Row :
                 /\ row' = [row EXCEPT ![s] = r]
                 /\ RowSound(r, now)
<1> DEFINE Rewrites == /\ now' = now
                      /\ \E s \in Session, r \in Row :
                            /\ row' = [row EXCEPT ![s] = r]
                            /\ RowSound(r, now)
<1>1. now \in Nat /\ \A s \in Session : row[s] \in Row
  BY DEF TypeOK
<1>2. MaxRetryCount * BackoffUnit \in Nat /\ LeaseTTL \in Nat
  BY QueueAssumption, BackoffMonotone
<1>3. ASSUME NEW s \in Session, NEW p \in Priority, Enqueue(s, p) PROVE Rewrites
  <2>1. Upserted(row[s], p) \in Row /\ RowSound(Upserted(row[s], p), now)
    BY <1>1, <1>2, UpsertedRow, QueueAssumption DEF RowSound
  <2>2. QED
    BY <1>3, <2>1 DEF Enqueue
<1>4. ASSUME NEW w \in Worker, Claim(w) PROVE Rewrites
  <2>1. PICK s \in Session : row' = [row EXCEPT ![s] = Leased(@, w)]
    BY <1>4 DEF Claim
  <2>2. Leased(row[s], w) \in Row /\ RowSound(Leased(row[s], w), now)
    BY <1>1, <1>2, LeasedRow DEF RowSound, NoTime
  <2>3. QED
    BY <1>4, <2>1, <2>2 DEF Claim
<1>5. ASSUME NEW w \in Worker, Finish(w) PROVE Rewrites
  <2>1. job[w].session \in Session
    BY <1>5 DEF TypeOK, Finish, Busy
  <2>2. /\ Succeeded(row[job[w].session]) \in Row
        /\ RowSound(Succeeded(row[job[w].session]), now)
    BY <1>1, <2>1, SucceededRow, QueueAssumption DEF RowSound
  <2>3. QED
    BY <1>5, <2>1, <2>2 DEF Finish
<1>6. ASSUME NEW w \in Worker, Fail(w) PROVE Rewrites
  <2>1. job[w].session \in Session /\ job[w].retryCount + 1 \in Nat
    BY <1>6 DEF TypeOK, Fail, Busy, Job
  <2> DEFINE r == Retried(row[job[w].session], job[w].retryCount + 1)
  <2>2. r \in Row /\ RowSound(r, now)
    BY <1>1, <2>1, RetriedRow, QueueAssumption DEF RowSound
  <2>3. QED
    BY <1>6, <2>1, <2>2 DEF Fail
<1>7. ASSUME NEW w \in Worker, RunJob(w) \/ LoseUpdate(w) \/ Crash(w)
      PROVE UNCHANGED <<row, now>>
  BY <1>7 DEF RunJob, LoseUpdate, Crash
<1>8. CASE Tick
  BY <1>8 DEF Tick
<1>9. QED
  BY <1>3, <1>4, <1>5, <1>6, <1>7, <1>8 DEF Next

(***************************************************************************)
(* Whatever requests, crashes, lost updates and late runs do to the table, *)
(* a row is leased exactly while it runs, and an open row becomes          *)
(* claimable within LeaseTTL or the longest backoff.                       *)
(***************************************************************************)
THEOREM LeasesSound == Spec => [](LeasedIffRunning /\ NoStrandedRow)
<1>1. Init => RowsSound
  BY QueueAssumption DEF Init, RowsSound, RowSound, AbsentRow
<1>2. TypeOK /\ RowsSound /\ [Next]_vars => RowsSound'
  <2> SUFFICES ASSUME TypeOK, RowsSound, [Next]_vars, NEW t \in Session
               PROVE RowSound(row[t], now)'
    BY DEF RowsSound
  <2>1. /\ now \in Nat /\ MaxRetryCount * BackoffUnit \in Nat /\ LeaseTTL \in Nat
        /\ RowSound(row[t], now)
    BY QueueAssumption, BackoffMonotone DEF TypeOK, RowsSound
  <2>2. CASE UNCHANGED <<row, now>>
    BY <2>1, <2>2 DEF RowSound
  <2>3. CASE row' = row /\ now' = now + 1
    BY <2>1, <2>3 DEF RowSound
  <2>4. ASSUME now' = now, NEW s \in Session, NEW r \in Row,
               row' = [row EXCEPT ![s] = r], RowSound(r, now)
        PROVE RowSound(row[t], now)'
    <3>1. row'[t] = IF t = s THEN r ELSE row[t]
      BY <2>4 DEF TypeOK
    <3>2. QED
      BY <2>1, <2>4, <3>1 DEF RowSound
  <2>5. CASE UNCHANGED vars
    BY <2>2, <2>5 DEF vars
  <2>6. QED
    BY <2>2, <2>3, <2>4, <2>5, StepRows
<1>3. RowsSound => LeasedIffRunning /\ NoStrandedRow
  BY DEF RowsSound, RowSound, LeasedIffRunning, NoStrandedRow
<1>4. QED
  BY <1>1, <1>2, <1>3, TypeCorrect, PTL DEF Spec

(***************************************************************************)
(* No process takes over a lease that has not expired, whatever crashed    *)
(* and whoever asked for the session meanwhile.                            *)
(***************************************************************************)
THEOREM UnexpiredLeaseHonoured == Spec => LeaseHonoured
<1> DEFINE Honoured(s) == row[s].status = "running" /\ row[s].leaseExpiresAt > now =>
                            row'[s].leaseOwner \in {row[s].leaseOwner, NoWorker}
<1>1. TypeOK /\ [Next]_vars => [\A s \in Session : Honoured(s)]_vars
  <2> SUFFICES ASSUME TypeOK, Next, NEW t \in Session PROVE Honoured(t)
    OBVIOUS
  <2>1. now \in Nat /\ \A s \in Session : row[s] \in Row
    BY DEF TypeOK
  <2>2. ASSUME NEW s \in Session, NEW r, row' = [row EXCEPT ![s] = r],
               r.leaseOwner = NoWorker
        PROVE Honoured(t)
    BY <2>2 DEF TypeOK
  <2>3. ASSUME NEW s \in Session, NEW p \in Priority, Enqueue(s, p) PROVE Honoured(t)
    <3>1. Upserted(row[s], p).leaseOwner = NoWorker
      BY <2>1, UpsertedRow
    <3>2. QED
      BY <2>2, <2>3, <3>1 DEF Enqueue
  <2>4. ASSUME NEW w \in Worker, Claim(w) PROVE Honoured(t)
    <3>1. PICK s \in Session : Claimable(s) /\ row' = [row EXCEPT ![s] = Leased(@, w)]
      BY <2>4 DEF Claim, FirstInLine
    <3>2. CASE t = s
      BY <2>1, <3>1, <3>2 DEF Claimable, Row, Time, NoTime
    <3>3. CASE t # s
      BY <3>1, <3>3 DEF TypeOK
    <3>4. QED
      BY <3>2, <3>3
  <2>5. ASSUME NEW w \in Worker, Finish(w) PROVE Honoured(t)
    <3>1. job[w].session \in Session
      BY <2>5 DEF TypeOK, Finish, Busy
    <3>2. Succeeded(row[job[w].session]).leaseOwner = NoWorker
      BY <2>1, <3>1, SucceededRow
    <3>3. QED
      BY <2>2, <2>5, <3>1, <3>2 DEF Finish
  <2>6. ASSUME NEW w \in Worker, Fail(w) PROVE Honoured(t)
    <3>1. job[w].session \in Session /\ job[w].retryCount + 1 \in Nat
      BY <2>6 DEF TypeOK, Fail, Busy, Job
    <3>2. Retried(row[job[w].session], job[w].retryCount + 1).leaseOwner = NoWorker
      BY <2>1, <3>1, RetriedRow
    <3>3. QED
      BY <2>2, <2>6, <3>1, <3>2 DEF Fail
  <2>7. CASE UNCHANGED row
    BY <2>7
  <2>8. QED
    BY <2>3, <2>4, <2>5, <2>6, <2>7 DEF Next, RunJob, LoseUpdate, Crash, Tick
<1>2. QED
  BY <1>1, TypeCorrect, PTL DEF Spec, LeaseHonoured

(***************************************************************************)
(* One process.  While it is busy nobody else can settle or claim the row  *)
(* of its job: only a request can change it, and leaves it open.           *)
(***************************************************************************)
LEMMA UpsertedKeepsRetries ==
  ASSUME TypeOK, NEW s \in Session, NEW p \in Priority, NEW t \in Session,
         Enqueue(s, p), row[t].status \in {"pending", "running"}
  PROVE  /\ row'[t].status \in {"pending", "running"}
         /\ row'[t].retryCount = row[t].retryCount
<1>1. row'[t] = IF t = s THEN Upserted(row[t], p) ELSE row[t]
  BY DEF Enqueue, TypeOK
<1>2. row[t] \in Row /\ now \in Nat
  BY DEF TypeOK
<1>3. QED
  BY <1>1, <1>2, UpsertedRow

(* The job of the only process is the copy of an open row. *)
THEOREM OneProcessJobIsCurrent ==
  ASSUME NEW CONSTANT w0, Worker = {w0}
  PROVE  Spec => []JobIsCurrent
<1>1. Init => JobIsCurrent
  BY DEF Init, JobIsCurrent, Busy, NoJob
<1>2. TypeOK /\ JobIsCurrent /\ [Next]_vars => JobIsCurrent'
  <2> SUFFICES ASSUME TypeOK, JobIsCurrent, [Next]_vars, Busy(w0)'
               PROVE  /\ row'[job'[w0].session].status \in {"pending", "running"}
                      /\ row'[job'[w0].session].retryCount = job'[w0].retryCount
    BY DEF JobIsCurrent, Busy
  <2>1. ASSUME NEW s \in Session, NEW p \in Priority, Enqueue(s, p)
        PROVE  /\ row'[job'[w0].session].status \in {"pending", "running"}
               /\ row'[job'[w0].session].retryCount = job'[w0].retryCount
    <3>1. job' = job /\ Busy(w0)
      BY <2>1 DEF Enqueue, Busy
    <3>2. /\ job[w0].session \in Session
          /\ row[job[w0].session].status \in {"pending", "running"}
          /\ row[job[w0].session].retryCount = job[w0].retryCount
      BY <3>1 DEF TypeOK, JobIsCurrent
    <3>3. QED
      BY <2>1, <3>1, <3>2, UpsertedKeepsRetries
  <2>2. ASSUME NEW w \in Worker, Claim(w)
        PROVE  /\ row'[job'[w0].session].status \in {"pending", "running"}
               /\ row'[job'[w0].session].retryCount = job'[w0].retryCount
    <3>1. PICK s \in Session :
            /\ row' = [row EXCEPT ![s] = Leased(@, w)]
            /\ job' = [job EXCEPT ![w] = [session |-> s, retryCount |-> row[s].retryCount,
                                          leaseExpiresAt |-> now + LeaseTTL,
                                          stage |-> "claimed"]]
      BY <2>2 DEF Claim
    <3>2. /\ job'[w0].session = s /\ job'[w0].retryCount = row[s].retryCount
          /\ row'[s] = Leased(row[s], w)
      BY <3>1 DEF TypeOK
    <3>3. row[s] \in Row /\ now \in Nat
      BY DEF TypeOK
    <3>4. QED
      BY <3>2, <3>3, LeasedRow
  <2>3. ASSUME NEW w \in Worker, RunJob(w)
        PROVE  /\ row'[job'[w0].session].status \in {"pending", "running"}
               /\ row'[job'[w0].session].retryCount = job'[w0].retryCount
    BY <2>3 DEF TypeOK, JobIsCurrent, RunJob, Busy, Job
  <2>4. ASSUME NEW w \in Worker, job' = [job EXCEPT ![w] = NoJob]
        PROVE  FALSE
    BY <2>4 DEF TypeOK, Busy, NoJob
  <2>5. CASE UNCHANGED <<row, job>>
    BY <2>5 DEF JobIsCurrent, Busy
  <2>6. QED
    BY <2>1, <2>2, <2>3, <2>4, <2>5
       DEF Next, Finish, Fail, LoseUpdate, Crash, Tick, vars
<1>3. QED
  BY <1>1, <1>2, TypeCorrect, PTL DEF Spec

(* The refinement mapping, and its value at one row. *)
RequestMap == [s \in Session |-> RequestOf(s)]

LEMMA RequestMapStep ==
  ASSUME NEW s \in Session, NEW r, TypeOK, row' = [row EXCEPT ![s] = r]
  PROVE  RequestMap' =
           [RequestMap EXCEPT ![s] =
              CASE r.status = "absent" -> "none"
                [] r.status \in {"pending", "running"} -> "open"
                [] OTHER -> "settled"]
BY DEF RequestMap, RequestOf, TypeOK

(***************************************************************************)
(* With one process, whatever opens a session's refresh is a request for   *)
(* that session: the updates of a job meet an open row.                    *)
(***************************************************************************)
LEMMA OnlyRequestsOpen ==
  ASSUME TypeOK, JobIsCurrent, Next, NEW s \in Session, Opens(s)
  PROVE  \E p \in Priority : Enqueue(s, p)
<1>1. ASSUME NEW t \in Session, NEW p \in Priority, Enqueue(t, p)
      PROVE  Enqueue(s, p)
  BY <1>1 DEF Enqueue, Opens, RequestOf, TypeOK
<1>2. ASSUME NEW w \in Worker, Claim(w) PROVE FALSE
  <2>1. PICK t \in Session : Claimable(t) /\ row' = [row EXCEPT ![t] = Leased(@, w)]
    BY <1>2 DEF Claim, FirstInLine
  <2>2. RequestOf(t) = "open"
    BY <2>1 DEF Claimable, RequestOf
  <2>3. s # t => row'[s] = row[s]
    BY <2>1 DEF TypeOK
  <2>4. QED
    BY <2>2, <2>3 DEF Opens, RequestOf
<1>3. ASSUME NEW w \in Worker, Finish(w) \/ Fail(w) PROVE FALSE
  <2>1. RequestOf(job[w].session) = "open"
    BY <1>3 DEF Finish, Fail, JobIsCurrent, Busy, RequestOf
  <2>2. s # job[w].session => row'[s] = row[s]
    BY <1>3 DEF Finish, Fail, TypeOK
  <2>3. QED
    BY <2>1, <2>2 DEF Opens, RequestOf
<1>4. row' # row
  BY DEF Opens, RequestOf
<1>5. QED
  BY <1>1, <1>2, <1>3, <1>4 DEF Next, RunJob, LoseUpdate, Crash, Tick

(***************************************************************************)
(* With one process, the queue implements RefreshRequests and only         *)
(* requests open a refresh.                                                *)
(***************************************************************************)
THEOREM OneProcessImplementsRequests ==
  ASSUME NEW CONSTANT w0, Worker = {w0}
  PROVE  Spec => ImplementsRequests
<1> USE DEF RequestMap
<1>1. Init => Requests!Init
  BY DEF Init, Requests!Init, RequestOf, AbsentRow
<1>2. TypeOK /\ JobIsCurrent /\ [Next]_vars => [Requests!Next]_RequestMap
  <2> SUFFICES ASSUME TypeOK, JobIsCurrent, [Next]_vars
               PROVE Requests!Next \/ UNCHANGED RequestMap
    OBVIOUS
  <2>1. now \in Nat /\ \A s \in Session : row[s] \in Row
    BY DEF TypeOK
  <2>2. ASSUME NEW s \in Session, NEW p \in Priority, Enqueue(s, p)
        PROVE Requests!Submit(s)
    <3>1. Upserted(row[s], p).status = "pending"
      BY <2>1, UpsertedRow
    <3>2. QED
      BY <2>2, <3>1, RequestMapStep DEF Enqueue, Requests!Submit
  <2>3. ASSUME NEW w \in Worker, Claim(w) PROVE UNCHANGED RequestMap
    <3>1. PICK s \in Session : Claimable(s) /\ row' = [row EXCEPT ![s] = Leased(@, w)]
      BY <2>3 DEF Claim, FirstInLine
    <3>2. RequestMap[s] = "open"
      BY <3>1 DEF Claimable, RequestOf
    <3>3. Leased(row[s], w).status = "running"
      BY <2>1, LeasedRow
    <3>4. QED
      BY <3>1, <3>2, <3>3, RequestMapStep
  <2>4. ASSUME NEW w \in Worker, Busy(w), NEW r,
               row' = [row EXCEPT ![job[w].session] = r],
               r.status \in {"pending", "succeeded", "failed"}
        PROVE Requests!Settle(job[w].session) \/ UNCHANGED RequestMap
    <3>1. /\ job[w].session \in Session
          /\ RequestMap[job[w].session] = "open"
      BY <2>4 DEF TypeOK, JobIsCurrent, RequestOf
    <3>2. QED
      BY <2>4, <3>1, RequestMapStep DEF Requests!Settle
  <2>5. ASSUME NEW w \in Worker, Finish(w)
        PROVE Requests!Settle(job[w].session) \/ UNCHANGED RequestMap
    <3>1. Busy(w) /\ job[w].session \in Session
      BY <2>5 DEF Finish, Busy, TypeOK
    <3>2. Succeeded(row[job[w].session]).status = "succeeded"
      BY <2>1, <3>1, SucceededRow
    <3>3. QED
      BY <2>4, <2>5, <3>1, <3>2 DEF Finish
  <2>6. ASSUME NEW w \in Worker, Fail(w)
        PROVE Requests!Settle(job[w].session) \/ UNCHANGED RequestMap
    <3>1. Busy(w) /\ job[w].session \in Session /\ job[w].retryCount + 1 \in Nat
      BY <2>6 DEF Fail, Busy, TypeOK, Job
    <3>2. Retried(row[job[w].session], job[w].retryCount + 1).status
            \in {"pending", "failed"}
      BY <2>1, <3>1, RetriedRow
    <3>3. QED
      BY <2>4, <2>6, <3>1, <3>2 DEF Fail
  <2>7. CASE UNCHANGED row
    BY <2>7 DEF RequestOf
  <2>8. ASSUME NEW w \in Worker, Busy(w) PROVE job[w].session \in Session
    BY <2>8 DEF TypeOK
  <2>9. QED
    BY <2>2, <2>3, <2>5, <2>6, <2>7, <2>8
       DEF Next, RunJob, LoseUpdate, Crash, Tick, vars, Requests!Next, Finish, Fail, Busy
<1>3. TypeOK /\ JobIsCurrent /\ [Next]_vars =>
        [\A s \in Session : Opens(s) => \E p \in Priority : Enqueue(s, p)]_vars
  BY OnlyRequestsOpen
<1>4. QED
  BY <1>1, <1>2, <1>3, TypeCorrect, OneProcessJobIsCurrent, PTL
     DEF Spec, ImplementsRequests, Requests!Spec

----------------------------------------------------------------------------
(* The composition.                                                        *)

FreshnessType ==
  /\ upstream \in [Session -> Hit]
  /\ index \in [Session -> Source]
  /\ agg \in [Session -> Aggregate]
  /\ work \in [Worker -> Work]
  /\ visit \in [Visitor -> Visit]
  /\ \A v \in Visitor : visit[v].step # "idle" => visit[v].session \in Session

(* What a step writes is well formed if what it read is. *)
LEMMA WrittenTypes ==
  ASSUME FreshnessType, NEW s \in Session
  PROVE  /\ NoVisit \in Visit /\ NoVisit.step = "idle"
         /\ NoWork \in Work
         /\ \A hit \in Lookups(s) : hit \in Hit /\ SourceOf(hit) \in Source
         /\ \A src \in OrNothing(index[s], NoSource) : src \in Source
         /\ \A src \in Source : Persisted(src) \in Aggregate
         /\ \A step \in {"freshness", "detail"} :
              Arrived(step, s) \in Visit /\ Arrived(step, s).session = s
         /\ \A x \in Visit, src \in Source, writeback \in BOOLEAN :
              /\ Fetched(x, src, writeback) \in Visit
              /\ Fetched(x, src, writeback).session = x.session
<1>1. /\ NoHit \in Hit /\ NoSource \in Source /\ NoAggregate \in Aggregate
      /\ NoVisit \in Visit /\ NoVisit.step = "idle" /\ NoWork \in Work
  BY DEF NoHit, Hit, NoSource, Source, NoAggregate, Aggregate, NoVisit, Visit, NoWork, Work
<1>2. upstream[s] \in Hit /\ index[s] \in Source /\ agg[s] \in Aggregate
  BY DEF FreshnessType
<1>3. \A hit \in Hit : SourceOf(hit) \in Source
  BY DEF SourceOf, Hit, Source
<1>4. \A src \in Source : Persisted(src) \in Aggregate
  BY DEF Persisted, Source, Aggregate
<1>5. \A step \in {"freshness", "detail"} :
        Arrived(step, s) \in Visit /\ Arrived(step, s).session = s
  BY <1>1, <1>2 DEF Arrived, Visit, NoVisit
<1>6. \A x \in Visit, src \in Source, writeback \in BOOLEAN :
        /\ Fetched(x, src, writeback) \in Visit
        /\ Fetched(x, src, writeback).session = x.session
  BY DEF Fetched, Visit
<1>7. QED
  BY <1>1, <1>2, <1>3, <1>4, <1>5, <1>6 DEF Lookups, OrNothing

(* A handler's local variables stay well formed when they become y. *)
LEMMA VisitMoves ==
  ASSUME FreshnessType, NEW v \in Visitor, NEW y \in Visit,
         y.step # "idle" => y.session \in Session,
         visit' = [visit EXCEPT ![v] = y]
  PROVE  /\ visit' \in [Visitor -> Visit]
         /\ \A u \in Visitor : visit'[u].step # "idle" => visit'[u].session \in Session
BY DEF FreshnessType

(* A step of a request handler keeps the data well formed. *)
LEMMA VisitType ==
  ASSUME FreshnessType, NEW v \in Visitor, FreshnessStep(v) \/ DetailStep(v)
  PROVE  FreshnessType'
<1> DEFINE x == visit[v]
           Moves == \E y \in Visit :
                      /\ visit' = [visit EXCEPT ![v] = y]
                      /\ y.step # "idle" => y.session \in Session
<1>0. /\ x \in Visit /\ x.hit \in Hit /\ x.index \in Source
      /\ x.step # "idle" => x.session \in Session
  BY DEF FreshnessType, Visit
<1>a. ASSUME Moves, UNCHANGED <<data, work>> PROVE FreshnessType'
  BY <1>a, VisitMoves DEF FreshnessType, data
<1>1. ASSUME NEW s \in Session, FreshnessRead(v, s) PROVE FreshnessType'
  <2>1. Arrived("freshness", s) \in Visit /\ Arrived("freshness", s).session \in Session
    BY WrittenTypes
  <2>2. Moves
    BY <1>1, <2>1 DEF FreshnessRead
  <2>3. QED
    BY <1>1, <1>a, <2>2 DEF FreshnessRead
<1>2. CASE FreshnessIndex(v)
  <2>1. \A src \in Source : [x EXCEPT !.step = "resolve", !.index = src] \in Visit
    BY <1>0 DEF Visit
  <2>2. x.session \in Session /\ x.step # "idle"
    BY <1>0, <1>2 DEF FreshnessIndex
  <2>3. \A src : [x EXCEPT !.step = "resolve", !.index = src].session = x.session
    BY <1>0 DEF Visit
  <2>4. Moves
    BY <1>2, <2>1, <2>2, <2>3, WrittenTypes DEF FreshnessIndex
  <2>5. QED
    BY <1>2, <1>a, <2>4 DEF FreshnessIndex
<1>3. CASE FreshnessResolve(v)
  <2>1. \A hit \in Hit : [x EXCEPT !.step = "compare", !.hit = hit] \in Visit
    BY <1>0 DEF Visit
  <2>2. NoHit \in Hit
    BY DEF NoHit, Hit
  <2>3. x.session \in Session /\ x.step # "idle"
    BY <1>0, <1>3 DEF FreshnessResolve
  <2>4. \A hit : [x EXCEPT !.step = "compare", !.hit = hit].session = x.session
    BY <1>0 DEF Visit
  <2>5. PICK hit \in Hit :
          visit' = [visit EXCEPT ![v] = [@ EXCEPT !.step = "compare", !.hit = hit]]
    <3>1. \A hit \in Lookups(x.session) : hit \in Hit
      BY <2>3, WrittenTypes
    <3>2. QED
      BY <1>3, <2>2, <3>1 DEF FreshnessResolve
  <2>6. Moves
    BY <2>1, <2>3, <2>4, <2>5
  <2>7. QED
    BY <1>3, <1>a, <2>6 DEF FreshnessResolve
<1>4. CASE FreshnessEnqueue(v)
  <2>1. [x EXCEPT !.step = "mark"] \in Visit
    BY <1>0 DEF Visit
  <2>2. Moves
    BY <1>0, <1>4, <2>1, WrittenTypes DEF FreshnessEnqueue, Visit
  <2>3. QED
    BY <1>4, <1>a, <2>2 DEF FreshnessEnqueue
<1>5. CASE FreshnessMark(v)
  <2>1. x.session \in Session /\ NoVisit \in Visit /\ NoVisit.step = "idle"
    BY <1>0, <1>5, WrittenTypes DEF FreshnessMark
  <2>2. agg' \in [Session -> Aggregate]
    BY <1>5, <2>1 DEF FreshnessType, FreshnessMark, Aggregate
  <2>3. visit' = [visit EXCEPT ![v] = NoVisit] /\ UNCHANGED <<upstream, index, work>>
    BY <1>5 DEF FreshnessMark
  <2>4. QED
    BY <2>1, <2>2, <2>3, VisitMoves DEF FreshnessType
<1>6. ASSUME NEW s \in Session, DetailRead(v, s) PROVE FreshnessType'
  <2>1. Arrived("detail", s) \in Visit /\ Arrived("detail", s).session \in Session
    BY WrittenTypes
  <2>2. Moves
    BY <1>6, <2>1 DEF DetailRead
  <2>3. QED
    BY <1>6, <1>a, <2>2 DEF DetailRead
<1>7. CASE DetailResolve(v)
  <2>1. \A hit \in Hit : [x EXCEPT !.step = "source", !.hit = hit] \in Visit
    BY <1>0 DEF Visit
  <2>2. x.session \in Session /\ x.step # "idle"
    BY <1>0, <1>7 DEF DetailResolve
  <2>3. \A hit : [x EXCEPT !.step = "source", !.hit = hit].session = x.session
    BY <1>0 DEF Visit
  <2>4. Moves
    BY <1>7, <2>1, <2>2, <2>3, WrittenTypes DEF DetailResolve
  <2>5. QED
    BY <1>7, <1>a, <2>4 DEF DetailResolve
<1>8. CASE DetailSource(v)
  <2>1. x.session \in Session /\ index[x.session] \in Source /\ SourceOf(x.hit) \in Source
    BY <1>0, <1>8 DEF FreshnessType, DetailSource, SourceOf, Source, Hit
  <2>2. /\ NoVisit \in Visit /\ NoVisit.step = "idle"
        /\ \A src \in Source, writeback \in BOOLEAN :
             /\ Fetched(x, src, writeback) \in Visit
             /\ Fetched(x, src, writeback).session \in Session
    BY <1>0, <2>1, WrittenTypes
  <2>3. Moves
    BY <1>8, <2>1, <2>2 DEF DetailSource
  <2>4. QED
    BY <1>8, <1>a, <2>3 DEF DetailSource
<1>9. CASE DetailPersist(v)
  <2>1. x.session \in Session /\ Persisted(x.index) \in Aggregate /\ NoVisit \in Visit
        /\ NoVisit.step = "idle"
    BY <1>0, <1>9, WrittenTypes DEF DetailPersist
  <2>2. agg' \in [Session -> Aggregate]
    BY <1>9, <2>1 DEF FreshnessType, DetailPersist, Persists
  <2>3. [x EXCEPT !.step = "writeback"] \in Visit
        /\ [x EXCEPT !.step = "writeback"].session \in Session
    BY <1>0, <2>1 DEF Visit
  <2>4. Moves
    BY <1>9, <2>1, <2>3 DEF DetailPersist
  <2>5. UNCHANGED <<upstream, index, work>>
    BY <1>9 DEF DetailPersist
  <2>6. QED
    BY <2>2, <2>4, <2>5, VisitMoves DEF FreshnessType
<1>10. CASE DetailWriteback(v)
  <2>1. x.session \in Session /\ NoVisit \in Visit /\ NoVisit.step = "idle"
    BY <1>0, <1>10, WrittenTypes DEF DetailWriteback
  <2>2. index' \in [Session -> Source]
    BY <1>0, <1>10, <2>1 DEF FreshnessType, DetailWriteback, WritesBack
  <2>3. visit' = [visit EXCEPT ![v] = NoVisit] /\ UNCHANGED <<upstream, agg, work>>
    BY <1>10 DEF DetailWriteback
  <2>4. QED
    BY <2>1, <2>2, <2>3, VisitMoves DEF FreshnessType
<1>11. QED
  BY <1>1, <1>2, <1>3, <1>4, <1>5, <1>6, <1>7, <1>8, <1>9, <1>10
     DEF FreshnessStep, DetailStep

(* A step of a process keeps the data well formed; the queue tells that    *)
(* the job it holds is about a session.                                    *)
LEMMA JobType ==
  ASSUME TypeOK, FreshnessType, NEW w \in Worker, JobStep(w) \/ JobFault(w)
  PROVE  FreshnessType'
<1> DEFINE s == job[w].session
           Works == \E y \in Work : work' = [work EXCEPT ![w] = y]
<1>0. /\ work[w] \in Work /\ work[w].src \in Source
      /\ job[w].stage = "claimed" => s \in Session
  BY DEF FreshnessType, Work, TypeOK, Busy
<1>a. NoWork \in Work
  BY DEF NoWork, Work, NoSource, Source
<1>b. ASSUME Works PROVE work' \in [Worker -> Work]
  BY <1>b DEF FreshnessType
<1>c. ASSUME Works, UNCHANGED <<data, visit>> PROVE FreshnessType'
  BY <1>b, <1>c DEF FreshnessType, data
<1>d. ASSUME NEW outcome, JobReturns(w, outcome) PROVE Works
  BY <1>a, <1>d DEF JobReturns
<1>1. CASE JobClaim(w)
  BY <1>1, <1>a, <1>c DEF JobClaim
<1>2. CASE JobReadIndex(w)
  <2>1. index[s] \in Source
    BY <1>0, <1>2 DEF JobReadIndex, FreshnessType
  <2>2. [NoWork EXCEPT !.step = "resolve", !.src = index[s]] \in Work
    BY <2>1 DEF NoWork, Work
  <2>3. Works
    BY <1>2, <1>d, <2>2 DEF JobReadIndex
  <2>4. QED
    BY <1>2, <1>c, <2>3 DEF JobReadIndex
<1>3. CASE JobResolve(w)
  <2>1. \A hit \in Lookups(s) : SourceOf(hit) \in Source
    BY <1>0, <1>3, WrittenTypes DEF JobResolve
  <2>2. \A src \in Source : [step |-> "fetch", src |-> src, writeback |-> TRUE] \in Work
    BY DEF Work
  <2>3. [work[w] EXCEPT !.step = "fetch"] \in Work
    BY <1>0 DEF Work
  <2>4. Works
    BY <1>3, <1>d, <2>1, <2>2, <2>3 DEF JobResolve
  <2>5. QED
    BY <1>3, <1>c, <2>4 DEF JobResolve
<1>4. CASE JobRefresh(w)
  <2>1. s \in Session /\ Persisted(work[w].src) \in Aggregate
    BY <1>0, <1>4, WrittenTypes DEF JobRefresh
  <2>2. agg' \in [Session -> Aggregate]
    BY <1>4, <2>1 DEF FreshnessType, JobRefresh, Persists
  <2>3. [work[w] EXCEPT !.step = "writeback"] \in Work
    BY <1>0 DEF Work
  <2>4. Works
    BY <1>4, <1>d, <2>3 DEF JobRefresh
  <2>5. QED
    BY <1>4, <1>b, <2>2, <2>4 DEF FreshnessType, JobRefresh
<1>5. CASE JobWriteback(w)
  <2>1. index' \in [Session -> Source]
    BY <1>0, <1>5 DEF FreshnessType, JobWriteback, WritesBack
  <2>2. QED
    BY <1>5, <1>b, <1>d, <2>1 DEF FreshnessType, JobWriteback
<1>6. CASE JobSettle(w)
  BY <1>6 DEF JobSettle, FreshnessType, data
<1>7. CASE JobFault(w)
  BY <1>7, <1>a, <1>c DEF JobFault
<1>8. QED
  BY <1>1, <1>2, <1>3, <1>4, <1>5, <1>6, <1>7 DEF JobStep

(* A step of a request handler enqueues or leaves the queue alone. *)
LEMMA VisitStepOfQueue ==
  ASSUME FreshnessType, NEW v \in Visitor, FreshnessStep(v) \/ DetailStep(v)
  PROVE  [Next]_vars
<1>1. CASE FreshnessEnqueue(v)
  <2>1. visit[v].session \in Session /\ High \in Priority
    BY <1>1, FreshnessAssumption DEF FreshnessType, FreshnessEnqueue
  <2>2. QED
    BY <1>1, <2>1 DEF FreshnessEnqueue, Next
<1>2. CASE FreshnessStep(v) /\ ~FreshnessEnqueue(v)
  BY <1>2 DEF FreshnessStep, FreshnessRead, FreshnessIndex, FreshnessResolve, FreshnessMark
<1>3. CASE DetailStep(v)
  BY <1>3 DEF DetailStep, DetailRead, DetailResolve, DetailSource, DetailPersist,
              DetailWriteback
<1>4. QED
  BY <1>1, <1>2, <1>3

(* A step of a process is a step of its queue loop or leaves the queue     *)
(* alone: the data decides what a job returns, and nothing else.           *)
LEMMA JobStepOfQueue ==
  ASSUME NEW w \in Worker, JobStep(w) \/ JobFault(w)
  PROVE  [Next]_vars
<1>0. ASSUME NEW outcome, JobReturns(w, outcome) PROVE Next
  BY <1>0 DEF JobReturns, Next
<1>1. CASE JobClaim(w)
  BY <1>1 DEF JobClaim, Next
<1>2. CASE JobReadIndex(w)
  BY <1>0, <1>2 DEF JobReadIndex
<1>3. CASE JobResolve(w)
  BY <1>0, <1>3 DEF JobResolve
<1>4. CASE JobRefresh(w)
  BY <1>0, <1>4 DEF JobRefresh
<1>5. CASE JobWriteback(w)
  BY <1>0, <1>5 DEF JobWriteback
<1>6. CASE JobSettle(w)
  BY <1>6 DEF JobSettle, Next
<1>7. CASE JobFault(w)
  BY <1>7 DEF JobFault, Next
<1>8. QED
  BY <1>1, <1>2, <1>3, <1>4, <1>5, <1>6, <1>7 DEF JobStep

(* Every step of the composition keeps the data well formed, and is a step *)
(* of the queue or leaves it alone.                                        *)
LEMMA CompositionStep ==
  ASSUME FTypeOK, [FNext]_fvars
  PROVE  FreshnessType' /\ [Next]_vars
<1>0. TypeOK /\ FreshnessType
  BY DEF FTypeOK, FreshnessType
<1>1. ASSUME NEW s \in Session, UserTurn(s) PROVE FreshnessType' /\ [Next]_vars
  BY <1>0, <1>1 DEF UserTurn, FreshnessType, Hit
<1>2. ASSUME NEW v \in Visitor, FreshnessStep(v) \/ DetailStep(v)
      PROVE FreshnessType' /\ [Next]_vars
  BY <1>0, <1>2, VisitType, VisitStepOfQueue
<1>3. ASSUME NEW w \in Worker, JobStep(w) \/ JobFault(w)
      PROVE FreshnessType' /\ [Next]_vars
  BY <1>0, <1>3, JobType, JobStepOfQueue
<1>4. CASE FTick
  BY <1>0, <1>4 DEF FTick, FreshnessType, data, Next
<1>5. CASE UNCHANGED fvars
  BY <1>0, <1>5 DEF fvars, vars, FreshnessType
<1>6. QED
  BY <1>1, <1>2, <1>3, <1>4, <1>5 DEF FNext

(***************************************************************************)
(* The composition's state is well formed, whether or not upstream answers *)
(* and writes succeed: every handler under way is about a session.         *)
(***************************************************************************)
THEOREM FreshnessTypeCorrect == FSpec => []FTypeOK
<1>1. FInit => FTypeOK
  <2> SUFFICES ASSUME FInit PROVE FTypeOK
    OBVIOUS
  <2>1. TypeOK
    BY QueueAssumption DEF FInit, Init, TypeOK, AbsentRow, NoJob, Row, Job, Time, NoTime,
                           Status, Stage, Busy
  <2>2. /\ upstream \in [Session -> Hit]
        /\ index \in [Session -> Source]
        /\ agg \in [Session -> Aggregate]
    <3>1. [file |-> 1, at |-> 1, stamp |-> 1] \in Hit
      BY DEF Hit
    <3>2. NoSource \in Source /\ [file |-> 1, at |-> 1] \in Source
      BY DEF NoSource, Source
    <3>3. NoAggregate \in Aggregate /\ Persisted([file |-> 1, at |-> 1]) \in Aggregate
      BY DEF NoAggregate, Aggregate, Persisted
    <3>4. QED
      BY <3>1, <3>2, <3>3 DEF FInit
  <2>3. /\ work \in [Worker -> Work]
        /\ visit \in [Visitor -> Visit]
        /\ \A v \in Visitor : visit[v].step # "idle" => visit[v].session \in Session
    BY DEF FInit, NoWork, Work, NoVisit, Visit, NoHit, Hit, NoSource, Source,
           NoAggregate, Aggregate
  <2>4. QED
    BY <2>1, <2>2, <2>3 DEF FTypeOK
<1>2. FTypeOK /\ [FNext]_fvars => FTypeOK'
  BY CompositionStep, TypeStep DEF FTypeOK, FreshnessType
<1>3. QED
  BY <1>1, <1>2, PTL DEF FSpec

(* What the queue alone keeps invariant holds here, too: every action has  *)
(* a queue step or none.                                                   *)
LEMMA QueueInside == FSpec => Spec
<1>1. FInit => Init
  BY DEF FInit
<1>2. FTypeOK /\ [FNext]_fvars => [Next]_vars
  BY CompositionStep
<1>3. QED
  BY <1>1, <1>2, FreshnessTypeCorrect, PTL DEF FSpec, Spec

(***************************************************************************)
(* Leases are sound in the composition, too.                               *)
(***************************************************************************)
THEOREM FreshnessLeasesSound == FSpec => [](LeasedIffRunning /\ NoStrandedRow)
BY QueueInside, LeasesSound, PTL

(***************************************************************************)
(* With one process, a reliable upstream and no detail reads, nothing is   *)
(* replaced by something older.  What the worker is about to write it      *)
(* resolved after it read what is there, and upstream only moves forward.  *)
(***************************************************************************)
OneReliableWorker == Reliable /\ ~DetailReads /\ \A v, w \in Worker : v = w

VersionsOrdered ==
  /\ \A v \in Visitor : visit[v].step \in {"idle", "freshness", "resolve", "compare", "mark"}
  /\ \A s \in Session : /\ upstream[s].file >= 1
                        /\ agg[s].file <= upstream[s].file
                        /\ index[s].file <= upstream[s].file
  /\ \A w \in Worker : work[w].step \in {"fetch", "writeback"} =>
       /\ job[w].stage = "claimed"
       /\ agg[job[w].session].file <= work[w].src.file
       /\ index[job[w].session].file <= work[w].src.file
       /\ work[w].src.file <= upstream[job[w].session].file

NothingOlder ==
  \A s \in Session : agg'[s].file >= agg[s].file /\ index'[s].file >= index[s].file

LEMMA FilesAreNumbers ==
  ASSUME FTypeOK
  PROVE  /\ \A s \in Session : /\ upstream[s].file \in Nat /\ agg[s].file \in Nat
                               /\ index[s].file \in Nat
         /\ \A w \in Worker : work[w].src.file \in Nat
         /\ \A w \in Worker : job[w].stage = "claimed" => job[w].session \in Session
BY DEF FTypeOK, TypeOK, Busy, Hit, Source, Aggregate, Work

(* A request is served without moving a file. *)
LEMMA VisitKeepsOrder ==
  ASSUME OneReliableWorker, FTypeOK, VersionsOrdered,
         NEW v \in Visitor, FreshnessStep(v) \/ DetailStep(v)
  PROVE  VersionsOrdered' /\ NothingOlder
<1> DEFINE Steps == {"idle", "freshness", "resolve", "compare", "mark"}
<1>1. ~DetailStep(v)
  BY DEF OneReliableWorker, VersionsOrdered, DetailStep, DetailRead, DetailResolve,
         DetailSource, DetailPersist, DetailWriteback
<1>2. \A y : visit' = [visit EXCEPT ![v] = y] /\ y.step \in Steps =>
        \A u \in Visitor : visit'[u].step \in Steps
  BY DEF FTypeOK, VersionsOrdered
<1>3. visit[v] \in Visit /\ NoVisit.step = "idle"
      /\ \A s \in Session : Arrived("freshness", s).step = "freshness"
  BY DEF FTypeOK, Arrived, NoVisit
<1>4. /\ \A src : [visit[v] EXCEPT !.step = "resolve", !.index = src].step = "resolve"
      /\ \A hit : [visit[v] EXCEPT !.step = "compare", !.hit = hit].step = "compare"
      /\ [visit[v] EXCEPT !.step = "mark"].step = "mark"
  BY <1>3 DEF Visit
<1>5. /\ \A u \in Visitor : visit'[u].step \in Steps
      /\ work' = work /\ job' = job /\ upstream' = upstream /\ index' = index
  <2>1. CASE \E s \in Session : FreshnessRead(v, s)
    BY <1>2, <1>3, <2>1 DEF FreshnessRead, vars, data
  <2>2. CASE FreshnessIndex(v)
    BY <1>2, <1>4, <2>2 DEF FreshnessIndex, vars, data
  <2>3. CASE FreshnessResolve(v)
    <3>1. PICK hit : visit' = [visit EXCEPT ![v] = [@ EXCEPT !.step = "compare", !.hit = hit]]
      BY <2>3 DEF FreshnessResolve
    <3>2. visit' = [visit EXCEPT ![v] = [visit[v] EXCEPT !.step = "compare", !.hit = hit]]
      BY <3>1
    <3>3. QED
      BY <1>2, <1>4, <2>3, <3>2 DEF FreshnessResolve, vars, data
  <2>4. CASE FreshnessEnqueue(v)
    BY <1>2, <1>3, <1>4, <2>4 DEF FreshnessEnqueue, Enqueue, vars, data
  <2>5. CASE FreshnessMark(v)
    BY <1>2, <1>3, <2>5 DEF FreshnessMark, vars
  <2>6. QED
    BY <1>1, <2>1, <2>2, <2>3, <2>4, <2>5 DEF FreshnessStep
<1>6. \A s \in Session : agg'[s].file = agg[s].file
  <2>1. CASE FreshnessMark(v)
    <3>1. \/ agg' = agg
          \/ agg' = [agg EXCEPT ![visit[v].session].invalidated = TRUE]
      BY <2>1 DEF FreshnessMark
    <3>2. QED
      BY <3>1 DEF FTypeOK, Aggregate
  <2>2. CASE ~FreshnessMark(v)
    BY <1>1, <2>2 DEF FreshnessStep, FreshnessRead, FreshnessIndex, FreshnessResolve,
                      FreshnessEnqueue, data
  <2>3. QED
    BY <2>1, <2>2
<1>7. NothingOlder
  BY <1>5, <1>6, FilesAreNumbers DEF NothingOlder
<1>8. QED
  BY <1>5, <1>6, <1>7, FilesAreNumbers DEF VersionsOrdered

LEMMA JobKeepsOrder ==
  ASSUME OneReliableWorker, FTypeOK, VersionsOrdered,
         NEW w \in Worker, JobStep(w) \/ JobFault(w)
  PROVE  VersionsOrdered' /\ NothingOlder
<1> DEFINE s == job[w].session
<1>0. \A u \in Worker : u = w
  BY DEF OneReliableWorker
<1>1. NoWork.step = "start" /\ work \in [Worker -> Work]
  BY DEF NoWork, FTypeOK
<1>2. ASSUME work' = [work EXCEPT ![w] = NoWork], UNCHANGED <<upstream, visit>>,
             \A t \in Session : /\ agg'[t].file \in Nat /\ agg[t].file <= agg'[t].file
                                /\ agg'[t].file <= upstream[t].file
                                /\ index'[t].file \in Nat /\ index[t].file <= index'[t].file
                                /\ index'[t].file <= upstream[t].file
      PROVE  VersionsOrdered' /\ NothingOlder
  BY <1>0, <1>1, <1>2, FilesAreNumbers DEF VersionsOrdered, NothingOlder
<1>3. ASSUME work' = [work EXCEPT ![w] = NoWork], UNCHANGED <<data, visit>>
      PROVE  VersionsOrdered' /\ NothingOlder
  BY <1>2, <1>3, FilesAreNumbers DEF data, VersionsOrdered
<1>4. CASE JobClaim(w) \/ JobFault(w)
  BY <1>3, <1>4 DEF JobClaim, JobFault
<1>5. CASE JobReadIndex(w)
  <2>1. /\ work' = [work EXCEPT ![w] = [NoWork EXCEPT !.step = "resolve", !.src = index[s]]]
        /\ UNCHANGED <<data, visit>>
    BY <1>5 DEF JobReadIndex, OneReliableWorker
  <2>2. work'[w].step = "resolve"
    BY <1>1, <2>1 DEF NoWork
  <2>3. QED
    BY <1>0, <2>1, <2>2, FilesAreNumbers DEF VersionsOrdered, NothingOlder, data
<1>6. CASE JobResolve(w)
  <2>1. s \in Session /\ Lookups(s) = {upstream[s]} /\ job[w].stage = "claimed"
        /\ UNCHANGED <<data, visit>>
    BY <1>6, FilesAreNumbers DEF JobResolve, Lookups, OrNothing, OneReliableWorker
  <2>2. CASE JobReturns(w, "errored")
    BY <1>3, <2>1, <2>2 DEF JobReturns
  <2>3. CASE /\ Stale(work[w].src, upstream[s])
             /\ work' = [work EXCEPT ![w] = [step |-> "fetch", src |-> SourceOf(upstream[s]),
                                             writeback |-> TRUE]]
             /\ UNCHANGED vars
    <3>1. work'[w].src.file = upstream[s].file /\ job' = job
      BY <1>1, <2>3 DEF SourceOf, vars
    <3>2. QED
      BY <1>0, <2>1, <3>1, FilesAreNumbers DEF VersionsOrdered, NothingOlder, data
  <2>4. CASE /\ ~Stale(work[w].src, upstream[s])
             /\ work' = [work EXCEPT ![w].step = "fetch"]
             /\ UNCHANGED vars
    <3>1. work[w].src.file = upstream[s].file
      BY <2>1, <2>4, FilesAreNumbers DEF Stale, Exists, VersionsOrdered
    <3>2. work'[w].src = work[w].src /\ job' = job
      BY <1>1, <2>4 DEF Work, vars
    <3>3. QED
      BY <1>0, <2>1, <3>1, <3>2, FilesAreNumbers DEF VersionsOrdered, NothingOlder, data
  <2>5. QED
    BY <1>6, <2>1, <2>2, <2>3, <2>4 DEF JobResolve
<1>7. CASE JobRefresh(w)
  <2>1. /\ s \in Session /\ agg' = [agg EXCEPT ![s] = Persisted(work[w].src)]
        /\ UNCHANGED <<upstream, index, visit>> /\ work[w].step = "fetch"
        /\ job[w].stage = "claimed"
    BY <1>7, FilesAreNumbers DEF JobRefresh, Persists, OneReliableWorker
  <2>2. /\ agg'[s].file = work[w].src.file
        /\ \A t \in Session \ {s} : agg'[t] = agg[t]
    BY <2>1 DEF FTypeOK, Persisted
  <2>3. \A t \in Session : /\ agg'[t].file \in Nat /\ agg[t].file <= agg'[t].file
                           /\ agg'[t].file <= upstream[t].file
    BY <2>1, <2>2, FilesAreNumbers DEF VersionsOrdered
  <2>4. CASE work' = [work EXCEPT ![w].step = "writeback"] /\ UNCHANGED vars
    <3>1. work'[w].src = work[w].src /\ job' = job
      BY <1>1, <2>4 DEF Work, vars
    <3>2. QED
      BY <1>0, <2>1, <2>2, <2>3, <3>1, FilesAreNumbers DEF VersionsOrdered, NothingOlder
  <2>5. CASE work' = [work EXCEPT ![w] = NoWork]
    BY <1>2, <2>1, <2>3, <2>5, FilesAreNumbers DEF VersionsOrdered
  <2>6. QED
    BY <1>7, <2>4, <2>5 DEF JobRefresh, JobReturns
<1>8. CASE JobWriteback(w)
  <2>1. /\ s \in Session /\ index' = [index EXCEPT ![s] = work[w].src]
        /\ UNCHANGED <<upstream, agg, visit>> /\ work[w].step = "writeback"
        /\ work' = [work EXCEPT ![w] = NoWork]
    BY <1>8, FilesAreNumbers DEF JobWriteback, WritesBack, OneReliableWorker, JobReturns
  <2>2. /\ index'[s] = work[w].src
        /\ \A t \in Session \ {s} : index'[t] = index[t]
    BY <2>1 DEF FTypeOK
  <2>3. \A t \in Session : /\ index'[t].file \in Nat /\ index[t].file <= index'[t].file
                           /\ index'[t].file <= upstream[t].file
    BY <2>1, <2>2, FilesAreNumbers DEF VersionsOrdered
  <2>4. QED
    BY <1>2, <2>1, <2>3, FilesAreNumbers DEF VersionsOrdered
<1>9. CASE JobSettle(w)
  <2>1. job[w].stage # "claimed" /\ UNCHANGED <<data, work, visit>>
    BY <1>9 DEF JobSettle, Finish, Fail
  <2>2. work[w].step \notin {"fetch", "writeback"}
    BY <2>1 DEF VersionsOrdered
  <2>3. QED
    BY <1>0, <2>1, <2>2, FilesAreNumbers DEF VersionsOrdered, NothingOlder, data
<1>10. QED
  BY <1>4, <1>5, <1>6, <1>7, <1>8, <1>9 DEF JobStep

LEMMA StepKeepsOrder ==
  ASSUME OneReliableWorker, FTypeOK, VersionsOrdered, [FNext]_fvars
  PROVE  VersionsOrdered' /\ NothingOlder
<1>1. ASSUME NEW s \in Session, UserTurn(s) PROVE VersionsOrdered' /\ NothingOlder
  <2>1. /\ upstream'[s].file = upstream[s].file + 1
        /\ \A t \in Session \ {s} : upstream'[t] = upstream[t]
        /\ UNCHANGED <<job, index, agg, work, visit>>
    BY <1>1 DEF UserTurn, FTypeOK, vars
  <2>2. \A t \in Session : /\ upstream[t].file <= upstream'[t].file
                           /\ upstream'[t].file \in Nat
    BY <2>1, FilesAreNumbers
  <2>3. QED
    BY <2>1, <2>2, FilesAreNumbers DEF VersionsOrdered, NothingOlder
<1>2. CASE FTick \/ UNCHANGED fvars
  BY <1>2, FilesAreNumbers DEF FTick, Tick, data, fvars, VersionsOrdered, NothingOlder
<1>3. QED
  BY <1>1, <1>2, VisitKeepsOrder, JobKeepsOrder DEF FNext

(* Whatever turns and requests fall between the steps of a refresh, with   *)
(* crashes and lost updates of the queue: an aggregate and an index entry  *)
(* are replaced only by ones of the same or a later file.                  *)
THEOREM NothingGrowsOlder ==
  ASSUME OneReliableWorker PROVE FSpec => NeverOlder
<1>1. FInit => VersionsOrdered
  BY DEF FInit, VersionsOrdered, NoWork, NoVisit, NoSource, NoAggregate, Persisted
<1>2. FTypeOK /\ VersionsOrdered /\ [FNext]_fvars => VersionsOrdered'
  BY StepKeepsOrder
<1>3. FTypeOK /\ VersionsOrdered /\ [FNext]_fvars =>
        [\A s \in Session : agg'[s].file >= agg[s].file
                            /\ index'[s].file >= index[s].file]_fvars
  BY StepKeepsOrder DEF NothingOlder
<1>4. QED
  BY <1>1, <1>2, <1>3, FreshnessTypeCorrect, PTL DEF FSpec, NeverOlder

(***************************************************************************)
(* Under the same assumptions the index does not stay behind an aggregate. *)
(* A job that has what the index has leaves both alike; one that has more  *)
(* writes the index before it returns, or stops with its row still open.   *)
(***************************************************************************)
Lags(s) == Exists(index[s]) /\ index[s].file < agg[s].file
Open(s) == row[s].status \in {"pending", "running"}

JobsKeepUp ==
  /\ \A w \in Worker :
       /\ job[w].stage # "errored"
       /\ job[w].stage = "refreshed" => ~Lags(job[w].session)
       /\ work[w].step \in {"resolve", "fetch", "writeback"} => job[w].stage = "claimed"
       /\ \/ work[w].step = "resolve"
          \/ work[w].step = "fetch" /\ ~work[w].writeback
          => work[w].src = index[job[w].session]
  /\ \A s \in Session : Lags(s) => Open(s)

\* A request opens the row and moves neither file.
LEMMA VisitKeepsUp ==
  ASSUME OneReliableWorker, FTypeOK, VersionsOrdered, JobsKeepUp,
         NEW v \in Visitor, FreshnessStep(v) \/ DetailStep(v)
  PROVE  JobsKeepUp'
<1>1. ~DetailStep(v)
  BY DEF OneReliableWorker, VersionsOrdered, DetailStep, DetailRead, DetailResolve,
         DetailSource, DetailPersist, DetailWriteback
<1>2. UNCHANGED <<job, work, index>>
  BY <1>1 DEF FreshnessStep, FreshnessRead, FreshnessIndex, FreshnessResolve,
              FreshnessEnqueue, FreshnessMark, Enqueue, vars, data
<1>3. \A s \in Session : agg'[s].file = agg[s].file
  <2>1. CASE FreshnessMark(v)
    <3>1. \/ agg' = agg
          \/ agg' = [agg EXCEPT ![visit[v].session].invalidated = TRUE]
      BY <2>1 DEF FreshnessMark
    <3>2. QED
      BY <3>1 DEF FTypeOK, Aggregate
  <2>2. CASE ~FreshnessMark(v)
    BY <1>1, <2>2 DEF FreshnessStep, FreshnessRead, FreshnessIndex, FreshnessResolve,
                      FreshnessEnqueue, data
  <2>3. QED
    BY <2>1, <2>2
<1>4. \A s \in Session : Open(s) => Open(s)'
  <2>1. CASE row' = row
    BY <2>1 DEF Open
  <2>2. CASE Enqueue(visit[v].session, High)
    <3>1. row' = [row EXCEPT ![visit[v].session] = Upserted(@, High)]
      BY <2>2 DEF Enqueue
    <3>2. \A s \in Session : Upserted(row[s], High).status = "pending"
      BY DEF Upserted, AbsentRow, FTypeOK, TypeOK, Row
    <3>3. QED
      BY <3>1, <3>2 DEF Open, FTypeOK, TypeOK
  <2>3. QED
    BY <1>1, <2>1, <2>2 DEF FreshnessStep, FreshnessRead, FreshnessIndex, FreshnessResolve,
                            FreshnessEnqueue, FreshnessMark, vars
<1>5. \A s \in Session : Lags(s)' <=> Lags(s)
  BY <1>2, <1>3 DEF Lags
<1>6. \A w \in Worker : job[w].stage = "refreshed" => job[w].session \in Session
  BY DEF FTypeOK, TypeOK, Busy
<1>7. QED
  BY <1>2, <1>4, <1>5, <1>6 DEF JobsKeepUp

\* A job that returns has brought the index up to the aggregate.
LEMMA JobKeepsUp ==
  ASSUME OneReliableWorker, FTypeOK, VersionsOrdered, JobIsCurrent, JobsKeepUp,
         NEW w \in Worker, JobStep(w) \/ JobFault(w)
  PROVE  JobsKeepUp'
<1> DEFINE s == job[w].session
<1>0. \A u \in Worker : u = w
  BY DEF OneReliableWorker
<1>1. /\ NoWork.step = "start" /\ NoJob.stage = "idle"
      /\ work \in [Worker -> Work] /\ job \in [Worker -> Job]
      /\ row \in [Session -> Row] /\ index \in [Session -> Source]
      /\ job[w].stage # "idle" => s \in Session
  BY DEF NoWork, NoJob, FTypeOK, TypeOK, Busy
<1>2. /\ job[w].stage # "errored"
      /\ job[w].stage = "refreshed" => ~Lags(s)
      /\ work[w].step \in {"resolve", "fetch", "writeback"} => job[w].stage = "claimed"
      /\ work[w].step = "resolve" => work[w].src = index[s]
      /\ work[w].step = "fetch" /\ ~work[w].writeback => work[w].src = index[s]
      /\ \A t \in Session : Lags(t) => Open(t)
  BY DEF JobsKeepUp
<1>3. ASSUME work' = [work EXCEPT ![w] = NoWork], job'[w].stage # "errored",
             job'[w].stage = "refreshed" => ~Lags(job[w].session)' /\ job'[w].session = s,
             \A t \in Session : Lags(t)' => Open(t)'
      PROVE  JobsKeepUp'
  BY <1>0, <1>1, <1>3 DEF JobsKeepUp
<1>4. ASSUME UNCHANGED <<index, agg>> PROVE \A t \in Session : Lags(t)' <=> Lags(t)
  BY <1>4 DEF Lags
<1>5. ASSUME row' = row PROVE \A t \in Session : Open(t)' <=> Open(t)
  BY <1>5 DEF Open
<1>6. CASE JobClaim(w)
  <2>1. PICK t \in Session :
          /\ row' = [row EXCEPT ![t] = Leased(@, w)]
          /\ job' = [job EXCEPT ![w] = [session |-> t, retryCount |-> row[t].retryCount,
                                       leaseExpiresAt |-> now + LeaseTTL,
                                       stage |-> "claimed"]]
    BY <1>6 DEF JobClaim, Claim
  <2>2. job'[w].stage = "claimed"
    BY <1>1, <2>1
  <2>3. \A u \in Session : Open(u) => Open(u)'
    BY <1>1, <2>1 DEF Open, Leased, Row
  <2>4. work' = [work EXCEPT ![w] = NoWork] /\ UNCHANGED <<index, agg>>
    BY <1>6 DEF JobClaim, data
  <2>5. QED
    BY <1>2, <1>3, <1>4, <2>2, <2>3, <2>4
<1>7. CASE JobReadIndex(w)
  <2>1. /\ work' = [work EXCEPT ![w] = [NoWork EXCEPT !.step = "resolve", !.src = index[s]]]
        /\ UNCHANGED <<job, row, index, agg>> /\ job[w].stage = "claimed"
    BY <1>7 DEF JobReadIndex, OneReliableWorker, vars, data
  <2>2. work'[w].step = "resolve" /\ work'[w].src = index[s]
    BY <1>1, <2>1 DEF NoWork
  <2>3. QED
    BY <1>0, <1>2, <1>4, <1>5, <2>1, <2>2 DEF JobsKeepUp
<1>8. CASE JobResolve(w)
  <2>1. s \in Session /\ Lookups(s) = {upstream[s]} /\ job[w].stage = "claimed"
        /\ work[w].step = "resolve" /\ UNCHANGED <<index, agg>>
    BY <1>8, FilesAreNumbers DEF JobResolve, Lookups, OrNothing, OneReliableWorker, data
  <2>2. Stale(work[w].src, upstream[s]) \/ Exists(work[w].src)
    BY <2>1, FilesAreNumbers DEF Stale, Exists, VersionsOrdered
  <2>3. CASE /\ work' = [work EXCEPT ![w] = [step |-> "fetch", src |-> SourceOf(upstream[s]),
                                             writeback |-> TRUE]]
             /\ UNCHANGED vars
    <3>1. work'[w].step = "fetch" /\ work'[w].writeback /\ job' = job /\ row' = row
      BY <1>1, <2>3 DEF vars
    <3>2. QED
      BY <1>0, <1>2, <1>4, <1>5, <2>1, <3>1 DEF JobsKeepUp
  <2>4. CASE work' = [work EXCEPT ![w].step = "fetch"] /\ UNCHANGED vars
    <3>1. /\ work'[w].step = "fetch" /\ work'[w].src = work[w].src
          /\ job' = job /\ row' = row
      BY <1>1, <2>4 DEF Work, vars
    <3>2. work'[w].src = index'[s]
      BY <1>2, <2>1, <3>1
    <3>3. QED
      BY <1>0, <1>2, <1>4, <1>5, <2>1, <3>1, <3>2 DEF JobsKeepUp
  <2>5. QED
    BY <1>8, <2>1, <2>2, <2>3, <2>4 DEF JobResolve
<1>9. CASE JobRefresh(w)
  <2>1. /\ s \in Session /\ agg' = [agg EXCEPT ![s] = Persisted(work[w].src)]
        /\ index' = index /\ work[w].step = "fetch" /\ job[w].stage = "claimed"
    BY <1>9, FilesAreNumbers DEF JobRefresh, Persists, OneReliableWorker
  <2>2. /\ agg'[s].file = work[w].src.file
        /\ \A t \in Session \ {s} : agg'[t] = agg[t]
    BY <2>1 DEF FTypeOK, Persisted
  <2>3. \A t \in Session \ {s} : Lags(t)' <=> Lags(t)
    BY <2>1, <2>2 DEF Lags
  <2>4. CASE work[w].writeback /\ work' = [work EXCEPT ![w].step = "writeback"]
             /\ UNCHANGED vars
    <3>1. work'[w].step = "writeback" /\ job' = job /\ row' = row
      BY <1>1, <2>4 DEF Work, vars
    <3>2. Open(s)
      BY <2>1 DEF JobIsCurrent, Busy, Open
    <3>3. \A t \in Session : Lags(t)' => Open(t)'
      BY <1>2, <1>5, <2>3, <3>1, <3>2
    <3>4. QED
      BY <1>0, <2>1, <3>1, <3>3 DEF JobsKeepUp
  <2>5. CASE ~work[w].writeback /\ JobReturns(w, "refreshed")
    <3>1. /\ work' = [work EXCEPT ![w] = NoWork] /\ row' = row
          /\ job'[w].stage = "refreshed" /\ job'[w].session = s
      BY <1>1, <2>5 DEF JobReturns, RunJob, Job
    <3>2. ~Lags(s)'
      BY <1>2, <2>1, <2>2, <2>5, <3>1, FilesAreNumbers DEF Lags
    <3>3. \A t \in Session : Lags(t)' => Open(t)'
      BY <1>2, <1>5, <2>3, <3>1, <3>2
    <3>4. ~Lags(job[w].session)'
      BY <3>1, <3>2 DEF Lags
    <3>5. QED
      BY <1>3, <3>1, <3>3, <3>4
  <2>6. QED
    BY <1>9, <2>4, <2>5 DEF JobRefresh, Persists, OneReliableWorker
<1>10. CASE JobWriteback(w)
  <2>1. /\ s \in Session /\ index' = [index EXCEPT ![s] = work[w].src]
        /\ agg' = agg /\ work[w].step = "writeback"
        /\ work' = [work EXCEPT ![w] = NoWork] /\ row' = row
        /\ job'[w].stage = "refreshed" /\ job'[w].session = s
    BY <1>1, <1>10, FilesAreNumbers DEF JobWriteback, WritesBack, OneReliableWorker,
                                        JobReturns, RunJob, Job
  <2>2. index'[s] = work[w].src /\ \A t \in Session \ {s} : index'[t] = index[t]
    BY <1>1, <2>1
  <2>3. ~Lags(s)'
    BY <2>1, <2>2, FilesAreNumbers DEF Lags, VersionsOrdered
  <2>4. \A t \in Session : Lags(t)' => Open(t)'
    BY <1>2, <1>5, <2>1, <2>2, <2>3 DEF Lags
  <2>5. ~Lags(job[w].session)'
    BY <2>1, <2>3 DEF Lags
  <2>6. QED
    BY <1>3, <2>1, <2>4, <2>5
<1>11. CASE JobSettle(w)
  <2>1. /\ job[w].stage = "refreshed" /\ s \in Session
        /\ row' = [row EXCEPT ![s] = Succeeded(@)]
        /\ job' = [job EXCEPT ![w] = NoJob] /\ UNCHANGED <<index, agg, work>>
    BY <1>1, <1>2, <1>11 DEF JobSettle, Finish, Fail, data
  <2>2. job'[w].stage = "idle" /\ work'[w].step \notin {"resolve", "fetch", "writeback"}
    BY <1>1, <1>2, <2>1
  <2>3. \A t \in Session \ {s} : row'[t] = row[t]
    BY <1>1, <2>1
  <2>4. \A t \in Session : Lags(t)' => Open(t)'
    BY <1>2, <1>4, <2>1, <2>3 DEF Open
  <2>5. QED
    BY <1>0, <2>2, <2>4 DEF JobsKeepUp
<1>12. CASE JobFault(w)
  <2>1. /\ job' = [job EXCEPT ![w] = NoJob] /\ work' = [work EXCEPT ![w] = NoWork]
        /\ UNCHANGED <<row, index, agg>>
    BY <1>12 DEF JobFault, LoseUpdate, Crash, data
  <2>2. job'[w].stage = "idle"
    BY <1>1, <2>1
  <2>3. QED
    BY <1>2, <1>3, <1>4, <1>5, <2>1, <2>2
<1>13. QED
  BY <1>6, <1>7, <1>8, <1>9, <1>10, <1>11, <1>12 DEF JobStep

(* With one process and a reliable upstream: an index entry that is behind *)
(* its session's aggregate has an open row, whatever crashed, was lost or  *)
(* asked for between the two writes, so that the worker comes back to it.  *)
THEOREM IndexFollows ==
  ASSUME OneReliableWorker PROVE FSpec => []IndexKeepsUp
<1>1. FInit => JobsKeepUp
  <2> SUFFICES ASSUME FInit PROVE JobsKeepUp
    OBVIOUS
  <2>1. \A w \in Worker : job[w].stage = "idle" /\ work[w].step = "start"
    BY DEF FInit, Init, NoJob, NoWork
  <2>2. \A s \in Session : ~Lags(s)
    BY DEF FInit, Lags, Exists, NoSource, NoAggregate, Persisted
  <2>3. QED
    BY <2>1, <2>2 DEF JobsKeepUp
<1>2. FTypeOK /\ VersionsOrdered /\ JobIsCurrent /\ JobsKeepUp /\ [FNext]_fvars
        => JobsKeepUp'
  <2> SUFFICES ASSUME FTypeOK, VersionsOrdered, JobIsCurrent, JobsKeepUp, [FNext]_fvars
               PROVE  JobsKeepUp'
    OBVIOUS
  <2>1. ASSUME UNCHANGED <<row, job, index, agg, work>> PROVE JobsKeepUp'
    BY <2>1 DEF JobsKeepUp, Lags, Open
  <2>2. CASE (\E s \in Session : UserTurn(s)) \/ FTick \/ UNCHANGED fvars
    BY <2>1, <2>2 DEF UserTurn, FTick, Tick, fvars, vars, data
  <2>3. QED
    BY <2>2, VisitKeepsUp, JobKeepsUp DEF FNext
<1>3. FInit => VersionsOrdered
  BY DEF FInit, VersionsOrdered, NoWork, NoVisit, NoSource, NoAggregate, Persisted
<1>4. FTypeOK /\ VersionsOrdered /\ [FNext]_fvars => VersionsOrdered'
  BY StepKeepsOrder
<1>5. Spec => []JobIsCurrent
  <2>1. CASE Worker = {}
    <3>1. JobIsCurrent
      BY <2>1 DEF JobIsCurrent
    <3>2. QED
      BY <3>1, PTL
  <2>2. CASE Worker # {}
    <3>1. PICK w0 \in Worker : TRUE
      BY <2>2
    <3>2. Worker = {w0}
      BY <3>1 DEF OneReliableWorker
    <3>3. QED
      BY <3>2, OneProcessJobIsCurrent
  <2>3. QED
    BY <2>1, <2>2
<1>6. JobsKeepUp => IndexKeepsUp
  BY DEF JobsKeepUp, IndexKeepsUp, Lags, Open
<1>7. QED
  BY <1>1, <1>2, <1>3, <1>4, <1>5, <1>6, FreshnessTypeCorrect, QueueInside, PTL DEF FSpec
=============================================================================
