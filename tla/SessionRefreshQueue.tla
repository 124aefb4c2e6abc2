------------------------ MODULE SessionRefreshQueue ------------------------
(***************************************************************************)
(* The session refresh queue of the API server: table                      *)
(* stg_session_refresh_queue, EnqueueSessionRefresh (called by the request *)
(* handlers of every process) and refreshQueueLoop (one serial loop per    *)
(* process).  A row is keyed by session; `now' is the clock the processes  *)
(* and the database share.  Absolute deadlines are kept as in the table,   *)
(* NULL datetimes are NoTime.                                              *)
(***************************************************************************)
EXTENDS Integers, FiniteSets

CONSTANTS
  Session,         \* sessions that may be asked to be refreshed
  NoSession,       \* no session: the job of an idle process
  Worker,          \* server processes, each with one refreshQueueLoop
  NoWorker,        \* lease_owner ''
  Priority,        \* priorities a request may carry (0 low .. 2 high)
  LeaseTTL,        \* sessionRefreshLeaseTTL
  BackoffUnit,     \* the 10 seconds of failSessionRefreshJob
  MaxRetryCount    \* max_retry_count, the column's default

ASSUME QueueAssumption ==
  /\ IsFiniteSet(Session)
  /\ NoSession \notin Session
  /\ NoWorker \notin Worker
  /\ Priority \subseteq Int
  /\ LeaseTTL \in Nat \ {0}
  /\ BackoffUnit \in Nat
  /\ MaxRetryCount \in Nat

VARIABLES
  row,        \* row[s]: the row of session s ("absent" when there is none)
  job,        \* job[w]: the job process w holds, a copy of the claimed row
  now         \* the clock

vars == <<row, job, now>>

NoTime == -1
Time == Nat \cup {NoTime}

Status == {"absent", "pending", "running", "succeeded", "failed"}

Row == [status : Status, priority : Int, retryCount : Nat,
        nextRetryAt : Time, leaseOwner : Worker \cup {NoWorker},
        leaseExpiresAt : Time, updatedAt : Time, id : Nat]

Stage == {"idle", "claimed", "refreshed", "errored"}

Job == [session : Session \cup {NoSession}, retryCount : Nat,
        leaseExpiresAt : Time, stage : Stage]

NoJob == [session |-> NoSession, retryCount |-> 0,
          leaseExpiresAt |-> NoTime, stage |-> "idle"]

AbsentRow == [status |-> "absent", priority |-> 0, retryCount |-> 0,
              nextRetryAt |-> NoTime, leaseOwner |-> NoWorker,
              leaseExpiresAt |-> NoTime, updatedAt |-> NoTime, id |-> 0]

Busy(w) == job[w].stage # "idle"
-----------------------------------------------------------------------------
Init ==
  /\ row = [s \in Session |-> AbsentRow]
  /\ job = [w \in Worker |-> NoJob]
  /\ now = 0

(* The id the next inserted row gets; rows are never deleted. *)
NextId == Cardinality({s \in Session : row[s].status # "absent"}) + 1

Greatest(a, b) == IF a > b THEN a ELSE b

(* Mutants of Upserted: the lease is left in place; the retries start over. *)
UpsertedKeepingLease(r, p) ==
  [r EXCEPT !.status = "pending", !.priority = Greatest(@, p),
            !.nextRetryAt = now, !.updatedAt = now]

UpsertedStartingOver(r, p) ==
  [r EXCEPT !.status = "pending", !.priority = Greatest(@, p), !.retryCount = 0,
            !.nextRetryAt = now, !.updatedAt = now,
            !.leaseOwner = NoWorker, !.leaseExpiresAt = NoTime]

(* The row after INSERT ... ON DUPLICATE KEY UPDATE: an existing row keeps  *)
(* its id and its retry count and loses its lease.                         *)
Upserted(r, p) ==
  IF r.status = "absent"
  THEN [AbsentRow EXCEPT !.status = "pending", !.priority = p,
                         !.nextRetryAt = now, !.updatedAt = now, !.id = NextId]
  ELSE [r EXCEPT !.status = "pending", !.priority = Greatest(@, p),
                 !.nextRetryAt = now, !.updatedAt = now,
                 !.leaseOwner = NoWorker, !.leaseExpiresAt = NoTime]

Enqueue(s, p) ==
  /\ row' = [row EXCEPT ![s] = Upserted(@, p)]
  /\ UNCHANGED <<job, now>>

(* Mutants of Claimable: any row whose time has come, settled or not; no    *)
(* takeover of expired leases; no look at the expiry.                      *)
ClaimableAgain(s) ==
  row[s].status \notin {"absent", "running"} /\ row[s].nextRetryAt <= now

ClaimableOnlyPending(s) ==
  row[s].status = "pending" /\ row[s].nextRetryAt <= now

ClaimableWhileLeased(s) ==
  \/ row[s].status = "pending" /\ row[s].nextRetryAt <= now
  \/ row[s].status = "running" /\ row[s].leaseExpiresAt # NoTime

Claimable(s) ==
  \/ /\ row[s].status = "pending"
     /\ row[s].nextRetryAt <= now
  \/ /\ row[s].status = "running"
     /\ row[s].leaseExpiresAt # NoTime
     /\ row[s].leaseExpiresAt <= now

(* ORDER BY priority DESC, updated_at ASC, id ASC *)
Precedes(r, q) ==
  \/ r.priority > q.priority
  \/ /\ r.priority = q.priority
     /\ \/ r.updatedAt < q.updatedAt
        \/ r.updatedAt = q.updatedAt /\ r.id < q.id

FirstInLine(s) ==
  /\ Claimable(s)
  /\ \A t \in Session \ {s} : Claimable(t) => Precedes(row[s], row[t])

(* The row after the UPDATE that leases it to process w. *)
Leased(r, w) ==
  [r EXCEPT !.status = "running", !.leaseOwner = w,
            !.leaseExpiresAt = now + LeaseTTL, !.updatedAt = now]

(* One transaction: SELECT ... FOR UPDATE LIMIT 1, then the UPDATE. *)
Claim(w) ==
  /\ ~Busy(w)
  /\ \E s \in Session :
       /\ FirstInLine(s)
       /\ row' = [row EXCEPT ![s] = Leased(@, w)]
       /\ job' = [job EXCEPT ![w] = [session |-> s, retryCount |-> row[s].retryCount,
                                     leaseExpiresAt |-> now + LeaseTTL,
                                     stage |-> "claimed"]]
  /\ UNCHANGED now

(* runSessionRefreshJob returns: nil or an error. *)
RunJob(w) ==
  /\ job[w].stage = "claimed"
  /\ \E outcome \in {"refreshed", "errored"} :
       job' = [job EXCEPT ![w].stage = outcome]
  /\ UNCHANGED <<row, now>>

(* The rows finishSessionRefreshJob and failSessionRefreshJob write. *)
Succeeded(r) ==
  [r EXCEPT !.status = "succeeded", !.leaseOwner = NoWorker,
            !.leaseExpiresAt = NoTime, !.updatedAt = now]

(* Mutants of Retried: retries counted down; one retry too many. *)
RetriedCountingDown(r, retries) ==
  [r EXCEPT !.status = "pending", !.retryCount = @ - 1, !.nextRetryAt = now,
            !.leaseOwner = NoWorker, !.leaseExpiresAt = NoTime, !.updatedAt = now]

RetriedOnceMore(r, retries) ==
  [r EXCEPT !.status = IF retries <= MaxRetryCount + 1 THEN "pending" ELSE "failed",
            !.retryCount = retries, !.nextRetryAt = now + retries * BackoffUnit,
            !.leaseOwner = NoWorker, !.leaseExpiresAt = NoTime, !.updatedAt = now]

Retried(r, retries) ==
  [r EXCEPT !.status = IF retries <= Greatest(MaxRetryCount, 0)
                       THEN "pending" ELSE "failed",
            !.retryCount = retries, !.nextRetryAt = now + retries * BackoffUnit,
            !.leaseOwner = NoWorker, !.leaseExpiresAt = NoTime,
            !.updatedAt = now]

(* Both are UPDATE ... WHERE id: whatever the row's state has become and    *)
(* whoever owns its lease.                                                 *)
Finish(w) ==
  /\ job[w].stage = "refreshed"
  /\ row' = [row EXCEPT ![job[w].session] = Succeeded(@)]
  /\ job' = [job EXCEPT ![w] = NoJob]
  /\ UNCHANGED now

Fail(w) ==
  /\ job[w].stage = "errored"
  /\ row' = [row EXCEPT ![job[w].session] = Retried(@, job[w].retryCount + 1)]
  /\ job' = [job EXCEPT ![w] = NoJob]
  /\ UNCHANGED now

(* The UPDATE of Finish or Fail errors: it is logged, the loop goes on. *)
LoseUpdate(w) ==
  /\ job[w].stage \in {"refreshed", "errored"}
  /\ job' = [job EXCEPT ![w] = NoJob]
  /\ UNCHANGED <<row, now>>

(* The process stops and starts again: its job is lost, the row is not. *)
Crash(w) ==
  /\ Busy(w)
  /\ job' = [job EXCEPT ![w] = NoJob]
  /\ UNCHANGED <<row, now>>

Tick ==
  /\ now' = now + 1
  /\ UNCHANGED <<row, job>>

Step(w) == Claim(w) \/ RunJob(w) \/ Finish(w) \/ Fail(w)

Next ==
  \/ \E s \in Session, p \in Priority : Enqueue(s, p)
  \/ \E w \in Worker :
       \/ Claim(w)
       \/ RunJob(w)
       \/ Finish(w)
       \/ Fail(w)
       \/ LoseUpdate(w)
       \/ Crash(w)
  \/ Tick

Spec == Init /\ [][Next]_vars

(* The loop of a process is a goroutine driven by a ticker: a step it can  *)
(* take it eventually takes, and time passes.  Requests, crashes and       *)
(* failed updates are owed to nobody.                                      *)
Fairness ==
  /\ \A w \in Worker : WF_vars(Step(w))
  /\ WF_vars(Tick)

FairSpec == Spec /\ Fairness
-----------------------------------------------------------------------------
(* The state is well formed: rows and jobs carry the columns' types, and a *)
(* busy process holds the copy of an existing row.                         *)
TypeOK ==
  /\ row \in [Session -> Row]
  /\ job \in [Worker -> Job]
  /\ now \in Nat
  /\ \A w \in Worker : Busy(w) => job[w].session \in Session

(* A row carries a lease exactly while it is running: claiming sets owner  *)
(* and deadline together and every other update clears both, so that the   *)
(* claim query never meets a running row whose lease_expires_at is NULL.   *)
LeasedIffRunning ==
  \A s \in Session :
    /\ row[s].status = "running" <=> row[s].leaseOwner \in Worker
    /\ row[s].status = "running" <=> row[s].leaseExpiresAt # NoTime

(* No open row is stranded: whatever crashed, was lost or was asked again, *)
(* a running row can be claimed again within LeaseTTL, a pending one       *)
(* within the longest backoff.                                             *)
NoStrandedRow ==
  \A s \in Session :
    /\ row[s].status = "running" =>
         row[s].leaseExpiresAt \in 0 .. (now + LeaseTTL)
    /\ row[s].status = "pending" =>
         row[s].nextRetryAt \in 0 .. (now + MaxRetryCount * BackoffUnit)

(* With one process: the row of the job in hand is open and still has the  *)
(* retry count the job copied when it claimed it, so that Fail counts the  *)
(* attempt on top of the right number.                                     *)
JobIsCurrent ==
  \A w \in Worker : Busy(w) =>
    /\ row[job[w].session].status \in {"pending", "running"}
    /\ row[job[w].session].retryCount = job[w].retryCount

(* An unexpired lease is honoured: nobody else becomes its owner, however  *)
(* many processes poll the table and whatever happens to the owner.        *)
LeaseHonoured ==
  [][\A s \in Session :
       row[s].status = "running" /\ row[s].leaseExpiresAt > now =>
         row'[s].leaseOwner \in {row[s].leaseOwner, NoWorker}]_vars

(* The queue as its callers see it. *)
RequestOf(s) ==
  CASE row[s].status = "absent" -> "none"
    [] row[s].status \in {"pending", "running"} -> "open"
    [] OTHER -> "settled"

Requests == INSTANCE RefreshRequests
              WITH request <- [s \in Session |-> RequestOf(s)]

(* A refresh is opened, for the first time or again. *)
Opens(s) == RequestOf(s) # "open" /\ RequestOf(s)' = "open"

(* With one process the queue implements RefreshRequests, and its Submit   *)
(* is the callers' alone: crashes, lost updates, retries, late failures    *)
(* and expired leases neither settle a refresh that is not open nor open   *)
(* again one that was settled.                                             *)
ImplementsRequests ==
  /\ Requests!Spec
  /\ [][\A s \in Session : Opens(s) => \E p \in Priority : Enqueue(s, p)]_vars

(* ... and, since its loop keeps polling, settles every open refresh. *)
SettlesRequests == Requests!FairSpec
=============================================================================
