----------------------- MODULE MCSessionRefreshQueue -----------------------
(***************************************************************************)
(* Small instances of SessionRefreshQueue: the requests, the faults and    *)
(* the clock are bounded, nothing else is.                                 *)
(***************************************************************************)
EXTENDS SessionRefreshQueue, TLC

CONSTANTS
  Horizon,       \* bound: the clock stops there
  MaxEnqueues,   \* bound: requests in a behaviour
  MaxFaults      \* bound: crashes and failed updates in a behaviour

VARIABLES enqueues, faults

mcvars == <<row, job, now, enqueues, faults>>

(* Low and high, the ends of the declared range. *)
MCPriority == {0, 2}

(* Sessions are told apart by the ids of their rows only, which follow the *)
(* order of the requests; processes are told apart by nothing.             *)
MCSymmetry == Permutations(Worker) \cup Permutations(Session)

MCInit == Init /\ enqueues = 0 /\ faults = 0

Requested ==
  /\ enqueues < MaxEnqueues
  /\ \E s \in Session, p \in Priority : Enqueue(s, p)
  /\ enqueues' = enqueues + 1
  /\ UNCHANGED faults

Faulted ==
  /\ faults < MaxFaults
  /\ \E w \in Worker : LoseUpdate(w) \/ Crash(w)
  /\ faults' = faults + 1
  /\ UNCHANGED enqueues

(* Time is let pass while some deadline lies ahead: with none its passing  *)
(* changes nothing a process could see.                                    *)
DeadlineAhead(s) ==
  \/ row[s].status = "pending" /\ row[s].nextRetryAt > now
  \/ row[s].status = "running" /\ row[s].leaseExpiresAt > now

Passed ==
  /\ now < Horizon
  /\ \E s \in Session : DeadlineAhead(s)
  /\ Tick
  /\ UNCHANGED <<enqueues, faults>>

Worked(w) ==
  /\ \/ Claim(w)
     \/ RunJob(w)
     \/ Finish(w)
     \/ Fail(w)
  /\ UNCHANGED <<enqueues, faults>>

MCNext == Requested \/ Faulted \/ Passed \/ \E w \in Worker : Worked(w)

MCSpec == MCInit /\ [][MCNext]_mcvars

MCFairSpec ==
  /\ MCSpec
  /\ \A w \in Worker : WF_mcvars(Worked(w))
  /\ WF_mcvars(Passed)
=============================================================================
