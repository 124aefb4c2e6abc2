------------------------ MODULE MCSessionFreshness ------------------------
(***************************************************************************)
(* Small instances of SessionFreshness: turns, faults, the clock and, as a *)
(* state constraint would, the retry counts are bounded.                   *)
(***************************************************************************)
EXTENDS SessionFreshness, TLC

CONSTANTS
  MaxTurns,     \* bound: turns a user adds to one session
  MaxFaults,    \* bound: crashes and failed updates in a behaviour
  MaxAttempts,  \* bound: attempts of one row
  Horizon       \* bound: the clock stops there

VARIABLE faults

mcvars == <<fvars, faults>>

MCPriority == {High}

(* Requests being served are told apart by nothing. *)
MCSymmetry == Permutations(Visitor)

MCInit == FInit /\ faults = 0

TurnTaken ==
  /\ \E s \in Session : upstream[s].file <= MaxTurns /\ UserTurn(s)
  /\ UNCHANGED faults

Visited(v) ==
  /\ FreshnessStep(v) \/ DetailStep(v)
  /\ UNCHANGED faults

Worked(w) ==
  /\ JobStep(w)
  /\ \A s \in Session : row'[s].retryCount <= MaxAttempts
  /\ UNCHANGED faults

Faulted ==
  /\ faults < MaxFaults
  /\ \E w \in Worker : JobFault(w)
  /\ faults' = faults + 1

Passed ==
  /\ now < Horizon
  /\ \E s \in Session :
       \/ row[s].status = "pending" /\ row[s].nextRetryAt > now
       \/ row[s].status = "running" /\ row[s].leaseExpiresAt > now
  /\ FTick
  /\ UNCHANGED faults

MCNext ==
  \/ TurnTaken
  \/ \E v \in Visitor : Visited(v)
  \/ \E w \in Worker : Worked(w)
  \/ Faulted
  \/ Passed

MCSpec == MCInit /\ [][MCNext]_mcvars

(* FFairness, of the bounded actions: the bounded clock would otherwise    *)
(* break the fairness of FTick in every behaviour.                         *)
MCFairSpec ==
  /\ MCSpec
  /\ \A w \in Worker : WF_mcvars(Worked(w))
  /\ \A v \in Visitor : WF_mcvars(Visited(v))
  /\ \A v \in Visitor, s \in Session : SF_mcvars(FreshnessRead(v, s) /\ UNCHANGED faults)
  /\ WF_mcvars(Passed)
=============================================================================
