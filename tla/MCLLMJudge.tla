----------------------------- MODULE MCLLMJudge -----------------------------
(***************************************************************************)
(* Small instances of LLMJudge: requests, faults and the clock are bounded. *)
(***************************************************************************)
EXTENDS LLMJudge, TLC

CONSTANTS
  MaxRequests,   \* bound: start requests and saves in a behaviour
  MaxFaults,     \* bound: restarts, failed checks, lost failure marks
  Horizon        \* bound: the clock stops there

VARIABLES requests, faults

mcvars == <<judgeVars, requests, faults>>

MCSymmetry == Permutations(Run) \cup Permutations(Process) \cup Permutations(Trace)

MCInit == JudgeInit /\ requests = 0 /\ faults = 0

Requested ==
  /\ requests < MaxRequests
  /\ \E r \in Run, p \in Process, f \in Trace : Start(r, p, f) \/ Save(r, p, f)
  /\ requests' = requests + 1
  /\ UNCHANGED faults

Worked(r) == Proceed(r) /\ UNCHANGED <<requests, faults>>

Faulted ==
  /\ faults < MaxFaults
  /\ \/ \E p \in Process : Restart(p)
     \/ \E r \in Run : CheckRowFailed(r) \/ MarkFailedLost(r)
  /\ faults' = faults + 1
  /\ UNCHANGED requests

Passed ==
  /\ now < Horizon
  /\ Advance
  /\ UNCHANGED <<requests, faults>>

MCNext == Requested \/ Faulted \/ Passed \/ \E r \in Run : Worked(r)

MCSpec == MCInit /\ [][MCNext]_mcvars

MCFairSpec == MCSpec /\ \A r \in Run : WF_mcvars(Worked(r))

(* An evaluation that is announced as running is settled, by its own run,  *)
(* by another one of the same trace or by the one that took the row over,  *)
(* unless a restart or a lost failure mark comes in between.               *)
EvaluationSettles ==
  eval.status = "running" ~> eval.status # "running" \/ faults > 0
=============================================================================
