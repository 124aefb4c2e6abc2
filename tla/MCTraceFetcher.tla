--------------------------- MODULE MCTraceFetcher ---------------------------
(***************************************************************************)
(* Small instances of TraceFetcher: only the clock is bounded.             *)
(***************************************************************************)
EXTENDS TraceFetcher

CONSTANT Horizon    \* bound: the clock stops there

(* Small files and one that may be large: a download can be cut short.     *)
MCSize ==
  LET large == CHOOSE u \in Url : TRUE
  IN [u \in Url |-> IF u = large THEN {1, 3} ELSE {1}]

MCSymmetry == Permutations(Caller)

MCNext ==
  \/ \E c \in Caller :
       \/ \E u \in Url : Fetch(c, u)
       \/ Acquire(c)
       \/ Proceed(c)
  \/ \E u \in Url : Invalidate(u)
  \/ now < Horizon /\ Advance

MCSpec == FetcherInit /\ [][MCNext]_fetchVars

MCFairSpec == MCSpec /\ FetcherFairness
=============================================================================
