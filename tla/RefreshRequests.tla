-------------------------- MODULE RefreshRequests --------------------------
(***************************************************************************)
(* What the session refresh queue promises its callers, without leases,    *)
(* priorities, clocks or retries: a request opens a session's refresh, an  *)
(* open refresh is settled once, and a settled one stays settled until     *)
(* somebody asks again.                                                    *)
(***************************************************************************)
CONSTANT Session

VARIABLE request    \* request[s] \in {"none", "open", "settled"}

TypeOK == request \in [Session -> {"none", "open", "settled"}]

Init == request = [s \in Session |-> "none"]

Submit(s) == request' = [request EXCEPT ![s] = "open"]

Settle(s) ==
  /\ request[s] = "open"
  /\ request' = [request EXCEPT ![s] = "settled"]

Next == \E s \in Session : Submit(s) \/ Settle(s)

Spec == Init /\ [][Next]_request

(* A refresh that stays open is eventually settled. *)
FairSpec == Spec /\ \A s \in Session : WF_request(Settle(s))
=============================================================================
