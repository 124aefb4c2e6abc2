---------------------------- MODULE MCIssueFlags ----------------------------
(* Instances of IssueFlags for TLC. *)
EXTENDS IssueFlags

Days == 1 .. 2

Axes(n) == [a \in Axis |-> IF a \in ToolAxis THEN 0 ELSE n]

\* A session with a failed rule, and one of the second day.
Faulty == [started |-> 1, user |-> "v", failedRule |-> TRUE, loop |-> TRUE, odd |-> TRUE,
           score |-> 45, axes |-> Axes(33), duration |-> 30, traces |-> "1:b"]
Later == [started |-> 2, user |-> "u", failedRule |-> FALSE, loop |-> FALSE, odd |-> FALSE,
          score |-> 71, axes |-> [a \in Axis |-> 70], duration |-> 20, traces |-> "2:a"]
Contents == {Faulty, Later}

VerdictOf(resolved, c) ==
    LET dims == [d \in Dim |-> IF d = "resolved" THEN resolved ELSE 80]
    IN  [status |-> "succeeded", llm |-> resolved, combined |-> (resolved + c.score) \div 2,
         dims |-> dims, result |-> dims, started |-> c.started, traces |-> c.traces]

SymmetricPairs == Permutations(Session) \cup Permutations(Worker)

GoodAndBad == {VerdictOf(90, Later), VerdictOf(69, Later)}

(* Stored flags are wrong in one of two directions: left behind            *)
(* although no verdict is known, or never set in spite of a bad one.       *)
MCInit ==
    /\ Init
    /\ \A s \in Session :
          verdict[s] = IF known THEN NoVerdict ELSE VerdictOf(69, Later)
MCSpec == MCInit /\ [][Next]_vars
=============================================================================
