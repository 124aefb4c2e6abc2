--------------------------- MODULE LLMJudgeProofs ---------------------------
(***************************************************************************)
(* Theorems about LLMJudge, for any number of server processes, of         *)
(* goroutines and of traces and for any TTL: the state is well formed, the *)
(* verdict shown is one about the trace it is shown for, and the map of    *)
(* evaluations in flight does not leak.                                    *)
(***************************************************************************)
EXTENDS LLMJudge, TLAPS

(* What a request or an evaluation has of its own once it is under way. *)
WellFormed(x) == x.pc # "idle" => x.process \in Process /\ x.trace \in Trace

LEMMA InitialTypes ==
  NoEval \in Eval /\ NoEntry \in InflightEntry /\ NoRun \in RunState /\ WellFormed(NoRun)
BY DEF NoEval, Eval, NoEntry, InflightEntry, NoRun, RunState, MaybeTrace, WellFormed

(* The local states stay well formed when one of them becomes y. *)
LEMMA RunMoves ==
  ASSUME JudgeTypeOK, NEW r \in Run, NEW y \in RunState, WellFormed(y),
         run' = [run EXCEPT ![r] = y]
  PROVE  /\ run' \in [Run -> RunState]
         /\ \A q \in Run : run'[q].pc # "idle" =>
              run'[q].process \in Process /\ run'[q].trace \in Trace
BY DEF JudgeTypeOK, WellFormed

(* ... as it does when a run that is under way proceeds or returns. *)
LEMMA RunGoes ==
  ASSUME JudgeTypeOK, NEW r \in Run, run[r].pc # "idle",
         NEW pc \in {"checkRow", "mark", "store", "version", "succeed", "fail", "delete"},
         Goes(r, pc) \/ Returns(r)
  PROVE  /\ run' \in [Run -> RunState]
         /\ \A q \in Run : run'[q].pc # "idle" =>
              run'[q].process \in Process /\ run'[q].trace \in Trace
<1>1. CASE Goes(r, pc)
  <2>1. run' = [run EXCEPT ![r] = [run[r] EXCEPT !.pc = pc]]
    BY <1>1 DEF Goes, JudgeTypeOK
  <2>2. [run[r] EXCEPT !.pc = pc] \in RunState /\ WellFormed([run[r] EXCEPT !.pc = pc])
    BY DEF JudgeTypeOK, RunState, WellFormed
  <2>3. QED
    BY <2>1, <2>2, RunMoves
<1>2. CASE Returns(r)
  BY <1>2, InitialTypes, RunMoves DEF Returns
<1>3. QED
  BY <1>1, <1>2
-----------------------------------------------------------------------------
(* The types. *)
LEMMA TypeStep ==
  ASSUME JudgeTypeOK, JudgeNext
  PROVE  JudgeTypeOK'
<1> DEFINE RunsOK == /\ run' \in [Run -> RunState]
                     /\ \A q \in Run : run'[q].pc # "idle" =>
                          run'[q].process \in Process /\ run'[q].trace \in Trace
<1>0. NoEval \in Eval /\ NoEntry \in InflightEntry /\ NoRun \in RunState /\ WellFormed(NoRun)
  BY InitialTypes
<1>1. ASSUME NEW r \in Run, NEW p \in Process, NEW f \in Trace, Start(r, p, f) \/ Save(r, p, f)
      PROVE JudgeTypeOK'
  <2>1. PICK pc \in {"check", "readVersion"} :
          run' = [run EXCEPT ![r] = [NoRun EXCEPT !.pc = pc, !.process = p, !.trace = f]]
    BY <1>1 DEF Start, Save
  <2>2. /\ [NoRun EXCEPT !.pc = pc, !.process = p, !.trace = f] \in RunState
        /\ WellFormed([NoRun EXCEPT !.pc = pc, !.process = p, !.trace = f])
    BY DEF NoRun, RunState, MaybeTrace, WellFormed
  <2>3. RunsOK
    BY <2>1, <2>2, RunMoves
  <2>4. QED
    BY <1>1, <2>3 DEF Start, Save, JudgeTypeOK
<1>2. ASSUME NEW r \in Run, CheckInflight(r) PROVE JudgeTypeOK'
  <2>1. RunsOK
    BY <1>2, RunGoes DEF CheckInflight
  <2>2. inflight' \in [Process -> InflightEntry]
    BY <1>0, <1>2 DEF CheckInflight, JudgeTypeOK
  <2>3. QED
    BY <1>2, <2>1, <2>2 DEF CheckInflight, JudgeTypeOK
<1>3. ASSUME NEW r \in Run, CheckRow(r) \/ CheckRowFailed(r) PROVE JudgeTypeOK'
  <2>1. RunsOK
    BY <1>3, RunGoes DEF CheckRow, CheckRowFailed
  <2>2. QED
    BY <1>3, <2>1 DEF CheckRow, CheckRowFailed, JudgeTypeOK
<1>4. ASSUME NEW r \in Run, MarkRunning(r) PROVE JudgeTypeOK'
  <2>1. RunsOK
    BY <1>4, RunGoes DEF MarkRunning
  <2>2. eval' \in Eval
    BY <1>4 DEF MarkRunning, JudgeTypeOK, Eval, RunState
  <2>3. QED
    BY <1>4, <2>1, <2>2 DEF MarkRunning, JudgeTypeOK
<1>5. ASSUME NEW r \in Run, StoreInflight(r) PROVE JudgeTypeOK'
  <2> DEFINE y == [run[r] EXCEPT !.pc = "judge", !.deadline = now + TTL]
  <2>1. run' = [run EXCEPT ![r] = y]
    BY <1>5 DEF StoreInflight, JudgeTypeOK
  <2>2. y \in RunState /\ WellFormed(y)
    <3>1. run[r] \in RunState /\ run[r].process \in Process /\ run[r].trace \in Trace
      BY <1>5 DEF StoreInflight, JudgeTypeOK
    <3>2. now + TTL \in Nat
      BY JudgeAssumption DEF JudgeTypeOK
    <3>3. QED
      BY <3>1, <3>2 DEF RunState, WellFormed
  <2>3. RunsOK
    BY <2>1, <2>2, RunMoves
  <2>4. [trace |-> run[r].trace, at |-> now] \in InflightEntry
    BY DEF JudgeTypeOK, RunState, InflightEntry
  <2>5. inflight' \in [Process -> InflightEntry]
    BY <1>5, <2>4 DEF StoreInflight, JudgeTypeOK
  <2>6. QED
    BY <1>5, <2>3, <2>5 DEF StoreInflight, JudgeTypeOK
<1>6. ASSUME NEW r \in Run, Judge(r) PROVE JudgeTypeOK'
  <2>1. RunsOK
    BY <1>6, RunGoes DEF Judge
  <2>2. QED
    BY <1>6, <2>1 DEF Judge, JudgeTypeOK
<1>7. ASSUME NEW r \in Run, ReadVersion(r) PROVE JudgeTypeOK'
  <2> DEFINE y(v) == [run[r] EXCEPT !.pc = IF run[r].pc = "version" THEN "succeed" ELSE "save",
                                    !.version = v + 1]
  <2>1. PICK v \in {eval.version, 0} : run' = [run EXCEPT ![r] = y(v)]
    BY <1>7 DEF ReadVersion
  <2>2. y(v) \in RunState /\ WellFormed(y(v))
    <3>1. run[r] \in RunState /\ run[r].process \in Process /\ run[r].trace \in Trace
      BY <1>7 DEF ReadVersion, JudgeTypeOK
    <3>2. v + 1 \in Nat
      BY DEF JudgeTypeOK, Eval
    <3>3. QED
      BY <3>1, <3>2 DEF RunState, WellFormed
  <2>3. RunsOK
    BY <2>1, <2>2, RunMoves
  <2>4. QED
    BY <1>7, <2>3 DEF ReadVersion, JudgeTypeOK
<1>8. ASSUME NEW r \in Run, MarkSucceeded(r) PROVE JudgeTypeOK'
  <2>1. RunsOK
    BY <1>8, RunGoes DEF MarkSucceeded
  <2>2. eval' \in Eval
    BY <1>8 DEF MarkSucceeded, JudgeTypeOK, Eval, RunState
  <2>3. QED
    BY <1>8, <2>1, <2>2 DEF MarkSucceeded, JudgeTypeOK
<1>9. ASSUME NEW r \in Run, MarkFailed(r) \/ MarkFailedLost(r) PROVE JudgeTypeOK'
  <2>1. RunsOK
    BY <1>9, RunGoes DEF MarkFailed, MarkFailedLost
  <2>2. eval' \in Eval
    BY <1>9 DEF MarkFailed, MarkFailedLost, JudgeTypeOK, Eval
  <2>3. QED
    BY <1>9, <2>1, <2>2 DEF MarkFailed, MarkFailedLost, JudgeTypeOK
<1>10. ASSUME NEW r \in Run, DeleteInflight(r) PROVE JudgeTypeOK'
  <2>1. RunsOK
    BY <1>10, RunGoes DEF DeleteInflight
  <2>2. inflight' \in [Process -> InflightEntry]
    BY <1>0, <1>10 DEF DeleteInflight, JudgeTypeOK
  <2>3. QED
    BY <1>10, <2>1, <2>2 DEF DeleteInflight, JudgeTypeOK
<1>11. ASSUME NEW r \in Run, SaveRow(r) PROVE JudgeTypeOK'
  <2>1. RunsOK
    BY <1>11, RunGoes DEF SaveRow
  <2>2. eval' \in Eval
    BY <1>11 DEF SaveRow, JudgeTypeOK, Eval, RunState, MaybeTrace
  <2>3. QED
    BY <1>11, <2>1, <2>2 DEF SaveRow, JudgeTypeOK
<1>12. ASSUME NEW p \in Process, Restart(p) PROVE JudgeTypeOK'
  BY <1>0, <1>12 DEF Restart, JudgeTypeOK, WellFormed
<1>13. ASSUME Advance PROVE JudgeTypeOK'
  BY <1>13 DEF Advance, JudgeTypeOK
<1>14. QED
  BY <1>1, <1>2, <1>3, <1>4, <1>5, <1>6, <1>7, <1>8, <1>9, <1>10, <1>11, <1>12, <1>13
  DEF JudgeNext, Proceed

(* The row, the map, the local states and the clock stay within their      *)
(* types, and whatever is under way knows its process and its trace.       *)
THEOREM JudgeTypeCorrect == JudgeSpec => []JudgeTypeOK
<1>1. JudgeInit => JudgeTypeOK
  BY InitialTypes DEF JudgeInit, JudgeTypeOK, NoRun
<1>2. JudgeTypeOK /\ [JudgeNext]_judgeVars => JudgeTypeOK'
  <2>1. JudgeTypeOK /\ UNCHANGED judgeVars => JudgeTypeOK'
    BY DEF JudgeTypeOK, judgeVars
  <2>2. QED
    BY <2>1, TypeStep
<1>3. QED
  BY <1>1, <1>2, PTL DEF JudgeSpec
-----------------------------------------------------------------------------
(* The verdict. *)
LEMMA VerdictStep ==
  ASSUME JudgeTypeOK, VerdictIsOfTheTrace, JudgeNext
  PROVE  VerdictIsOfTheTrace'
<1>1. ASSUME UNCHANGED eval PROVE VerdictIsOfTheTrace'
  BY <1>1 DEF VerdictIsOfTheTrace
<1>2. ASSUME NEW r \in Run, MarkRunning(r) PROVE VerdictIsOfTheTrace'
  BY <1>1, <1>2 DEF MarkRunning, VerdictIsOfTheTrace, JudgeTypeOK, Eval
<1>3. ASSUME NEW r \in Run, MarkSucceeded(r) PROVE VerdictIsOfTheTrace'
  <2>1. CASE Targets(r) /\ eval' = [eval EXCEPT !.status = "succeeded", !.at = now,
                                      !.marked = run[r].trace, !.judged = run[r].trace,
                                      !.version = run[r].version]
    BY <2>1 DEF Targets, VerdictIsOfTheTrace, JudgeTypeOK, Eval
  <2>2. QED
    BY <1>1, <1>3, <2>1 DEF MarkSucceeded
<1>4. ASSUME NEW r \in Run, MarkFailed(r) PROVE VerdictIsOfTheTrace'
  BY <1>1, <1>4 DEF MarkFailed, VerdictIsOfTheTrace, JudgeTypeOK, Eval
<1>5. ASSUME NEW r \in Run, SaveRow(r) PROVE VerdictIsOfTheTrace'
  BY <1>1, <1>5 DEF SaveRow, VerdictIsOfTheTrace
<1>6. QED
  BY <1>1, <1>2, <1>3, <1>4, <1>5
  DEF JudgeNext, Proceed, Start, Save, CheckInflight, CheckRow, CheckRowFailed, StoreInflight,
      Judge, ReadVersion, MarkFailedLost, DeleteInflight, Restart, Advance

(* Whatever processes do at once, and however late an evaluation ends, the *)
(* verdict of a row that succeeded was reached on the row's trace: of the  *)
(* two updates by runLLMJudgeAsync, which match the trace id, the trace    *)
(* count and the fingerprint.                                              *)
THEOREM VerdictsBelong == JudgeSpec => []VerdictIsOfTheTrace
<1>1. JudgeInit => VerdictIsOfTheTrace
  BY DEF JudgeInit, VerdictIsOfTheTrace, NoEval
<1>2. JudgeTypeOK /\ VerdictIsOfTheTrace /\ [JudgeNext]_judgeVars => VerdictIsOfTheTrace'
  <2>1. VerdictIsOfTheTrace /\ UNCHANGED judgeVars => VerdictIsOfTheTrace'
    BY DEF VerdictIsOfTheTrace, judgeVars
  <2>2. QED
    BY <2>1, VerdictStep
<1>3. QED
  BY <1>1, <1>2, JudgeTypeCorrect, PTL DEF JudgeSpec
-----------------------------------------------------------------------------
(* The evaluations in flight. *)

(* A step that leaves the map alone and lets every evaluation go on keeps  *)
(* the map's entries alive.                                                *)
LEMMA AliveStays ==
  ASSUME InflightIsAlive, UNCHANGED inflight,
         \A r \in Run : Evaluating(r) => Evaluating(r)' /\ run'[r].process = run[r].process
  PROVE  InflightIsAlive'
BY DEF InflightIsAlive

LEMMA AliveStep ==
  ASSUME JudgeTypeOK, InflightIsAlive, JudgeNext
  PROVE  InflightIsAlive'
<1> DEFINE Kept(q) == Evaluating(q) => Evaluating(q)' /\ run'[q].process = run[q].process
<1>1. ASSUME NEW r \in Run, NEW p \in Process, NEW f \in Trace, Start(r, p, f) \/ Save(r, p, f)
      PROVE InflightIsAlive'
  <2>1. \A q \in Run : Kept(q)
    BY <1>1 DEF Start, Save, Evaluating, JudgeTypeOK
  <2>2. QED
    BY <1>1, <2>1, AliveStays DEF Start, Save
<1>2. ASSUME NEW r \in Run, CheckInflight(r) PROVE InflightIsAlive'
  <2>1. \A q \in Run : Kept(q)
    BY <1>2 DEF CheckInflight, Goes, Returns, Evaluating, JudgeTypeOK
  <2>2. \A p \in Process : inflight'[p] # NoEntry => inflight[p] # NoEntry
    BY <1>2 DEF CheckInflight, JudgeTypeOK
  <2>3. QED
    BY <2>1, <2>2 DEF InflightIsAlive
<1>3. ASSUME NEW r \in Run, CheckRow(r) \/ CheckRowFailed(r) \/ MarkRunning(r) \/ SaveRow(r)
      PROVE InflightIsAlive'
  <2>1. \A q \in Run : Kept(q)
    BY <1>3 DEF CheckRow, CheckRowFailed, MarkRunning, SaveRow, Goes, Returns, Evaluating,
                JudgeTypeOK
  <2>2. QED
    BY <1>3, <2>1, AliveStays DEF CheckRow, CheckRowFailed, MarkRunning, SaveRow
<1>4. ASSUME NEW r \in Run, StoreInflight(r) PROVE InflightIsAlive'
  <2>1. /\ \A q \in Run : Kept(q)
        /\ Evaluating(r)' /\ run'[r].process = run[r].process
    BY <1>4 DEF StoreInflight, Evaluating, JudgeTypeOK, RunState
  <2>2. \A p \in Process \ {run[r].process} : inflight'[p] = inflight[p]
    BY <1>4 DEF StoreInflight, JudgeTypeOK
  <2>3. QED
    BY <2>1, <2>2 DEF InflightIsAlive
<1>5. ASSUME NEW r \in Run,
             Judge(r) \/ ReadVersion(r) \/ MarkSucceeded(r) \/ MarkFailed(r) \/ MarkFailedLost(r)
      PROVE InflightIsAlive'
  <2>1. \A q \in Run : Kept(q)
    <3>1. CASE ReadVersion(r)
      <4>1. PICK v \in {eval.version, 0} :
              run' = [run EXCEPT ![r] = [run[r] EXCEPT
                        !.pc = IF run[r].pc = "version" THEN "succeed" ELSE "save",
                        !.version = v + 1]]
        BY <3>1 DEF ReadVersion
      <4>2. run[r].pc \in {"version", "readVersion"}
        BY <3>1 DEF ReadVersion
      <4>3. \A q \in Run \ {r} : run'[q] = run[q]
        BY <4>1 DEF JudgeTypeOK
      <4>4. /\ run'[r].process = run[r].process
            /\ run[r].pc = "version" => run'[r].pc = "succeed"
        BY <4>1 DEF JudgeTypeOK, RunState
      <4>5. QED
        BY <4>2, <4>3, <4>4 DEF Evaluating
    <3>2. CASE Judge(r) \/ MarkSucceeded(r) \/ MarkFailed(r) \/ MarkFailedLost(r)
      BY <3>2 DEF Judge, MarkSucceeded, MarkFailed, MarkFailedLost, Goes, Evaluating,
                  JudgeTypeOK, RunState
    <3>3. QED
      BY <1>5, <3>1, <3>2
  <2>2. QED
    BY <1>5, <2>1, AliveStays DEF Judge, ReadVersion, MarkSucceeded, MarkFailed, MarkFailedLost
<1>6. ASSUME NEW r \in Run, DeleteInflight(r) PROVE InflightIsAlive'
  <2>1. \A q \in Run \ {r} : Kept(q)
    BY <1>6 DEF DeleteInflight, Returns, Evaluating, JudgeTypeOK
  <2>2. /\ run[r].process \in Process => inflight'[run[r].process] = NoEntry
        /\ \A p \in Process \ {run[r].process} : inflight'[p] = inflight[p]
    BY <1>6 DEF DeleteInflight, JudgeTypeOK
  <2>3. QED
    BY <2>1, <2>2 DEF InflightIsAlive
<1>7. ASSUME NEW p \in Process, Restart(p) PROVE InflightIsAlive'
  <2>1. \A q \in Run : run[q].process # p => Kept(q)
    BY <1>7 DEF Restart, Evaluating, JudgeTypeOK
  <2>2. inflight'[p] = NoEntry /\ \A s \in Process \ {p} : inflight'[s] = inflight[s]
    BY <1>7 DEF Restart, JudgeTypeOK
  <2>3. QED
    BY <2>1, <2>2 DEF InflightIsAlive
<1>8. ASSUME Advance PROVE InflightIsAlive'
  BY <1>8, AliveStays DEF Advance, Evaluating
<1>9. QED
  BY <1>1, <1>2, <1>3, <1>4, <1>5, <1>6, <1>7, <1>8 DEF JudgeNext, Proceed

(* In every process an entry of inflightLLMJudge is there only while a     *)
(* goroutine of that process evaluates: neither a failed evaluation, nor   *)
(* an entry that a later request stored over it, nor a restart leaves one  *)
(* behind that would turn requests away.                                   *)
THEOREM NothingLeaks == JudgeSpec => []InflightIsAlive
<1>1. JudgeInit => InflightIsAlive
  BY DEF JudgeInit, InflightIsAlive
<1>2. JudgeTypeOK /\ InflightIsAlive /\ [JudgeNext]_judgeVars => InflightIsAlive'
  <2>1. InflightIsAlive /\ UNCHANGED judgeVars => InflightIsAlive'
    BY DEF InflightIsAlive, Evaluating, judgeVars
  <2>2. QED
    BY <2>1, AliveStep
<1>3. QED
  BY <1>1, <1>2, JudgeTypeCorrect, PTL DEF JudgeSpec
=============================================================================
