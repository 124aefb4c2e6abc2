------------------------------ MODULE LLMJudge ------------------------------
(***************************************************************************)
(* Asynchronous evaluations of one session by the LLM: a start request     *)
(* marks the session's row of stg_session_quality_evaluations as running   *)
(* and leaves a goroutine behind that writes the verdict later; clients    *)
(* poll.  Evaluations of other sessions share nothing with it.             *)
(*                                                                         *)
(* A request carries the fingerprint of the trace its page shows, which    *)
(* changes as the session grows, with its trace_id and trace count.  The   *)
(* page may also save an evaluation of its own (upsertQualityEvaluation).  *)
(* Sections between two accesses to the table or to the in-process map     *)
(* interleave freely.                                                      *)
(***************************************************************************)
EXTENDS Integers, FiniteSets

CONSTANTS
  Process,     \* server processes
  Run,         \* goroutines serving requests and evaluating
  Trace,       \* the traces of the session, each with its fingerprint
  NoTrace,     \* '' or no fingerprint
  NoProcess,
  TTL          \* llmJudgeJobTTL

ASSUME JudgeAssumption ==
  /\ NoTrace \notin Trace
  /\ NoProcess \notin Process
  /\ TTL \in Nat

VARIABLES
  eval,       \* the row
  inflight,   \* inflight[p]: the entry of inflightLLMJudge in process p
  run,        \* run[r]: the local state of a request and of its evaluation
  now         \* the clock

judgeVars == <<eval, inflight, run, now>>

MaybeTrace == Trace \cup {NoTrace}

(* `trace' stands for trace_id and session_trace_count, `marked' is the    *)
(* fingerprint in llm_raw_result and `judged' the one in llm_eval_result.  *)
Eval == [status : {"none", "running", "succeeded", "failed"}, at : Nat,
         trace : MaybeTrace, marked : MaybeTrace, judged : MaybeTrace, version : Nat]

NoEval == [status |-> "none", at |-> 0, trace |-> NoTrace, marked |-> NoTrace, judged |-> NoTrace,
           version |-> 0]

InflightEntry == [trace : MaybeTrace, at : Nat]
NoEntry == [trace |-> NoTrace, at |-> 0]

RunState ==
  [pc : {"idle", "check", "checkRow", "mark", "store", "judge", "version",
         "succeed", "fail", "delete", "readVersion", "save"},
   process : Process \cup {NoProcess}, trace : MaybeTrace, version : Nat, deadline : Nat]

NoRun == [pc |-> "idle", process |-> NoProcess, trace |-> NoTrace,
          version |-> 0, deadline |-> 0]

Goes(r, pc) == run' = [run EXCEPT ![r].pc = pc]
Returns(r) == run' = [run EXCEPT ![r] = NoRun]

(* extractTraceFingerprintFromQualityRow: of llm_eval_result first. *)
Stored(e) == IF e.judged # NoTrace THEN e.judged ELSE e.marked

(* qualityEvaluationMatchesExpectation *)
Matches(e, f) == Stored(e) \in {f, NoTrace}
-----------------------------------------------------------------------------
JudgeInit ==
  /\ eval = NoEval
  /\ inflight = [p \in Process |-> NoEntry]
  /\ run = [r \in Run |-> NoRun]
  /\ now = 0
-----------------------------------------------------------------------------
(* llmJudgeAsyncStart *)

Start(r, p, f) ==
  /\ run[r].pc = "idle"
  /\ run' = [run EXCEPT ![r] = [NoRun EXCEPT !.pc = "check", !.process = p, !.trace = f]]
  /\ UNCHANGED <<eval, inflight, now>>

(* checkRunningLLMJudge, in this process: a live entry of the trace ends   *)
(* the request, a dead entry is dropped.                                   *)
CheckInflight(r) ==
  LET p == run[r].process
      entry == inflight[p]
      live == now - entry.at < TTL
  IN
  /\ run[r].pc = "check"
  /\ IF entry.trace = run[r].trace /\ live
     THEN Returns(r) /\ UNCHANGED inflight
     ELSE /\ Goes(r, "checkRow")
          /\ inflight' = [inflight EXCEPT ![p] = IF live THEN @ ELSE NoEntry]
  /\ UNCHANGED <<eval, now>>

(* ... and in the table. *)
RunningInTable(f) ==
  eval.status = "running" /\ Matches(eval, f) /\ now - eval.at <= TTL

CheckRow(r) ==
  /\ run[r].pc = "checkRow"
  /\ IF RunningInTable(run[r].trace) THEN Returns(r) ELSE Goes(r, "mark")
  /\ UNCHANGED <<eval, inflight, now>>

(* An error of the query counts as "not running". *)
CheckRowFailed(r) ==
  /\ run[r].pc = "checkRow"
  /\ Goes(r, "mark")
  /\ UNCHANGED <<eval, inflight, now>>

(* markLLMJudgeRunning: the old verdict stays in llm_eval_result. *)
MarkRunning(r) ==
  /\ run[r].pc = "mark"
  /\ \/ /\ eval' = [eval EXCEPT !.status = "running", !.at = now,
                                !.trace = run[r].trace, !.marked = run[r].trace]
        /\ Goes(r, "store")
     \/ Returns(r) /\ UNCHANGED eval
  /\ UNCHANGED <<inflight, now>>

(* inflightLLMJudge.Store, and the goroutine starts with its deadline. *)
StoreInflight(r) ==
  /\ run[r].pc = "store"
  /\ inflight' = [inflight EXCEPT ![run[r].process] = [trace |-> run[r].trace, at |-> now]]
  /\ run' = [run EXCEPT ![r] = [@ EXCEPT !.pc = "judge", !.deadline = now + TTL]]
  /\ UNCHANGED <<eval, now>>
-----------------------------------------------------------------------------
(* runLLMJudgeAsync *)

(* Mutant of Judge: an error just ends the goroutine. *)
JudgeForgettingErrors(r) ==
  /\ run[r].pc = "judge"
  /\ Goes(r, "version") \/ Goes(r, "delete")
  /\ UNCHANGED <<eval, inflight, now>>

(* The model answers with a usable object, or not: bad configuration, an   *)
(* error, the deadline, no JSON, a panic.                                  *)
Judge(r) ==
  /\ run[r].pc = "judge"
  /\ Goes(r, "version") \/ Goes(r, "fail")
  /\ UNCHANGED <<eval, inflight, now>>

(* Mutant of ReadVersion: the counter is decremented when the read fails. *)
ReadVersionBefore(r) ==
  /\ run[r].pc \in {"version", "readVersion"}
  /\ \E v \in {eval.version, -1} :
       run' = [run EXCEPT ![r] = [@ EXCEPT
                 !.pc = IF run[r].pc = "version" THEN "succeed" ELSE "save", !.version = v]]
  /\ UNCHANGED <<eval, inflight, now>>

(* markLLMJudgeSucceeded reads the version, a failed read counts as none. *)
ReadVersion(r) ==
  /\ run[r].pc \in {"version", "readVersion"}
  /\ \E v \in {eval.version, 0} :
       run' = [run EXCEPT ![r] = [@ EXCEPT
                 !.pc = IF run[r].pc = "version" THEN "succeed" ELSE "save", !.version = v + 1]]
  /\ UNCHANGED <<eval, inflight, now>>

(* Mutant of Targets: the verdict is written whatever the row is about. *)
TargetsSession(r) == eval.status # "none"

(* The WHERE of both updates: the row is still about the run's trace. *)
Targets(r) ==
  eval.status # "none" /\ eval.marked = run[r].trace /\ eval.trace = run[r].trace

(* ... and writes the verdict, if the row is still its own: touching no row *)
(* is no error.                                                            *)
MarkSucceeded(r) ==
  /\ run[r].pc = "succeed"
  /\ \/ /\ eval' = IF Targets(r)
                   THEN [eval EXCEPT !.status = "succeeded", !.at = now,
                                     !.marked = run[r].trace, !.judged = run[r].trace,
                                     !.version = run[r].version]
                   ELSE eval
        /\ Goes(r, "delete")
     \/ Goes(r, "fail") /\ UNCHANGED eval
  /\ UNCHANGED <<inflight, now>>

(* markLLMJudgeFailed *)
MarkFailed(r) ==
  /\ run[r].pc = "fail"
  /\ eval' = IF Targets(r) THEN [eval EXCEPT !.status = "failed", !.at = now] ELSE eval
  /\ Goes(r, "delete")
  /\ UNCHANGED <<inflight, now>>

(* Its error is only logged. *)
MarkFailedLost(r) ==
  /\ run[r].pc = "fail"
  /\ Goes(r, "delete")
  /\ UNCHANGED <<eval, inflight, now>>

(* Mutant of DeleteInflight: the goroutine leaves its entry behind. *)
DeleteNothing(r) ==
  /\ run[r].pc = "delete"
  /\ Returns(r)
  /\ UNCHANGED <<eval, inflight, now>>

(* The deferred Delete: of the session's entry, whoever stored it. *)
DeleteInflight(r) ==
  /\ run[r].pc = "delete"
  /\ inflight' = [inflight EXCEPT ![run[r].process] = NoEntry]
  /\ Returns(r)
  /\ UNCHANGED <<eval, now>>
-----------------------------------------------------------------------------
(* upsertQualityEvaluation: the page saves what it has, perhaps without an *)
(* LLM verdict.                                                            *)
Save(r, p, f) ==
  /\ run[r].pc = "idle"
  /\ run' = [run EXCEPT ![r] = [NoRun EXCEPT !.pc = "readVersion", !.process = p,
                                             !.trace = f]]
  /\ UNCHANGED <<eval, inflight, now>>

SaveRow(r) ==
  /\ run[r].pc = "save"
  /\ \/ \E judged \in {run[r].trace, NoTrace} :
          eval' = [status |-> "succeeded", at |-> now, trace |-> run[r].trace,
                   marked |-> run[r].trace, judged |-> judged, version |-> run[r].version]
     \/ UNCHANGED eval
  /\ Returns(r)
  /\ UNCHANGED <<inflight, now>>
-----------------------------------------------------------------------------
(* A process stops and starts again. *)
Restart(p) ==
  /\ run' = [r \in Run |-> IF run[r].process = p THEN NoRun ELSE run[r]]
  /\ inflight' = [inflight EXCEPT ![p] = NoEntry]
  /\ UNCHANGED <<eval, now>>

(* The call to the model ends by its deadline. *)
Advance ==
  /\ \A r \in Run : run[r].pc = "judge" => now < run[r].deadline
  /\ now' = now + 1
  /\ UNCHANGED <<eval, inflight, run>>

Proceed(r) ==
  \/ CheckInflight(r)
  \/ CheckRow(r)
  \/ MarkRunning(r)
  \/ StoreInflight(r)
  \/ Judge(r)
  \/ ReadVersion(r)
  \/ MarkSucceeded(r)
  \/ MarkFailed(r)
  \/ DeleteInflight(r)
  \/ SaveRow(r)

JudgeNext ==
  \/ \E r \in Run :
       \/ \E p \in Process, f \in Trace : Start(r, p, f) \/ Save(r, p, f)
       \/ Proceed(r)
       \/ CheckRowFailed(r)
       \/ MarkFailedLost(r)
  \/ \E p \in Process : Restart(p)
  \/ Advance

JudgeSpec == JudgeInit /\ [][JudgeNext]_judgeVars

(* Goroutines run. *)
JudgeFairness == \A r \in Run : WF_judgeVars(Proceed(r))
-----------------------------------------------------------------------------
JudgeTypeOK ==
  /\ eval \in Eval
  /\ inflight \in [Process -> InflightEntry]
  /\ run \in [Run -> RunState]
  /\ now \in Nat
  /\ \A r \in Run : run[r].pc # "idle" => run[r].process \in Process /\ run[r].trace \in Trace

(* The verdict shown for a trace was reached on that trace: a run that     *)
(* ends after the row was marked for another trace, by another request or  *)
(* another process, leaves that row alone.                                 *)
VerdictIsOfTheTrace ==
  eval.status = "succeeded" =>
    eval.marked = eval.trace /\ eval.judged \in {eval.trace, NoTrace}

Evaluating(r) == run[r].pc \in {"judge", "version", "succeed", "fail", "delete"}

(* The in-process map does not leak: an entry is there only while a        *)
(* goroutine of the process is evaluating, so that no request is turned    *)
(* away by an evaluation that is over.                                     *)
InflightIsAlive ==
  \A p \in Process : inflight[p] # NoEntry =>
    \E r \in Run : run[r].process = p /\ Evaluating(r)
=============================================================================
