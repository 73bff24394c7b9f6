-------------------------------- MODULE Runner --------------------------------
(***************************************************************************)
(* internal/runner: RunOnce walks the layer stack of one target under one  *)
(* context; RunCount repeats RunOnce with a fresh context per attempt and  *)
(* keeps the per-layer statistics.  main.go supplies the contexts: each    *)
(* attempt has its own deadline and all of them descend from the context   *)
(* a SIGINT or SIGTERM cancels.                                            *)
(*                                                                         *)
(* One action per step of the runner's loop, so that the deadline and the  *)
(* signal may fall between any two of them.  A probe is two steps, its     *)
(* call and its return: in between the context may expire, and the probe   *)
(* may still return anything its layer's contract allows.                  *)
(***************************************************************************)
EXTENDS StackCore, Percentile

CONSTANTS
  Schemes,      \* the schemes of the targets diagnosed
  Counts,       \* the values of --count; 0 is a single run without the flag
  Outcomes,     \* for each layer, the results its Probe may return
  Interrupts    \* whether the operator may interrupt the program

ASSUME SchemesAssumption == Schemes \subseteq AllSchemes

ASSUME CountsAssumption == Counts \subseteq Nat

ASSUME InterruptsAssumption == Interrupts \in BOOLEAN

ASSUME OutcomesAssumption ==
  /\ DOMAIN Outcomes = LayerNames
  /\ \A l \in LayerNames : \A r \in Outcomes[l] : MeetsContract(l, r)

VARIABLES
  scheme,       \* the target's scheme
  count,        \* cfg.Count
  pc,           \* where the runner is
  attempt,      \* the number of the attempt under way, from 1
  pos,          \* the index of the next layer in r.layers
  stopped,      \* RunOnce: an earlier layer failed
  firstNonOK,   \* RunOnce: the first layer that warned or failed, or ""
  layers,       \* RunOnce: result.Layers
  ctxErr,       \* pctx.Context.Err()
  interrupted,  \* the signal context is canceled
  exitCode,     \* RunOnce: result.Summary.ExitCode
  exitCodes,    \* RunCount: the exit codes collected so far
  attempts,     \* RunCount: cr.Attempts
  counts,       \* RunCount: the per-layer tallies
  durations,    \* RunCount: the per-layer durations of ok and warn attempts
  report,       \* what main hands to the renderer, or NoReport
  begunBefore   \* history: how many attempts had begun when the signal came

runVars == <<pos, stopped, firstNonOK, layers, exitCode>>
tallyVars == <<exitCodes, attempts, counts, durations>>
sigVars == <<interrupted, begunBefore>>
vars == <<scheme, count, pc, attempt, ctxErr, report, runVars, tallyVars, sigVars>>

Stack == BuildLayers(scheme)

NoLayers == [l \in LayerNames |-> Absent]

NoReport == [exit |-> -1]

ZeroTally == [success |-> 0, fail |-> 0, skip |-> 0]

Init ==
  /\ scheme \in Schemes
  /\ count \in Counts
  /\ pc = "begin"
  /\ attempt = 1
  /\ pos = 1
  /\ stopped = FALSE
  /\ firstNonOK = ""
  /\ layers = NoLayers
  /\ ctxErr = "nil"
  /\ interrupted = FALSE
  /\ exitCode = 0
  /\ exitCodes = <<>>
  /\ attempts = <<>>
  /\ counts = [l \in LayerNames |-> ZeroTally]
  /\ durations = [l \in LayerNames |-> <<>>]
  /\ report = NoReport
  /\ begunBefore = 0

------------------------------------------------------------------------------
(* RunOnce.                                                                *)

(* A mistake the checks must notice: the attempt's context is made from    *)
(* context.Background() and not from the signal context.                   *)
BeginDetached ==
  /\ pc = "begin"
  /\ ctxErr' = "nil"
  /\ pos' = 1
  /\ stopped' = FALSE
  /\ firstNonOK' = ""
  /\ layers' = NoLayers
  /\ pc' = "loop"
  /\ UNCHANGED <<scheme, count, attempt, exitCode, report, tallyVars, sigVars>>

(* The factory of main.go makes the attempt's context, a child of the      *)
(* signal context, and RunOnce starts with an empty result.                *)
Begin ==
  /\ pc = "begin"
  /\ ctxErr' = IF interrupted THEN "canceled" ELSE "nil"
  /\ pos' = 1
  /\ stopped' = FALSE
  /\ firstNonOK' = ""
  /\ layers' = NoLayers
  /\ pc' = "loop"
  /\ UNCHANGED <<scheme, count, attempt, exitCode, report, tallyVars, sigVars>>

(* A mistake the checks must notice: a failure does not stop the walk.     *)
MustSkipOnlyWhenDone == ctxErr # "nil"

(* Head of the loop: a layer is skipped after a failure and when the       *)
(* context is done at this very moment.                                    *)
MustSkip == stopped \/ ctxErr # "nil"

SkipLayer ==
  /\ pc = "loop"
  /\ pos \in DOMAIN Stack
  /\ MustSkip
  /\ layers' = [layers EXCEPT ![Stack[pos]] = SkipResult]
  /\ pos' = pos + 1
  /\ UNCHANGED <<scheme, count, pc, attempt, stopped, firstNonOK, ctxErr, exitCode,
                 report, tallyVars, sigVars>>

CallProbe ==
  /\ pc = "loop"
  /\ pos \in DOMAIN Stack
  /\ ~MustSkip
  /\ pc' = "probing"
  /\ UNCHANGED <<scheme, count, attempt, ctxErr, report, runVars, tallyVars, sigVars>>

(* A mistake the checks must notice: a probe that skipped is "not ok" too. *)
ProbeReturnsCountingSkips(r) ==
  /\ pc = "probing"
  /\ r \in Outcomes[Stack[pos]]
  /\ layers' = [layers EXCEPT ![Stack[pos]] = r]
  /\ firstNonOK' = IF firstNonOK = "" /\ r.status # "ok"
                   THEN Stack[pos] ELSE firstNonOK
  /\ stopped' = (stopped \/ ~ShouldContinue(r.status))
  /\ pos' = pos + 1
  /\ pc' = "loop"
  /\ UNCHANGED <<scheme, count, attempt, ctxErr, exitCode, report, tallyVars, sigVars>>

ProbeReturns(r) ==
  /\ pc = "probing"
  /\ r \in Outcomes[Stack[pos]]
  /\ layers' = [layers EXCEPT ![Stack[pos]] = r]
  /\ firstNonOK' = IF firstNonOK = "" /\ r.status \notin {"ok", "skip"}
                   THEN Stack[pos] ELSE firstNonOK
  /\ stopped' = (stopped \/ ~ShouldContinue(r.status))
  /\ pos' = pos + 1
  /\ pc' = "loop"
  /\ UNCHANGED <<scheme, count, attempt, ctxErr, exitCode, report, tallyVars, sigVars>>

(* A mistake the checks must notice: the layers the target does not need   *)
(* are left out of the result.                                             *)
SummarizeIncomplete ==
  /\ pc = "loop"
  /\ pos \notin DOMAIN Stack
  /\ exitCode' = FromResult(layers)
  /\ pc' = IF count = 0 THEN "report" ELSE "collect"
  /\ UNCHANGED <<scheme, count, attempt, pos, stopped, firstNonOK, layers, ctxErr,
                 report, tallyVars, sigVars>>

(* After the loop: every layer of the schema is present, those the target  *)
(* does not need as skipped, and the exit code is computed from them.      *)
Summarize ==
  /\ pc = "loop"
  /\ pos \notin DOMAIN Stack
  /\ layers' = [l \in LayerNames |->
                  IF layers[l] = Absent THEN SkipResult ELSE layers[l]]
  /\ exitCode' = FromResult(layers')
  /\ pc' = IF count = 0 THEN "report" ELSE "collect"
  /\ UNCHANGED <<scheme, count, attempt, pos, stopped, firstNonOK, ctxErr, report,
                 tallyVars, sigVars>>

------------------------------------------------------------------------------
(* RunCount.                                                               *)

(* A mistake the checks must notice: a warning counted as a failure.       *)
TallyWarnAsFail(t, status) ==
  [success |-> t.success + (IF status = "ok" THEN 1 ELSE 0),
   fail    |-> t.fail + (IF status \in {"warn", "fail"} THEN 1 ELSE 0),
   skip    |-> t.skip + (IF status = "skip" THEN 1 ELSE 0)]

Tally(t, status) ==
  [success |-> t.success + (IF status \in {"ok", "warn"} THEN 1 ELSE 0),
   fail    |-> t.fail + (IF status = "fail" THEN 1 ELSE 0),
   skip    |-> t.skip + (IF status = "skip" THEN 1 ELSE 0)]

(* One pass of RunCount's loop after RunOnce returned: the context is      *)
(* released, the attempt recorded and its layers tallied.                  *)
Collect ==
  /\ pc = "collect"
  /\ ctxErr' = IF ctxErr = "nil" THEN "canceled" ELSE ctxErr
  /\ exitCodes' = Append(exitCodes, exitCode)
  /\ attempts' = Append(attempts, [layers |-> layers, exit |-> exitCode,
                                   firstNonOK |-> firstNonOK])
  /\ counts' = [l \in LayerNames |-> Tally(counts[l], layers[l].status)]
  /\ durations' = [l \in LayerNames |->
                     IF layers[l].status \in {"ok", "warn"}
                     THEN Append(durations[l], layers[l].dur) ELSE durations[l]]
  /\ attempt' = IF attempt < count THEN attempt + 1 ELSE attempt
  /\ pc' = IF attempt < count THEN "begin" ELSE "report"
  /\ UNCHANGED <<scheme, count, report, runVars, sigVars>>

(* LossRatio is kept as the fraction <<fail, sample>>; the percentiles are *)
(* nil, an empty set, for a layer that never succeeded.                    *)
LayerStatistics(l) ==
  LET t == counts[l]
      sample == t.success + t.fail
  IN  [success |-> t.success, fail |-> t.fail, skip |-> t.skip, sample |-> sample,
       loss |-> IF sample > 0 THEN <<t.fail, sample>> ELSE <<0, 1>>,
       p50 |-> IF durations[l] # <<>> THEN {P50Doubled(durations[l])} ELSE {},
       p95 |-> IF durations[l] # <<>> THEN {P95(durations[l])} ELSE {}]

Report ==
  /\ pc = "report"
  /\ report' = IF count = 0
               THEN [exit |-> exitCode]
               ELSE [exit |-> WorstExitCode(exitCodes),
                     statistics |-> [l \in LayerNames |-> LayerStatistics(l)]]
  /\ pc' = "done"
  /\ UNCHANGED <<scheme, count, attempt, ctxErr, runVars, tallyVars, sigVars>>

------------------------------------------------------------------------------
(* The environment: the attempt's deadline, and a signal to the process.   *)

(* A mistake the checks must notice: only the single run has a deadline.   *)
DeadlineFiresOnce ==
  /\ count = 0
  /\ pc \in {"loop", "probing", "collect"}
  /\ ctxErr = "nil"
  /\ ctxErr' = "deadline"
  /\ UNCHANGED <<scheme, count, pc, attempt, report, runVars, tallyVars, sigVars>>

DeadlineFires ==
  /\ pc \in {"loop", "probing", "collect"}
  /\ ctxErr = "nil"
  /\ ctxErr' = "deadline"
  /\ UNCHANGED <<scheme, count, pc, attempt, report, runVars, tallyVars, sigVars>>

(* Canceling the signal context cancels the attempt's context with it.     *)
Signal ==
  /\ Interrupts
  /\ pc \in {"begin", "loop", "probing", "collect"}
  /\ ~interrupted
  /\ interrupted' = TRUE
  /\ begunBefore' = IF pc = "begin" THEN attempt - 1 ELSE attempt
  /\ ctxErr' = IF pc # "begin" /\ ctxErr = "nil" THEN "canceled" ELSE ctxErr
  /\ UNCHANGED <<scheme, count, pc, attempt, report, runVars, tallyVars>>

------------------------------------------------------------------------------
ProbeReturning == \E r \in UNION {Outcomes[l] : l \in LayerNames} : ProbeReturns(r)

RunnerStep == Begin \/ SkipLayer \/ CallProbe \/ Summarize \/ Collect \/ Report

Next == RunnerStep \/ ProbeReturning \/ DeadlineFires \/ Signal

(* The runner's own steps are straight-line code.  A probe is only known   *)
(* to return once its context is done: a blackholed connection otherwise   *)
(* hangs for as long as the kernel likes.  The deadline is a timer.        *)
Fairness ==
  /\ WF_vars(RunnerStep)
  /\ WF_vars(DeadlineFires)
  /\ WF_vars(ctxErr # "nil" /\ ProbeReturning)

Spec == Init /\ [][Next]_vars /\ Fairness
------------------------------------------------------------------------------
(* Type correctness of the runner's state.                                 *)
LayerValue == Result \cup {Absent}

TypeOK ==
  /\ scheme \in Schemes
  /\ count \in Counts
  /\ pc \in {"begin", "loop", "probing", "collect", "report", "done"}
  /\ attempt \in Nat \ {0}
  /\ pos \in 1 .. Len(Stack) + 1
  /\ stopped \in BOOLEAN
  /\ firstNonOK \in LayerNames \cup {""}
  /\ layers \in [LayerNames -> LayerValue]
  /\ ctxErr \in {"nil", "deadline", "canceled"}
  /\ interrupted \in BOOLEAN
  /\ exitCode \in ExitCodes
  /\ exitCodes \in Seq(ExitCodes)
  /\ attempts \in Seq([layers : [LayerNames -> Result], exit : ExitCodes,
                       firstNonOK : LayerNames \cup {""}])
  /\ counts \in [LayerNames -> [success : Nat, fail : Nat, skip : Nat]]
  /\ durations \in [LayerNames -> Seq(Nat)]
  /\ begunBefore \in Nat

------------------------------------------------------------------------------
(* Safety.                                                                 *)

(* RunOnce has returned and the attempt now under way has not begun.       *)
Summarized == pc \in {"collect", "report", "done"} \/ (pc = "begin" /\ attempts # <<>>)

(* The results ls are those of a walk up the stack that stopped for good   *)
(* where it first failed or was cut off: whatever was executed belongs to  *)
(* the target, and everything the target needs below it was executed too   *)
(* and did not fail.                                                       *)
ProperWalk(ls) ==
  \A m \in LayerNames : Executed(ls[m]) =>
    /\ m \in Applicable(scheme)
    /\ \A l \in Applicable(scheme) :
         Rank[l] < Rank[m] => Executed(ls[l]) /\ ls[l].status # "fail"

(* RunOnce probes nothing above a layer that failed, and nothing after a   *)
(* layer it skipped because the context was done, wherever the deadline or *)
(* the signal falls; a layer the target does not need is never probed.     *)
NothingAboveAFailure ==
  /\ ProperWalk(layers)
  /\ \A k \in DOMAIN attempts : ProperWalk(attempts[k].layers)

(* Two independent computations describe the same run: the loop tracks the *)
(* first layer that is not ok while exitcode.FromResult recounts the       *)
(* finished map.  They agree on whether anything was wrong, on which layer *)
(* failed, and no layer result is ever taken for a tool error.             *)
Agree(ls, exit, first) ==
  /\ exit = 0 <=> first = ""
  /\ exit # 1
  /\ first # "" => /\ ls[first].status \in {"warn", "fail"}
                   /\ \A l \in LayerNames :
                        Rank[l] < Rank[first] => ls[l].status \in {"ok", "skip"}
  /\ exit = 2 <=> WithStatus(ls, "warn") # {} /\ WithStatus(ls, "fail") = {}
  /\ \A l \in LayerNames : exit = LayerCodes[l] <=> ls[l].status = "fail"

ExitCodeNamesTheFailure ==
  /\ Summarized => Agree(layers, exitCode, firstNonOK)
  /\ \A k \in DOMAIN attempts :
       Agree(attempts[k].layers, attempts[k].exit, attempts[k].firstNonOK)

(* The tallies RunCount keeps as it goes are those of the attempts it has  *)
(* recorded: nothing is counted twice, lost, or carried over from one      *)
(* attempt to the next.                                                    *)
AttemptsWith(l, statuses) ==
  {k \in DOMAIN attempts : attempts[k].layers[l].status \in statuses}

TalliesMatchAttempts ==
  /\ Len(exitCodes) = Len(attempts)
  /\ \A l \in LayerNames :
       /\ counts[l].success = Cardinality(AttemptsWith(l, {"ok", "warn"}))
       /\ counts[l].fail = Cardinality(AttemptsWith(l, {"fail"}))
       /\ counts[l].skip = Cardinality(AttemptsWith(l, {"skip"}))
       /\ Len(durations[l]) = counts[l].success

(* What a finished --count run reports: every attempt that was asked for,  *)
(* the exit code of the worst of them, and for each layer a sample that is *)
(* the attempts in which it was not skipped, a loss ratio between 0 and 1  *)
(* and, exactly when it ever succeeded, percentiles that are in order and  *)
(* within the durations measured.                                          *)
ReportSound ==
  pc = "done" /\ count > 0 =>
    /\ Len(attempts) = count
    /\ \E k \in DOMAIN attempts : report.exit = attempts[k].exit
    /\ \A k \in DOMAIN attempts : report.exit >= attempts[k].exit
    /\ \A l \in LayerNames :
         LET s == report.statistics[l]
             ds == {durations[l][i] : i \in DOMAIN durations[l]}
         IN  /\ s.sample = count - s.skip
             /\ s.loss[2] > 0 /\ 0 <= s.loss[1] /\ s.loss[1] <= s.loss[2]
             /\ s.p50 # {} <=> s.success > 0
             /\ s.p95 # {} <=> s.success > 0
             /\ \A p \in s.p50 : \A q \in s.p95 :
                  /\ q \in ds
                  /\ \E d \in ds : 2 * d <= p
                  /\ p <= 2 * q

(* A signal ends the measurement: the contexts of the later attempts are   *)
(* children of the canceled signal context, so an attempt that begins      *)
(* after the signal executes no layer at all.                              *)
NoProbeAfterSignal ==
  \A k \in DOMAIN attempts : interrupted /\ k > begunBefore =>
    \A l \in LayerNames : ~Executed(attempts[k].layers[l])

(* cli.go, help text: "0   All layers passed".  If a run ends with exit    *)
(* code 0, each layer the target needs was executed in every attempt.      *)
ExitZeroMeansPassed ==
  pc = "done" /\ report.exit = 0 =>
    \A l \in Applicable(scheme) :
      /\ Executed(layers[l])
      /\ \A k \in DOMAIN attempts : Executed(attempts[k].layers[l])

------------------------------------------------------------------------------
(* Liveness: under per-attempt deadlines every run comes to its report,    *)
(* although no probe is trusted to return before its context is done.      *)
Terminates == <>(pc = "done")

------------------------------------------------------------------------------
(* The runner implements the promise of Pipeline: every attempt is one     *)
(* diagnosis, decided bottom up, cut short at most once, and published     *)
(* with the exit code of its verdicts.                                     *)
VerdictOf(r) ==
  IF r = Absent THEN "pending" ELSE IF Executed(r) THEN r.status ELSE "cut"

Promise ==
  INSTANCE Pipeline WITH
    verdict <- [l \in LayerNames |-> VerdictOf(layers[l])],
    exit <- IF Summarized THEN exitCode ELSE -1

ImplementsPipeline == Promise!Spec

==============================================================================
