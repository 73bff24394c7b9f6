----------------------------- MODULE RunnerProofs -----------------------------
(***************************************************************************)
(* Theorems about Runner, for every set of target schemes, every --count   *)
(* and all the results the layers' contracts allow: one diagnosis, the     *)
(* tallies of a series, what a signal does to the attempts that follow it, *)
(* the percentiles and the report of a finished series, that the runner    *)
(* implements Pipeline, what Report's two renderers show of it, how long a *)
(* run can be, and what the exit codes of diagnoses and series are.        *)
(***************************************************************************)
EXTENDS MCRunner, TLAPS, SequenceTheorems, FiniteSetTheorems, WellFoundedInduction

(***************************************************************************)
(* Facts about the operators of StackCore.                                 *)
(***************************************************************************)

(* The stack main.buildLayers makes for each scheme.                       *)
LEMMA StackCases ==
  /\ BuildLayers("https") = <<"dns", "reachability", "tcp", "tls", "http">>
  /\ BuildLayers("http") = <<"dns", "reachability", "tcp", "http">>
  /\ BuildLayers("tcp") = <<"dns", "reachability", "tcp">>
BY DEF BuildLayers, NeedsTLS, NeedsHTTP

(* A stack holds every layer its scheme needs, once, bottom up.            *)
LEMMA StackFacts ==
  ASSUME NEW s \in AllSchemes
  PROVE  /\ BuildLayers(s) \in Seq(LayerNames)
         /\ Len(BuildLayers(s)) \in 3 .. 5
         /\ \A i \in 1 .. Len(BuildLayers(s)) : BuildLayers(s)[i] \in Applicable(s)
         /\ \A l \in Applicable(s) : \E i \in 1 .. Len(BuildLayers(s)) : BuildLayers(s)[i] = l
         /\ \A i, j \in 1 .. Len(BuildLayers(s)) :
              i < j => Rank[BuildLayers(s)[i]] < Rank[BuildLayers(s)[j]]
<1>1. CASE s = "https"
  <2>1. BuildLayers(s) = <<"dns", "reachability", "tcp", "tls", "http">> BY <1>1, StackCases
  <2>2. BuildLayers(s) \in Seq(LayerNames) /\ Len(BuildLayers(s)) = 5 BY <2>1 DEF LayerNames
  <2>3. /\ BuildLayers(s)[1] = "dns"
        /\ BuildLayers(s)[2] = "reachability"
        /\ BuildLayers(s)[3] = "tcp"
        /\ BuildLayers(s)[4] = "tls"
        /\ BuildLayers(s)[5] = "http"
    BY <2>1
  <2>4. \A i \in 1 .. 5 : i = 1 \/ i = 2 \/ i = 3 \/ i = 4 \/ i = 5 OBVIOUS
  <2>5. Applicable(s) = {"dns", "reachability", "tcp", "tls", "http"}
    BY <1>1 DEF Applicable, NeedsTLS, NeedsHTTP
  <2>6. \A i \in 1 .. 5 : BuildLayers(s)[i] \in Applicable(s) BY <2>3, <2>4, <2>5
  <2>7. \A i \in 1 .. 5 : Rank[BuildLayers(s)[i]] = i BY <2>3, <2>4 DEF Rank
  <2>8. \A l \in Applicable(s) : \E i \in 1 .. 5 : BuildLayers(s)[i] = l BY <2>3, <2>5
  <2>9. \A i, j \in 1 .. 5 :
          i < j => Rank[BuildLayers(s)[i]] < Rank[BuildLayers(s)[j]] BY <2>7
  <2>10. QED BY <2>2, <2>6, <2>8, <2>9
<1>2. CASE s = "http"
  <2>1. BuildLayers(s) = <<"dns", "reachability", "tcp", "http">> BY <1>2, StackCases
  <2>2. BuildLayers(s) \in Seq(LayerNames) /\ Len(BuildLayers(s)) = 4 BY <2>1 DEF LayerNames
  <2>3. /\ BuildLayers(s)[1] = "dns"
        /\ BuildLayers(s)[2] = "reachability"
        /\ BuildLayers(s)[3] = "tcp"
        /\ BuildLayers(s)[4] = "http"
    BY <2>1
  <2>4. \A i \in 1 .. 4 : i = 1 \/ i = 2 \/ i = 3 \/ i = 4 OBVIOUS
  <2>5. Applicable(s) = {"dns", "reachability", "tcp", "http"}
    BY <1>2 DEF Applicable, NeedsTLS, NeedsHTTP
  <2>6. \A i \in 1 .. 4 : BuildLayers(s)[i] \in Applicable(s) BY <2>3, <2>4, <2>5
  <2>7. \A i \in 1 .. 4 : Rank[BuildLayers(s)[i]] = IF i = 4 THEN 5 ELSE i BY <2>3, <2>4 DEF Rank
  <2>8. \A l \in Applicable(s) : \E i \in 1 .. 4 : BuildLayers(s)[i] = l BY <2>3, <2>5
  <2>9. \A i, j \in 1 .. 4 :
          i < j => Rank[BuildLayers(s)[i]] < Rank[BuildLayers(s)[j]] BY <2>7
  <2>10. QED BY <2>2, <2>6, <2>8, <2>9
<1>3. CASE s = "tcp"
  <2>1. BuildLayers(s) = <<"dns", "reachability", "tcp">> BY <1>3, StackCases
  <2>2. BuildLayers(s) \in Seq(LayerNames) /\ Len(BuildLayers(s)) = 3 BY <2>1 DEF LayerNames
  <2>3. /\ BuildLayers(s)[1] = "dns"
        /\ BuildLayers(s)[2] = "reachability"
        /\ BuildLayers(s)[3] = "tcp"
    BY <2>1
  <2>4. \A i \in 1 .. 3 : i = 1 \/ i = 2 \/ i = 3 OBVIOUS
  <2>5. Applicable(s) = {"dns", "reachability", "tcp"} BY <1>3 DEF Applicable, NeedsTLS, NeedsHTTP
  <2>6. \A i \in 1 .. 3 : BuildLayers(s)[i] \in Applicable(s) BY <2>3, <2>4, <2>5
  <2>7. \A i \in 1 .. 3 : Rank[BuildLayers(s)[i]] = i BY <2>3, <2>4 DEF Rank
  <2>8. \A l \in Applicable(s) : \E i \in 1 .. 3 : BuildLayers(s)[i] = l BY <2>3, <2>5
  <2>9. \A i, j \in 1 .. 3 :
          i < j => Rank[BuildLayers(s)[i]] < Rank[BuildLayers(s)[j]] BY <2>7
  <2>10. QED BY <2>2, <2>6, <2>8, <2>9
<1>4. QED BY <1>1, <1>2, <1>3 DEF AllSchemes

(* Every non-empty set of layers has a first one.                          *)
LEMMA FirstFacts ==
  ASSUME NEW S \in SUBSET LayerNames, S # {}
  PROVE  First(S) \in S /\ \A m \in S : Rank[First(S)] <= Rank[m]
<1>1. \E l \in S : \A m \in S : Rank[l] <= Rank[m]
  <2>1. CASE "dns" \in S BY <2>1 DEF LayerNames, Rank
  <2>2. CASE "dns" \notin S /\ "reachability" \in S BY <2>2 DEF LayerNames, Rank
  <2>3. CASE S \cap {"dns", "reachability"} = {} /\ "tcp" \in S
    BY <2>3 DEF LayerNames, Rank
  <2>4. CASE S \cap {"dns", "reachability", "tcp"} = {} /\ "tls" \in S
    BY <2>4 DEF LayerNames, Rank
  <2>5. CASE S = {"http"} BY <2>5 DEF LayerNames, Rank
  <2>6. QED BY <2>1, <2>2, <2>3, <2>4, <2>5 DEF LayerNames
<1>2. QED BY <1>1 DEF First

(* The exit code of any finished result is one of the documented ones.     *)
LEMMA ExitCodeType ==
  ASSUME NEW ls \in [LayerNames -> Result]
  PROVE  FromResult(ls) \in ExitCodes
<1> DEFINE failing == WithStatus(ls, "fail")
<1>1. failing \in SUBSET LayerNames BY DEF WithStatus
<1>2. failing # {} => First(failing) \in LayerNames BY <1>1, FirstFacts
<1>3. failing # {} => LayerCodes[First(failing)] \in ExitCodes
  BY <1>2 DEF LayerCodes, ExitCodes, LayerNames
<1>4. QED BY <1>3 DEF FromResult, ExitCodes

LEMMA SkipResultType ==
  /\ SkipResult \in Result
  /\ SkipResult # Absent
  /\ Absent \notin Result
<1>1. NoError \in Codes BY DEF Codes
<1>2. SkipResult \in Result BY <1>1 DEF SkipResult, Result, Statuses
<1>3. SkipResult.status = "skip" /\ Absent.status = "absent" BY DEF SkipResult, Absent
<1>4. \A r \in Result : r.status \in Statuses BY DEF Result
<1>5. QED BY <1>2, <1>3, <1>4 DEF Statuses

(***************************************************************************)
(* Type correctness.  A probe that is under way is that of a layer on the  *)
(* stack, and the result that is collected is complete.                    *)
(***************************************************************************)
TypeInv ==
  /\ TypeOK
  /\ pc = "probing" => pos \in 1 .. Len(Stack)
  /\ pc \in {"collect", "report", "done"} => layers \in [LayerNames -> Result]

LEMMA StackTyped ==
  ASSUME TypeOK
  PROVE  /\ scheme \in AllSchemes
         /\ Stack \in Seq(LayerNames)
         /\ Len(Stack) \in 3 .. 5
         /\ DOMAIN Stack = 1 .. Len(Stack)
         /\ \A i \in 1 .. Len(Stack) : Stack[i] \in LayerNames
<1>1. scheme \in AllSchemes BY SchemesAssumption DEF TypeOK
<1>2. QED BY <1>1, StackFacts DEF Stack

LEMMA OutcomesTyped ==
  ASSUME NEW l \in LayerNames, NEW r \in Outcomes[l]
  PROVE  r \in Result /\ MeetsContract(l, r)
BY OutcomesAssumption DEF MeetsContract

LEMMA TypeInit == Init => TypeInv
<1> SUFFICES ASSUME Init PROVE TypeInv
  OBVIOUS
<1>1. scheme \in AllSchemes BY SchemesAssumption DEF Init
<1>2. 1 \in 1 .. Len(Stack) + 1 BY <1>1, StackFacts DEF Stack
<1>3. layers \in [LayerNames -> LayerValue] BY DEF Init, NoLayers, LayerValue
<1>4. counts \in [LayerNames -> [success : Nat, fail : Nat, skip : Nat]]
  BY DEF Init, ZeroTally
<1>5. \A S : <<>> \in Seq(S) BY EmptySeq
<1>6. durations \in [LayerNames -> Seq(Nat)]
  <2>1. durations = [l \in LayerNames |-> <<>>] BY DEF Init
  <2>2. <<>> \in Seq(Nat) BY <1>5
  <2>3. QED BY <2>1, <2>2
<1>7. 0 \in ExitCodes BY DEF ExitCodes
<1>8. /\ exitCodes \in Seq(ExitCodes)
      /\ attempts \in Seq([layers : [LayerNames -> Result], exit : ExitCodes,
                           firstNonOK : LayerNames \cup {""}])
  BY <1>5, Zenon DEF Init
<1>9. pos \in 1 .. Len(Stack) + 1 BY <1>2 DEF Init
<1>10. /\ scheme \in Schemes /\ count \in Counts /\ attempt \in Nat \ {0}
       /\ exitCode \in ExitCodes /\ begunBefore \in Nat
  <2>1. scheme \in Schemes /\ count \in Counts BY DEF Init
  <2>2. exitCode = 0 /\ attempt = 1 /\ begunBefore = 0 BY Zenon DEF Init
  <2>3. QED BY <1>7, <2>1, <2>2
<1>11. stopped \in BOOLEAN /\ interrupted \in BOOLEAN BY Zenon DEF Init
<1>12. /\ firstNonOK \in LayerNames \cup {""}
       /\ ctxErr \in {"nil", "deadline", "canceled"}
       /\ pc \in {"begin", "loop", "probing", "collect", "report", "done"}
       /\ pc # "probing" /\ pc \notin {"collect", "report", "done"}
  BY DEF Init
<1>13. TypeOK BY <1>3, <1>4, <1>6, <1>8, <1>9, <1>10, <1>12, <1>11, Zenon DEF TypeOK
<1>14. QED BY <1>12, <1>13 DEF TypeInv

LEMMA TypeStep == TypeInv /\ [Next]_vars => TypeInv'
<1> SUFFICES ASSUME TypeInv, [Next]_vars PROVE TypeInv'
  OBVIOUS
<1>0. /\ Stack \in Seq(LayerNames) /\ Len(Stack) \in 3 .. 5
      /\ DOMAIN Stack = 1 .. Len(Stack)
      /\ \A i \in 1 .. Len(Stack) : Stack[i] \in LayerNames
  BY StackTyped DEF TypeInv
<1>1. CASE Begin
  <2>1. Stack' = Stack BY <1>1 DEF Begin, Stack
  <2>2. layers' \in [LayerNames -> LayerValue] BY <1>1 DEF Begin, NoLayers, LayerValue
  <2>3. pos' \in 1 .. Len(Stack) + 1
    <3>1. pos' = 1 BY <1>1 DEF Begin
    <3>2. Len(Stack) \in Nat BY <1>0
    <3>3. QED BY <3>1, <3>2
  <2>4. ctxErr' \in {"nil", "deadline", "canceled"} BY <1>1 DEF Begin
  <2>5. QED
    BY <1>1, <2>1, <2>2, <2>3, <2>4 DEF Begin, TypeInv, TypeOK, tallyVars, sigVars
<1>2. CASE SkipLayer
  <2>1. Stack' = Stack BY <1>2 DEF SkipLayer, Stack
  <2>2. layers' \in [LayerNames -> LayerValue]
    BY <1>0, <1>2, SkipResultType DEF SkipLayer, LayerValue, TypeInv, TypeOK
  <2>3. pos' \in 1 .. Len(Stack) + 1 BY <1>0, <1>2 DEF SkipLayer
  <2>4. QED BY <1>2, <2>1, <2>2, <2>3 DEF SkipLayer, TypeInv, TypeOK, tallyVars, sigVars
<1>3. CASE CallProbe
  <2>1. Stack' = Stack BY <1>3 DEF CallProbe, Stack
  <2>2. QED
    BY <1>0, <1>3, <2>1 DEF CallProbe, TypeInv, TypeOK, runVars, tallyVars, sigVars
<1>4. ASSUME NEW r, ProbeReturns(r) PROVE TypeInv'
  <2>1. Stack' = Stack BY <1>4 DEF ProbeReturns, Stack
  <2>2. pos \in 1 .. Len(Stack) /\ Stack[pos] \in LayerNames
    BY <1>0, <1>4 DEF ProbeReturns, TypeInv
  <2>3. r \in Result BY <1>4, <2>2, OutcomesTyped DEF ProbeReturns
  <2>4. layers' \in [LayerNames -> LayerValue]
    BY <1>4, <2>2, <2>3 DEF ProbeReturns, LayerValue, TypeInv, TypeOK
  <2>5. pos' \in 1 .. Len(Stack) + 1
    <3>1. pos' = pos + 1 BY <1>4 DEF ProbeReturns
    <3>2. Len(Stack) \in Nat BY <1>0
    <3>3. QED BY <2>2, <3>1, <3>2
  <2>6. stopped' \in BOOLEAN BY <1>4 DEF ProbeReturns, TypeInv, TypeOK, ShouldContinue
  <2>7. firstNonOK' \in LayerNames \cup {""}
    BY <1>4, <2>2 DEF ProbeReturns, TypeInv, TypeOK
  <2>8. QED
    BY <1>4, <2>1, <2>4, <2>5, <2>6, <2>7
    DEF ProbeReturns, TypeInv, TypeOK, tallyVars, sigVars
<1>5. CASE Summarize
  <2>1. Stack' = Stack BY <1>5 DEF Summarize, Stack
  <2>2. layers' \in [LayerNames -> Result]
    BY <1>5, SkipResultType DEF Summarize, LayerValue, TypeInv, TypeOK
  <2>3. layers' \in [LayerNames -> LayerValue] BY <2>2 DEF LayerValue
  <2>4. exitCode' \in ExitCodes BY <1>5, <2>2, ExitCodeType DEF Summarize
  <2>5. QED
    BY <1>5, <2>1, <2>2, <2>3, <2>4
    DEF Summarize, TypeInv, TypeOK, tallyVars, sigVars
<1>6. CASE Collect
  <2>1. Stack' = Stack BY <1>6 DEF Collect, Stack
  <2>2. layers \in [LayerNames -> Result] BY <1>6 DEF Collect, TypeInv
  <2>3. exitCodes' \in Seq(ExitCodes)
    <3>1. exitCodes \in Seq(ExitCodes) /\ exitCode \in ExitCodes BY DEF TypeInv, TypeOK
    <3>2. exitCodes' = Append(exitCodes, exitCode) BY <1>6 DEF Collect
    <3>3. QED BY <3>1, <3>2, AppendProperties
  <2>4. attempts' \in Seq([layers : [LayerNames -> Result], exit : ExitCodes,
                           firstNonOK : LayerNames \cup {""}])
    <3> DEFINE S == [layers : [LayerNames -> Result], exit : ExitCodes,
                     firstNonOK : LayerNames \cup {""}]
               a == [layers |-> layers, exit |-> exitCode, firstNonOK |-> firstNonOK]
    <3>1. attempts \in Seq(S) BY DEF TypeInv, TypeOK
    <3>2. exitCode \in ExitCodes /\ firstNonOK \in LayerNames \cup {""}
      BY DEF TypeInv, TypeOK
    <3>3. a \in S BY <2>2, <3>2
    <3>4. attempts' = Append(attempts, a) BY <1>6 DEF Collect
    <3> HIDE DEF S, a
    <3>5. attempts' \in Seq(S) BY <3>1, <3>3, <3>4, AppendProperties
    <3>6. QED BY <3>5 DEF S
  <2>5. counts' \in [LayerNames -> [success : Nat, fail : Nat, skip : Nat]]
    <3>1. counts \in [LayerNames -> [success : Nat, fail : Nat, skip : Nat]]
      BY DEF TypeInv, TypeOK
    <3>2. \A l \in LayerNames :
            Tally(counts[l], layers[l].status) \in [success : Nat, fail : Nat, skip : Nat]
      BY <3>1 DEF Tally
    <3>3. counts' = [l \in LayerNames |-> Tally(counts[l], layers[l].status)]
      BY <1>6 DEF Collect
    <3>4. QED BY <3>2, <3>3
  <2>6. \A l \in LayerNames : layers[l].dur \in Nat BY <2>2 DEF Result
  <2>7. durations' \in [LayerNames -> Seq(Nat)]
    <3>1. durations \in [LayerNames -> Seq(Nat)] BY DEF TypeInv, TypeOK
    <3>2. \A l \in LayerNames : Append(durations[l], layers[l].dur) \in Seq(Nat)
      BY <2>6, <3>1, AppendProperties
    <3>3. QED BY <1>6, <3>1, <3>2 DEF Collect
  <2>8. attempt' \in Nat \ {0}
    <3>1. attempt \in Nat \ {0} BY DEF TypeInv, TypeOK
    <3>2. attempt' = attempt + 1 \/ attempt' = attempt BY <1>6 DEF Collect
    <3>3. QED BY <3>1, <3>2
  <2>9. ctxErr' \in {"nil", "deadline", "canceled"} BY <1>6 DEF Collect, TypeInv, TypeOK
  <2>10. pc' \in {"begin", "report"} BY <1>6 DEF Collect
  <2>11. QED
    BY <1>6, <2>1, <2>2, <2>3, <2>4, <2>5, <2>7, <2>8, <2>9, <2>10
    DEF Collect, TypeInv, TypeOK, runVars, sigVars
<1>7. CASE Report
  <2>1. Stack' = Stack BY <1>7 DEF Report, Stack
  <2>2. QED
    BY <1>7, <2>1 DEF Report, TypeInv, TypeOK, runVars, tallyVars, sigVars
<1>8. CASE DeadlineFires
  <2>1. Stack' = Stack BY <1>8 DEF DeadlineFires, Stack
  <2>2. QED
    BY <1>8, <2>1 DEF DeadlineFires, TypeInv, TypeOK, runVars, tallyVars, sigVars
<1>9. CASE Signal
  <2>1. Stack' = Stack BY <1>9 DEF Signal, Stack
  <2>2. begunBefore' \in Nat
    <3>1. attempt \in Nat \ {0} BY DEF TypeInv, TypeOK
    <3>2. begunBefore' = attempt - 1 \/ begunBefore' = attempt BY <1>9 DEF Signal
    <3>3. QED BY <3>1, <3>2
  <2>3. QED
    BY <1>9, <2>1, <2>2 DEF Signal, TypeInv, TypeOK, runVars, tallyVars
<1>10. CASE UNCHANGED vars
  <2>1. Stack' = Stack BY <1>10 DEF vars, Stack
  <2>2. QED
    BY <1>10, <2>1 DEF vars, TypeInv, TypeOK, runVars, tallyVars, sigVars
<1>11. QED
  BY <1>1, <1>2, <1>3, <1>4, <1>5, <1>6, <1>7, <1>8, <1>9, <1>10
  DEF Next, RunnerStep, ProbeReturning

(* The runner's state is well typed in every reachable state, whatever the *)
(* layers return and whenever the deadline or the signal falls.            *)
THEOREM TypeCorrect == Spec => []TypeOK
<1>1. TypeInv => TypeOK BY DEF TypeInv
<1>2. QED BY <1>1, TypeInit, TypeStep, PTL DEF Spec

(***************************************************************************)
(* Nothing above a failure.  The inductive invariant says what the loop    *)
(* knows at its head: only layers below pos have been executed, and when   *)
(* the loop is free to probe the next one, all of them were, successfully. *)
(***************************************************************************)
Probing == pc = "probing" \/ (pc = "loop" /\ ~MustSkip)

WalkInv ==
  /\ \A m \in LayerNames : Executed(layers[m]) => \E i \in 1 .. pos - 1 : Stack[i] = m
  /\ Probing => \A i \in 1 .. pos - 1 :
                  Executed(layers[Stack[i]]) /\ layers[Stack[i]].status # "fail"
  /\ pc = "probing" => ~stopped
  /\ NothingAboveAFailure

LEMMA NotExecuted == ~Executed(SkipResult) /\ ~Executed(Absent)
BY DEF Executed, SkipResult, Absent

(* A walk that has executed nothing is proper.                             *)
LEMMA EmptyWalk == ProperWalk(NoLayers)
BY NotExecuted DEF ProperWalk, NoLayers

LEMMA WalkInit == Init => WalkInv
<1> SUFFICES ASSUME Init PROVE WalkInv
  OBVIOUS
<1>1. layers = NoLayers /\ attempts = <<>> /\ pc = "begin" BY Zenon DEF Init
<1>2. \A m \in LayerNames : ~Executed(layers[m]) BY <1>1, NotExecuted DEF NoLayers
<1>3. DOMAIN attempts = {} BY <1>1
<1>4. NothingAboveAFailure BY <1>1, <1>3, EmptyWalk DEF NothingAboveAFailure
<1>5. QED BY <1>1, <1>2, <1>4 DEF WalkInv, Probing

LEMMA RankType == Rank \in [LayerNames -> 1 .. 5]
BY DEF Rank, LayerNames

(* Writing the result of a layer above everything executed keeps the walk  *)
(* proper, provided an executed layer finds all below it in order.         *)
LEMMA WriteKeepsWalk ==
  ASSUME NEW ls, NEW new, NEW x \in LayerNames,
         \A m \in LayerNames \ {x} : new[m] = ls[m],
         ProperWalk(ls),
         \A m \in LayerNames : Executed(ls[m]) => Rank[m] < Rank[x],
         Executed(new[x]) =>
           /\ x \in Applicable(scheme)
           /\ \A l \in Applicable(scheme) :
                Rank[l] < Rank[x] => Executed(ls[l]) /\ ls[l].status # "fail"
  PROVE  ProperWalk(new)
<1>1. Applicable(scheme) \subseteq LayerNames BY DEF Applicable, LayerNames
<1>2. \A l \in LayerNames : Rank[l] < Rank[x] => l # x BY RankType
<1>3. ASSUME NEW m \in LayerNames, Executed(new[m]), m = x
      PROVE  /\ m \in Applicable(scheme)
             /\ \A l \in Applicable(scheme) :
                  Rank[l] < Rank[m] => Executed(new[l]) /\ new[l].status # "fail"
  BY <1>1, <1>2, <1>3
<1>4. ASSUME NEW m \in LayerNames, Executed(new[m]), m # x
      PROVE  /\ m \in Applicable(scheme)
             /\ \A l \in Applicable(scheme) :
                  Rank[l] < Rank[m] => Executed(new[l]) /\ new[l].status # "fail"
  <2>1. Executed(ls[m]) /\ Rank[m] < Rank[x] BY <1>4
  <2>2. \A l \in LayerNames : Rank[l] < Rank[m] => l # x BY <2>1, RankType
  <2>3. QED BY <1>1, <2>1, <2>2 DEF ProperWalk
<1>5. QED BY <1>3, <1>4 DEF ProperWalk

(* What the stack order says about the layer at pos: everything executed   *)
(* is below it, and everything the target needs below it has been visited. *)
LEMMA AtPos ==
  ASSUME TypeInv, WalkInv, pos \in 1 .. Len(Stack)
  PROVE  /\ Stack[pos] \in Applicable(scheme)
         /\ Stack[pos] \in LayerNames
         /\ \A m \in LayerNames : Executed(layers[m]) => Rank[m] < Rank[Stack[pos]]
         /\ \A l \in Applicable(scheme) :
              Rank[l] < Rank[Stack[pos]] => \E i \in 1 .. pos - 1 : Stack[i] = l
<1>1. /\ scheme \in AllSchemes /\ Len(Stack) \in Nat
      /\ \A i \in 1 .. Len(Stack) : Stack[i] \in LayerNames
  BY StackTyped DEF TypeInv
<1>2. /\ \A i, j \in 1 .. Len(Stack) : i < j => Rank[Stack[i]] < Rank[Stack[j]]
      /\ \A i \in 1 .. Len(Stack) : Stack[i] \in Applicable(scheme)
      /\ \A l \in Applicable(scheme) : \E i \in 1 .. Len(Stack) : Stack[i] = l
  BY <1>1, StackFacts DEF Stack
<1>3. \A i \in 1 .. Len(Stack) : i = pos \/ i < pos \/ pos < i BY <1>1
<1>4. \A i \in 1 .. pos - 1 : i \in 1 .. Len(Stack) /\ i < pos BY <1>1
<1>5. \A i \in 1 .. Len(Stack) : i < pos => i \in 1 .. pos - 1 BY <1>1
<1>6. \A m \in LayerNames : Executed(layers[m]) => Rank[m] < Rank[Stack[pos]]
  BY <1>2, <1>4 DEF WalkInv
<1>7. ASSUME NEW l \in Applicable(scheme), Rank[l] < Rank[Stack[pos]]
      PROVE  \E i \in 1 .. pos - 1 : Stack[i] = l
  <2>1. PICK i \in 1 .. Len(Stack) : Stack[i] = l BY <1>2
  <2>2. Rank[Stack[i]] \in Int /\ Rank[Stack[pos]] \in Int BY <1>1, RankType
  <2>3. i # pos /\ ~(pos < i) BY <1>2, <1>7, <2>1, <2>2
  <2>4. QED BY <1>3, <1>5, <2>1, <2>3
<1>8. QED BY <1>1, <1>2, <1>6, <1>7

(* A step that writes no result and does not set the loop free again.      *)
LEMMA WalkFrame ==
  ASSUME WalkInv, UNCHANGED <<scheme, layers, attempts, pos>>, Probing' => Probing,
         pc' = "probing" => ~stopped'
  PROVE  WalkInv'
<1>1. Stack' = Stack BY DEF Stack
<1>2. NothingAboveAFailure' BY DEF WalkInv, NothingAboveAFailure, ProperWalk
<1>3. QED BY <1>1, <1>2 DEF WalkInv

LEMMA WalkStep == TypeInv /\ WalkInv /\ [Next]_vars => WalkInv'
<1> SUFFICES ASSUME TypeInv, WalkInv, [Next]_vars PROVE WalkInv'
  OBVIOUS
<1>0. /\ DOMAIN Stack = 1 .. Len(Stack) /\ Len(Stack) \in Nat
      /\ \A i \in 1 .. Len(Stack) : Stack[i] \in LayerNames
      /\ pos \in 1 .. Len(Stack) + 1
      /\ layers \in [LayerNames -> LayerValue]
  <2>1. TypeOK BY DEF TypeInv
  <2>2. /\ DOMAIN Stack = 1 .. Len(Stack) /\ Len(Stack) \in 3 .. 5
        /\ \A i \in 1 .. Len(Stack) : Stack[i] \in LayerNames
    BY <2>1, StackTyped
  <2>3. pos \in 1 .. Len(Stack) + 1 /\ layers \in [LayerNames -> LayerValue]
    BY <2>1 DEF TypeOK
  <2>4. QED BY <2>2, <2>3
<1>1. CASE Begin
  <2>1. layers' = NoLayers /\ attempts' = attempts /\ scheme' = scheme
    BY <1>1 DEF Begin, tallyVars
  <2>2. pc' = "loop" /\ pos' = 1 BY <1>1 DEF Begin
  <2>3. \A m \in LayerNames : ~Executed(layers'[m]) BY <2>1, NotExecuted DEF NoLayers
  <2>4. ProperWalk(layers)' BY <2>1, <2>3 DEF ProperWalk
  <2>5. \A k \in DOMAIN attempts' : ProperWalk(attempts[k].layers)'
    BY <2>1 DEF WalkInv, NothingAboveAFailure, ProperWalk
  <2>6. \A i \in 1 .. pos' - 1 : FALSE BY <2>2
  <2>7. QED BY <2>2, <2>3, <2>4, <2>5, <2>6 DEF WalkInv, NothingAboveAFailure
<1>2. CASE SkipLayer
  <2> DEFINE l == Stack[pos]
  <2>1. /\ layers' = [layers EXCEPT ![l] = SkipResult]
        /\ pos' = pos + 1 /\ pc' = pc /\ pc = "loop" /\ MustSkip
        /\ attempts' = attempts /\ scheme' = scheme
    BY <1>2 DEF SkipLayer, tallyVars
  <2>2. Stack' = Stack /\ MustSkip' BY <1>2 DEF SkipLayer, Stack, MustSkip
  <2>3. pos \in 1 .. Len(Stack) BY <1>0, <1>2 DEF SkipLayer
  <2>4. l \in LayerNames /\ (\A m \in LayerNames : Executed(layers[m]) => Rank[m] < Rank[l])
    BY <2>3, AtPos
  <2> HIDE DEF l
  <2>5. ~Executed(layers'[l]) /\ \A m \in LayerNames \ {l} : layers'[m] = layers[m]
    BY <1>0, <2>1, <2>4, NotExecuted
  <2>6. ProperWalk(layers) BY DEF WalkInv, NothingAboveAFailure
  <2>7. ProperWalk(layers') BY <2>4, <2>5, <2>6, WriteKeepsWalk
  <2>8. ProperWalk(layers)' BY <2>1, <2>7 DEF ProperWalk
  <2>9. \A k \in DOMAIN attempts' : ProperWalk(attempts[k].layers)'
    BY <2>1 DEF WalkInv, NothingAboveAFailure, ProperWalk
  <2>10. \A m \in LayerNames : Executed(layers'[m]) =>
           \E i \in 1 .. pos' - 1 : Stack'[i] = m
    BY <2>1, <2>2, <2>3, <2>5 DEF WalkInv
  <2>11. ~Probing' /\ pc' # "probing" BY <2>1, <2>2 DEF Probing
  <2>12. QED BY <2>8, <2>9, <2>10, <2>11 DEF WalkInv, NothingAboveAFailure
<1>3. CASE CallProbe
  <2>1. UNCHANGED <<scheme, layers, attempts, pos, stopped>> /\ Probing /\ ~stopped
    BY <1>3 DEF CallProbe, runVars, tallyVars, Probing, MustSkip
  <2>2. QED BY <2>1, WalkFrame
<1>4. ASSUME NEW r, ProbeReturns(r) PROVE WalkInv'
  <2> DEFINE l == Stack[pos]
  <2>1. /\ layers' = [layers EXCEPT ![l] = r]
        /\ pos' = pos + 1 /\ pc' = "loop" /\ pc = "probing"
        /\ stopped' = (stopped \/ ~ShouldContinue(r.status))
        /\ attempts' = attempts /\ scheme' = scheme /\ r \in Outcomes[l]
    BY <1>4 DEF ProbeReturns, tallyVars
  <2>2. Stack' = Stack BY <2>1 DEF Stack
  <2>3. pos \in 1 .. Len(Stack) BY <2>1 DEF TypeInv
  <2>4. /\ l \in LayerNames /\ l \in Applicable(scheme)
        /\ \A m \in LayerNames : Executed(layers[m]) => Rank[m] < Rank[l]
        /\ \A m \in Applicable(scheme) :
             Rank[m] < Rank[l] => \E i \in 1 .. pos - 1 : Stack[i] = m
    BY <2>3, AtPos
  <2>5. \A i \in 1 .. pos - 1 : Executed(layers[Stack[i]]) /\ layers[Stack[i]].status # "fail"
    BY <2>1 DEF WalkInv, Probing
  <2>6. Executed(r) BY <2>1, <2>4, OutcomesTyped DEF MeetsContract, Executed
  <2>7. l = Stack[pos] OBVIOUS
  <2> HIDE DEF l
  <2>8. layers'[l] = r /\ \A m \in LayerNames \ {l} : layers'[m] = layers[m]
    BY <1>0, <2>1, <2>4
  <2>9. ProperWalk(layers) BY DEF WalkInv, NothingAboveAFailure
  <2>10. \A m \in Applicable(scheme) :
           Rank[m] < Rank[l] => Executed(layers[m]) /\ layers[m].status # "fail"
    BY <2>4, <2>5
  <2>11. ProperWalk(layers') BY <2>4, <2>8, <2>9, <2>10, WriteKeepsWalk
  <2>12. ProperWalk(layers)' BY <2>1, <2>11 DEF ProperWalk
  <2>13. \A k \in DOMAIN attempts' : ProperWalk(attempts[k].layers)'
    BY <2>1 DEF WalkInv, NothingAboveAFailure, ProperWalk
  <2>14. \A i \in 1 .. pos' - 1 : i \in 1 .. pos - 1 \/ i = pos BY <2>1, <2>3
  <2>15. \A i \in 1 .. pos - 1 : i \in 1 .. pos' - 1 BY <2>1, <2>3
  <2>16. pos \in 1 .. pos' - 1 BY <2>1, <2>3
  <2>17. \A m \in LayerNames : Executed(layers'[m]) =>
           \E i \in 1 .. pos' - 1 : Stack'[i] = m
    BY <2>2, <2>7, <2>8, <2>15, <2>16 DEF WalkInv
  <2>18. \A i \in 1 .. pos - 1 : Stack[i] \in LayerNames /\ Stack[i] # l
    <3>1. \A i \in 1 .. pos - 1 : i \in 1 .. Len(Stack) BY <1>0, <2>3
    <3>2. \A i \in 1 .. pos - 1 : Stack[i] \in LayerNames BY <1>0, <3>1
    <3>3. \A i \in 1 .. pos - 1 : Rank[Stack[i]] < Rank[l] BY <2>4, <2>5, <3>2
    <3>4. Rank[l] \in Int BY <2>4, RankType
    <3>5. QED BY <3>2, <3>3, <3>4
  <2>19. Probing' => r.status # "fail"
    BY <2>1 DEF Probing, MustSkip, ShouldContinue
  <2>20. Probing' => \A i \in 1 .. pos' - 1 :
           Executed(layers'[Stack'[i]]) /\ layers'[Stack'[i]].status # "fail"
    BY <2>2, <2>5, <2>6, <2>7, <2>8, <2>14, <2>18, <2>19
  <2>21. QED BY <2>1, <2>12, <2>13, <2>17, <2>20 DEF WalkInv, NothingAboveAFailure
<1>5. CASE Summarize
  <2>1. /\ layers' = [l \in LayerNames |->
                        IF layers[l] = Absent THEN SkipResult ELSE layers[l]]
        /\ pos' = pos /\ pc' \in {"report", "collect"}
        /\ attempts' = attempts /\ scheme' = scheme
    BY <1>5 DEF Summarize, tallyVars
  <2>2. Stack' = Stack BY <2>1 DEF Stack
  <2>3. \A m \in LayerNames : /\ Executed(layers'[m]) <=> Executed(layers[m])
                              /\ Executed(layers[m]) => layers'[m] = layers[m]
    BY <2>1, NotExecuted
  <2>4. Applicable(scheme) \subseteq LayerNames BY DEF Applicable, LayerNames
  <2>5. ProperWalk(layers)'
    BY <2>1, <2>3, <2>4 DEF WalkInv, NothingAboveAFailure, ProperWalk
  <2>6. \A k \in DOMAIN attempts' : ProperWalk(attempts[k].layers)'
    BY <2>1 DEF WalkInv, NothingAboveAFailure, ProperWalk
  <2>7. ~Probing' /\ pc' # "probing" BY <2>1 DEF Probing
  <2>8. QED BY <2>1, <2>2, <2>3, <2>5, <2>6, <2>7 DEF WalkInv, NothingAboveAFailure
<1>6. CASE Collect
  <2> DEFINE a == [layers |-> layers, exit |-> exitCode, firstNonOK |-> firstNonOK]
  <2>1. /\ layers' = layers /\ pos' = pos /\ pc' \in {"begin", "report"}
        /\ attempts' = Append(attempts, a) /\ scheme' = scheme
    BY <1>6 DEF Collect, runVars
  <2>2. Stack' = Stack BY <2>1 DEF Stack
  <2>3. Len(attempts) \in Nat /\ DOMAIN attempts = 1 .. Len(attempts)
    BY LenProperties DEF TypeInv, TypeOK
  <2>4. /\ DOMAIN attempts' = 1 .. Len(attempts) + 1
        /\ attempts'[Len(attempts) + 1] = a
        /\ \A k \in 1 .. Len(attempts) : attempts'[k] = attempts[k]
    <3> DEFINE S == [layers : [LayerNames -> Result], exit : ExitCodes,
                     firstNonOK : LayerNames \cup {""}]
    <3>1. attempts \in Seq(S) BY DEF TypeInv, TypeOK
    <3>2. layers \in [LayerNames -> Result] BY <1>6 DEF Collect, TypeInv
    <3>3. exitCode \in ExitCodes /\ firstNonOK \in LayerNames \cup {""}
      BY DEF TypeInv, TypeOK
    <3>4. a \in S BY <3>2, <3>3
    <3> HIDE DEF S, a
    <3>5. QED BY <2>1, <3>1, <3>4, AppendProperties, LenProperties
  <2>5. a.layers = layers OBVIOUS
  <2> HIDE DEF a
  <2>6. \A k \in DOMAIN attempts' :
          attempts'[k].layers = layers \/ (k \in DOMAIN attempts /\ attempts'[k] = attempts[k])
    BY <2>3, <2>4, <2>5
  <2>7. \A k \in DOMAIN attempts' : ProperWalk(attempts'[k].layers)
    BY <2>6 DEF WalkInv, NothingAboveAFailure
  <2>8. ProperWalk(layers)' /\ \A k \in DOMAIN attempts' : ProperWalk(attempts[k].layers)'
    BY <2>1, <2>7 DEF WalkInv, NothingAboveAFailure, ProperWalk
  <2>9. ~Probing' /\ pc' # "probing" BY <2>1 DEF Probing
  <2>10. QED BY <2>1, <2>2, <2>8, <2>9 DEF WalkInv, NothingAboveAFailure
<1>7. CASE Report
  <2>1. UNCHANGED <<scheme, layers, attempts, pos, stopped>> /\ ~Probing' /\ pc' # "probing"
    BY <1>7 DEF Report, runVars, tallyVars, Probing
  <2>2. QED BY <2>1, WalkFrame
<1>8. CASE DeadlineFires
  <2>1. UNCHANGED <<scheme, layers, attempts, pos, stopped, pc>> /\ ctxErr' # "nil"
    BY <1>8 DEF DeadlineFires, runVars, tallyVars
  <2>2. (Probing' => Probing) /\ (pc' = "probing" => ~stopped')
    BY <2>1 DEF Probing, MustSkip, WalkInv
  <2>3. QED BY <2>1, <2>2, WalkFrame
<1>9. CASE Signal
  <2>1. /\ UNCHANGED <<scheme, layers, attempts, pos, stopped, pc>>
        /\ pc = "loop" => ctxErr' # "nil"
    BY <1>9 DEF Signal, runVars, tallyVars
  <2>2. (Probing' => Probing) /\ (pc' = "probing" => ~stopped')
    BY <2>1 DEF Probing, MustSkip, WalkInv
  <2>3. QED BY <2>1, <2>2, WalkFrame
<1>10. CASE UNCHANGED vars
  <2>1. UNCHANGED <<scheme, layers, attempts, pos, stopped, pc, ctxErr>>
    BY <1>10 DEF vars, runVars, tallyVars
  <2>2. (Probing' => Probing) /\ (pc' = "probing" => ~stopped')
    BY <2>1 DEF Probing, MustSkip, WalkInv
  <2>3. QED BY <2>1, <2>2, WalkFrame
<1>11. QED
  BY <1>1, <1>2, <1>3, <1>4, <1>5, <1>6, <1>7, <1>8, <1>9, <1>10
  DEF Next, RunnerStep, ProbeReturning

(* In no run is anything probed above a layer that failed or was skipped   *)
(* for want of time, nor any layer the target does not need.               *)
THEOREM NoProbeAboveFailure == Spec => []NothingAboveAFailure
<1>1. Init => TypeInv /\ WalkInv BY TypeInit, WalkInit
<1>2. TypeInv /\ WalkInv /\ [Next]_vars => (TypeInv /\ WalkInv)' BY TypeStep, WalkStep
<1>3. WalkInv => NothingAboveAFailure BY DEF WalkInv
<1>4. QED BY <1>1, <1>2, <1>3, PTL DEF Spec

(***************************************************************************)
(* The exit code.  While the loop runs, firstNonOK names the lowest layer  *)
(* that warned or failed, and every result is the runner's own skip or one *)
(* the layer's contract allows; of a proper walk with these properties,    *)
(* FromResult returns the code of the only layer that failed.              *)
(***************************************************************************)
Quiet == {"ok", "skip", "absent"}

FirstIsLowest(ls, first) ==
  /\ first \in LayerNames \cup {""}
  /\ first = "" => \A l \in LayerNames : ls[l].status \in Quiet
  /\ first # "" => /\ ls[first].status \in {"warn", "fail"}
                   /\ \A l \in LayerNames : Rank[l] < Rank[first] => ls[l].status \in Quiet

Sound(l, r) == r \in {Absent, SkipResult} \/ MeetsContract(l, r)

ExitInv ==
  /\ pc \in {"loop", "probing"} =>
       FirstIsLowest(layers, firstNonOK) /\ \A l \in LayerNames : Sound(l, layers[l])
  /\ ExitCodeNamesTheFailure

(* What the contract says about a layer that did not succeed.              *)
LEMMA SoundFacts ==
  ASSUME NEW l \in LayerNames, NEW r, Sound(l, r)
  PROVE  /\ r.status \in {"ok", "warn", "fail"} => Executed(r)
         /\ r.status = "fail" => r.code \notin ToolErrorCodes
         /\ r.status \in Statuses \cup {"absent"}
         /\ r.status = "absent" => r = Absent
<1>1. CASE r \in {Absent, SkipResult} BY <1>1 DEF Absent, SkipResult, Statuses
<1>2. CASE MeetsContract(l, r)
  <2>1. Executed(r) /\ r.status \in Statuses BY <1>2 DEF MeetsContract, Executed, Result
  <2>2. <<r.status, r.code>> \in Conclusions[l] BY <1>2 DEF MeetsContract
  <2>3. r.status = "fail" => r.code \notin ToolErrorCodes
    <3>1. SUFFICES ASSUME r.status = "fail" PROVE r.code \notin ToolErrorCodes
      OBVIOUS
    <3>2. CASE l = "dns"
      BY <2>2, <3>1, <3>2
      DEF Conclusions, DNSConclusions, OK, With, DNSCodes, ToolErrorCodes
    <3>3. CASE l = "reachability"
      BY <2>2, <3>1, <3>3
      DEF Conclusions, ReachabilityConclusions, OK, With, ReachabilityCodes, ToolErrorCodes
    <3>4. CASE l = "tcp"
      BY <2>2, <3>1, <3>4
      DEF Conclusions, TCPConclusions, OK, With, TCPCodes, ToolErrorCodes
    <3>5. CASE l = "tls"
      BY <2>2, <3>1, <3>5
      DEF Conclusions, TLSConclusions, OK, With, TLSCodes, TLSWarnings, ToolErrorCodes
    <3>6. CASE l = "http"
      BY <2>2, <3>1, <3>6
      DEF Conclusions, HTTPConclusions, OK, With, HTTPCodes, HTTPTransportCodes,
          HTTPStatusCodes, ToolErrorCodes
    <3>7. QED BY <3>2, <3>3, <3>4, <3>5, <3>6 DEF LayerNames
  <2>4. QED BY <2>1, <2>3 DEF Statuses
<1>3. QED BY <1>1, <1>2 DEF Sound

(* A proper walk fails in one layer at most.                               *)
LEMMA OneFailure ==
  ASSUME NEW ls, ProperWalk(ls), \A l \in LayerNames : Sound(l, ls[l]),
         NEW l \in LayerNames, NEW m \in LayerNames,
         ls[l].status = "fail", ls[m].status = "fail"
  PROVE  l = m
<1>1. Executed(ls[l]) /\ Executed(ls[m]) BY SoundFacts
<1>2. l \in Applicable(scheme) /\ m \in Applicable(scheme) BY <1>1 DEF ProperWalk
<1>3. ~(Rank[l] < Rank[m]) /\ ~(Rank[m] < Rank[l]) BY <1>1, <1>2 DEF ProperWalk
<1>4. Rank[l] = Rank[m] BY <1>3, RankType
<1>5. QED BY <1>4 DEF Rank, LayerNames

(* The exit code of a finished walk agrees with its first non-ok layer.    *)
LEMMA WalkAgrees ==
  ASSUME NEW ls, NEW first, ProperWalk(ls), FirstIsLowest(ls, first),
         \A l \in LayerNames : Sound(l, ls[l]) /\ ls[l].status # "absent"
  PROVE  Agree(ls, FromResult(ls), first)
<1> DEFINE failing == WithStatus(ls, "fail")
           warning == WithStatus(ls, "warn")
           exit == FromResult(ls)
<1>1. /\ \A l \in LayerNames : l \in failing <=> ls[l].status = "fail"
      /\ \A l \in LayerNames : l \in warning <=> ls[l].status = "warn"
      /\ failing \in SUBSET LayerNames /\ warning \in SUBSET LayerNames
  BY DEF WithStatus
<1>2. \A l \in LayerNames : /\ ls[l].status \in {"ok", "skip", "warn", "fail"}
                            /\ ls[l].status = "fail" => ls[l].code \notin ToolErrorCodes
  BY SoundFacts DEF Statuses
<1>3. first = "" <=> failing = {} /\ warning = {}
  BY <1>1, <1>2 DEF FirstIsLowest, Quiet
<1>4. ASSUME failing # {}
      PROVE  /\ First(failing) \in failing
             /\ exit = LayerCodes[First(failing)]
             /\ \A l \in LayerNames : ls[l].status = "fail" <=> l = First(failing)
  <2>1. First(failing) \in failing BY <1>1, <1>4, FirstFacts
  <2>2. First(failing) \in LayerNames /\ ls[First(failing)].status = "fail" BY <1>1, <2>1
  <2>3. ls[First(failing)].code \notin ToolErrorCodes BY <1>2, <2>2
  <2>4. exit = LayerCodes[First(failing)] BY <1>4, <2>3 DEF FromResult
  <2>5. \A l \in LayerNames : ls[l].status = "fail" <=> l = First(failing)
    BY <2>2, OneFailure
  <2>6. QED BY <2>1, <2>4, <2>5
<1>5. failing = {} => exit = IF warning # {} THEN 2 ELSE 0
  BY DEF FromResult
<1>6. /\ \A l \in LayerNames : LayerCodes[l] \notin {0, 1, 2}
      /\ \A l, m \in LayerNames : LayerCodes[l] = LayerCodes[m] => l = m
  BY DEF LayerCodes, LayerNames
<1> HIDE DEF failing, warning, exit
<1>7. exit = 0 <=> first = ""
  <2>1. CASE failing # {}
    <3>1. First(failing) \in LayerNames /\ exit = LayerCodes[First(failing)]
      BY <1>1, <1>4, <2>1
    <3>2. exit # 0 BY <1>6, <3>1
    <3>3. QED BY <1>3, <2>1, <3>2
  <2>2. CASE failing = {} /\ warning # {}
    <3>1. exit = 2 BY <1>5, <2>2
    <3>2. exit # 0 BY <3>1
    <3>3. first # "" BY <1>3, <2>2
    <3>4. QED BY <3>2, <3>3
  <2>3. CASE failing = {} /\ warning = {}
    <3>1. exit = 0 BY <1>5, <2>3
    <3>2. QED BY <1>3, <2>3, <3>1
  <2>4. QED BY <2>1, <2>2, <2>3
<1>8. exit # 1 BY <1>1, <1>4, <1>5, <1>6
<1>9. exit = 2 <=> warning # {} /\ failing = {} BY <1>1, <1>4, <1>5, <1>6
<1>10. \A l \in LayerNames : exit = LayerCodes[l] <=> ls[l].status = "fail"
  <2>1. CASE failing # {} BY <1>1, <1>4, <1>6, <2>1
  <2>2. CASE failing = {} BY <1>1, <1>5, <1>6, <2>2
  <2>3. QED BY <2>1, <2>2
<1>11. first # "" => /\ ls[first].status \in {"warn", "fail"}
                     /\ \A l \in LayerNames :
                          Rank[l] < Rank[first] => ls[l].status \in {"ok", "skip"}
  BY <1>2 DEF FirstIsLowest, Quiet
<1>12. exit = 2 <=> WithStatus(ls, "warn") # {} /\ WithStatus(ls, "fail") = {}
  BY <1>9 DEF failing, warning
<1>13. Agree(ls, exit, first) BY <1>7, <1>8, <1>10, <1>11, <1>12, Zenon DEF Agree
<1>14. QED BY <1>13 DEF exit

LEMMA ExitInit == Init => ExitInv
<1> SUFFICES ASSUME Init PROVE ExitInv
  OBVIOUS
<1>1. attempts = <<>> /\ pc = "begin" BY Zenon DEF Init
<1>2. DOMAIN attempts = {} BY <1>1
<1>3. ~Summarized BY <1>1 DEF Summarized
<1>4. QED BY <1>1, <1>2, <1>3 DEF ExitInv, ExitCodeNamesTheFailure

(* A step that leaves the results, the exit code and the attempts alone.   *)
LEMMA ExitFrame ==
  ASSUME ExitInv, UNCHANGED <<layers, firstNonOK, exitCode, attempts>>,
         pc' \in {"loop", "probing"} => pc \in {"loop", "probing"},
         Summarized' => Summarized
  PROVE  ExitInv'
<1>1. ExitCodeNamesTheFailure'
  <2>1. Summarized' => Agree(layers', exitCode', firstNonOK')
    BY DEF ExitInv, ExitCodeNamesTheFailure
  <2>2. \A k \in DOMAIN attempts' :
          Agree(attempts'[k].layers, attempts'[k].exit, attempts'[k].firstNonOK)
    BY DEF ExitInv, ExitCodeNamesTheFailure
  <2>3. QED BY <2>1, <2>2 DEF ExitCodeNamesTheFailure
<1>2. pc' \in {"loop", "probing"} =>
        FirstIsLowest(layers', firstNonOK') /\ \A l \in LayerNames : Sound(l, layers'[l])
  BY DEF ExitInv
<1>3. QED BY <1>1, <1>2 DEF ExitInv

(* The attempts recorded so far keep agreeing while no attempt is added.   *)
LEMMA AttemptsFrame ==
  ASSUME ExitInv, UNCHANGED attempts, pc' \in {"loop", "probing"}
  PROVE  ExitCodeNamesTheFailure'
<1>1. ~Summarized' BY DEF Summarized
<1>2. \A k \in DOMAIN attempts' :
        Agree(attempts'[k].layers, attempts'[k].exit, attempts'[k].firstNonOK)
  BY DEF ExitInv, ExitCodeNamesTheFailure
<1>3. QED BY <1>1, <1>2 DEF ExitCodeNamesTheFailure

LEMMA ExitStep == TypeInv /\ WalkInv /\ ExitInv /\ [Next]_vars => ExitInv'
<1> SUFFICES ASSUME TypeInv, WalkInv, ExitInv, [Next]_vars PROVE ExitInv'
  OBVIOUS
<1>0. /\ pos \in 1 .. Len(Stack) + 1 /\ layers \in [LayerNames -> LayerValue]
      /\ DOMAIN Stack = 1 .. Len(Stack)
      /\ firstNonOK \in LayerNames \cup {""}
  <2>1. TypeOK BY DEF TypeInv
  <2>2. DOMAIN Stack = 1 .. Len(Stack) BY <2>1, StackTyped
  <2>3. QED BY <2>1, <2>2 DEF TypeOK
<1>1. CASE Begin
  <2>1. /\ layers' = NoLayers /\ firstNonOK' = "" /\ pc' = "loop" /\ attempts' = attempts
    BY <1>1 DEF Begin, tallyVars
  <2>2. \A l \in LayerNames : layers'[l] = Absent BY <2>1 DEF NoLayers
  <2>3. FirstIsLowest(layers', firstNonOK')
    <3>1. Absent.status \in Quiet BY DEF Absent, Quiet
    <3>2. firstNonOK' = "" BY <2>1
    <3>3. QED BY <2>2, <3>1, <3>2 DEF FirstIsLowest
  <2>4. \A l \in LayerNames : Sound(l, layers'[l]) BY <2>2 DEF Sound
  <2>5. QED BY <2>1, <2>3, <2>4, AttemptsFrame DEF ExitInv
<1>2. CASE SkipLayer
  <2> DEFINE x == Stack[pos]
  <2>1. /\ layers' = [layers EXCEPT ![x] = SkipResult] /\ firstNonOK' = firstNonOK
        /\ pc = "loop" /\ pc' = "loop" /\ attempts' = attempts
    BY <1>2 DEF SkipLayer, tallyVars
  <2>2. pos \in 1 .. Len(Stack) BY <1>0, <1>2 DEF SkipLayer
  <2>3. /\ x \in LayerNames
        /\ \A m \in LayerNames : Executed(layers[m]) => Rank[m] < Rank[x]
    BY <2>2, AtPos
  <2> HIDE DEF x
  <2>4. layers'[x] = SkipResult /\ \A l \in LayerNames \ {x} : layers'[l] = layers[l]
    BY <1>0, <2>1, <2>3
  <2>5. FirstIsLowest(layers, firstNonOK) /\ \A l \in LayerNames : Sound(l, layers[l])
    BY <2>1 DEF ExitInv
  <2>6. firstNonOK # "" => firstNonOK # x
    <3>1. SUFFICES ASSUME firstNonOK # "" PROVE firstNonOK # x
      OBVIOUS
    <3>2. firstNonOK \in LayerNames /\ layers[firstNonOK].status \in {"warn", "fail"}
      BY <1>0, <2>5, <3>1 DEF FirstIsLowest
    <3>3. Rank[firstNonOK] < Rank[x] BY <2>3, <2>5, <3>2, SoundFacts
    <3>4. QED BY <2>3, <3>3, RankType
  <2>7. SkipResult.status = "skip" BY DEF SkipResult
  <2>8. FirstIsLowest(layers', firstNonOK')
    BY <1>0, <2>1, <2>4, <2>5, <2>6, <2>7 DEF FirstIsLowest, Quiet
  <2>9. \A l \in LayerNames : Sound(l, layers'[l]) BY <2>4, <2>5 DEF Sound
  <2>10. QED BY <2>1, <2>8, <2>9, AttemptsFrame DEF ExitInv
<1>3. CASE CallProbe
  <2>1. /\ UNCHANGED <<layers, firstNonOK, exitCode, attempts>>
        /\ pc = "loop" /\ pc' = "probing"
    BY <1>3 DEF CallProbe, runVars, tallyVars
  <2>2. ~Summarized' BY <2>1 DEF Summarized
  <2>3. QED BY <2>1, <2>2, ExitFrame
<1>4. ASSUME NEW r, ProbeReturns(r) PROVE ExitInv'
  <2> DEFINE x == Stack[pos]
  <2>1. /\ layers' = [layers EXCEPT ![x] = r] /\ r \in Outcomes[x]
        /\ firstNonOK' = IF firstNonOK = "" /\ r.status \notin {"ok", "skip"}
                          THEN x ELSE firstNonOK
        /\ pc = "probing" /\ pc' = "loop" /\ attempts' = attempts
    BY <1>4 DEF ProbeReturns, tallyVars
  <2>2. pos \in 1 .. Len(Stack) BY <2>1 DEF TypeInv
  <2>3. /\ x \in LayerNames
        /\ \A m \in LayerNames : Executed(layers[m]) => Rank[m] < Rank[x]
    BY <2>2, AtPos
  <2> HIDE DEF x
  <2>4. layers'[x] = r /\ \A l \in LayerNames \ {x} : layers'[l] = layers[l]
    BY <1>0, <2>1, <2>3
  <2>5. FirstIsLowest(layers, firstNonOK) /\ \A l \in LayerNames : Sound(l, layers[l])
    BY <2>1 DEF ExitInv
  <2>6. MeetsContract(x, r) BY <2>1, <2>3, OutcomesTyped
  <2>7. r.status \in {"ok", "warn", "fail", "skip"} BY <2>6 DEF MeetsContract, Result, Statuses
  <2>8. \A l \in LayerNames : Rank[l] < Rank[x] => l # x BY <2>3, RankType
  <2>9. firstNonOK # "" => firstNonOK \in LayerNames /\ Rank[firstNonOK] < Rank[x]
    <3>1. SUFFICES ASSUME firstNonOK # ""
                   PROVE  firstNonOK \in LayerNames /\ Rank[firstNonOK] < Rank[x]
      OBVIOUS
    <3>2. firstNonOK \in LayerNames /\ layers[firstNonOK].status \in {"warn", "fail"}
      BY <1>0, <2>5, <3>1 DEF FirstIsLowest
    <3>3. QED BY <2>3, <2>5, <3>2, SoundFacts
  <2>10. FirstIsLowest(layers', firstNonOK')
    <3>1. CASE firstNonOK # ""
      <4>1. firstNonOK' = firstNonOK /\ firstNonOK # x BY <2>1, <2>8, <2>9, <3>1
      <4>2. \A l \in LayerNames : Rank[l] < Rank[firstNonOK] => l # x
        <5>1. \A l \in LayerNames : Rank[l] \in Int BY RankType
        <5>2. firstNonOK \in LayerNames /\ Rank[firstNonOK] < Rank[x] BY <2>9, <3>1
        <5>3. Rank[x] \in Int BY <2>3, <5>1
        <5>4. Rank[firstNonOK] \in Int BY <5>1, <5>2
        <5>5. ~(Rank[x] < Rank[firstNonOK]) BY <5>2, <5>3, <5>4
        <5>6. QED BY <5>5
      <4>3. QED BY <2>4, <2>5, <2>9, <3>1, <4>1, <4>2 DEF FirstIsLowest
    <3>2. CASE firstNonOK = "" /\ r.status \in {"ok", "skip"}
      <4>1. firstNonOK' = "" BY <2>1, <3>2
      <4>2. QED BY <2>4, <2>5, <3>2, <4>1 DEF FirstIsLowest, Quiet
    <3>3. CASE firstNonOK = "" /\ r.status \in {"warn", "fail"}
      <4>1. firstNonOK' = x BY <2>1, <3>3
      <4>2. x # "" BY <2>3 DEF LayerNames
      <4>3. QED BY <2>3, <2>4, <2>5, <2>8, <3>3, <4>1, <4>2 DEF FirstIsLowest
    <3>4. QED BY <2>7, <3>1, <3>2, <3>3
  <2>11. \A l \in LayerNames : Sound(l, layers'[l]) BY <2>4, <2>5, <2>6 DEF Sound
  <2>12. QED BY <2>1, <2>10, <2>11, AttemptsFrame DEF ExitInv
<1>5. CASE Summarize
  <2>1. /\ layers' = [l \in LayerNames |->
                        IF layers[l] = Absent THEN SkipResult ELSE layers[l]]
        /\ exitCode' = FromResult(layers') /\ firstNonOK' = firstNonOK
        /\ pc = "loop" /\ pc' \in {"report", "collect"}
        /\ attempts' = attempts /\ scheme' = scheme
    BY <1>5 DEF Summarize, tallyVars
  <2>2. FirstIsLowest(layers, firstNonOK) /\ \A l \in LayerNames : Sound(l, layers[l])
    BY <2>1 DEF ExitInv
  <2>3. WalkInv' BY WalkStep
  <2>4. ProperWalk(layers') BY <2>1, <2>3 DEF WalkInv, NothingAboveAFailure, ProperWalk
  <2>5. /\ SkipResult.status = "skip" /\ Absent.status = "absent"
        /\ \A l \in LayerNames : layers[l].status = "absent" => layers[l] = Absent
    BY <2>2, SoundFacts DEF SkipResult, Absent
  <2>6. \A l \in LayerNames :
          \/ layers[l] = Absent /\ layers'[l] = SkipResult
          \/ layers[l] # Absent /\ layers'[l] = layers[l]
    BY <2>1
  <2>7. \A l \in LayerNames : layers'[l].status # "absent" BY <2>5, <2>6
  <2>8. \A l \in LayerNames : Sound(l, layers'[l]) BY <2>2, <2>6 DEF Sound
  <2>9. FirstIsLowest(layers', firstNonOK')
    BY <1>0, <2>1, <2>2, <2>5, <2>6 DEF FirstIsLowest, Quiet
  <2>10. Agree(layers', FromResult(layers'), firstNonOK')
    BY <2>4, <2>7, <2>8, <2>9, WalkAgrees
  <2>11. \A k \in DOMAIN attempts' :
           Agree(attempts'[k].layers, attempts'[k].exit, attempts'[k].firstNonOK)
    BY <2>1 DEF ExitInv, ExitCodeNamesTheFailure
  <2>12. ExitCodeNamesTheFailure' BY <2>1, <2>10, <2>11 DEF ExitCodeNamesTheFailure
  <2>13. QED BY <2>1, <2>12 DEF ExitInv
<1>6. CASE Collect
  <2> DEFINE a == [layers |-> layers, exit |-> exitCode, firstNonOK |-> firstNonOK]
             S == [layers : [LayerNames -> Result], exit : ExitCodes,
                   firstNonOK : LayerNames \cup {""}]
  <2>1. /\ UNCHANGED <<layers, exitCode, firstNonOK>> /\ attempts' = Append(attempts, a)
        /\ pc = "collect" /\ pc' \in {"begin", "report"}
    BY <1>6 DEF Collect, runVars
  <2>2. Agree(layers, exitCode, firstNonOK)
    BY <2>1 DEF ExitInv, ExitCodeNamesTheFailure, Summarized
  <2>3. attempts \in Seq(S) /\ a \in S
    <3>1. attempts \in Seq(S) BY DEF TypeInv, TypeOK
    <3>2. layers \in [LayerNames -> Result] BY <2>1 DEF TypeInv
    <3>3. exitCode \in ExitCodes /\ firstNonOK \in LayerNames \cup {""}
      BY DEF TypeInv, TypeOK
    <3>4. a \in S BY <3>2, <3>3
    <3>5. QED BY <3>1, <3>4
  <2>4. a.layers = layers /\ a.exit = exitCode /\ a.firstNonOK = firstNonOK OBVIOUS
  <2> HIDE DEF a, S
  <2>5. /\ DOMAIN attempts' = 1 .. Len(attempts) + 1 /\ Len(attempts) \in Nat
        /\ attempts'[Len(attempts) + 1] = a
        /\ \A k \in 1 .. Len(attempts) : attempts'[k] = attempts[k]
        /\ DOMAIN attempts = 1 .. Len(attempts)
    BY <2>1, <2>3, AppendProperties, LenProperties
  <2>6. \A k \in DOMAIN attempts' :
          attempts'[k] = a \/ (k \in DOMAIN attempts /\ attempts'[k] = attempts[k])
    BY <2>5
  <2>7. \A k \in DOMAIN attempts' :
          Agree(attempts'[k].layers, attempts'[k].exit, attempts'[k].firstNonOK)
    BY <2>2, <2>4, <2>6 DEF ExitInv, ExitCodeNamesTheFailure
  <2>8. ExitCodeNamesTheFailure' BY <2>1, <2>2, <2>7 DEF ExitCodeNamesTheFailure
  <2>9. QED BY <2>1, <2>8 DEF ExitInv
<1>7. CASE Report
  <2>1. /\ UNCHANGED <<layers, firstNonOK, exitCode, attempts>>
        /\ pc = "report" /\ pc' = "done"
    BY <1>7 DEF Report, runVars, tallyVars
  <2>2. Summarized BY <2>1 DEF Summarized
  <2>3. QED BY <2>1, <2>2, ExitFrame
<1>8. CASE DeadlineFires
  <2>1. UNCHANGED <<layers, firstNonOK, exitCode, attempts, pc>>
    BY <1>8 DEF DeadlineFires, runVars, tallyVars
  <2>2. Summarized' => Summarized BY <2>1 DEF Summarized
  <2>3. QED BY <2>1, <2>2, ExitFrame
<1>9. CASE Signal
  <2>1. UNCHANGED <<layers, firstNonOK, exitCode, attempts, pc>>
    BY <1>9 DEF Signal, runVars, tallyVars
  <2>2. Summarized' => Summarized BY <2>1 DEF Summarized
  <2>3. QED BY <2>1, <2>2, ExitFrame
<1>10. CASE UNCHANGED vars
  <2>1. UNCHANGED <<layers, firstNonOK, exitCode, attempts, pc>>
    BY <1>10 DEF vars, runVars, tallyVars
  <2>2. Summarized' => Summarized BY <2>1 DEF Summarized
  <2>3. QED BY <2>1, <2>2, ExitFrame
<1>11. QED
  BY <1>1, <1>2, <1>3, <1>4, <1>5, <1>6, <1>7, <1>8, <1>9, <1>10
  DEF Next, RunnerStep, ProbeReturning

(* In every run the exit code and first_non_ok_layer, which are computed   *)
(* independently, describe the same outcome: zero exactly when no layer    *)
(* warned or failed, and the code of a layer exactly when that one failed. *)
THEOREM ExitCodeCorrect == Spec => []ExitCodeNamesTheFailure
<1>1. Init => TypeInv /\ WalkInv /\ ExitInv BY TypeInit, WalkInit, ExitInit
<1>2. TypeInv /\ WalkInv /\ ExitInv /\ [Next]_vars => (TypeInv /\ WalkInv /\ ExitInv)'
  BY TypeStep, WalkStep, ExitStep
<1>3. ExitInv => ExitCodeNamesTheFailure BY DEF ExitInv
<1>4. QED BY <1>1, <1>2, <1>3, PTL DEF Spec

------------------------------------------------------------------------------
(***************************************************************************)
(* A series of attempts.                                                   *)
(***************************************************************************)

(* What Collect appends to the attempts.                                   *)
Recorded == [layers |-> layers, exit |-> exitCode, firstNonOK |-> firstNonOK]

LEMMA CollectAppends ==
  ASSUME TypeInv, Collect
  PROVE  /\ Len(attempts) \in Nat /\ DOMAIN attempts = 1 .. Len(attempts)
         /\ Len(attempts') = Len(attempts) + 1
         /\ DOMAIN attempts' = 1 .. Len(attempts) + 1
         /\ attempts'[Len(attempts) + 1].layers = layers
         /\ \A k \in 1 .. Len(attempts) : attempts'[k] = attempts[k]
         /\ layers \in [LayerNames -> Result]
<1> DEFINE S == [layers : [LayerNames -> Result], exit : ExitCodes,
                 firstNonOK : LayerNames \cup {""}]
<1>1. attempts \in Seq(S) BY DEF TypeInv, TypeOK
<1>2. layers \in [LayerNames -> Result] BY DEF Collect, TypeInv
<1>3. exitCode \in ExitCodes /\ firstNonOK \in LayerNames \cup {""} BY DEF TypeInv, TypeOK
<1>4. Recorded \in S /\ Recorded.layers = layers BY <1>2, <1>3 DEF Recorded
<1>5. attempts' = Append(attempts, Recorded) BY DEF Collect, Recorded
<1> HIDE DEF S
<1>6. QED BY <1>1, <1>2, <1>4, <1>5, AppendProperties, LenProperties

(***************************************************************************)
(* The tallies.  TalliesMatchAttempts is inductive as it stands.           *)
(***************************************************************************)

(* Recording an attempt adds it to the attempts with its own status only.  *)
LEMMA CollectCounts ==
  ASSUME TypeInv, Collect, NEW l \in LayerNames, NEW S
  PROVE  /\ Cardinality(AttemptsWith(l, S)) \in Nat
         /\ Cardinality(AttemptsWith(l, S)') =
              Cardinality(AttemptsWith(l, S)) + (IF layers[l].status \in S THEN 1 ELSE 0)
<1> DEFINE n == Len(attempts)
           A == AttemptsWith(l, S)
           B == {k \in DOMAIN attempts' : attempts'[k].layers[l].status \in S}
<1>1. /\ n \in Nat /\ DOMAIN attempts = 1 .. n /\ DOMAIN attempts' = 1 .. n + 1
      /\ attempts'[n + 1].layers = layers
      /\ \A k \in 1 .. n : attempts'[k] = attempts[k]
  BY CollectAppends
<1> HIDE DEF n
<1>2. A \subseteq 1 .. n BY <1>1 DEF AttemptsWith
<1>3. IsFiniteSet(A)
  <2>1. IsFiniteSet(1 .. n) BY <1>1, FS_Interval
  <2>2. QED BY <1>2, <2>1, FS_Subset
<1>4. n + 1 \notin A BY <1>1, <1>2
<1>5. B = IF layers[l].status \in S THEN A \cup {n + 1} ELSE A
  <2>1. \A k \in 1 .. n + 1 : k \in 1 .. n \/ k = n + 1 BY <1>1
  <2>2. \A k \in 1 .. n : k \in 1 .. n + 1 /\ k # n + 1 BY <1>1
  <2>3. n + 1 \in 1 .. n + 1 BY <1>1
  <2>4. \A k \in 1 .. n : k \in A <=> k \in B BY <1>1, <2>2 DEF AttemptsWith
  <2>5. n + 1 \in B <=> layers[l].status \in S BY <1>1, <2>3
  <2>6. B \subseteq 1 .. n + 1 BY <1>1
  <2>7. QED BY <1>2, <1>4, <2>1, <2>4, <2>5, <2>6
<1>6. Cardinality(A) \in Nat BY <1>3, FS_CardinalityType
<1>7. Cardinality(A \cup {n + 1}) = Cardinality(A) + 1 BY <1>3, <1>4, FS_AddElement
<1>8. AttemptsWith(l, S)' = B BY DEF AttemptsWith
<1> HIDE DEF A, B
<1>9. Cardinality(B) = Cardinality(A) + (IF layers[l].status \in S THEN 1 ELSE 0)
  BY <1>5, <1>6, <1>7
<1>10. QED BY <1>6, <1>8, <1>9 DEF A

LEMMA TallyInit == Init => TalliesMatchAttempts
<1> SUFFICES ASSUME Init PROVE TalliesMatchAttempts
  OBVIOUS
<1>1. attempts = <<>> /\ exitCodes = <<>> BY Zenon DEF Init
<1>2. \A l \in LayerNames : counts[l] = ZeroTally /\ durations[l] = <<>> BY DEF Init
<1>3. \A l, S : AttemptsWith(l, S) = {} BY <1>1 DEF AttemptsWith
<1>4. Cardinality({}) = 0 BY FS_EmptySet
<1>5. Len(<<>>) = 0 OBVIOUS
<1>6. \A l \in LayerNames : /\ counts[l].success = 0 /\ counts[l].fail = 0
                            /\ counts[l].skip = 0
  BY <1>2 DEF ZeroTally
<1>7. \A l, S : Cardinality(AttemptsWith(l, S)) = 0 BY <1>3, <1>4
<1>8. Len(exitCodes) = Len(attempts) BY <1>1
<1>9. \A l \in LayerNames : Len(durations[l]) = 0 BY <1>2, <1>5
<1>10. QED BY <1>6, <1>7, <1>8, <1>9 DEF TalliesMatchAttempts

LEMMA TallyStep == TypeInv /\ TalliesMatchAttempts /\ [Next]_vars => TalliesMatchAttempts'
<1> SUFFICES ASSUME TypeInv, TalliesMatchAttempts, [Next]_vars
             PROVE  TalliesMatchAttempts'
  OBVIOUS
<1>1. CASE Collect
  <2>1. /\ counts' = [l \in LayerNames |-> Tally(counts[l], layers[l].status)]
        /\ durations' = [l \in LayerNames |->
                           IF layers[l].status \in {"ok", "warn"}
                           THEN Append(durations[l], layers[l].dur) ELSE durations[l]]
        /\ exitCodes' = Append(exitCodes, exitCode)
    BY <1>1 DEF Collect
  <2>2. /\ exitCodes \in Seq(ExitCodes) /\ exitCode \in ExitCodes
        /\ counts \in [LayerNames -> [success : Nat, fail : Nat, skip : Nat]]
        /\ durations \in [LayerNames -> Seq(Nat)]
    BY DEF TypeInv, TypeOK
  <2>3. Len(attempts') = Len(attempts) + 1 /\ layers \in [LayerNames -> Result]
    BY <1>1, CollectAppends
  <2>4. Len(exitCodes') = Len(exitCodes) + 1 BY <2>1, <2>2, AppendProperties
  <2>5. Len(exitCodes') = Len(attempts') BY <2>3, <2>4 DEF TalliesMatchAttempts
  <2>6. ASSUME NEW l \in LayerNames
        PROVE  /\ counts'[l].success = Cardinality(AttemptsWith(l, {"ok", "warn"})')
               /\ counts'[l].fail = Cardinality(AttemptsWith(l, {"fail"})')
               /\ counts'[l].skip = Cardinality(AttemptsWith(l, {"skip"})')
               /\ Len(durations'[l]) = counts'[l].success
    <3>1. counts'[l] = Tally(counts[l], layers[l].status) BY <2>1
    <3>2. /\ counts[l].success = Cardinality(AttemptsWith(l, {"ok", "warn"}))
          /\ counts[l].fail = Cardinality(AttemptsWith(l, {"fail"}))
          /\ counts[l].skip = Cardinality(AttemptsWith(l, {"skip"}))
          /\ Len(durations[l]) = counts[l].success
      BY DEF TalliesMatchAttempts
    <3>3. /\ counts'[l].success =
               counts[l].success + (IF layers[l].status \in {"ok", "warn"} THEN 1 ELSE 0)
          /\ counts'[l].fail = counts[l].fail + (IF layers[l].status = "fail" THEN 1 ELSE 0)
          /\ counts'[l].skip = counts[l].skip + (IF layers[l].status = "skip" THEN 1 ELSE 0)
      BY <3>1 DEF Tally
    <3>4. counts'[l].success = Cardinality(AttemptsWith(l, {"ok", "warn"})')
      BY <1>1, <3>2, <3>3, CollectCounts
    <3>5. counts'[l].fail = Cardinality(AttemptsWith(l, {"fail"})')
      BY <1>1, <3>2, <3>3, CollectCounts
    <3>6. counts'[l].skip = Cardinality(AttemptsWith(l, {"skip"})')
      BY <1>1, <3>2, <3>3, CollectCounts
    <3>7. layers[l].dur \in Nat /\ durations[l] \in Seq(Nat) BY <2>2, <2>3 DEF Result
    <3>8. Len(Append(durations[l], layers[l].dur)) = Len(durations[l]) + 1
      BY <3>7, AppendProperties
    <3>9. Len(durations'[l]) = counts'[l].success
      <4>1. CASE layers[l].status \in {"ok", "warn"}
        <5>1. durations'[l] = Append(durations[l], layers[l].dur) BY <2>1, <4>1
        <5>2. counts'[l].success = counts[l].success + 1 BY <3>3, <4>1
        <5>3. QED BY <3>2, <3>8, <5>1, <5>2
      <4>2. CASE layers[l].status \notin {"ok", "warn"}
        <5>1. durations'[l] = durations[l] BY <2>1, <4>2
        <5>2. counts[l].success \in Nat BY <2>2
        <5>3. counts'[l].success = counts[l].success BY <3>3, <4>2, <5>2
        <5>4. QED BY <3>2, <5>1, <5>3
      <4>3. QED BY <4>1, <4>2
    <3>10. QED BY <3>4, <3>5, <3>6, <3>9
  <2>7. QED BY <2>5, <2>6 DEF TalliesMatchAttempts
<1>2. CASE UNCHANGED tallyVars
  <2>1. /\ exitCodes' = exitCodes /\ attempts' = attempts /\ counts' = counts
        /\ durations' = durations
    BY <1>2 DEF tallyVars
  <2>2. \A l, S : AttemptsWith(l, S)' = AttemptsWith(l, S) BY <2>1 DEF AttemptsWith
  <2>3. QED BY <2>1, <2>2 DEF TalliesMatchAttempts
<1>3. QED
  BY <1>1, <1>2
  DEF Next, RunnerStep, ProbeReturning, Begin, SkipLayer, CallProbe, ProbeReturns,
      Summarize, Report, DeadlineFires, Signal, vars

(* However many attempts are made, the tallies and the recorded durations  *)
(* are those of the recorded attempts.                                     *)
THEOREM TalliesCorrect == Spec => []TalliesMatchAttempts
<1>1. Init => TypeInv /\ TalliesMatchAttempts BY TypeInit, TallyInit
<1>2. TypeInv /\ TalliesMatchAttempts /\ [Next]_vars => (TypeInv /\ TalliesMatchAttempts)'
  BY TypeStep, TallyStep
<1>3. QED BY <1>1, <1>2, PTL DEF Spec

(***************************************************************************)
(* The signal.  While an attempt is under way it is the one after those    *)
(* recorded; if it began after the signal its context is done and nothing  *)
(* has been executed in it.                                                *)
(***************************************************************************)
Active == pc \in {"begin", "loop", "probing", "collect"}

Untouched(ls) == \A l \in LayerNames : ~Executed(ls[l])

SignalInv ==
  /\ Active => Len(attempts) = attempt - 1
  /\ interrupted /\ Active /\ attempt > begunBefore =>
       pc # "probing" /\ (pc # "begin" => ctxErr # "nil" /\ Untouched(layers))
  /\ NoProbeAfterSignal

LEMMA SignalInit == Init => SignalInv
<1> SUFFICES ASSUME Init PROVE SignalInv
  OBVIOUS
<1>1. attempts = <<>> /\ attempt = 1 /\ pc = "begin" BY Zenon DEF Init
<1>2. ~interrupted BY Zenon DEF Init
<1>3. Len(attempts) = attempt - 1 BY <1>1
<1>4. QED BY <1>2, <1>3 DEF SignalInv, NoProbeAfterSignal

(* While no attempt is recorded and no signal arrives, the history keeps.  *)
LEMMA SignalFrame ==
  ASSUME SignalInv, UNCHANGED <<attempts, interrupted, begunBefore>>
  PROVE  NoProbeAfterSignal'
BY DEF SignalInv, NoProbeAfterSignal

LEMMA SignalStep == TypeInv /\ SignalInv /\ [Next]_vars => SignalInv'
<1> SUFFICES ASSUME TypeInv, SignalInv, [Next]_vars PROVE SignalInv'
  OBVIOUS
<1>0. /\ attempt \in Nat \ {0} /\ begunBefore \in Nat
      /\ layers \in [LayerNames -> LayerValue]
      /\ DOMAIN Stack = 1 .. Len(Stack) /\ \A i \in 1 .. Len(Stack) : Stack[i] \in LayerNames
  <2>1. TypeOK BY DEF TypeInv
  <2>2. /\ DOMAIN Stack = 1 .. Len(Stack)
        /\ \A i \in 1 .. Len(Stack) : Stack[i] \in LayerNames
    BY <2>1, StackTyped
  <2>3. QED BY <2>1, <2>2 DEF TypeOK
<1>1. CASE Begin
  <2>1. /\ UNCHANGED <<attempt, attempts, interrupted, begunBefore>>
        /\ layers' = NoLayers /\ pc = "begin" /\ pc' = "loop"
        /\ interrupted => ctxErr' = "canceled"
    BY <1>1 DEF Begin, tallyVars, sigVars
  <2>2. Untouched(layers') BY <2>1, NotExecuted DEF NoLayers, Untouched
  <2>3. Active /\ pc' # "probing" BY <2>1 DEF Active
  <2>4. interrupted' => ctxErr' # "nil" BY <2>1
  <2>5. QED BY <2>1, <2>2, <2>3, <2>4, SignalFrame DEF SignalInv
<1>2. CASE SkipLayer
  <2>1. /\ UNCHANGED <<attempt, attempts, interrupted, begunBefore, ctxErr, pc>>
        /\ layers' = [layers EXCEPT ![Stack[pos]] = SkipResult]
        /\ pc = "loop" /\ pos \in DOMAIN Stack
    BY <1>2 DEF SkipLayer, tallyVars, sigVars
  <2>2. Stack[pos] \in LayerNames BY <1>0, <2>1
  <2>3. Untouched(layers) => Untouched(layers')
    BY <1>0, <2>1, <2>2, NotExecuted DEF Untouched
  <2>4. Active' <=> Active BY <2>1 DEF Active
  <2>5. QED BY <2>1, <2>3, <2>4, SignalFrame DEF SignalInv
<1>3. CASE CallProbe
  <2>1. /\ UNCHANGED <<attempt, attempts, interrupted, begunBefore, layers>>
        /\ pc = "loop" /\ pc' = "probing" /\ ctxErr = "nil"
    BY <1>3 DEF CallProbe, MustSkip, runVars, tallyVars, sigVars
  <2>2. Active BY <2>1 DEF Active
  <2>3. ~(interrupted /\ attempt > begunBefore) BY <2>1, <2>2 DEF SignalInv
  <2>4. QED BY <2>1, <2>2, <2>3, SignalFrame DEF SignalInv
<1>4. ASSUME NEW r, ProbeReturns(r) PROVE SignalInv'
  <2>1. /\ UNCHANGED <<attempt, attempts, interrupted, begunBefore>>
        /\ pc = "probing" /\ pc' = "loop"
    BY <1>4 DEF ProbeReturns, tallyVars, sigVars
  <2>2. Active BY <2>1 DEF Active
  <2>3. ~(interrupted /\ attempt > begunBefore) BY <2>1, <2>2 DEF SignalInv
  <2>4. QED BY <2>1, <2>2, <2>3, SignalFrame DEF SignalInv
<1>5. CASE Summarize
  <2>1. /\ UNCHANGED <<attempt, attempts, interrupted, begunBefore, ctxErr>>
        /\ layers' = [l \in LayerNames |->
                        IF layers[l] = Absent THEN SkipResult ELSE layers[l]]
        /\ pc = "loop" /\ pc' \in {"report", "collect"}
    BY <1>5 DEF Summarize, tallyVars, sigVars
  <2>2. Untouched(layers) => Untouched(layers') BY <2>1, NotExecuted DEF Untouched
  <2>3. Active BY <2>1 DEF Active
  <2>4. QED BY <2>1, <2>2, <2>3, SignalFrame DEF SignalInv
<1>6. CASE Collect
  <2>1. /\ UNCHANGED <<interrupted, begunBefore>> /\ pc = "collect"
        /\ \/ attempt' = attempt + 1 /\ pc' = "begin"
           \/ pc' = "report"
    BY <1>6 DEF Collect, sigVars
  <2>2. /\ Len(attempts) \in Nat /\ DOMAIN attempts = 1 .. Len(attempts)
        /\ Len(attempts') = Len(attempts) + 1
        /\ DOMAIN attempts' = 1 .. Len(attempts) + 1
        /\ attempts'[Len(attempts) + 1].layers = layers
        /\ \A k \in 1 .. Len(attempts) : attempts'[k] = attempts[k]
    BY <1>6, CollectAppends
  <2>3. Active /\ Len(attempts) = attempt - 1 BY <2>1 DEF Active, SignalInv
  <2>4. Active' => Len(attempts') = attempt' - 1 /\ pc' = "begin"
    BY <1>0, <2>1, <2>2, <2>3 DEF Active
  <2>5. interrupted /\ attempt > begunBefore => Untouched(layers)
    BY <2>1, <2>3 DEF SignalInv
  <2>6. ASSUME NEW k \in DOMAIN attempts', interrupted, k > begunBefore
        PROVE  Untouched(attempts'[k].layers)
    <3>1. CASE k = Len(attempts) + 1
      <4>1. k = attempt BY <1>0, <2>3, <3>1
      <4>2. QED BY <2>2, <2>5, <2>6, <3>1, <4>1
    <3>2. CASE k \in 1 .. Len(attempts)
      BY <2>2, <2>6, <3>2 DEF SignalInv, NoProbeAfterSignal, Untouched
    <3>3. QED BY <2>2, <3>1, <3>2
  <2>7. NoProbeAfterSignal' BY <2>1, <2>6 DEF NoProbeAfterSignal, Untouched
  <2>8. QED BY <2>4, <2>7 DEF SignalInv
<1>7. CASE Report
  <2>1. UNCHANGED <<attempts, interrupted, begunBefore>> /\ pc' = "done"
    BY <1>7 DEF Report, tallyVars, sigVars
  <2>2. ~Active' BY <2>1 DEF Active
  <2>3. QED BY <2>1, <2>2, SignalFrame DEF SignalInv
<1>8. CASE DeadlineFires
  <2>1. /\ UNCHANGED <<attempt, attempts, interrupted, begunBefore, layers, pc>>
        /\ ctxErr' # "nil"
    BY <1>8 DEF DeadlineFires, runVars, tallyVars, sigVars
  <2>2. Active' <=> Active BY <2>1 DEF Active
  <2>3. QED BY <2>1, <2>2, SignalFrame DEF SignalInv
<1>9. CASE Signal
  <2>1. /\ UNCHANGED <<attempt, attempts, layers, pc>> /\ Active
        /\ \/ pc = "begin" /\ begunBefore' = attempt - 1
           \/ pc # "begin" /\ begunBefore' = attempt
    BY <1>9 DEF Signal, Active, runVars, tallyVars
  <2>2. Active' /\ Len(attempts) = attempt - 1 BY <2>1 DEF Active, SignalInv
  <2>3. /\ Len(attempts) \in Nat /\ DOMAIN attempts = 1 .. Len(attempts)
    BY LenProperties DEF TypeInv, TypeOK
  <2>4. \A k \in DOMAIN attempts' : ~(k > begunBefore') BY <1>0, <2>1, <2>2, <2>3
  <2>5. NoProbeAfterSignal' BY <2>4 DEF NoProbeAfterSignal
  <2>6. attempt' > begunBefore' => pc' = "begin" BY <1>0, <2>1
  <2>7. QED BY <2>1, <2>2, <2>5, <2>6 DEF SignalInv
<1>10. CASE UNCHANGED vars
  <2>1. UNCHANGED <<attempt, attempts, interrupted, begunBefore, layers, pc, ctxErr>>
    BY <1>10 DEF vars, runVars, tallyVars, sigVars
  <2>2. Active' <=> Active BY <2>1 DEF Active
  <2>3. QED BY <2>1, <2>2, SignalFrame DEF SignalInv
<1>11. QED
  BY <1>1, <1>2, <1>3, <1>4, <1>5, <1>6, <1>7, <1>8, <1>9, <1>10
  DEF Next, RunnerStep, ProbeReturning

(* After a SIGINT or SIGTERM no attempt that begins executes any layer,    *)
(* whenever the signal arrives and however many attempts are left.         *)
THEOREM SignalStopsProbing == Spec => []NoProbeAfterSignal
<1>1. Init => TypeInv /\ SignalInv BY TypeInit, SignalInit
<1>2. TypeInv /\ SignalInv /\ [Next]_vars => (TypeInv /\ SignalInv)'
  BY TypeStep, SignalStep
<1>3. SignalInv => NoProbeAfterSignal BY DEF SignalInv
<1>4. QED BY <1>1, <1>2, <1>3, PTL DEF Spec

(***************************************************************************)
(* The percentiles, of any series of durations.  The facts that look like  *)
(* induction over the series are had from a least element: the k-th smallest*)
(* value is the least one that k of the durations do not exceed, and a     *)
(* greatest duration is one that the fewest others exceed.                 *)
(***************************************************************************)
(* The least-number principle, for a set of naturals.                      *)
LEMMA LeastOf ==
  ASSUME NEW S \in SUBSET Nat, S # {}
  PROVE  \E m \in S : \A n \in S : m <= n
<1>1. PICK m \in S : \A n \in S : ~(<<n, m>> \in OpToRel(<, Nat))
  BY NatLessThanWellFounded, WFMin
<1>2. \A n \in S : ~(n < m) BY <1>1 DEF OpToRel
<1>3. QED BY <1>2

(* Where a series is below a value, and where it does not exceed it.       *)
Below(d, v) == {i \in DOMAIN d : d[i] < v}

UpTo(d, v) == {i \in DOMAIN d : d[i] <= v}

(* The indices of a series and the sizes of sets of them.                  *)
LEMMA SeriesFacts ==
  ASSUME NEW d \in Seq(Nat)
  PROVE  /\ Len(d) \in Nat /\ DOMAIN d = 1 .. Len(d)
         /\ \A i \in DOMAIN d : d[i] \in Nat
         /\ Cardinality(DOMAIN d) = Len(d)
         /\ \A T \in SUBSET DOMAIN d :
              IsFiniteSet(T) /\ Cardinality(T) \in Nat /\ Cardinality(T) <= Len(d)
<1>1. Len(d) \in Nat /\ DOMAIN d = 1 .. Len(d) /\ \A i \in DOMAIN d : d[i] \in Nat
  BY LenProperties, ElementOfSeq
<1>2. IsFiniteSet(1 .. Len(d)) /\ Cardinality(1 .. Len(d)) = Len(d)
  <2>1. /\ IsFiniteSet(1 .. Len(d))
        /\ Cardinality(1 .. Len(d)) = IF 1 > Len(d) THEN 0 ELSE Len(d) - 1 + 1
    BY <1>1, FS_Interval
  <2>2. QED BY <1>1, <2>1
<1>3. ASSUME NEW T \in SUBSET DOMAIN d
      PROVE  IsFiniteSet(T) /\ Cardinality(T) \in Nat /\ Cardinality(T) <= Len(d)
  <2>1. IsFiniteSet(T) /\ Cardinality(T) <= Len(d) BY <1>1, <1>2, FS_Subset
  <2>2. QED BY <2>1, FS_CardinalityType
<1>4. QED BY <1>1, <1>2, <1>3

(* Fewer indices, smaller size.                                            *)
LEMMA Smaller ==
  ASSUME NEW d \in Seq(Nat), NEW T \in SUBSET DOMAIN d, NEW U \in SUBSET T
  PROVE  /\ Cardinality(U) <= Cardinality(T)
         /\ U # T => Cardinality(U) < Cardinality(T)
<1>1. IsFiniteSet(T) /\ IsFiniteSet(U) /\ Cardinality(T) \in Nat /\ Cardinality(U) \in Nat
  BY SeriesFacts
<1>2. Cardinality(U) <= Cardinality(T) /\ (Cardinality(T) = Cardinality(U) => T = U)
  BY <1>1, FS_Subset
<1>3. QED BY <1>1, <1>2

(* Among finitely many durations there is a greatest one.                  *)
LEMMA GreatestIndex ==
  ASSUME NEW d \in Seq(Nat), NEW T \in SUBSET DOMAIN d, T # {}
  PROVE  \E i \in T : \A j \in T : d[j] <= d[i]
<1> DEFINE Above(i) == {j \in T : d[j] > d[i]}
           Sizes == {Cardinality(Above(i)) : i \in T}
<1>1. \A i \in T : Cardinality(Above(i)) \in Nat BY SeriesFacts
<1>2. PICK i \in T : \A j \in T : Cardinality(Above(i)) <= Cardinality(Above(j))
  <2>1. Sizes \in SUBSET Nat /\ Sizes # {} BY <1>1
  <2>2. PICK m \in Sizes : \A n \in Sizes : m <= n BY <2>1, LeastOf
  <2>3. \A j \in T : m <= Cardinality(Above(j)) BY <2>2
  <2>4. PICK i \in T : m = Cardinality(Above(i)) BY <2>2
  <2> HIDE DEF Above, Sizes
  <2>5. QED BY <2>3, <2>4
<1>3. ASSUME NEW j \in T, ~(d[j] <= d[i]) PROVE FALSE
  <2>1. \A k \in T : d[k] \in Nat BY SeriesFacts
  <2>2. j \in Above(i) /\ j \notin Above(j) BY <1>3, <2>1
  <2>3. Above(j) \in SUBSET Above(i) BY <1>3, <2>1
  <2>4. Cardinality(Above(j)) < Cardinality(Above(i)) BY <2>2, <2>3, Smaller
  <2>5. Cardinality(Above(i)) <= Cardinality(Above(j)) BY <1>2
  <2>6. Cardinality(Above(i)) \in Nat /\ Cardinality(Above(j)) \in Nat BY <1>1
  <2> HIDE DEF Above
  <2>7. QED BY <2>4, <2>5, <2>6
<1>4. QED BY <1>3

(* The k-th smallest value exists, wherever repetitions fall.              *)
LEMMA KthExists ==
  ASSUME NEW d \in Seq(Nat), NEW k \in 1 .. Len(d)
  PROVE  /\ KthSmallest(d, k) \in {d[i] : i \in DOMAIN d}
         /\ Cardinality(Below(d, KthSmallest(d, k))) < k
         /\ k <= Cardinality(UpTo(d, KthSmallest(d, k)))
<1> DEFINE Vals == {d[i] : i \in DOMAIN d}
           Enough == {v \in Vals : k <= Cardinality(UpTo(d, v))}
<1>0. /\ Len(d) \in Nat /\ DOMAIN d = 1 .. Len(d) /\ k \in Nat /\ k > 0
      /\ \A i \in DOMAIN d : d[i] \in Nat
      /\ \A v : /\ UpTo(d, v) \in SUBSET DOMAIN d /\ Below(d, v) \in SUBSET DOMAIN d
                /\ Cardinality(UpTo(d, v)) \in Nat /\ Cardinality(Below(d, v)) \in Nat
  BY SeriesFacts DEF UpTo, Below
<1>1. Enough # {}
  <2>1. PICK i \in DOMAIN d : \A j \in DOMAIN d : d[j] <= d[i] BY <1>0, GreatestIndex
  <2>2. UpTo(d, d[i]) = DOMAIN d BY <2>1 DEF UpTo
  <2>3. Cardinality(DOMAIN d) = Len(d) BY SeriesFacts
  <2>4. QED BY <1>0, <2>2, <2>3
<1>2. PICK v \in Enough : \A w \in Enough : v <= w
  <2>1. Enough \in SUBSET Nat BY <1>0
  <2>2. QED BY <1>1, <2>1, LeastOf
<1>3. Cardinality(Below(d, v)) < k
  <2>1. SUFFICES ASSUME ~(Cardinality(Below(d, v)) < k) PROVE FALSE
    OBVIOUS
  <2>2. Cardinality(Below(d, v)) >= k BY <1>0, <2>1
  <2>3. Below(d, v) # {}
    <3>1. Cardinality({}) = 0 BY FS_EmptySet
    <3>2. Cardinality(Below(d, v)) # 0 BY <1>0, <2>2
    <3>3. QED BY <3>1, <3>2
  <2>4. PICK i \in Below(d, v) : \A j \in Below(d, v) : d[j] <= d[i]
    BY <1>0, <2>3, GreatestIndex
  <2>5. i \in DOMAIN d /\ d[i] < v /\ v \in Nat BY <1>0 DEF Below
  <2>6. \A j \in DOMAIN d : d[j] <= d[i] => d[j] < v BY <1>0, <2>5
  <2>7. UpTo(d, d[i]) = Below(d, v) BY <2>4, <2>6 DEF UpTo, Below
  <2>8. d[i] \in Enough BY <2>2, <2>5, <2>7, <1>0
  <2>9. v <= d[i] BY <1>2, <2>8
  <2>10. d[i] \in Nat BY <1>0, <2>5
  <2>11. QED BY <2>5, <2>9, <2>10
<1>4. \E w \in Vals : /\ Cardinality({i \in DOMAIN d : d[i] < w}) < k
                      /\ k <= Cardinality({i \in DOMAIN d : d[i] <= w})
  BY <1>3 DEF Below, UpTo
<1>5. QED BY <1>4 DEF KthSmallest, Below, UpTo

(* A higher rank never has a smaller value.                                *)
LEMMA KthMonotone ==
  ASSUME NEW d \in Seq(Nat), NEW k \in 1 .. Len(d), NEW n \in 1 .. Len(d), k <= n
  PROVE  KthSmallest(d, k) <= KthSmallest(d, n)
<1> DEFINE v == KthSmallest(d, k)
           w == KthSmallest(d, n)
<1>0. /\ v \in Nat /\ w \in Nat /\ \A i \in DOMAIN d : d[i] \in Nat
      /\ Cardinality(Below(d, v)) < k /\ n <= Cardinality(UpTo(d, w))
  BY KthExists, SeriesFacts
<1>1. UpTo(d, w) \in SUBSET DOMAIN d /\ Below(d, v) \in SUBSET DOMAIN d BY DEF UpTo, Below
<1>2. Cardinality(UpTo(d, w)) \in Nat /\ Cardinality(Below(d, v)) \in Nat
  BY <1>1, SeriesFacts
<1>3. SUFFICES ASSUME w < v PROVE FALSE
  BY <1>0 DEF v, w
<1>4. UpTo(d, w) \in SUBSET Below(d, v) BY <1>0, <1>3 DEF UpTo, Below
<1>5. Cardinality(UpTo(d, w)) <= Cardinality(Below(d, v)) BY <1>1, <1>4, Smaller
<1> HIDE DEF v, w
<1>6. QED BY <1>0, <1>2, <1>5

(* The ranks the code looks up are ranks of the series, the clamp never    *)
(* bites, and the median's are not above that of the 95th percentile.      *)
LEMMA Ranks ==
  ASSUME NEW n \in Nat, n > 0
  PROVE  LET r == (95 * n + 99) \div 100
         IN  /\ r \in 1 .. n
             /\ 100 * r >= 95 * n
             /\ \A m \in Nat : m < r => 100 * m < 95 * n
             /\ n \div 2 + 1 \in 1 .. n /\ n \div 2 + 1 <= r
             /\ n % 2 # 1 => n \div 2 \in 1 .. n
<1> DEFINE r == (95 * n + 99) \div 100
           h == n \div 2
<1>1. r \in Int /\ 100 * r <= 95 * n + 99 /\ 95 * n + 99 < 100 * r + 100
  OBVIOUS
<1>2. h \in Int /\ 2 * h <= n /\ n < 2 * h + 2 OBVIOUS
<1>3. n = 1 => n % 2 = 1 OBVIOUS
<1> HIDE DEF r, h
<1>4. r \in 1 .. n BY <1>1
<1>5. 100 * r >= 95 * n /\ \A m \in Nat : m < r => 100 * m < 95 * n BY <1>1
<1>6. h + 1 \in 1 .. n /\ h + 1 <= r BY <1>1, <1>2
<1>7. n % 2 # 1 => h \in 1 .. n BY <1>2, <1>3
<1>8. QED BY <1>4, <1>5, <1>6, <1>7 DEF r, h

(* P95 looks up the rank ceil(0.95 n).                                     *)
LEMMA P95AtRank ==
  ASSUME NEW d \in Seq(Nat), d # <<>>
  PROVE  /\ Len(d) \in Nat /\ Len(d) > 0
         /\ P95(d) = KthSmallest(d, (95 * Len(d) + 99) \div 100)
<1>1. Len(d) \in Nat /\ Len(d) > 0 BY EmptySeq, LenProperties
<1>2. (95 * Len(d) + 99) \div 100 \in 1 .. Len(d) BY <1>1, Ranks
<1>3. QED BY <1>1, <1>2 DEF P95

(* percentile(d, 0.95) is the nearest rank: the least of the durations     *)
(* that at least 95 in a hundred of them do not exceed, for every series.  *)
THEOREM P95IsNearestRank ==
  ASSUME NEW d \in Seq(Nat), d # <<>>
  PROVE  LET Values == {d[i] : i \in DOMAIN d}
             Enough(v) == 100 * Cardinality({i \in DOMAIN d : d[i] <= v}) >= 95 * Len(d)
         IN  /\ P95(d) \in Values /\ Enough(P95(d))
             /\ \A v \in Values : Enough(v) => P95(d) <= v
<1> DEFINE r == (95 * Len(d) + 99) \div 100
           p == KthSmallest(d, r)
<1>1. Len(d) \in Nat /\ Len(d) > 0 /\ P95(d) = p BY P95AtRank
<1>2. /\ r \in 1 .. Len(d) /\ 100 * r >= 95 * Len(d)
      /\ \A m \in Nat : m < r => 100 * m < 95 * Len(d)
  BY <1>1, Ranks
<1> HIDE DEF r
<1>3. /\ p \in {d[i] : i \in DOMAIN d}
      /\ Cardinality(Below(d, p)) < r
      /\ r <= Cardinality(UpTo(d, p))
  BY <1>2, KthExists
<1>4. /\ \A i \in DOMAIN d : d[i] \in Nat
      /\ \A v : /\ UpTo(d, v) \in SUBSET DOMAIN d /\ Below(d, v) \in SUBSET DOMAIN d
                /\ Cardinality(UpTo(d, v)) \in Nat /\ Cardinality(Below(d, v)) \in Nat
  BY SeriesFacts DEF UpTo, Below
<1> HIDE DEF p
<1>5. 100 * Cardinality(UpTo(d, p)) >= 95 * Len(d) BY <1>1, <1>2, <1>3, <1>4
<1>6. ASSUME NEW v \in {d[i] : i \in DOMAIN d}, 100 * Cardinality(UpTo(d, v)) >= 95 * Len(d)
      PROVE  p <= v
  <2>1. SUFFICES ASSUME v < p PROVE FALSE
    BY <1>3, <1>4
  <2>2. UpTo(d, v) \in SUBSET Below(d, p) BY <1>3, <1>4, <2>1 DEF UpTo, Below
  <2>3. Cardinality(UpTo(d, v)) <= Cardinality(Below(d, p)) BY <1>4, <2>2, Smaller
  <2>4. Cardinality(UpTo(d, v)) < r BY <1>2, <1>3, <1>4, <2>3
  <2>5. 100 * Cardinality(UpTo(d, v)) < 95 * Len(d) BY <1>2, <1>4, <2>4
  <2>6. QED BY <1>1, <1>4, <1>6, <2>5
<1>7. QED BY <1>1, <1>3, <1>5, <1>6 DEF UpTo

(* The percentiles of a series lie within it, and the median is not above  *)
(* the 95th percentile.                                                    *)
LEMMA PercentilesWithin ==
  ASSUME NEW d \in Seq(Nat), d # <<>>
  PROVE  LET Values == {d[i] : i \in DOMAIN d}
         IN  /\ P95(d) \in Values
             /\ \E v \in Values : 2 * v <= P50Doubled(d)
             /\ P50Doubled(d) <= 2 * P95(d)
<1> DEFINE n == Len(d)
           r == (95 * n + 99) \div 100
           h == n \div 2
<1>1. n \in Nat /\ n > 0 /\ P95(d) = KthSmallest(d, r) BY P95AtRank
<1>2. /\ r \in 1 .. n
      /\ h + 1 \in 1 .. n /\ h + 1 <= r
      /\ n % 2 # 1 => h \in 1 .. n
      /\ h \in Int
  BY <1>1, Ranks
<1>3. \A k \in 1 .. n : KthSmallest(d, k) \in {d[i] : i \in DOMAIN d}
  BY KthExists
<1>4. \A k \in 1 .. n : KthSmallest(d, k) \in Nat BY <1>3, SeriesFacts
<1>5. \A k, m \in 1 .. n : k <= m => KthSmallest(d, k) <= KthSmallest(d, m)
  BY KthMonotone
<1>6. P50Doubled(d) = IF n % 2 = 1 THEN 2 * KthSmallest(d, h + 1)
                                   ELSE KthSmallest(d, h) + KthSmallest(d, h + 1)
  BY DEF P50Doubled
<1> HIDE DEF n, r, h
<1>7. /\ KthSmallest(d, r) \in {d[i] : i \in DOMAIN d}
      /\ KthSmallest(d, r) \in Nat /\ KthSmallest(d, h + 1) \in Nat
      /\ KthSmallest(d, h + 1) \in {d[i] : i \in DOMAIN d}
      /\ KthSmallest(d, h + 1) <= KthSmallest(d, r)
  BY <1>2, <1>3, <1>4, <1>5
<1>8. \E k \in 1 .. n : /\ 2 * KthSmallest(d, k) <= P50Doubled(d)
                        /\ P50Doubled(d) <= 2 * KthSmallest(d, r)
  <2>1. CASE n % 2 = 1
    <3>1. P50Doubled(d) = 2 * KthSmallest(d, h + 1) BY <1>6, <2>1
    <3>2. /\ 2 * KthSmallest(d, h + 1) <= P50Doubled(d)
          /\ P50Doubled(d) <= 2 * KthSmallest(d, r)
      BY <1>7, <3>1
    <3>3. h + 1 \in 1 .. n BY <1>2
    <3>4. QED BY <3>2, <3>3
  <2>2. CASE n % 2 # 1
    <3>1. KthSmallest(d, h) <= KthSmallest(d, h + 1) /\ KthSmallest(d, h) \in Nat
      BY <1>2, <1>4, <1>5, <2>2
    <3>2. P50Doubled(d) = KthSmallest(d, h) + KthSmallest(d, h + 1) BY <1>6, <2>2
    <3>3. 2 * KthSmallest(d, h) <= P50Doubled(d) BY <1>7, <3>1, <3>2
    <3>4. P50Doubled(d) <= 2 * KthSmallest(d, r) BY <1>7, <3>1, <3>2
    <3>5. QED BY <1>2, <2>2, <3>3, <3>4
  <2>3. QED BY <2>1, <2>2
<1>9. QED BY <1>1, <1>3, <1>7, <1>8

(* As many durations are below a value as are not at least that.           *)
LEMMA AtLeastCount ==
  ASSUME NEW d \in Seq(Nat), NEW v \in Nat
  PROVE  Cardinality({i \in DOMAIN d : d[i] >= v}) = Len(d) - Cardinality(Below(d, v))
<1>1. /\ \A i \in DOMAIN d : d[i] \in Nat
      /\ IsFiniteSet(DOMAIN d) /\ Cardinality(DOMAIN d) = Len(d)
  BY SeriesFacts
<1>2. {i \in DOMAIN d : d[i] >= v} = DOMAIN d \ Below(d, v) BY <1>1 DEF Below
<1>3. DOMAIN d \cap Below(d, v) = Below(d, v) BY DEF Below
<1>4. Cardinality(DOMAIN d \ Below(d, v)) = Cardinality(DOMAIN d) - Cardinality(DOMAIN d \cap Below(d, v))
  BY <1>1, FS_Difference
<1>5. QED BY <1>1, <1>2, <1>3, <1>4

(* percentile(d, 0.50) is the median of any series: no more than half of   *)
(* the durations are above it and no more than half below; it is one of    *)
(* them or half the sum of two neighbours.                                 *)
THEOREM P50IsMedian ==
  ASSUME NEW d \in Seq(Nat), d # <<>>
  PROVE  LET Values == {d[i] : i \in DOMAIN d}
             m == P50Doubled(d)
         IN  /\ 2 * Cardinality({i \in DOMAIN d : 2 * d[i] <= m}) >= Len(d)
             /\ 2 * Cardinality({i \in DOMAIN d : 2 * d[i] >= m}) >= Len(d)
             /\ \E a, b \in Values : /\ m = a + b /\ a <= b
                                     /\ \A v \in Values : v <= a \/ b <= v
                                     /\ Len(d) % 2 = 1 => a = b
<1> DEFINE n == Len(d)
           h == n \div 2
           k == IF n % 2 = 1 THEN h + 1 ELSE h
           a == KthSmallest(d, k)
           b == KthSmallest(d, h + 1)
           m == P50Doubled(d)
           Values == {d[i] : i \in DOMAIN d}
           NotAbove == {i \in DOMAIN d : 2 * d[i] <= m}
           NotBelow == {i \in DOMAIN d : 2 * d[i] >= m}
<1>1. n \in Nat /\ n > 0 BY P95AtRank
<1>2. k \in 1 .. n /\ h + 1 \in 1 .. n /\ k <= h + 1 /\ 2 * k >= n /\ 2 * h <= n
      /\ h \in Nat /\ k >= h
  BY <1>1, Ranks
<1>3. \A i \in DOMAIN d : d[i] \in Nat BY SeriesFacts
<1>4. /\ a \in Values /\ Cardinality(Below(d, a)) < k /\ k <= Cardinality(UpTo(d, a))
      /\ b \in Values /\ Cardinality(Below(d, b)) < h + 1 /\ h + 1 <= Cardinality(UpTo(d, b))
  BY <1>2, KthExists
<1>5. a \in Nat /\ b \in Nat /\ Values \subseteq Nat BY <1>3, <1>4
<1>6. a <= b BY <1>2, KthMonotone
<1>7. m = a + b
  <2>1. CASE n % 2 = 1
    <3>1. m = 2 * b /\ a = b BY <2>1 DEF P50Doubled
    <3> HIDE DEF m, a, b
    <3>2. QED BY <1>5, <3>1
  <2>2. CASE n % 2 # 1 BY <2>2 DEF P50Doubled
  <2>3. QED BY <2>1, <2>2
<1>8. n % 2 = 1 => a = b OBVIOUS
<1>9. \A T \in SUBSET DOMAIN d :
        IsFiniteSet(T) /\ Cardinality(T) \in Nat /\ Cardinality(T) <= n
  BY SeriesFacts
<1> HIDE DEF a, b, k, h, m
<1>10. 2 * Cardinality(NotAbove) >= n
  <2>1. UpTo(d, a) \in SUBSET NotAbove BY <1>3, <1>5, <1>6, <1>7 DEF UpTo
  <2>2. NotAbove \in SUBSET DOMAIN d OBVIOUS
  <2>3. UpTo(d, a) \in SUBSET DOMAIN d BY DEF UpTo
  <2> HIDE DEF NotAbove, n
  <2>4. Cardinality(UpTo(d, a)) <= Cardinality(NotAbove) BY <2>1, <2>2, Smaller
  <2>5. Cardinality(UpTo(d, a)) \in Nat /\ Cardinality(NotAbove) \in Nat
    BY <1>9, <2>2, <2>3
  <2>6. QED BY <1>1, <1>2, <1>4, <2>4, <2>5
<1>11. 2 * Cardinality(NotBelow) >= n
  <2> DEFINE AtLeast == {i \in DOMAIN d : d[i] >= b}
  <2>1. AtLeast \in SUBSET NotBelow BY <1>3, <1>5, <1>6, <1>7
  <2>2. NotBelow \in SUBSET DOMAIN d /\ AtLeast \in SUBSET DOMAIN d OBVIOUS
  <2>3. Cardinality(AtLeast) = n - Cardinality(Below(d, b)) BY <1>5, AtLeastCount
  <2>4. Below(d, b) \in SUBSET DOMAIN d BY DEF Below
  <2> HIDE DEF NotBelow, AtLeast, n
  <2>5. Cardinality(AtLeast) <= Cardinality(NotBelow) BY <2>1, <2>2, Smaller
  <2>6. /\ Cardinality(AtLeast) \in Nat /\ Cardinality(NotBelow) \in Nat
        /\ Cardinality(Below(d, b)) \in Nat
    BY <1>9, <2>2, <2>4
  <2>7. QED BY <1>1, <1>2, <1>4, <2>3, <2>5, <2>6
<1>12. \A v \in Values : v <= a \/ b <= v
  <2> SUFFICES ASSUME NEW i \in DOMAIN d, a < d[i], d[i] < b PROVE FALSE
    BY <1>3, <1>5
  <2>1. UpTo(d, a) \in SUBSET Below(d, b) BY <1>3, <1>5, <1>6 DEF UpTo, Below
  <2>2. UpTo(d, a) # Below(d, b) BY <1>3, <1>5 DEF UpTo, Below
  <2>3. Below(d, b) \in SUBSET DOMAIN d /\ UpTo(d, a) \in SUBSET DOMAIN d BY DEF UpTo, Below
  <2>4. Cardinality(UpTo(d, a)) < Cardinality(Below(d, b)) BY <2>1, <2>2, <2>3, Smaller
  <2>5. Cardinality(UpTo(d, a)) \in Nat /\ Cardinality(Below(d, b)) \in Nat BY <1>9, <2>3
  <2>6. QED BY <1>2, <1>4, <2>4, <2>5
<1> HIDE DEF Values
<1>13. \E x, y \in Values : /\ m = x + y /\ x <= y
                            /\ \A v \in Values : v <= x \/ y <= v
                            /\ n % 2 = 1 => x = y
  BY <1>4, <1>6, <1>7, <1>8, <1>12
<1>14. QED BY <1>10, <1>11, <1>13 DEF m, Values

(***************************************************************************)
(* The exit code of a series.  The variable of WorstExitCode's loop is a   *)
(* recursive function; what holds before a pass and is kept by it holds at *)
(* the end, since otherwise there would be a first pass to break it.       *)
(***************************************************************************)
(* One pass of WorstExitCode's loop.                                       *)
Pass(codes, worst, k) ==
  IF k = 0 THEN 0 ELSE IF codes[k] > worst[k - 1] THEN codes[k] ELSE worst[k - 1]

(* The loop's passes define its variable, for series of every length.      *)
LEMMA PassesExist ==
  ASSUME NEW codes, NEW len \in Nat
  PROVE  \E W : W = [k \in 0 .. len |-> Pass(codes, W, k)]
<1> DEFINE Done(n) == \E W : W = [k \in 0 .. n |-> Pass(codes, W, k)]
           S == {n \in Nat : ~Done(n)}
<1>1. SUFFICES ASSUME S # {} PROVE FALSE
  OBVIOUS
<1>2. PICK n \in S : \A m \in S : n <= m
  <2>1. S \in SUBSET Nat OBVIOUS
  <2> HIDE DEF S
  <2>2. QED BY <1>1, <2>1, LeastOf
<1>3. n \in Nat /\ ~Done(n) OBVIOUS
<1>4. CASE n = 0
  <2> DEFINE W == [k \in 0 .. 0 |-> 0]
  <2>1. W = [k \in 0 .. 0 |-> Pass(codes, W, k)] BY DEF Pass
  <2>2. QED BY <1>3, <1>4, <2>1
<1>5. CASE n # 0
  <2>1. n - 1 \in Nat /\ ~(n <= n - 1) BY <1>3, <1>5
  <2>2. Done(n - 1) BY <1>2, <2>1
  <2>3. PICK W : W = [k \in 0 .. n - 1 |-> Pass(codes, W, k)] BY <2>2
  <2> DEFINE V == [k \in 0 .. n |-> IF k < n THEN W[k] ELSE Pass(codes, W, k)]
  <2>4. ASSUME NEW k \in 0 .. n PROVE V[k] = Pass(codes, V, k)
    <3>1. k # 0 => k - 1 \in 0 .. n /\ k - 1 < n BY <1>3
    <3>2. k # 0 => V[k - 1] = W[k - 1] BY <3>1
    <3>3. Pass(codes, V, k) = Pass(codes, W, k) BY <3>2 DEF Pass
    <3>4. k < n => k \in 0 .. n - 1 BY <1>3
    <3>5. k < n => W[k] = Pass(codes, W, k) BY <3>4, <2>3
    <3>6. QED BY <3>3, <3>5
  <2>5. V = [k \in 0 .. n |-> Pass(codes, V, k)] BY <2>4
  <2>6. QED BY <1>3, <2>5
<1>6. QED BY <1>4, <1>5

(* exitcode.WorstExitCode, over every series of codes: whatever the order  *)
(* of the codes, none is above what its loop ends with, which is one of    *)
(* them, or the 0 it starts from if there is none.                         *)
THEOREM WorstIsExact ==
  ASSUME NEW codes \in Seq(Nat)
  PROVE  /\ WorstExitCode(codes) \in Nat
         /\ \A k \in DOMAIN codes : codes[k] <= WorstExitCode(codes)
         /\ IF codes = <<>> THEN WorstExitCode(codes) = 0
            ELSE \E k \in DOMAIN codes : WorstExitCode(codes) = codes[k]
<1> DEFINE len == Len(codes)
           W == CHOOSE W : W = [k \in 0 .. len |-> Pass(codes, W, k)]
<1>1. len \in Nat /\ DOMAIN codes = 1 .. len /\ \A k \in 1 .. len : codes[k] \in Nat
  OBVIOUS
<1>2. WorstExitCode(codes) = W[len] BY DEF WorstExitCode, Pass
<1>3. W = [k \in 0 .. len |-> Pass(codes, W, k)] BY <1>1, PassesExist
<1> HIDE DEF W, len
<1>4. W[0] = 0 BY <1>1, <1>3 DEF Pass
<1>5. ASSUME NEW k \in 1 .. len
      PROVE  W[k] = IF codes[k] > W[k - 1] THEN codes[k] ELSE W[k - 1]
  <2>1. W[k] = Pass(codes, W, k) BY <1>1, <1>3
  <2>2. QED BY <1>1, <2>1 DEF Pass
<1> DEFINE Right(k) == /\ W[k] \in Nat
                       /\ \A j \in 1 .. k : codes[j] <= W[k]
                       /\ IF k = 0 THEN W[k] = 0 ELSE \E j \in 1 .. k : W[k] = codes[j]
           Bad == {k \in 0 .. len : ~Right(k)}
<1>6. Bad = {}
  <2> SUFFICES ASSUME Bad # {} PROVE FALSE
    OBVIOUS
  <2>1. Bad \in SUBSET Nat BY <1>1
  <2>2. PICK k \in Bad : \A m \in Bad : k <= m
    <3> HIDE DEF Bad
    <3>1. QED BY <2>1, LeastOf
  <2>3. k \in 0 .. len /\ ~Right(k) OBVIOUS
  <2>4. CASE k = 0
    <3>1. Right(0) BY <1>4
    <3>2. QED BY <2>3, <2>4, <3>1
  <2>5. CASE k # 0
    <3>1. k \in 1 .. len /\ k - 1 \in 0 .. len /\ ~(k <= k - 1) BY <1>1, <2>3, <2>5
    <3>2. Right(k - 1) BY <2>2, <3>1
    <3>3. W[k] = IF codes[k] > W[k - 1] THEN codes[k] ELSE W[k - 1] BY <1>5, <3>1
    <3>4. \A j \in 1 .. k : j = k \/ j \in 1 .. k - 1 BY <1>1, <3>1
    <3>5. W[k - 1] \in Nat /\ codes[k] \in Nat BY <1>1, <3>1, <3>2
    <3>6. \A j \in 1 .. k : codes[j] \in Nat BY <1>1, <3>1
    <3>7. \A j \in 1 .. k : codes[j] <= W[k] BY <3>2, <3>3, <3>4, <3>5, <3>6
    <3>8. \E j \in 1 .. k : W[k] = codes[j]
      <4>1. CASE codes[k] > W[k - 1]
        <5>1. k \in 1 .. k /\ W[k] = codes[k] BY <1>1, <3>1, <3>3, <4>1
        <5>2. QED BY <5>1
      <4>2. CASE ~(codes[k] > W[k - 1])
        <5>1. W[k] = W[k - 1] BY <3>3, <4>2
        <5>2. CASE k - 1 = 0
          <6>1. codes[k] = 0 /\ W[k] = 0 BY <3>2, <3>5, <4>2, <5>1, <5>2
          <6>2. k \in 1 .. k BY <1>1, <3>1
          <6>3. QED BY <6>1, <6>2
        <5>3. CASE k - 1 # 0
          <6>1. PICK j \in 1 .. k - 1 : W[k - 1] = codes[j] BY <3>2, <5>3
          <6>2. j \in 1 .. k BY <1>1, <3>1
          <6>3. QED BY <5>1, <6>1, <6>2
        <5>4. QED BY <5>2, <5>3
      <4>3. QED BY <4>1, <4>2
    <3>9. W[k] \in Nat BY <3>3, <3>5
    <3>10. Right(k) BY <2>5, <3>7, <3>8, <3>9
    <3>11. QED BY <2>3, <3>10
  <2>6. QED BY <2>4, <2>5
<1>7. Right(len)
  <2>1. len \in 0 .. len BY <1>1
  <2>2. QED BY <1>6, <2>1
<1>8. codes = <<>> <=> len = 0 BY DEF len
<1>9. QED BY <1>1, <1>2, <1>7, <1>8

(***************************************************************************)
(* The report of a finished measurement.  The inductive invariant says how *)
(* far the series has come, and that what RunCount collects at each attempt,*)
(* the exit code and one tally per layer, belongs to the recorded attempts.*)
(***************************************************************************)
(* What a finished series reports.                                         *)
Measurement ==
  [exit |-> WorstExitCode(exitCodes), statistics |-> [l \in LayerNames |-> LayerStatistics(l)]]

(* How far the series is, and what it has collected.                       *)
ReportInv ==
  /\ \A k \in DOMAIN attempts : exitCodes[k] = attempts[k].exit
  /\ \A l \in LayerNames :
       counts[l].success + counts[l].fail + counts[l].skip = Len(attempts)
  /\ Active /\ count > 0 => attempt <= count
  /\ pc = "collect" => count > 0
  /\ pc \in {"report", "done"} /\ count > 0 => Len(attempts) = count
  /\ pc = "done" /\ count > 0 => report = Measurement

LEMMA ReportInit == Init => ReportInv
<1> SUFFICES ASSUME Init PROVE ReportInv
  OBVIOUS
<1>1. attempts = <<>> /\ pc = "begin" /\ attempt = 1 /\ count \in Nat
  BY Zenon, CountsAssumption DEF Init
<1>2. \A l \in LayerNames : counts[l] = ZeroTally BY DEF Init
<1>3. DOMAIN attempts = {} /\ Len(attempts) = 0 BY <1>1
<1>4. QED BY <1>1, <1>2, <1>3 DEF ReportInv, ZeroTally

(* A step that leaves what is measured alone.                              *)
LEMMA ReportFrame ==
  ASSUME ReportInv, UNCHANGED <<count, attempt, tallyVars>>,
         Active, pc' \in {"begin", "loop", "probing"} \/ (pc' = "collect" /\ count > 0)
                 \/ (pc' = "report" /\ count = 0)
  PROVE  ReportInv'
<1>1. UNCHANGED <<exitCodes, attempts, counts, durations>> BY DEF tallyVars
<1>2. ~(0 > 0) OBVIOUS
<1>3. QED BY <1>1, <1>2 DEF ReportInv, Active

LEMMA ReportStep ==
  TypeInv /\ TalliesMatchAttempts /\ SignalInv /\ ReportInv /\ [Next]_vars => ReportInv'
<1> SUFFICES ASSUME TypeInv, TalliesMatchAttempts, SignalInv, ReportInv, [Next]_vars
             PROVE  ReportInv'
  OBVIOUS
<1>0. /\ attempt \in Nat \ {0} /\ count \in Nat
      /\ counts \in [LayerNames -> [success : Nat, fail : Nat, skip : Nat]]
      /\ exitCodes \in Seq(ExitCodes) /\ exitCode \in ExitCodes
  BY CountsAssumption DEF TypeInv, TypeOK
<1>1. CASE Begin \/ SkipLayer \/ CallProbe \/ \E r : ProbeReturns(r)
  BY <1>1, ReportFrame
  DEF Begin, SkipLayer, CallProbe, ProbeReturns, Active, runVars
<1>2. CASE Summarize
  <2>1. /\ UNCHANGED <<count, attempt, tallyVars>> /\ pc = "loop"
        /\ pc' = IF count = 0 THEN "report" ELSE "collect"
    BY <1>2 DEF Summarize
  <2>2. count # 0 => count > 0 BY <1>0
  <2>3. QED BY <2>1, <2>2, ReportFrame DEF Active
<1>3. CASE Collect
  <2>1. /\ count' = count /\ pc = "collect"
        /\ exitCodes' = Append(exitCodes, exitCode)
        /\ attempts' = Append(attempts, Recorded)
        /\ counts' = [l \in LayerNames |-> Tally(counts[l], layers[l].status)]
        /\ attempt < count => attempt' = attempt + 1 /\ pc' = "begin"
        /\ ~(attempt < count) => pc' = "report"
    BY <1>3 DEF Collect, Recorded
  <2>2. /\ Len(attempts) \in Nat /\ DOMAIN attempts = 1 .. Len(attempts)
        /\ Len(attempts') = Len(attempts) + 1
        /\ DOMAIN attempts' = 1 .. Len(attempts) + 1
        /\ \A k \in 1 .. Len(attempts) : attempts'[k] = attempts[k]
        /\ layers \in [LayerNames -> Result]
    BY <1>3, CollectAppends
  <2>3. Len(attempts) = attempt - 1 /\ count > 0 /\ attempt <= count
    BY <2>1 DEF SignalInv, ReportInv, Active
  <2>4. Len(exitCodes) = Len(attempts) BY DEF TalliesMatchAttempts
  <2>5. ASSUME NEW k \in DOMAIN attempts' PROVE exitCodes'[k] = attempts'[k].exit
    <3>1. attempts'[Len(attempts) + 1] = Recorded
      <4> DEFINE S == [layers : [LayerNames -> Result], exit : ExitCodes,
                       firstNonOK : LayerNames \cup {""}]
      <4>1. attempts \in Seq(S) BY DEF TypeInv, TypeOK
      <4>2. Recorded \in S BY <2>2 DEF TypeInv, TypeOK, Recorded
      <4> HIDE DEF S
      <4>3. QED BY <2>1, <4>1, <4>2, AppendProperties
    <3>2. exitCodes'[Len(exitCodes) + 1] = exitCode BY <1>0, <2>1
    <3>3. \A i \in 1 .. Len(exitCodes) : exitCodes'[i] = exitCodes[i] BY <1>0, <2>1
    <3>4. CASE k = Len(attempts) + 1 BY <2>4, <3>1, <3>2, <3>4 DEF Recorded
    <3>5. CASE k \in 1 .. Len(attempts) BY <2>2, <2>4, <3>3, <3>5 DEF ReportInv
    <3>6. QED BY <2>2, <2>5, <3>4, <3>5
  <2>6. ASSUME NEW l \in LayerNames
        PROVE  counts'[l].success + counts'[l].fail + counts'[l].skip = Len(attempts')
    <3> DEFINE n == Len(attempts)
               a == counts[l].success
               b == counts[l].fail
               c == counts[l].skip
               status == layers[l].status
    <3>1. n \in Nat /\ a \in Nat /\ b \in Nat /\ c \in Nat BY <1>0, <2>2
    <3>2. a + b + c = n BY DEF ReportInv
    <3>3. status \in Statuses BY <2>2 DEF Result
    <3>4. counts'[l] = Tally(counts[l], status) BY <2>1
    <3>5. /\ counts'[l].success = a + (IF status \in {"ok", "warn"} THEN 1 ELSE 0)
          /\ counts'[l].fail = b + (IF status = "fail" THEN 1 ELSE 0)
          /\ counts'[l].skip = c + (IF status = "skip" THEN 1 ELSE 0)
      BY <3>4 DEF Tally
    <3> HIDE DEF n, a, b, c, status
    <3>6. (a + (IF status \in {"ok", "warn"} THEN 1 ELSE 0))
            + (b + (IF status = "fail" THEN 1 ELSE 0))
            + (c + (IF status = "skip" THEN 1 ELSE 0)) = n + 1
      <4>1. CASE status \in {"ok", "warn"} BY <3>1, <3>2, <4>1
      <4>2. CASE status = "fail" BY <3>1, <3>2, <4>2
      <4>3. CASE status = "skip" BY <3>1, <3>2, <4>3
      <4>4. QED BY <3>3, <4>1, <4>2, <4>3 DEF Statuses
    <3>7. Len(attempts') = n + 1 BY <2>2 DEF n
    <3>8. QED BY <3>5, <3>6, <3>7
  <2>7. Active' => attempt' <= count' /\ pc' # "collect"
    BY <1>0, <2>1, <2>3 DEF Active
  <2>8. pc' \in {"report", "done"} => Len(attempts') = count'
    BY <1>0, <2>1, <2>2, <2>3
  <2>9. pc' # "done" /\ pc' # "collect" BY <2>1
  <2>10. QED BY <2>5, <2>6, <2>7, <2>8, <2>9 DEF ReportInv
<1>4. CASE Report
  <2>1. /\ UNCHANGED <<count, attempt, exitCodes, attempts, counts, durations>>
        /\ pc = "report" /\ pc' = "done"
        /\ count # 0 => report' = Measurement
    BY <1>4 DEF Report, tallyVars, Measurement
  <2>2. count > 0 => count # 0 BY <1>0
  <2>3. Measurement' = Measurement
    BY <2>1 DEF Measurement, LayerStatistics
  <2>4. ~Active' BY <2>1 DEF Active
  <2>5. QED BY <2>1, <2>2, <2>3, <2>4 DEF ReportInv
<1>5. CASE DeadlineFires
  BY <1>5, ReportFrame DEF DeadlineFires, Active, ReportInv
<1>6. CASE Signal
  BY <1>6, ReportFrame DEF Signal, Active, ReportInv
<1>7. CASE UNCHANGED vars
  <2>1. UNCHANGED <<count, attempt, exitCodes, attempts, counts, durations, pc, report>>
    BY <1>7 DEF vars, tallyVars
  <2>2. Measurement' = Measurement BY <2>1 DEF Measurement, LayerStatistics
  <2>3. Active' <=> Active BY <2>1 DEF Active
  <2>4. QED BY <2>1, <2>2, <2>3 DEF ReportInv
<1>8. QED
  BY <1>1, <1>2, <1>3, <1>4, <1>5, <1>6, <1>7 DEF Next, RunnerStep, ProbeReturning

(* The report of a series of attempts is sound.                            *)
LEMMA MeasurementSound ==
  ASSUME TypeInv, TalliesMatchAttempts, ReportInv, pc = "done", count > 0
  PROVE  ReportSound
<1>0. /\ count \in Nat
      /\ counts \in [LayerNames -> [success : Nat, fail : Nat, skip : Nat]]
      /\ exitCodes \in Seq(ExitCodes)
      /\ durations \in [LayerNames -> Seq(Nat)]
  BY CountsAssumption DEF TypeInv, TypeOK
<1>1. Len(attempts) = count /\ report = Measurement BY DEF ReportInv
<1>2. /\ DOMAIN attempts = 1 .. Len(attempts)
      /\ DOMAIN exitCodes = 1 .. Len(exitCodes)
      /\ \A k \in DOMAIN exitCodes : exitCodes[k] \in ExitCodes
  BY <1>0, LenProperties, ElementOfSeq DEF TypeInv, TypeOK
<1>3. DOMAIN exitCodes = DOMAIN attempts /\ 1 \in DOMAIN attempts
  BY <1>0, <1>1, <1>2 DEF TalliesMatchAttempts
<1>4. \A k \in DOMAIN attempts : exitCodes[k] = attempts[k].exit BY DEF ReportInv
<1>5. /\ \E k \in DOMAIN attempts : report.exit = attempts[k].exit
      /\ \A k \in DOMAIN attempts : report.exit >= attempts[k].exit
  <2>1. exitCodes \in Seq(Nat) /\ exitCodes # <<>>
    <3>1. Len(exitCodes) \in Nat /\ exitCodes \in [1 .. Len(exitCodes) -> ExitCodes]
      BY <1>0, LenProperties
    <3>2. exitCodes \in [1 .. Len(exitCodes) -> Nat] BY <3>1 DEF ExitCodes
    <3>3. exitCodes \in Seq(Nat) BY <3>1, <3>2, SeqDef
    <3>4. Len(exitCodes) # 0 BY <1>2, <1>3
    <3>5. QED BY <3>3, <3>4, EmptySeq
  <2>2. report.exit = WorstExitCode(exitCodes) BY <1>1 DEF Measurement
  <2>3. \A k \in DOMAIN exitCodes : exitCodes[k] \in Nat BY <2>1
  <2>4. \A k \in DOMAIN exitCodes : exitCodes[k] <= report.exit BY <2>1, <2>2, WorstIsExact
  <2>5. \E k \in DOMAIN exitCodes : report.exit = exitCodes[k] BY <2>1, <2>2, WorstIsExact
  <2>6. report.exit \in Nat BY <2>3, <2>5
  <2>7. \A k \in DOMAIN attempts : report.exit >= attempts[k].exit
    BY <1>3, <1>4, <2>3, <2>4, <2>6
  <2>8. QED BY <1>3, <1>4, <2>5, <2>7
<1>6. ASSUME NEW l \in LayerNames
      PROVE  LET s == report.statistics[l]
                 ds == {durations[l][i] : i \in DOMAIN durations[l]}
             IN  /\ s.sample = count - s.skip
                 /\ s.loss[2] > 0 /\ 0 <= s.loss[1] /\ s.loss[1] <= s.loss[2]
                 /\ s.p50 # {} <=> s.success > 0
                 /\ s.p95 # {} <=> s.success > 0
                 /\ \A p \in s.p50 : \A q \in s.p95 :
                      /\ q \in ds
                      /\ \E d \in ds : 2 * d <= p
                      /\ p <= 2 * q
  <2> DEFINE s == report.statistics[l]
             t == counts[l]
             d == durations[l]
  <2>1. s = LayerStatistics(l) BY <1>1 DEF Measurement
  <2>2. /\ t.success \in Nat /\ t.fail \in Nat /\ t.skip \in Nat
        /\ d \in Seq(Nat)
    BY <1>0
  <2>3. t.success + t.fail + t.skip = count /\ Len(d) = t.success
    BY <1>1 DEF ReportInv, TalliesMatchAttempts
  <2>4. /\ s.success = t.success /\ s.skip = t.skip /\ s.sample = t.success + t.fail
        /\ s.loss = IF s.sample > 0 THEN <<t.fail, s.sample>> ELSE <<0, 1>>
        /\ s.p50 = IF d # <<>> THEN {P50Doubled(d)} ELSE {}
        /\ s.p95 = IF d # <<>> THEN {P95(d)} ELSE {}
    BY <2>1 DEF LayerStatistics
  <2> HIDE DEF s, t
  <2>5. s.sample = count - s.skip BY <2>2, <2>3, <2>4
  <2>6. s.loss[2] > 0 /\ 0 <= s.loss[1] /\ s.loss[1] <= s.loss[2] BY <2>2, <2>4
  <2>7. d # <<>> <=> s.success > 0
    <3>1. Len(<<>>) = 0 /\ (Len(d) = 0 => d = <<>>) BY <2>2, EmptySeq
    <3>2. QED BY <2>2, <2>3, <2>4, <3>1
  <2>8. ASSUME d # <<>>
        PROVE  /\ P95(d) \in {d[i] : i \in DOMAIN d}
               /\ \E v \in {d[i] : i \in DOMAIN d} : 2 * v <= P50Doubled(d)
               /\ P50Doubled(d) <= 2 * P95(d)
    BY <2>2, <2>8, PercentilesWithin
  <2>9. QED BY <2>4, <2>5, <2>6, <2>7, <2>8 DEF s
<1>7. QED BY <1>1, <1>5, <1>6 DEF ReportSound

(* Whatever --count is, the report of a finished series covers every attempt,*)
(* carries the worst exit code and has statistics that agree with each other.*)
THEOREM ReportIsSound == Spec => []ReportSound
<1> DEFINE Inv == TypeInv /\ TalliesMatchAttempts /\ SignalInv /\ ReportInv
<1>1. Init => Inv BY TypeInit, TallyInit, SignalInit, ReportInit
<1>2. Inv /\ [Next]_vars => Inv' BY TypeStep, TallyStep, SignalStep, ReportStep
<1>3. Inv => ReportSound
  <2>1. Inv /\ pc = "done" /\ count > 0 => ReportSound BY MeasurementSound
  <2>2. ~(pc = "done" /\ count > 0) => ReportSound BY DEF ReportSound
  <2>3. QED BY <2>1, <2>2
<1>4. QED BY <1>1, <1>2, <1>3, PTL DEF Spec

(***************************************************************************)
(* The promise of Pipeline.  Its vocabulary is the runner's own.           *)
(***************************************************************************)
LEMMA SameWords ==
  /\ Promise!LayerNames = LayerNames
  /\ Promise!AllSchemes = AllSchemes
  /\ \A s : Promise!Applicable(s) = Applicable(s)
  /\ \A S : Promise!First(S) = First(S)
  /\ Promise!LayerCodes = LayerCodes
  /\ Promise!NotPublished = -1
<1>1. Promise!LayerNames = LayerNames BY DEF Promise!LayerNames, LayerNames
<1>2. Promise!AllSchemes = AllSchemes BY DEF Promise!AllSchemes, AllSchemes
<1>3. \A s : Promise!Applicable(s) = Applicable(s)
  BY DEF Promise!Applicable, Applicable, Promise!NeedsTLS, NeedsTLS,
         Promise!NeedsHTTP, NeedsHTTP
<1>4. Promise!Rank = Rank BY DEF Promise!Rank, Rank
<1>5. \A S : Promise!First(S) = First(S) BY <1>4 DEF Promise!First, First
<1>6. Promise!LayerCodes = LayerCodes BY DEF Promise!LayerCodes, LayerCodes
<1>7. Promise!NotPublished = -1 BY DEF Promise!NotPublished
<1>8. QED BY <1>1, <1>2, <1>3, <1>5, <1>6, <1>7

(* What the pipeline sees of the runner's state.                           *)
Verdict == [l \in LayerNames |-> VerdictOf(layers[l])]

Published == IF Summarized THEN exitCode ELSE -1

(* The loop fills the results in stack order, one at each step.            *)
FilledInv ==
  /\ pc = "begin" /\ attempts = <<>> => layers = NoLayers
  /\ pc \in {"loop", "probing"} =>
       \A l \in LayerNames : layers[l] = Absent <=> \A i \in 1 .. pos - 1 : Stack[i] # l

LEMMA FilledInit == Init => FilledInv
BY Zenon DEF Init, FilledInv

(* A step that fills in the result of the layer at pos.                    *)
LEMMA FillNext ==
  ASSUME TypeInv, FilledInv, pc \in {"loop", "probing"}, pos \in 1 .. Len(Stack),
         NEW r, r # Absent, layers' = [layers EXCEPT ![Stack[pos]] = r],
         scheme' = scheme, pos' = pos + 1, pc' = "loop"
  PROVE  FilledInv'
<1>1. layers \in [LayerNames -> LayerValue] /\ Len(Stack) \in Nat /\ Stack[pos] \in LayerNames
  <2>1. TypeOK BY DEF TypeInv
  <2>2. Len(Stack) \in Nat /\ \A i \in 1 .. Len(Stack) : Stack[i] \in LayerNames
    BY <2>1, StackTyped
  <2>3. layers \in [LayerNames -> LayerValue] BY <2>1 DEF TypeOK
  <2>4. QED BY <2>2, <2>3
<1>2. Stack' = Stack BY DEF Stack
<1>3. \A i \in 1 .. pos : i \in 1 .. pos - 1 \/ i = pos BY <1>1
<1>4. (1 .. pos - 1) \subseteq 1 .. pos /\ pos \in 1 .. pos /\ pos' - 1 = pos BY <1>1
<1>5. ASSUME NEW l \in LayerNames
      PROVE  layers'[l] = Absent <=> \A i \in 1 .. pos : Stack[i] # l
  <2>1. CASE l = Stack[pos]
    <3>1. layers'[l] = r BY <1>1, <2>1
    <3>2. QED BY <1>4, <2>1, <3>1
  <2>2. CASE l # Stack[pos]
    <3>1. layers'[l] = layers[l] BY <1>1, <2>2
    <3>2. layers[l] = Absent <=> \A i \in 1 .. pos - 1 : Stack[i] # l BY DEF FilledInv
    <3>3. QED BY <1>3, <1>4, <2>2, <3>1, <3>2
  <2>3. QED BY <2>1, <2>2
<1>6. QED BY <1>2, <1>4, <1>5 DEF FilledInv

LEMMA FilledStep == TypeInv /\ FilledInv /\ [Next]_vars => FilledInv'
<1> SUFFICES ASSUME TypeInv, FilledInv, [Next]_vars PROVE FilledInv'
  OBVIOUS
<1>0. /\ DOMAIN Stack = 1 .. Len(Stack) /\ \A i \in 1 .. Len(Stack) : Stack[i] \in LayerNames
  BY StackTyped DEF TypeInv
<1>1. CASE Begin
  <2>1. layers' = NoLayers /\ pos' = 1 /\ pc' = "loop" BY <1>1 DEF Begin
  <2>2. \A i \in 1 .. pos' - 1 : FALSE BY <2>1
  <2>3. QED BY <2>1, <2>2 DEF FilledInv, NoLayers
<1>2. CASE SkipLayer
  <2>1. /\ pc = "loop" /\ pc' = "loop" /\ pos \in 1 .. Len(Stack) /\ pos' = pos + 1
        /\ scheme' = scheme /\ layers' = [layers EXCEPT ![Stack[pos]] = SkipResult]
    BY <1>0, <1>2 DEF SkipLayer
  <2>2. QED BY <2>1, FillNext, SkipResultType
<1>3. ASSUME NEW r, ProbeReturns(r) PROVE FilledInv'
  <2>1. /\ pc = "probing" /\ pc' = "loop" /\ pos \in 1 .. Len(Stack) /\ pos' = pos + 1
        /\ scheme' = scheme /\ layers' = [layers EXCEPT ![Stack[pos]] = r]
        /\ r \in Outcomes[Stack[pos]]
    BY <1>3 DEF ProbeReturns, TypeInv
  <2>2. r \in Result BY <1>0, <2>1, OutcomesTyped
  <2>3. QED BY <2>1, <2>2, FillNext, SkipResultType
<1>4. CASE Summarize
  BY <1>4 DEF Summarize, FilledInv
<1>5. CASE Collect
  <2>1. attempts' # <<>>
    <3>1. Len(attempts') = Len(attempts) + 1 /\ Len(attempts) \in Nat
      BY <1>5, CollectAppends
    <3>2. QED BY <3>1
  <2>2. pc' \in {"begin", "report"} BY <1>5 DEF Collect
  <2>3. QED BY <2>1, <2>2 DEF FilledInv
<1>6. CASE CallProbe \/ DeadlineFires \/ Signal \/ UNCHANGED vars
  <2>1. /\ UNCHANGED <<scheme, layers, pos, attempts>>
        /\ pc' = "begin" => pc = "begin"
        /\ pc' \in {"loop", "probing"} => pc \in {"loop", "probing"}
    BY <1>6 DEF CallProbe, DeadlineFires, Signal, vars, runVars, tallyVars
  <2>2. Stack' = Stack BY <2>1 DEF Stack
  <2>3. QED BY <2>1, <2>2 DEF FilledInv
<1>7. CASE Report
  BY <1>7 DEF Report, FilledInv
<1>8. QED
  BY <1>1, <1>2, <1>3, <1>4, <1>5, <1>6, <1>7 DEF Next, RunnerStep, ProbeReturning

(* What VerdictOf says of the results.                                     *)
LEMMA VerdictFacts ==
  /\ VerdictOf(Absent) = "pending" /\ VerdictOf(SkipResult) = "cut"
  /\ \A r \in Result :
       /\ VerdictOf(r) # "pending"
       /\ Executed(r) => VerdictOf(r) = r.status
       /\ ~Executed(r) => VerdictOf(r) = "cut"
<1>1. SkipResult # Absent /\ Absent \notin Result BY SkipResultType
<1>2. \A r \in Result : r.status # "pending" BY DEF Result, Statuses
<1>3. QED BY <1>1, <1>2, NotExecuted DEF VerdictOf

(* The layer at pos is the first one not decided yet.                      *)
LEMMA NextUndecided ==
  ASSUME TypeInv, WalkInv, FilledInv, pc \in {"loop", "probing"}, pos \in 1 .. Len(Stack)
  PROVE  /\ Stack[pos] \in Promise!Undecided
         /\ Stack[pos] = Promise!First(Promise!Undecided)
<1> DEFINE U == {l \in Applicable(scheme) : VerdictOf(layers[l]) = "pending"}
           x == Stack[pos]
<1>1. Promise!Undecided = U
  <2>1. Applicable(scheme) \subseteq LayerNames BY DEF Applicable, LayerNames
  <2>2. QED BY <2>1, SameWords DEF Promise!Undecided
<1>2. /\ x \in Applicable(scheme) /\ x \in LayerNames
      /\ \A l \in Applicable(scheme) :
           Rank[l] < Rank[x] => \E i \in 1 .. pos - 1 : Stack[i] = l
  BY AtPos
<1>3. /\ scheme \in AllSchemes /\ Len(Stack) \in Nat
  BY StackTyped DEF TypeInv
<1>4. \A i, j \in 1 .. Len(Stack) : i < j => Rank[Stack[i]] < Rank[Stack[j]]
  BY <1>3, StackFacts DEF Stack
<1>5. \A l \in LayerNames : VerdictOf(layers[l]) = "pending" => layers[l] = Absent
  <2>1. \A l \in LayerNames : layers[l] \in Result \cup {Absent}
    BY DEF TypeInv, TypeOK, LayerValue
  <2>2. QED BY <2>1, VerdictFacts
<1>6. \A i \in 1 .. pos - 1 : Stack[i] # x
  <2>1. \A i \in 1 .. pos - 1 : i \in 1 .. Len(Stack) /\ i < pos BY <1>3
  <2>2. \A i \in 1 .. pos - 1 : Rank[Stack[i]] < Rank[Stack[pos]] BY <1>4, <2>1
  <2>3. ~(Rank[x] < Rank[x]) BY <1>2, RankType
  <2>4. QED BY <2>2, <2>3
<1>7. x \in U
  <2>1. layers[x] = Absent BY <1>2, <1>6 DEF FilledInv
  <2>2. QED BY <1>2, <2>1, VerdictFacts
<1>8. ASSUME NEW m \in U PROVE Rank[x] <= Rank[m] /\ (Rank[m] <= Rank[x] => m = x)
  <2>1. m \in LayerNames /\ m \in Applicable(scheme) BY DEF Applicable, LayerNames
  <2>2. layers[m] = Absent BY <1>5, <2>1
  <2>3. \A i \in 1 .. pos - 1 : Stack[i] # m BY <2>1, <2>2 DEF FilledInv
  <2>4. ~(Rank[m] < Rank[x]) BY <1>2, <2>1, <2>3
  <2>5. Rank[m] \in Int /\ Rank[x] \in Int BY <1>2, <2>1, RankType
  <2>6. Rank[m] = Rank[x] => m = x BY <1>2, <2>1 DEF Rank, LayerNames
  <2>7. QED BY <2>4, <2>5, <2>6
<1>9. U \in SUBSET LayerNames /\ U # {} BY <1>7 DEF Applicable, LayerNames
<1> HIDE DEF U, x
<1>10. First(U) \in U /\ \A m \in U : Rank[First(U)] <= Rank[m] BY <1>9, FirstFacts
<1>11. First(U) = x BY <1>7, <1>8, <1>10
<1>12. QED BY <1>1, <1>7, <1>11, SameWords DEF x

(* While the loop runs nothing is published.                               *)
LEMMA NotYetPublished ==
  ASSUME pc \in {"loop", "probing"}
  PROVE  Published = -1
BY DEF Published, Summarized

(* Filling in the layer at pos decides it.                                 *)
LEMMA FillDecides ==
  ASSUME TypeInv, WalkInv, FilledInv, pc \in {"loop", "probing"}, pos \in 1 .. Len(Stack),
         NEW r, layers' = [layers EXCEPT ![Stack[pos]] = r],
         scheme' = scheme, pc' = "loop"
  PROVE  Promise!Decide(Stack[pos], VerdictOf(r))
<1>1. /\ Stack[pos] \in Promise!Undecided
      /\ Stack[pos] = Promise!First(Promise!Undecided)
  BY NextUndecided
<1>2. Published = -1 /\ Published' = -1 BY DEF Published, Summarized
<1>3. layers \in [LayerNames -> LayerValue] /\ Stack[pos] \in LayerNames
  BY AtPos DEF TypeInv, TypeOK
<1>4. Verdict' = [Verdict EXCEPT ![Stack[pos]] = VerdictOf(r)]
  BY <1>3 DEF Verdict
<1>5. QED BY <1>1, <1>2, <1>4, SameWords DEF Promise!Decide, Verdict, Published

(* What a probe may conclude is what the pipeline allows its layer.        *)
LEMMA PossibleVerdict ==
  ASSUME NEW l \in LayerNames, NEW r, MeetsContract(l, r)
  PROVE  VerdictOf(r) \in Promise!Possible(l)
<1>1. r \in Result /\ Executed(r) BY DEF MeetsContract, Executed
<1>2. VerdictOf(r) = r.status BY <1>1, VerdictFacts
<1>3. <<r.status, r.code>> \in Conclusions[l] BY DEF MeetsContract
<1>4. CASE l = "dns"
  BY <1>2, <1>3, <1>4 DEF Conclusions, DNSConclusions, OK, With, Promise!Possible
<1>5. CASE l = "reachability"
  BY <1>2, <1>3, <1>5 DEF Conclusions, ReachabilityConclusions, OK, With, Promise!Possible
<1>6. CASE l = "tcp"
  BY <1>2, <1>3, <1>6 DEF Conclusions, TCPConclusions, OK, With, Promise!Possible
<1>7. CASE l = "tls"
  BY <1>2, <1>3, <1>7 DEF Conclusions, TLSConclusions, OK, With, Promise!Possible
<1>8. CASE l = "http"
  BY <1>2, <1>3, <1>8 DEF Conclusions, HTTPConclusions, OK, With, Promise!Possible
<1>9. QED BY <1>4, <1>5, <1>6, <1>7, <1>8 DEF LayerNames

(* While a probe is under way no layer has failed or been cut off.         *)
LEMMA ProbingNotHalted ==
  ASSUME TypeInv, WalkInv, FilledInv, pc = "probing"
  PROVE  ~Promise!Halted
<1>1. ASSUME NEW l \in LayerNames PROVE VerdictOf(layers[l]) \notin {"fail", "cut"}
  <2>1. CASE layers[l] = Absent BY <2>1, VerdictFacts
  <2>2. CASE layers[l] # Absent
    <3>1. PICK i \in 1 .. pos - 1 : Stack[i] = l BY <2>2 DEF FilledInv
    <3>2. Executed(layers[l]) /\ layers[l].status # "fail"
      BY <3>1 DEF WalkInv, Probing
    <3>3. layers[l] \in Result /\ layers[l].status \in Statuses
      BY <2>2 DEF TypeInv, TypeOK, LayerValue, Result
    <3>4. VerdictOf(layers[l]) = layers[l].status BY <3>2, <3>3, VerdictFacts
    <3>5. QED BY <3>2, <3>3, <3>4 DEF Statuses
  <2>3. QED BY <2>1, <2>2
<1>2. QED BY <1>1, SameWords DEF Promise!Halted

(* The verdicts of a finished walk and its exit code.                      *)
LEMMA ExitOfVerdicts ==
  ASSUME NEW ls \in [LayerNames -> Result], NEW first, NEW v,
         Agree(ls, FromResult(ls), first),
         \A l \in LayerNames : Sound(l, ls[l]),
         \A l \in LayerNames : v[l] = VerdictOf(ls[l])
  PROVE  Promise!ExitOf(v) = FromResult(ls)
<1>1. \A l \in LayerNames :
        ls[l].status \in {"ok", "warn", "fail"} => VerdictOf(ls[l]) = ls[l].status
  BY SoundFacts, VerdictFacts
<1>2. \A l \in LayerNames :
        VerdictOf(ls[l]) \in {"warn", "fail"} => ls[l].status = VerdictOf(ls[l])
  BY VerdictFacts
<1>3. \A l \in LayerNames : v[l] = "fail" <=> ls[l].status = "fail" BY <1>1, <1>2
<1>4. \A l \in LayerNames : v[l] = "warn" <=> ls[l].status = "warn" BY <1>1, <1>2
<1>5. \A l \in LayerNames : ls[l].status = "fail" => FromResult(ls) = LayerCodes[l]
  BY DEF Agree
<1>6. CASE \E l \in LayerNames : v[l] = "fail"
  <2>1. Promise!ExitOf(v) = LayerCodes[CHOOSE l \in LayerNames : v[l] = "fail"]
    BY <1>6, SameWords DEF Promise!ExitOf
  <2>2. QED BY <1>3, <1>5, <1>6, <2>1
<1>7. CASE ~(\E l \in LayerNames : v[l] = "fail") /\ \E l \in LayerNames : v[l] = "warn"
  <2>1. Promise!ExitOf(v) = 2 BY <1>7, SameWords DEF Promise!ExitOf
  <2>2. WithStatus(ls, "fail") = {} /\ WithStatus(ls, "warn") # {}
    BY <1>3, <1>4, <1>7 DEF WithStatus
  <2>3. QED BY <2>1, <2>2 DEF Agree
<1>8. CASE ~\E l \in LayerNames : v[l] \in {"fail", "warn"}
  <2>1. Promise!ExitOf(v) = 0 BY <1>8, SameWords DEF Promise!ExitOf
  <2>2. WithStatus(ls, "fail") = {} /\ WithStatus(ls, "warn") = {}
    BY <1>3, <1>4, <1>8 DEF WithStatus
  <2>3. FromResult(ls) = 0 BY <2>2 DEF FromResult
  <2>4. QED BY <2>1, <2>3
<1>9. QED BY <1>6, <1>7, <1>8

(* The walk is over when every layer the target needs is decided.          *)
LEMMA AllDecided ==
  ASSUME TypeInv, FilledInv, pc = "loop", pos \notin DOMAIN Stack
  PROVE  Promise!Undecided = {}
<1>1. /\ scheme \in AllSchemes /\ DOMAIN Stack = 1 .. Len(Stack) /\ Len(Stack) \in Nat
      /\ pos \in 1 .. Len(Stack) + 1
  <2>1. TypeOK BY DEF TypeInv
  <2>2. pos \in 1 .. Len(Stack) + 1 BY <2>1 DEF TypeOK
  <2>3. QED BY <2>1, <2>2, StackTyped
<1>2. pos - 1 = Len(Stack) BY <1>1
<1>3. \A l \in Applicable(scheme) : \E i \in 1 .. Len(Stack) : Stack[i] = l
  BY <1>1, StackFacts DEF Stack
<1>4. ASSUME NEW l \in Applicable(scheme) PROVE VerdictOf(layers[l]) # "pending"
  <2>1. l \in LayerNames BY DEF Applicable, LayerNames
  <2>2. layers[l] # Absent BY <1>2, <1>3, <2>1 DEF FilledInv
  <2>3. layers[l] \in Result BY <2>1, <2>2 DEF TypeInv, TypeOK, LayerValue
  <2>4. QED BY <2>3, VerdictFacts
<1>5. Applicable(scheme) \subseteq LayerNames BY DEF Applicable, LayerNames
<1>6. QED BY <1>4, <1>5, SameWords DEF Promise!Undecided

(* The summary of RunOnce publishes the diagnosis.                         *)
LEMMA SummarizePublishes ==
  ASSUME TypeInv, WalkInv, ExitInv, FilledInv, Summarize, TypeInv', ExitInv'
  PROVE  Promise!Publish
<1>1. /\ pc = "loop" /\ pos \notin DOMAIN Stack /\ pc' \in {"report", "collect"}
      /\ layers' = [l \in LayerNames |->
                      IF layers[l] = Absent THEN SkipResult ELSE layers[l]]
      /\ exitCode' = FromResult(layers') /\ scheme' = scheme
  BY DEF Summarize
<1>2. Promise!Undecided = {} BY <1>1, AllDecided
<1>3. Published = -1 /\ Published' = exitCode' /\ Summarized' BY <1>1 DEF Published, Summarized
<1>4. layers' \in [LayerNames -> Result] BY <1>1 DEF TypeInv
<1>5. \A l \in LayerNames : Sound(l, layers'[l])
  BY <1>1 DEF ExitInv, Sound
<1>6. Agree(layers', FromResult(layers'), firstNonOK')
  BY <1>1, <1>3 DEF ExitInv, ExitCodeNamesTheFailure
<1>7. \A l \in LayerNames : Verdict'[l] = VerdictOf(layers'[l]) BY DEF Verdict
<1>8. Published' = Promise!ExitOf(Verdict')
  BY <1>1, <1>3, <1>4, <1>5, <1>6, <1>7, ExitOfVerdicts
<1>9. Verdict' = [l \in LayerNames |-> IF Verdict[l] = "pending" THEN "cut" ELSE Verdict[l]]
  <2>1. \A l \in LayerNames : layers[l] \in Result \cup {Absent}
    BY DEF TypeInv, TypeOK, LayerValue
  <2>2. \A l \in LayerNames :
          VerdictOf(layers'[l]) =
            IF VerdictOf(layers[l]) = "pending" THEN "cut" ELSE VerdictOf(layers[l])
    BY <1>1, <2>1, VerdictFacts
  <2>3. QED BY <2>2 DEF Verdict
<1>10. QED BY <1>1, <1>2, <1>3, <1>8, <1>9, SameWords DEF Promise!Publish, Verdict, Published

LEMMA PromiseInit == Init => Promise!Init
<1> SUFFICES ASSUME Init PROVE Promise!Init
  OBVIOUS
<1>1. layers = NoLayers /\ pc = "begin" /\ attempts = <<>> /\ scheme \in Schemes
  BY Zenon DEF Init
<1>2. Published = -1 BY <1>1 DEF Published, Summarized
<1>3. Verdict = [l \in LayerNames |-> "pending"] BY <1>1, VerdictFacts DEF Verdict, NoLayers
<1>4. scheme \in AllSchemes BY <1>1, SchemesAssumption
<1>5. QED BY <1>2, <1>3, <1>4, SameWords DEF Promise!Init, Verdict, Published

(* A step the pipeline does not see.                                       *)
LEMMA PromiseStutter ==
  ASSUME UNCHANGED <<scheme, layers, exitCode>>, Summarized' <=> Summarized
  PROVE  UNCHANGED Promise!vars
BY DEF Promise!vars

LEMMA PromiseStep ==
  TypeInv /\ WalkInv /\ ExitInv /\ FilledInv /\ TypeInv' /\ ExitInv' /\ [Next]_vars
    => [Promise!Next]_(Promise!vars)
<1> SUFFICES ASSUME TypeInv, WalkInv, ExitInv, FilledInv, TypeInv', ExitInv', [Next]_vars
             PROVE  [Promise!Next]_(Promise!vars)
  OBVIOUS
<1>0. DOMAIN Stack = 1 .. Len(Stack) BY StackTyped DEF TypeInv
<1>1. CASE Begin
  <2>1. /\ pc = "begin" /\ pc' = "loop" /\ layers' = NoLayers
        /\ UNCHANGED <<scheme, exitCode, attempts>>
    BY <1>1 DEF Begin, tallyVars
  <2>2. CASE attempts = <<>>
    <3>1. ~Summarized /\ ~Summarized' BY <2>1, <2>2 DEF Summarized
    <3>2. layers' = layers BY <2>1, <2>2 DEF FilledInv
    <3>3. QED BY <2>1, <3>1, <3>2, PromiseStutter
  <2>3. CASE attempts # <<>>
    <3>1. Summarized /\ ~Summarized' BY <2>1, <2>3 DEF Summarized
    <3>2. Published # -1 /\ Published' = -1
      <4>1. exitCode \in ExitCodes BY DEF TypeInv, TypeOK
      <4>2. exitCode # -1 BY <4>1 DEF ExitCodes
      <4>3. QED BY <3>1, <4>2 DEF Published
    <3>3. Verdict' = [l \in LayerNames |-> "pending"]
      BY <2>1, VerdictFacts DEF Verdict, NoLayers
    <3>4. Promise!Repeat
      BY <2>1, <3>2, <3>3, SameWords DEF Promise!Repeat, Verdict, Published
    <3>5. QED BY <3>4 DEF Promise!Next
  <2>4. QED BY <2>2, <2>3
<1>2. CASE SkipLayer
  <2>1. /\ pc = "loop" /\ pc' = "loop" /\ pos \in 1 .. Len(Stack)
        /\ scheme' = scheme /\ layers' = [layers EXCEPT ![Stack[pos]] = SkipResult]
    BY <1>0, <1>2 DEF SkipLayer
  <2>2. Stack[pos] \in LayerNames BY <2>1, AtPos
  <2>3. Promise!CutOff(Stack[pos]) BY <2>1, FillDecides, VerdictFacts DEF Promise!CutOff
  <2>4. QED BY <2>2, <2>3, SameWords DEF Promise!Next
<1>3. ASSUME NEW r, ProbeReturns(r) PROVE Promise!Next
  <2>1. /\ pc = "probing" /\ pc' = "loop" /\ pos \in 1 .. Len(Stack)
        /\ scheme' = scheme /\ layers' = [layers EXCEPT ![Stack[pos]] = r]
        /\ r \in Outcomes[Stack[pos]]
    BY <1>3 DEF ProbeReturns, TypeInv
  <2>2. Stack[pos] \in LayerNames BY <2>1, AtPos
  <2>3. VerdictOf(r) \in Promise!Possible(Stack[pos])
    BY <2>1, <2>2, OutcomesTyped, PossibleVerdict
  <2>4. Promise!Decide(Stack[pos], VerdictOf(r)) BY <2>1, FillDecides
  <2>5. ~Promise!Halted BY <2>1, ProbingNotHalted
  <2>6. Promise!Execute(Stack[pos]) BY <2>3, <2>4, <2>5 DEF Promise!Execute
  <2>7. QED BY <2>2, <2>6, SameWords DEF Promise!Next
<1>4. CASE Summarize
  BY <1>4, SummarizePublishes DEF Promise!Next
<1>5. CASE Collect
  <2>1. pc = "collect" /\ pc' \in {"begin", "report"} /\ UNCHANGED <<scheme, layers, exitCode>>
    BY <1>5 DEF Collect, runVars
  <2>2. attempts' # <<>>
    <3>1. Len(attempts') = Len(attempts) + 1 /\ Len(attempts) \in Nat
      BY <1>5, CollectAppends
    <3>2. QED BY <3>1
  <2>3. Summarized /\ Summarized' BY <2>1, <2>2 DEF Summarized
  <2>4. QED BY <2>1, <2>3, PromiseStutter
<1>6. CASE CallProbe \/ Report \/ DeadlineFires \/ Signal \/ UNCHANGED vars
  <2>1. UNCHANGED <<scheme, layers, exitCode, attempts>>
    BY <1>6 DEF CallProbe, Report, DeadlineFires, Signal, vars, runVars, tallyVars
  <2>2. \/ pc' = pc
        \/ pc = "loop" /\ pc' = "probing"
        \/ pc = "report" /\ pc' = "done"
    BY <1>6 DEF CallProbe, Report, DeadlineFires, Signal, vars
  <2>3. Summarized' <=> Summarized BY <2>1, <2>2 DEF Summarized
  <2>4. QED BY <2>1, <2>3, PromiseStutter
<1>7. QED
  BY <1>1, <1>2, <1>3, <1>4, <1>5, <1>6 DEF Next, RunnerStep, ProbeReturning

(* Wherever deadlines and signals fall, every step of the runner is a step of*)
(* Pipeline or one it does not see: layers are decided bottom up, nothing is*)
(* executed after a failure or a cut, and the published code is that of the*)
(* verdicts.                                                               *)
THEOREM RunnerKeepsPromise == Spec => ImplementsPipeline
<1> DEFINE Inv == TypeInv /\ WalkInv /\ ExitInv /\ FilledInv
<1>1. Init => Inv /\ Promise!Init
  BY TypeInit, WalkInit, ExitInit, FilledInit, PromiseInit
<1>2. Inv /\ [Next]_vars => Inv' /\ [Promise!Next]_(Promise!vars)
  BY TypeStep, WalkStep, ExitStep, FilledStep, PromiseStep
<1>3. QED BY <1>1, <1>2, PTL DEF Spec, ImplementsPipeline, Promise!Spec

(***************************************************************************)
(* What the renderers show.  All five layers are in a finished result, so  *)
(* that each line stands at its layer's place in LayerOrder, and the marks *)
(* are the statuses.  RenderInv adds to the runner's invariants what only  *)
(* a reader of the table needs.                                            *)
(***************************************************************************)
(* The layers in order, and the places they have in it.                    *)
LEMMA OrderFacts ==
  /\ Len(LayerOrder) = 5 /\ DOMAIN LayerOrder = 1 .. 5
  /\ \A k \in 1 .. 5 : LayerOrder[k] \in LayerNames /\ Rank[LayerOrder[k]] = k
  /\ \A l \in LayerNames : Rank[l] \in 1 .. 5 /\ LayerOrder[Rank[l]] = l
<1>1. /\ LayerOrder[1] = "dns" /\ LayerOrder[2] = "reachability" /\ LayerOrder[3] = "tcp"
      /\ LayerOrder[4] = "tls" /\ LayerOrder[5] = "http"
      /\ Len(LayerOrder) = 5 /\ DOMAIN LayerOrder = 1 .. 5
  BY DEF LayerOrder
<1>2. \A k \in 1 .. 5 : k = 1 \/ k = 2 \/ k = 3 \/ k = 4 \/ k = 5 OBVIOUS
<1>3. \A k \in 1 .. 5 : LayerOrder[k] \in LayerNames /\ Rank[LayerOrder[k]] = k
  BY <1>1, <1>2 DEF LayerNames, Rank
<1>4. \A l \in LayerNames : Rank[l] \in 1 .. 5 /\ LayerOrder[Rank[l]] = l
  BY <1>1 DEF LayerNames, Rank
<1>5. QED BY <1>1, <1>3, <1>4

(* Each prefix of the order is the one before it with the next layer.      *)
LEMMA LayersUpTo ==
  ASSUME NEW k \in 1 .. 5
  PROVE  SubSeq(LayerOrder, 1, k) = Append(SubSeq(LayerOrder, 1, k - 1), LayerOrder[k])
<1>1. LayerOrder \in Seq(LayerNames) /\ Len(LayerOrder) = 5 BY DEF LayerOrder, LayerNames
<1>2. QED BY <1>1

(* The loop over LayerOrder writes all of it when nothing is missing.      *)
LEMMA AllInOrder == InLayerOrder(LayerNames) = LayerOrder
<1> DEFINE Step(f, k) ==
             IF k = 0 THEN <<>>
             ELSE IF LayerOrder[k] \in LayerNames THEN Append(f[k - 1], LayerOrder[k])
             ELSE f[k - 1]
           upTo[k \in 0 .. Len(LayerOrder)] ==
             IF k = 0 THEN <<>>
             ELSE IF LayerOrder[k] \in LayerNames THEN Append(upTo[k - 1], LayerOrder[k])
             ELSE upTo[k - 1]
           written == [k \in 0 .. 5 |-> SubSeq(LayerOrder, 1, k)]
<1>1. written = [k \in 0 .. Len(LayerOrder) |-> Step(written, k)]
  <2>1. LayerOrder \in Seq(LayerNames) BY DEF LayerOrder, LayerNames
  <2>2. ASSUME NEW k \in 1 .. 5 PROVE written[k] = Step(written, k)
    <3>1. SubSeq(LayerOrder, 1, k) = Append(SubSeq(LayerOrder, 1, k - 1), LayerOrder[k])
      BY <2>1, OrderFacts, LayersUpTo
    <3>2. written[k] = SubSeq(LayerOrder, 1, k) /\ written[k - 1] = SubSeq(LayerOrder, 1, k - 1)
      OBVIOUS
    <3>3. LayerOrder[k] \in LayerNames /\ k # 0 BY OrderFacts
    <3> HIDE DEF written
    <3>4. QED BY <3>1, <3>2, <3>3
  <2>3. written[0] = <<>> BY <2>1
  <2>4. Step(written, 0) = <<>> OBVIOUS
  <2> HIDE DEF Step
  <2>5. \A k \in 0 .. 5 : written[k] = Step(written, k)
    <3>1. \A k \in 0 .. 5 : k = 0 \/ k \in 1 .. 5 OBVIOUS
    <3> HIDE DEF written
    <3>2. QED BY <2>2, <2>3, <2>4, <3>1
  <2>6. QED BY <2>5, OrderFacts
<1>2. upTo = [k \in 0 .. Len(LayerOrder) |-> Step(upTo, k)]
  BY <1>1
<1>3. InLayerOrder(LayerNames) = upTo[5]
  BY OrderFacts DEF InLayerOrder
<1> HIDE DEF upTo
<1>4. /\ upTo[0] = <<>>
      /\ \A k \in 1 .. 5 : upTo[k] = Append(upTo[k - 1], LayerOrder[k])
  <2> HIDE DEF Step
  <2>1. \A k \in 0 .. 5 : upTo[k] = Step(upTo, k) BY <1>2, OrderFacts
  <2>2. upTo[0] = Step(upTo, 0) BY <2>1
  <2>3. \A k \in 1 .. 5 : upTo[k] = Step(upTo, k) BY <2>1
  <2> USE DEF Step
  <2>4. upTo[0] = <<>> BY <2>2
  <2>5. ASSUME NEW k \in 1 .. 5 PROVE upTo[k] = Append(upTo[k - 1], LayerOrder[k])
    <3>1. LayerOrder[k] \in LayerNames /\ k # 0 BY OrderFacts
    <3>2. upTo[k] = Step(upTo, k) BY <2>3
    <3>3. QED BY <3>1, <3>2
  <2>6. QED BY <2>4, <2>5
<1> HIDE DEF Step
<1>5. upTo[5] = LayerOrder
  <2> DEFINE first(k) == SubSeq(LayerOrder, 1, k)
  <2>1. LayerOrder \in Seq(LayerNames) BY DEF LayerOrder, LayerNames
  <2>2. first(0) = <<>> /\ first(5) = LayerOrder BY <2>1, OrderFacts
  <2>3. \A k \in 1 .. 5 : first(k) = Append(first(k - 1), LayerOrder[k]) BY LayersUpTo
  <2> HIDE DEF first
  <2>4. ASSUME NEW k \in 1 .. 5, upTo[k - 1] = first(k - 1) PROVE upTo[k] = first(k)
    BY <1>4, <2>3, <2>4
  <2>5. upTo[1] = first(1) BY <1>4, <2>2, <2>4
  <2>6. upTo[2] = first(2) BY <2>4, <2>5
  <2>7. upTo[3] = first(3) BY <2>4, <2>6
  <2>8. upTo[4] = first(4) BY <2>4, <2>7
  <2>9. upTo[5] = first(5) BY <2>4, <2>8
  <2>10. QED BY <2>2, <2>9
<1>6. QED BY <1>3, <1>5

(* The lines of a complete result: one for each layer, at its place.       *)
LEMMA LinesFacts ==
  ASSUME NEW ls \in [LayerNames -> Result]
  PROVE  /\ LayersKeys(ls) = LayerOrder
         /\ DOMAIN LayerLines(ls) = 1 .. 5
         /\ \A k \in 1 .. 5 : LayerLines(ls)[k] = LayerLine(LayerOrder[k], ls[LayerOrder[k]])
         /\ \A l \in LayerNames : LayerLines(ls)[Rank[l]] = LayerLine(l, ls[l])
<1>1. {l \in LayerNames : ls[l] # Absent} = LayerNames BY SkipResultType
<1>2. Present(ls) = LayerOrder BY <1>1, AllInOrder DEF Present
<1>3. LayersKeys(ls) = LayerOrder BY <1>1, AllInOrder DEF LayersKeys, WriteOrderedMap
<1>4. LayerLines(ls) = [k \in 1 .. 5 |-> LayerLine(LayerOrder[k], ls[LayerOrder[k]])]
  BY <1>2, OrderFacts DEF LayerLines
<1>5. QED BY <1>3, <1>4, OrderFacts

(* What a line says of its result.                                         *)
LEMMA LineSays ==
  ASSUME NEW l, NEW r \in Result
  PROVE  /\ LayerLine(l, r).name = l
         /\ LayerLine(l, r).mark = "[FAIL]" <=> r.status = "fail"
         /\ LayerLine(l, r).mark = "[!!]" <=> r.status = "warn"
         /\ LayerLine(l, r).mark = "[ok]" <=> r.status = "ok"
         /\ LayerLine(l, r).shown = FormatDuration(r.dur)
         /\ LayerLine(l, r).description = LayerDescription(l, r)
<1>1. r.status \in {"ok", "warn", "fail", "skip"} BY DEF Result, Statuses
<1>2. LayerLine(l, r).mark = StatusSymbol[r.status] BY DEF LayerLine
<1>3. /\ StatusSymbol["ok"] = "[ok]" /\ StatusSymbol["warn"] = "[!!]"
      /\ StatusSymbol["fail"] = "[FAIL]" /\ StatusSymbol["skip"] = "[skip]"
  BY DEF StatusSymbol
<1>4. QED BY <1>1, <1>2, <1>3 DEF LayerLine

(* The marks are at the places of the layers with the status they mark.    *)
LEMMA MarkedFacts ==
  ASSUME NEW ls \in [LayerNames -> Result]
  PROVE  /\ Marked(LayerLines(ls), "[FAIL]") = {Rank[l] : l \in WithStatus(ls, "fail")}
         /\ Marked(LayerLines(ls), "[!!]") = {Rank[l] : l \in WithStatus(ls, "warn")}
<1>1. \A k \in 1 .. 5 : /\ LayerLines(ls)[k].mark = "[FAIL]" <=> ls[LayerOrder[k]].status = "fail"
                        /\ LayerLines(ls)[k].mark = "[!!]" <=> ls[LayerOrder[k]].status = "warn"
  BY LinesFacts, LineSays, OrderFacts
<1>2. ASSUME NEW s \in Statuses
      PROVE  {k \in 1 .. 5 : ls[LayerOrder[k]].status = s} = {Rank[l] : l \in WithStatus(ls, s)}
  BY OrderFacts DEF WithStatus
<1>3. DOMAIN LayerLines(ls) = 1 .. 5 BY LinesFacts
<1>4. Marked(LayerLines(ls), "[FAIL]") = {k \in 1 .. 5 : ls[LayerOrder[k]].status = "fail"}
  BY <1>1, <1>3 DEF Marked
<1>5. Marked(LayerLines(ls), "[!!]") = {k \in 1 .. 5 : ls[LayerOrder[k]].status = "warn"}
  BY <1>1, <1>3 DEF Marked
<1>6. QED BY <1>2, <1>4, <1>5 DEF Statuses

(* The least of some places.                                               *)
LEMMA LeastPlace ==
  ASSUME NEW S \in SUBSET (1 .. 5), S # {}
  PROVE  Min(S) \in S /\ \A k \in S : Min(S) <= k
<1>1. \E m \in S : \A k \in S : m <= k BY LeastOf
<1>2. QED BY <1>1 DEF Min

(* What first_non_ok_layer may name.                                       *)
IssueNames == LayerNames \cup {""}

(* The lines of a run say what exit code it has.                           *)
LEMMA LinesTellExit ==
  ASSUME NEW ls \in [LayerNames -> Result], NEW published,
         NEW first \in IssueNames, Agree(ls, published, first)
  PROVE  ReadOff(LayerLines(ls)) = published
<1> DEFINE lines == LayerLines(ls)
           failing == Marked(lines, "[FAIL]")
           warned == Marked(lines, "[!!]")
<1>1. /\ failing = {Rank[l] : l \in WithStatus(ls, "fail")}
      /\ warned = {Rank[l] : l \in WithStatus(ls, "warn")}
  BY MarkedFacts
<1>2. failing # {} => LayerCodes[lines[Min(failing)].name] = published
  <2>1. SUFFICES ASSUME failing # {} PROVE LayerCodes[lines[Min(failing)].name] = published
    OBVIOUS
  <2>2. failing \in SUBSET (1 .. 5) BY <1>1, OrderFacts DEF WithStatus
  <2> HIDE DEF failing
  <2>3. PICK l \in WithStatus(ls, "fail") : Min(failing) = Rank[l]
    BY <1>1, <2>1, <2>2, LeastPlace
  <2>4. l \in LayerNames /\ ls[l].status = "fail" BY DEF WithStatus
  <2>5. lines[Min(failing)] = LayerLine(l, ls[l]) BY <2>3, <2>4, LinesFacts
  <2>6. LayerLine(l, ls[l]).name = l BY <2>4, LineSays
  <2> HIDE DEF lines
  <2>7. QED BY <2>4, <2>5, <2>6 DEF Agree
<1> DEFINE image(S) == {Rank[l] : l \in S}
<1>3. \A S : image(S) = {} <=> S = {} OBVIOUS
<1>4. (failing = {} <=> WithStatus(ls, "fail") = {}) /\ (warned = {} <=> WithStatus(ls, "warn") = {})
  <2>1. failing = image(WithStatus(ls, "fail")) /\ warned = image(WithStatus(ls, "warn")) BY <1>1
  <2> HIDE DEF image, failing, warned
  <2>2. QED BY <1>3, <2>1
<1>5. failing = {} /\ warned # {} => published = 2 BY <1>4 DEF Agree
<1>6. failing = {} /\ warned = {} => published = 0
  <2>1. SUFFICES ASSUME WithStatus(ls, "fail") = {}, WithStatus(ls, "warn") = {}
                 PROVE  published = 0
    BY <1>4
  <2>2. first # "" => first \in LayerNames /\ ls[first].status \in {"warn", "fail"}
    BY DEF Agree, IssueNames
  <2>3. first = "" BY <2>1, <2>2 DEF WithStatus
  <2>4. QED BY <2>3 DEF Agree
<1>7. ReadOff(lines) = IF failing # {} THEN LayerCodes[lines[Min(failing)].name]
                       ELSE IF warned # {} THEN 2 ELSE 0
  BY DEF ReadOff
<1> HIDE DEF failing, warned, lines
<1>8. QED BY <1>2, <1>5, <1>6, <1>7 DEF lines

(* The places marked with an issue, and the first of them.                 *)
LEMMA LinesTellFirst ==
  ASSUME NEW ls \in [LayerNames -> Result], NEW published,
         NEW first \in IssueNames, Agree(ls, published, first)
  PROVE  LET lines == LayerLines(ls)
             marked == Marked(lines, "[FAIL]") \cup Marked(lines, "[!!]")
         IN  first = IF marked = {} THEN "" ELSE lines[Min(marked)].name
<1> DEFINE lines == LayerLines(ls)
           marked == Marked(lines, "[FAIL]") \cup Marked(lines, "[!!]")
           bad == {l \in LayerNames : ls[l].status \in {"warn", "fail"}}
           places == {Rank[l] : l \in bad}
<1>1. marked = places
  <2>1. marked = {Rank[l] : l \in WithStatus(ls, "fail")} \cup {Rank[l] : l \in WithStatus(ls, "warn")}
    BY MarkedFacts
  <2>2. WithStatus(ls, "fail") \cup WithStatus(ls, "warn") = bad BY DEF WithStatus
  <2> HIDE DEF marked, bad
  <2>3. QED BY <2>1, <2>2
<1>2. CASE first = ""
  <2>1. bad = {}
    <3>1. published = 0 BY <1>2 DEF Agree
    <3>2. \A l \in LayerNames : LayerCodes[l] # 0 BY DEF LayerCodes, LayerNames
    <3>3. \A l \in LayerNames : ls[l].status # "fail" BY <3>1, <3>2 DEF Agree
    <3>4. WithStatus(ls, "fail") = {} BY <3>3 DEF WithStatus
    <3>5. WithStatus(ls, "warn") = {}
      <4>1. published = 2 <=> WithStatus(ls, "warn") # {} /\ WithStatus(ls, "fail") = {}
        BY Zenon DEF Agree
      <4>2. published # 2 BY <3>1
      <4>3. QED BY <3>4, <4>1, <4>2
    <3>6. QED BY <3>3, <3>5 DEF WithStatus
  <2>2. marked = {} BY <1>1, <2>1
  <2>3. QED BY <1>2, <2>2
<1>3. CASE first # ""
  <2>1. first \in bad /\ \A l \in LayerNames : Rank[l] < Rank[first] => l \notin bad
    BY <1>3 DEF Agree, IssueNames
  <2>2. \A l \in bad : Rank[first] <= Rank[l]
    <3>1. \A l \in LayerNames : Rank[l] \in 1 .. 5 BY OrderFacts
    <3>2. first \in LayerNames /\ bad \subseteq LayerNames BY <1>3 DEF IssueNames
    <3> HIDE DEF bad
    <3>3. \A l \in bad : ~(Rank[l] < Rank[first]) BY <2>1, <3>2
    <3>4. QED BY <3>1, <3>2, <3>3
  <2>3. places \in SUBSET (1 .. 5) /\ Rank[first] \in places
    <3>1. bad \subseteq LayerNames /\ \A l \in LayerNames : Rank[l] \in 1 .. 5 BY OrderFacts
    <3> HIDE DEF bad
    <3>2. QED BY <2>1, <3>1
  <2>4. \A k \in places : Rank[first] <= k BY <2>2
  <2> HIDE DEF places
  <2>5. Min(places) \in 1 .. 5 /\ Min(places) <= Rank[first] /\ Rank[first] <= Min(places)
    BY <2>3, <2>4, LeastPlace
  <2>6. Min(places) = Rank[first]
    <3>1. \A m, n \in 1 .. 5 : m <= n /\ n <= m => m = n OBVIOUS
    <3>2. Rank[first] \in 1 .. 5 BY <2>3
    <3>3. QED BY <2>5, <3>1, <3>2
  <2>7. lines[Rank[first]].name = first
    <3>1. first \in LayerNames BY <1>3 DEF IssueNames
    <3>2. lines[Rank[first]] = LayerLine(first, ls[first]) BY <3>1, LinesFacts
    <3>3. LayerLine(first, ls[first]).name = first BY <3>1, LineSays
    <3>4. QED BY <3>2, <3>3
  <2> HIDE DEF marked, lines
  <2>8. marked # {} /\ lines[Min(marked)].name = first BY <1>1, <2>3, <2>6, <2>7
  <2>9. first = IF marked = {} THEN "" ELSE lines[Min(marked)].name BY <2>8
  <2>10. QED BY <2>9 DEF marked, lines
<1>4. QED BY <1>2, <1>3

(* A layer that fails has an error of its own.                             *)
LEMMA NoErrorNoFailure ==
  ASSUME NEW l \in LayerNames, NEW c, <<"fail", c>> \in Conclusions[l]
  PROVE  c # NoError
<1>1. CASE l = "dns"
  BY <1>1 DEF Conclusions, DNSConclusions, OK, With, DNSCodes, NoError
<1>2. CASE l = "reachability"
  BY <1>2 DEF Conclusions, ReachabilityConclusions, OK, With, ReachabilityCodes, NoError
<1>3. CASE l = "tcp"
  BY <1>3 DEF Conclusions, TCPConclusions, OK, With, TCPCodes, NoError
<1>4. CASE l = "tls"
  BY <1>4 DEF Conclusions, TLSConclusions, OK, With, TLSCodes, TLSWarnings, NoError
<1>5. CASE l = "http"
  BY <1>5 DEF Conclusions, HTTPConclusions, OK, With, HTTPCodes, HTTPTransportCodes,
              HTTPStatusCodes, NoError
<1>6. QED BY <1>1, <1>2, <1>3, <1>4, <1>5 DEF LayerNames

(* A failure shows an error message of its layer.                          *)
LEMMA FailureShown ==
  ASSUME NEW ls \in [LayerNames -> Result], \A l \in LayerNames : Sound(l, ls[l]),
         NEW k \in Marked(LayerLines(ls), "[FAIL]")
  PROVE  LET line == LayerLines(ls)[k]
         IN  /\ line.description[1] = "error"
             /\ <<"fail", line.description[2]>> \in Conclusions[line.name]
<1>1. PICK l \in LayerNames : k = Rank[l] /\ ls[l].status = "fail"
  BY MarkedFacts DEF WithStatus
<1> DEFINE line == LayerLines(ls)[k]
<1>2. line = LayerLine(l, ls[l]) BY <1>1, LinesFacts
<1>3. line.name = l /\ line.description = LayerDescription(l, ls[l])
  BY <1>2, LineSays
<1>4. MeetsContract(l, ls[l])
  BY <1>1, SkipResultType DEF Sound, SkipResult, Absent
<1>5. <<"fail", ls[l].code>> \in Conclusions[l] BY <1>1, <1>4 DEF MeetsContract
<1>6. ls[l].code # NoError BY <1>5, NoErrorNoFailure
<1>7. LayerDescription(l, ls[l]) = <<"error", ls[l].code>> BY <1>1, <1>6 DEF LayerDescription
<1> HIDE DEF line
<1>8. line.description[1] = "error" /\ line.description[2] = ls[l].code BY <1>3, <1>7
<1>9. QED BY <1>3, <1>5, <1>8 DEF line

(* What the renderers rely on beyond the runner's own properties: results  *)
(* are the runner's skip or within their layer's contract also after the   *)
(* loop, a single run reports its own exit code, and each duration kept    *)
(* for the statistics is that of an attempt that is shown as passed.       *)
RenderInv ==
  /\ \A l \in LayerNames : Sound(l, layers[l])
  /\ pc = "done" /\ count = 0 => report = [exit |-> exitCode]
  /\ \A l \in LayerNames : \A i \in DOMAIN durations[l] :
       \E k \in AttemptsWith(l, {"ok", "warn"}) : attempts[k].layers[l].dur = durations[l][i]

LEMMA RenderInit == Init => RenderInv
<1> SUFFICES ASSUME Init PROVE RenderInv
  OBVIOUS
<1>1. \A l \in LayerNames : layers[l] = Absent /\ durations[l] = <<>>
  BY DEF Init, NoLayers
<1>2. pc # "done" BY DEF Init
<1>3. \A l \in LayerNames : DOMAIN durations[l] = {} BY <1>1
<1>4. QED BY <1>1, <1>2, <1>3 DEF RenderInv, Sound

(* No step leaves a result that the contract does not allow.               *)
LEMMA SoundStep ==
  ASSUME TypeInv, \A l \in LayerNames : Sound(l, layers[l]), [Next]_vars
  PROVE  \A l \in LayerNames : Sound(l, layers'[l])
<1>0. /\ layers \in [LayerNames -> LayerValue]
      /\ DOMAIN Stack = 1 .. Len(Stack) /\ \A i \in 1 .. Len(Stack) : Stack[i] \in LayerNames
  BY StackTyped DEF TypeInv, TypeOK
<1>1. CASE Begin
  BY <1>1 DEF Begin, NoLayers, Sound
<1>2. ASSUME NEW i \in 1 .. Len(Stack), NEW r, Sound(Stack[i], r),
             layers' = [layers EXCEPT ![Stack[i]] = r]
      PROVE  \A l \in LayerNames : Sound(l, layers'[l])
  <2>1. \A l \in LayerNames : layers'[l] = IF l = Stack[i] THEN r ELSE layers[l]
    BY <1>0, <1>2
  <2>2. QED BY <1>2, <2>1
<1>3. CASE SkipLayer
  <2>1. pos \in 1 .. Len(Stack) /\ layers' = [layers EXCEPT ![Stack[pos]] = SkipResult]
    BY <1>0, <1>3 DEF SkipLayer
  <2>2. Sound(Stack[pos], SkipResult) BY DEF Sound
  <2>3. QED BY <1>2, <2>1, <2>2
<1>4. ASSUME NEW r, ProbeReturns(r) PROVE \A l \in LayerNames : Sound(l, layers'[l])
  <2>1. /\ pos \in 1 .. Len(Stack) /\ r \in Outcomes[Stack[pos]]
        /\ layers' = [layers EXCEPT ![Stack[pos]] = r]
    BY <1>4 DEF ProbeReturns, TypeInv
  <2>2. Sound(Stack[pos], r) BY <1>0, <2>1, OutcomesTyped DEF Sound
  <2>3. QED BY <1>2, <2>1, <2>2
<1>5. CASE Summarize
  <2>1. \A l \in LayerNames : layers'[l] = IF layers[l] = Absent THEN SkipResult ELSE layers[l]
    BY <1>5 DEF Summarize
  <2>2. \A l \in LayerNames : Sound(l, SkipResult) BY DEF Sound
  <2>3. QED BY <2>1, <2>2
<1>6. CASE UNCHANGED layers
  BY <1>6
<1>7. QED
  BY <1>1, <1>3, <1>4, <1>5, <1>6
  DEF Next, RunnerStep, ProbeReturning, CallProbe, Collect, Report, DeadlineFires, Signal,
      vars, runVars

(* A duration that is appended comes with the attempt it was measured in,  *)
(* and those that were there stay with theirs.                             *)
LEMMA MeasuredStep ==
  ASSUME TypeInv, RenderInv, [Next]_vars
  PROVE  \A l \in LayerNames : \A i \in DOMAIN durations'[l] :
           \E k \in AttemptsWith(l, {"ok", "warn"})' :
             attempts'[k].layers[l].dur = durations'[l][i]
<1>1. CASE Collect
  <2> SUFFICES ASSUME NEW l \in LayerNames, NEW i \in DOMAIN durations'[l]
               PROVE  \E k \in DOMAIN attempts' :
                        /\ attempts'[k].layers[l].status \in {"ok", "warn"}
                        /\ attempts'[k].layers[l].dur = durations'[l][i]
    BY DEF AttemptsWith
  <2> DEFINE n == Len(attempts)
  <2>1. /\ n \in Nat /\ DOMAIN attempts = 1 .. n /\ DOMAIN attempts' = 1 .. n + 1
        /\ attempts'[n + 1].layers = layers
        /\ \A k \in 1 .. n : attempts'[k] = attempts[k]
        /\ layers \in [LayerNames -> Result]
    BY <1>1, CollectAppends
  <2> HIDE DEF n
  <2>2. n + 1 \in DOMAIN attempts' /\ \A k \in DOMAIN attempts : k \in DOMAIN attempts'
    BY <2>1
  <2>3. durations[l] \in Seq(Nat) /\ layers[l].dur \in Nat
    BY <2>1 DEF TypeInv, TypeOK, Result
  <2>4. durations'[l] = IF layers[l].status \in {"ok", "warn"}
                        THEN Append(durations[l], layers[l].dur) ELSE durations[l]
    BY <1>1 DEF Collect
  <2>5. CASE i \in DOMAIN durations[l] /\ durations'[l][i] = durations[l][i]
    <3>1. PICK k \in DOMAIN attempts :
                 /\ attempts[k].layers[l].status \in {"ok", "warn"}
                 /\ attempts[k].layers[l].dur = durations[l][i]
      BY <2>5 DEF RenderInv, AttemptsWith
    <3>2. attempts'[k] = attempts[k] BY <2>1
    <3>3. QED BY <2>2, <2>5, <3>1, <3>2
  <2>6. CASE layers[l].status \in {"ok", "warn"} /\ durations'[l][i] = layers[l].dur
    BY <2>1, <2>2, <2>6
  <2>7. \/ i \in DOMAIN durations[l] /\ durations'[l][i] = durations[l][i]
        \/ layers[l].status \in {"ok", "warn"} /\ durations'[l][i] = layers[l].dur
    <3> DEFINE m == Len(durations[l])
    <3>1. m \in Nat /\ DOMAIN durations[l] = 1 .. m BY <2>3, LenProperties
    <3>2. CASE layers[l].status \in {"ok", "warn"}
      <4>1. /\ DOMAIN durations'[l] = 1 .. m + 1
            /\ durations'[l][m + 1] = layers[l].dur
            /\ \A j \in 1 .. m : durations'[l][j] = durations[l][j]
        BY <2>3, <2>4, <3>1, <3>2, AppendProperties
      <4> HIDE DEF m
      <4>2. i \in 1 .. m \/ i = m + 1 BY <3>1, <4>1
      <4>3. QED BY <3>1, <3>2, <4>1, <4>2
    <3>3. CASE layers[l].status \notin {"ok", "warn"} BY <2>4, <3>3
    <3>4. QED BY <3>2, <3>3
  <2>8. QED BY <2>5, <2>6, <2>7
<1>2. CASE UNCHANGED tallyVars
  <2>1. attempts' = attempts /\ durations' = durations BY <1>2 DEF tallyVars
  <2>2. \A l, S : AttemptsWith(l, S)' = AttemptsWith(l, S) BY <2>1 DEF AttemptsWith
  <2>3. QED BY <2>1, <2>2 DEF RenderInv
<1>3. QED
  BY <1>1, <1>2
  DEF Next, RunnerStep, ProbeReturning, Begin, SkipLayer, CallProbe, ProbeReturns,
      Summarize, Report, DeadlineFires, Signal, vars

LEMMA RenderStep == TypeInv /\ RenderInv /\ [Next]_vars => RenderInv'
<1> SUFFICES ASSUME TypeInv, RenderInv, [Next]_vars PROVE RenderInv'
  OBVIOUS
<1>1. \A l \in LayerNames : Sound(l, layers'[l]) BY SoundStep DEF RenderInv
<1>2. \A l : Sound(l, layers[l])' <=> Sound(l, layers'[l]) BY DEF Sound
<1>3. \A l \in LayerNames : \A i \in DOMAIN durations'[l] :
        \E k \in AttemptsWith(l, {"ok", "warn"})' :
          attempts'[k].layers[l].dur = durations'[l][i]
  BY MeasuredStep
<1>4. (pc = "done" /\ count = 0 => report = [exit |-> exitCode])'
  <2>1. CASE Report BY <2>1 DEF Report, runVars
  <2>2. CASE UNCHANGED <<count, report, exitCode>> /\ (pc' = "done" => pc = "done")
    BY <2>2 DEF RenderInv
  <2>3. CASE pc' # "done" BY <2>3
  <2>4. QED
    BY <2>1, <2>2, <2>3
    DEF Next, RunnerStep, ProbeReturning, Begin, SkipLayer, CallProbe, ProbeReturns,
        Summarize, Collect, DeadlineFires, Signal, vars, runVars
<1>5. QED BY <1>1, <1>2, <1>3, <1>4 DEF RenderInv

(* All that is known of the runner's state.                                *)
RunnerInv ==
  TypeInv /\ WalkInv /\ ExitInv /\ TalliesMatchAttempts /\ SignalInv /\ ReportInv /\ RenderInv

LEMMA RunnerInvariance == Spec => []RunnerInv
<1>1. Init => RunnerInv
  BY TypeInit, WalkInit, ExitInit, TallyInit, SignalInit, ReportInit, RenderInit DEF RunnerInv
<1>2. RunnerInv /\ [Next]_vars => RunnerInv'
  BY TypeStep, WalkStep, ExitStep, TallyStep, SignalStep, ReportStep, RenderStep DEF RunnerInv
<1>3. QED BY <1>1, <1>2, PTL DEF Spec

(* The attempts of a finished run.                                         *)
LEMMA AttemptFacts ==
  ASSUME RunnerInv
  PROVE  /\ count \in Nat /\ DOMAIN attempts = 1 .. Len(attempts)
         /\ \A k \in DOMAIN attempts :
              /\ attempts[k].layers \in [LayerNames -> Result]
              /\ attempts[k].firstNonOK \in IssueNames
              /\ Agree(attempts[k].layers, attempts[k].exit, attempts[k].firstNonOK)
         /\ pc = "done" => /\ layers \in [LayerNames -> Result]
                           /\ firstNonOK \in IssueNames
                           /\ Agree(layers, exitCode, firstNonOK)
<1>1. TypeOK BY DEF RunnerInv, TypeInv
<1>2. count \in Nat BY <1>1, CountsAssumption DEF TypeOK
<1>3. firstNonOK \in IssueNames BY <1>1 DEF TypeOK, IssueNames
<1>4. pc = "done" => layers \in [LayerNames -> Result] BY DEF RunnerInv, TypeInv
<1>5. /\ pc = "done" => Agree(layers, exitCode, firstNonOK)
      /\ \A k \in DOMAIN attempts :
           Agree(attempts[k].layers, attempts[k].exit, attempts[k].firstNonOK)
  BY DEF RunnerInv, ExitInv, ExitCodeNamesTheFailure, Summarized
<1>6. /\ DOMAIN attempts = 1 .. Len(attempts)
      /\ \A k \in DOMAIN attempts :
           /\ attempts[k].layers \in [LayerNames -> Result]
           /\ attempts[k].firstNonOK \in IssueNames
  <2> DEFINE S == [layers : [LayerNames -> Result], exit : ExitCodes,
                   firstNonOK : LayerNames \cup {""}]
  <2>1. attempts \in Seq(S) BY <1>1 DEF TypeOK
  <2>2. \A a \in S : a.layers \in [LayerNames -> Result] /\ a.firstNonOK \in IssueNames
    BY DEF IssueNames
  <2> HIDE DEF S
  <2>3. QED BY <2>1, <2>2, LenProperties, ElementOfSeq
<1>7. QED BY <1>2, <1>3, <1>4, <1>5, <1>6

(* marshal.go and types.go: every map of a report that is keyed by layer   *)
(* has all the layers for keys, in the order of LayerOrder.                *)
THEOREM KeysInOrder == Spec => []KeysFollowLayerOrder
<1>1. ASSUME RunnerInv PROVE KeysFollowLayerOrder
  <2> SUFFICES ASSUME pc = "done" PROVE JSONKeys = {LayerOrder}
    BY DEF KeysFollowLayerOrder
  <2>1. CASE count = 0
    <3>1. LayersKeys(layers) = LayerOrder BY <1>1, AttemptFacts, LinesFacts
    <3>2. QED BY <2>1, <3>1 DEF JSONKeys
  <2>2. CASE count > 0
    <3>1. \A k \in DOMAIN attempts : LayersKeys(attempts[k].layers) = LayerOrder
      BY <1>1, AttemptFacts, LinesFacts
    <3>2. DOMAIN report.statistics = LayerNames
      BY <1>1, <2>2 DEF RunnerInv, ReportInv, Measurement
    <3>3. WriteOrderedMap(DOMAIN report.statistics) = LayerOrder
      BY <3>2, AllInOrder DEF WriteOrderedMap
    <3>4. count # 0 BY <2>2
    <3>5. QED BY <3>1, <3>3, <3>4 DEF JSONKeys
  <2>3. QED BY <1>1, <2>1, <2>2, AttemptFacts
<1>2. QED BY <1>1, RunnerInvariance, PTL

(* The worst of the exit codes is the greatest that can be read off.       *)
LEMMA WorstReadOff ==
  ASSUME RunnerInv, pc = "done", count > 0
  PROVE  report.exit = Max({ReadOff(LayerLines(attempts[k].layers)) : k \in DOMAIN attempts})
<1> DEFINE S == {ReadOff(LayerLines(attempts[k].layers)) : k \in DOMAIN attempts}
<1>1. \A k \in DOMAIN attempts : ReadOff(LayerLines(attempts[k].layers)) = attempts[k].exit
  BY AttemptFacts, LinesTellExit
<1>2. /\ \E k \in DOMAIN attempts : report.exit = attempts[k].exit
      /\ \A k \in DOMAIN attempts : report.exit >= attempts[k].exit
  BY MeasurementSound DEF RunnerInv, ReportSound
<1>3. report.exit \in S /\ \A c \in S : report.exit >= c BY <1>1, <1>2
<1>4. \A k \in DOMAIN attempts : attempts[k].exit \in Nat
  <2> DEFINE T == [layers : [LayerNames -> Result], exit : ExitCodes,
                   firstNonOK : IssueNames]
  <2>1. attempts \in Seq(T) BY DEF RunnerInv, TypeInv, TypeOK, IssueNames
  <2>2. \A a \in T : a.exit \in Nat
    <3>1. \A a \in T : a.exit \in ExitCodes OBVIOUS
    <3>2. ExitCodes \subseteq Nat BY DEF ExitCodes
    <3>3. QED BY <3>1, <3>2
  <2> HIDE DEF T
  <2>3. QED BY <2>1, <2>2, ElementOfSeq
<1>5. S \subseteq Nat BY <1>1, <1>4
<1> HIDE DEF S
<1>6. Max(S) \in S /\ \A c \in S : Max(S) >= c BY <1>3 DEF Max
<1>7. Max(S) \in Nat /\ report.exit \in Nat /\ Max(S) >= report.exit /\ report.exit >= Max(S)
  BY <1>3, <1>5, <1>6
<1>8. Max(S) = report.exit BY <1>7
<1>9. QED BY <1>8 DEF S

(* renderer.go and main.go: whatever the layers concluded and wherever the *)
(* run was cut, the marks in front of the layers, the summary line and the *)
(* exit code of the process say the same, also of a series, and a failure  *)
(* is shown with an error message of its own layer.                        *)
THEOREM TableAgrees == Spec => []TableTellsExitCode
<1>1. ASSUME RunnerInv PROVE TableTellsExitCode
  <2> SUFFICES ASSUME pc = "done" PROVE TableTellsExitCode
    BY DEF TableTellsExitCode
  <2>1. ASSUME count = 0
        PROVE  LET lines == Render.lines
                   summary == Render.summary
                   marked == Marked(lines, "[FAIL]") \cup Marked(lines, "[!!]")
               IN  /\ report.exit = ReadOff(lines)
                   /\ summary.exit = report.exit
                   /\ summary.layer = IF marked = {} THEN "" ELSE lines[Min(marked)].name
                   /\ \A k \in Marked(lines, "[FAIL]") :
                        /\ lines[k].description[1] = "error"
                        /\ <<"fail", lines[k].description[2]>> \in Conclusions[lines[k].name]
    <3> DEFINE lines == LayerLines(layers)
               summary == FormatSummary(firstNonOK, exitCode)
               marked == Marked(lines, "[FAIL]") \cup Marked(lines, "[!!]")
    <3>1. Render.lines = lines /\ Render.summary = summary BY DEF Render
    <3>2. report.exit = exitCode BY <1>1, <2>1 DEF RunnerInv, RenderInv
    <3>3. ReadOff(lines) = exitCode BY <1>1, AttemptFacts, LinesTellExit
    <3>4. firstNonOK = IF marked = {} THEN "" ELSE lines[Min(marked)].name
      BY <1>1, AttemptFacts, LinesTellFirst
    <3>5. summary.layer = firstNonOK BY DEF FormatSummary
    <3>6. summary.exit = exitCode
      <4>1. firstNonOK = "" => exitCode = 0 BY <1>1, AttemptFacts DEF Agree
      <4>2. QED BY <4>1 DEF FormatSummary
    <3>7. \A k \in Marked(lines, "[FAIL]") :
            /\ lines[k].description[1] = "error"
            /\ <<"fail", lines[k].description[2]>> \in Conclusions[lines[k].name]
      BY <1>1, AttemptFacts, FailureShown DEF RunnerInv, RenderInv
    <3> HIDE DEF lines, summary
    <3>8. QED BY <3>1, <3>2, <3>3, <3>4, <3>5, <3>6, <3>7
  <2>2. ASSUME count > 0
        PROVE  RenderCount.exit =
                 Max({ReadOff(RenderCount.attempts[k]) : k \in DOMAIN RenderCount.attempts})
    <3>1. /\ RenderCount.exit = report.exit
          /\ DOMAIN RenderCount.attempts = DOMAIN attempts
          /\ \A k \in DOMAIN attempts : RenderCount.attempts[k] = LayerLines(attempts[k].layers)
      BY DEF RenderCount
    <3>2. {ReadOff(RenderCount.attempts[k]) : k \in DOMAIN RenderCount.attempts}
            = {ReadOff(LayerLines(attempts[k].layers)) : k \in DOMAIN attempts}
      BY <3>1
    <3>3. QED BY <1>1, <2>2, <3>1, <3>2, WorstReadOff
  <2>3. QED BY <2>1, <2>2 DEF TableTellsExitCode
<1>2. QED BY <1>1, RunnerInvariance, PTL

(***************************************************************************)
(* The statistics as printed: the rounding of the durations and the loss.  *)
(***************************************************************************)
(* The line that bears a layer's name is the layer's.                      *)
LEMMA LineOfLayer ==
  ASSUME NEW ls \in [LayerNames -> Result], NEW l \in LayerNames
  PROVE  (CHOOSE line \in ToSet(LayerLines(ls)) : line.name = l) = LayerLine(l, ls[l])
<1> DEFINE lines == LayerLines(ls)
<1>1. lines[Rank[l]] = LayerLine(l, ls[l]) /\ Rank[l] \in DOMAIN lines
  BY LinesFacts, OrderFacts
<1>2. ASSUME NEW k \in DOMAIN lines, lines[k].name = l PROVE lines[k] = LayerLine(l, ls[l])
  <2>1. k \in 1 .. 5 /\ lines[k] = LayerLine(LayerOrder[k], ls[LayerOrder[k]])
    BY LinesFacts
  <2>2. LayerOrder[k] \in LayerNames BY <2>1, OrderFacts
  <2>3. lines[k].name = LayerOrder[k] BY <2>1, <2>2, LineSays
  <2>4. QED BY <1>2, <2>1, <2>3
<1>3. LayerLine(l, ls[l]).name = l BY LineSays
<1> HIDE DEF lines
<1>4. LayerLine(l, ls[l]) \in ToSet(lines) BY <1>1 DEF ToSet
<1>5. \A line \in ToSet(lines) : line.name = l => line = LayerLine(l, ls[l])
  BY <1>2 DEF ToSet
<1>6. (CHOOSE line \in ToSet(lines) : line.name = l) = LayerLine(l, ls[l])
  BY <1>3, <1>4, <1>5
<1>7. QED BY <1>6 DEF lines

(* Half the scale, half the value; and printing keeps the order.           *)
LEMMA PrintedMedian ==
  ASSUME NEW p \in Nat, NEW q \in Nat, p <= 2 * q
  PROVE  FormatFloat(p, 4) <= FormatFloat(q, 2)
<1> DEFINE a == p \div 4
           b == p % 4
           c == q \div 2
           e == q % 2
<1>1. p = 4 * a + b /\ b \in 0 .. 3 /\ a \in Int OBVIOUS
<1>2. q = 2 * c + e /\ e \in 0 .. 1 /\ c \in Int OBVIOUS
<1>3. FormatFloat(p, 4) = IF 2 * b > 4 \/ (2 * b = 4 /\ a % 2 = 1) THEN a + 1 ELSE a
  BY DEF FormatFloat
<1>4. FormatFloat(q, 2) = IF 2 * e > 2 \/ (2 * e = 2 /\ c % 2 = 1) THEN c + 1 ELSE c
  BY DEF FormatFloat
<1> HIDE DEF a, b, c, e
<1>5. 4 * a + b <= 4 * c + 2 * e BY <1>1, <1>2
<1>6. QED BY <1>1, <1>2, <1>3, <1>4, <1>5

(* The two ways of rounding differ by one at most.                         *)
LEMMA PrintedTwice ==
  ASSUME NEW v \in Nat
  PROVE  FormatDuration(v) - FormatFloat(v, 2) \in {0, 1}
<1> DEFINE c == v \div 2
           e == v % 2
<1>1. v = 2 * c + e /\ e \in 0 .. 1 /\ c \in Int OBVIOUS
<1>2. FormatFloat(v, 2) = IF 2 * e > 2 \/ (2 * e = 2 /\ c % 2 = 1) THEN c + 1 ELSE c
  BY DEF FormatFloat
<1>3. FormatDuration(v) = c + e
  <2>1. (v + 1) \div 2 = c + e BY <1>1
  <2>2. QED BY <2>1 DEF FormatDuration
<1> HIDE DEF c, e
<1>4. QED BY <1>1, <1>2, <1>3

(* The quotient and the rest of a division, and how to know them.          *)
LEMMA Division ==
  ASSUME NEW x \in Nat, NEW s \in Nat, s > 0
  PROVE  /\ x \div s \in Nat /\ x % s \in Nat /\ x % s < s
         /\ x = s * (x \div s) + (x % s)
  OBVIOUS

(* A product is at least its factor times anything smaller.                *)
LEMMA Products ==
  ASSUME NEW s \in Nat, NEW q \in Nat, NEW c \in Nat
  PROVE  /\ q >= c => s * q >= s * c
         /\ q < c => s * q + s <= s * c
<1>1. ASSUME NEW d \in Nat PROVE s * d \in Nat OBVIOUS
<1>2. ASSUME q >= c PROVE s * q >= s * c
  <2>1. q - c \in Nat BY <1>2
  <2>2. s * (q - c) \in Nat BY <1>1, <2>1
  <2>3. s * q = s * c + s * (q - c) OBVIOUS
  <2>4. QED BY <1>1, <2>2, <2>3
<1>3. ASSUME q < c PROVE s * q + s <= s * c
  <2>1. c - q - 1 \in Nat BY <1>3
  <2>2. s * (c - q - 1) \in Nat BY <1>1, <2>1
  <2>3. s * c = s * q + s + s * (c - q - 1) OBVIOUS
  <2>4. QED BY <1>1, <2>2, <2>3
<1>4. QED BY <1>2, <1>3

(* What the printed loss says of f failures and k successes.               *)
LEMMA PrintedLoss ==
  ASSUME NEW f \in Nat, NEW k \in Nat, f + k > 0
  PROVE  LET loss == FormatFloat(1000 * f, f + k)
         IN  /\ f = 0 \/ 2000 * f < k + f => loss = 0
             /\ loss = 0 => 2000 * f <= k + f
             /\ f > 0 /\ (k = 0 \/ 2000 * k < k + f) => loss = 1000
             /\ loss = 1000 => f > 0 /\ 2000 * k <= k + f
<1> DEFINE s == f + k
           q == (1000 * f) \div s
           m == (1000 * f) % s
           loss == FormatFloat(1000 * f, s)
<1>1. q \in Nat /\ m \in Nat /\ m < s /\ 1000 * f = s * q + m
  BY Division
<1>2. loss \in {q, q + 1} /\ (loss = q => 2 * m <= s) /\ (loss = q + 1 => 2 * m >= s)
      /\ (2 * m < s => loss = q) /\ (2 * m > s => loss = q + 1)
  BY <1>1 DEF FormatFloat
<1>3. s \in Nat /\ s = f + k /\ s > 0 OBVIOUS
<1>4. /\ s * 0 = 0 /\ s * 1 = s
      /\ q >= 1 => s * q >= s
      /\ q >= 1000 => s * q >= 1000 * s
      /\ q >= 1001 => s * q >= 1001 * s
      /\ q < 1000 => s * q + s <= 1000 * s
      /\ q < 999 => s * q + s <= 999 * s
  BY <1>1, <1>3, Products
<1>5. (q = 0 => s * q = 0) /\ (q = 999 => s * q = 999 * s) /\ (q = 1000 => s * q = 1000 * s)
  BY <1>3
<1> DEFINE z == s * q
<1>6. z \in Nat BY <1>1, <1>3
<1> HIDE DEF s, q, m, loss, z
<1>7. f = 0 \/ 2000 * f < s => loss = 0
  BY <1>1, <1>2, <1>3, <1>4, <1>5, <1>6 DEF z
<1>8. loss = 0 => 2000 * f <= s
  BY <1>1, <1>2, <1>3, <1>5
<1>9. f > 0 /\ (k = 0 \/ 2000 * k < s) => loss = 1000
  <2>1. CASE k = 0
    <3>1. q = 1000 /\ m = 0 BY <1>1, <1>3, <1>4, <1>5, <1>6, <2>1 DEF z
    <3>2. QED BY <1>2, <1>3, <3>1
  <2>2. CASE k > 0 /\ 2000 * k < s
    <3>1. q = 999 BY <1>1, <1>3, <1>4, <1>6, <2>2 DEF z
    <3>2. m = s - 1000 * k BY <1>1, <1>3, <1>5, <3>1
    <3>3. 2 * m > s BY <1>3, <2>2, <3>2
    <3>4. QED BY <1>2, <3>1, <3>3
  <2>3. QED BY <2>1, <2>2
<1>10. loss = 1000 => f > 0 /\ 2000 * k <= s
  <2> SUFFICES ASSUME loss = 1000 PROVE f > 0 /\ 2000 * k <= s
    OBVIOUS
  <2>1. q = 1000 \/ (q = 999 /\ 2 * m >= s) BY <1>1, <1>2
  <2>2. CASE q = 1000 BY <1>1, <1>3, <1>5, <2>2
  <2>3. CASE q = 999 /\ 2 * m >= s BY <1>1, <1>3, <1>5, <2>3
  <2>4. QED BY <2>1, <2>2, <2>3
<1>11. s = k + f BY <1>3
<1>12. QED BY <1>7, <1>8, <1>9, <1>10, <1>11 DEF s, loss

(* The counts of a layer and the percentiles it has at the end.            *)
LEMMA StatisticsAtEnd ==
  ASSUME RunnerInv, pc = "done", count > 0, NEW l \in LayerNames
  PROVE  LET s == report.statistics[l]
             d == durations[l]
             f == Cardinality(AttemptsWith(l, {"fail"}))
             n == Cardinality(AttemptsWith(l, {"ok", "warn"}))
         IN  /\ f \in Nat /\ n \in Nat /\ d \in Seq(Nat)
             /\ d # <<>> <=> AttemptsWith(l, {"ok", "warn"}) # {}
             /\ s.loss = IF f + n > 0 THEN <<f, f + n>> ELSE <<0, 1>>
             /\ s.p50 = IF d # <<>> THEN {P50Doubled(d)} ELSE {}
             /\ s.p95 = IF d # <<>> THEN {P95(d)} ELSE {}
<1> DEFINE s == report.statistics[l]
           t == counts[l]
           d == durations[l]
           f == Cardinality(AttemptsWith(l, {"fail"}))
           n == Cardinality(AttemptsWith(l, {"ok", "warn"}))
<1>1. s = LayerStatistics(l) BY DEF RunnerInv, ReportInv, Measurement
<1>2. t \in [success : Nat, fail : Nat, skip : Nat] /\ d \in Seq(Nat)
  BY DEF RunnerInv, TypeInv, TypeOK
<1>3. t.success = n /\ t.fail = f /\ Len(d) = n
  BY DEF RunnerInv, TalliesMatchAttempts
<1>4. f \in Nat /\ n \in Nat BY <1>2, <1>3
<1>5. d # <<>> <=> AttemptsWith(l, {"ok", "warn"}) # {}
  <2>1. IsFiniteSet(AttemptsWith(l, {"ok", "warn"}))
    <3>1. IsFiniteSet(1 .. Len(attempts)) /\ Len(attempts) \in Nat
      <4>1. Len(attempts) \in Nat BY LenProperties DEF RunnerInv, TypeInv, TypeOK
      <4>2. QED BY <4>1, FS_Interval
    <3>2. AttemptsWith(l, {"ok", "warn"}) \subseteq 1 .. Len(attempts)
      BY AttemptFacts DEF AttemptsWith
    <3>3. QED BY <3>1, <3>2, FS_Subset
  <2>2. n = 0 <=> AttemptsWith(l, {"ok", "warn"}) = {} BY <2>1, FS_EmptySet
  <2>3. Len(d) = 0 <=> d = <<>> BY <1>2, EmptySeq
  <2>4. QED BY <1>3, <2>2, <2>3
<1>6. s.loss = IF t.success + t.fail > 0 THEN <<t.fail, t.success + t.fail>> ELSE <<0, 1>>
  BY <1>1 DEF LayerStatistics
<1>7. /\ s.p50 = IF d # <<>> THEN {P50Doubled(d)} ELSE {}
      /\ s.p95 = IF d # <<>> THEN {P95(d)} ELSE {}
  BY <1>1 DEF LayerStatistics
<1> HIDE DEF s, t, d, f, n
<1>8. s.loss = IF f + n > 0 THEN <<f, f + n>> ELSE <<0, 1>>
  <2>1. n + f = f + n BY <1>4
  <2>2. QED BY <1>3, <1>6, <2>1
<1>9. QED BY <1>2, <1>4, <1>5, <1>7, <1>8 DEF s, d, f, n

(* The marks of a layer's lines are its statuses in the attempts.          *)
LEMMA AttemptedFacts ==
  ASSUME RunnerInv, NEW l \in LayerNames
  PROVE  LET table == RenderCount
             LineOf(k) == CHOOSE line \in ToSet(table.attempts[k]) : line.name = l
             Attempted(mark) == {k \in DOMAIN table.attempts : LineOf(k).mark = mark}
         IN  /\ Attempted("[ok]") \cup Attempted("[!!]") = AttemptsWith(l, {"ok", "warn"})
             /\ Attempted("[FAIL]") = AttemptsWith(l, {"fail"})
             /\ \A k \in DOMAIN attempts :
                  LineOf(k).shown = FormatDuration(attempts[k].layers[l].dur)
<1> DEFINE table == RenderCount
           LineOf(k) == CHOOSE line \in ToSet(table.attempts[k]) : line.name = l
           Attempted(mark) == {k \in DOMAIN table.attempts : LineOf(k).mark = mark}
<1>1. /\ DOMAIN table.attempts = DOMAIN attempts
      /\ \A k \in DOMAIN attempts : table.attempts[k] = LayerLines(attempts[k].layers)
  BY DEF RenderCount
<1>2. \A k \in DOMAIN attempts :
        LineOf(k) = LayerLine(l, attempts[k].layers[l]) /\ attempts[k].layers[l] \in Result
  BY <1>1, AttemptFacts, LineOfLayer
<1> HIDE DEF LineOf
<1>3. \A k \in DOMAIN attempts :
        /\ LineOf(k).mark = "[FAIL]" <=> attempts[k].layers[l].status = "fail"
        /\ LineOf(k).mark = "[!!]" <=> attempts[k].layers[l].status = "warn"
        /\ LineOf(k).mark = "[ok]" <=> attempts[k].layers[l].status = "ok"
        /\ LineOf(k).shown = FormatDuration(attempts[k].layers[l].dur)
  BY <1>2, LineSays
<1> HIDE DEF table
<1>4. Attempted("[ok]") \cup Attempted("[!!]") = AttemptsWith(l, {"ok", "warn"})
  BY <1>1, <1>3 DEF AttemptsWith
<1>5. Attempted("[FAIL]") = AttemptsWith(l, {"fail"})
  BY <1>1, <1>3 DEF AttemptsWith
<1>6. QED BY <1>3, <1>4, <1>5 DEF table, LineOf

(* renderer.go and runner.go: the statistics under the table can be had    *)
(* from the lines above them, whatever --count is and however long the     *)
(* probes took: percentiles where something passed, in order and next to a *)
(* duration that is shown, and a loss that is 0 or 100% when it should be. *)
THEOREM StatisticsAgree == Spec => []StatisticsReadAsAttempts
<1>1. ASSUME RunnerInv, pc = "done", count > 0, NEW l \in LayerNames
      PROVE  LET table == RenderCount
                 LineOf(k) == CHOOSE line \in ToSet(table.attempts[k]) : line.name = l
                 Attempted(mark) == {k \in DOMAIN table.attempts : LineOf(k).mark = mark}
                 passed == Attempted("[ok]") \cup Attempted("[!!]")
                 kept == Cardinality(passed)
                 lost == Cardinality(Attempted("[FAIL]"))
                 s == table.statistics[l]
             IN  /\ s.p50 # {} <=> passed # {}
                 /\ \A p \in s.p50 : \A q \in s.p95 : p <= q
                 /\ s.p95 # {} <=> passed # {}
                 /\ \A q \in s.p95 : \E k \in passed : LineOf(k).shown - q \in {0, 1}
                 /\ lost = 0 \/ 2000 * lost < kept + lost => s.loss = 0
                 /\ s.loss = 0 => 2000 * lost <= kept + lost
                 /\ lost > 0 /\ (kept = 0 \/ 2000 * kept < kept + lost) => s.loss = 1000
                 /\ s.loss = 1000 => lost > 0 /\ 2000 * kept <= kept + lost
  <2> DEFINE table == RenderCount
             LineOf(k) == CHOOSE line \in ToSet(table.attempts[k]) : line.name = l
             Attempted(mark) == {k \in DOMAIN table.attempts : LineOf(k).mark = mark}
             passed == Attempted("[ok]") \cup Attempted("[!!]")
             kept == Cardinality(passed)
             lost == Cardinality(Attempted("[FAIL]"))
             s == table.statistics[l]
             r == report.statistics[l]
             d == durations[l]
  <2>1. /\ passed = AttemptsWith(l, {"ok", "warn"})
        /\ Attempted("[FAIL]") = AttemptsWith(l, {"fail"})
        /\ \A k \in DOMAIN attempts :
             LineOf(k).shown = FormatDuration(attempts[k].layers[l].dur)
    BY <1>1, AttemptedFacts
  <2>2. s = StatisticsLine(r)
    <3>1. DOMAIN report.statistics = LayerNames
      BY <1>1 DEF RunnerInv, ReportInv, Measurement
    <3>2. QED BY <1>1, <3>1 DEF RenderCount
  <2>3. /\ s.p50 = {FormatFloat(v, 4) : v \in r.p50}
        /\ s.p95 = {FormatFloat(v, 2) : v \in r.p95}
        /\ s.loss = FormatFloat(1000 * r.loss[1], r.loss[2])
    BY <2>2 DEF StatisticsLine
  <2> HIDE DEF LineOf, passed
  <2>4. /\ lost \in Nat /\ kept \in Nat /\ d \in Seq(Nat)
        /\ d # <<>> <=> passed # {}
        /\ r.loss = IF lost + kept > 0 THEN <<lost, lost + kept>> ELSE <<0, 1>>
        /\ r.p50 = IF d # <<>> THEN {P50Doubled(d)} ELSE {}
        /\ r.p95 = IF d # <<>> THEN {P95(d)} ELSE {}
    BY <1>1, <2>1, StatisticsAtEnd
  <2> HIDE DEF Attempted, table, s, r, kept, lost
  <2>5. /\ s.p50 = IF d # <<>> THEN {FormatFloat(P50Doubled(d), 4)} ELSE {}
        /\ s.p95 = IF d # <<>> THEN {FormatFloat(P95(d), 2)} ELSE {}
    BY <2>3, <2>4
  <2>6. d # <<>> => /\ P95(d) \in {d[i] : i \in DOMAIN d} /\ P95(d) \in Nat
                    /\ P50Doubled(d) \in Nat /\ P50Doubled(d) <= 2 * P95(d)
    <3>1. SUFFICES ASSUME d # <<>>
                   PROVE  /\ P95(d) \in {d[i] : i \in DOMAIN d} /\ P95(d) \in Nat
                          /\ P50Doubled(d) \in Nat /\ P50Doubled(d) <= 2 * P95(d)
      OBVIOUS
    <3>2. P95(d) \in {d[i] : i \in DOMAIN d} /\ P50Doubled(d) <= 2 * P95(d)
      BY <2>4, <3>1, PercentilesWithin
    <3>3. \A i \in DOMAIN d : d[i] \in Nat BY <2>4, SeriesFacts
    <3>4. P50Doubled(d) \in Nat
      <4> DEFINE n == Len(d)
      <4>1. n \in Nat /\ n > 0 BY <2>4, <3>1, P95AtRank
      <4>2. n \div 2 + 1 \in 1 .. n /\ (n % 2 # 1 => n \div 2 \in 1 .. n) BY <4>1, Ranks
      <4>3. \A k \in 1 .. n : KthSmallest(d, k) \in Nat BY <2>4, <3>3, KthExists
      <4>4. P50Doubled(d) = IF n % 2 = 1 THEN 2 * KthSmallest(d, n \div 2 + 1)
                            ELSE KthSmallest(d, n \div 2) + KthSmallest(d, n \div 2 + 1)
        BY DEF P50Doubled
      <4> HIDE DEF n
      <4>5. CASE n % 2 = 1
        <5>1. KthSmallest(d, n \div 2 + 1) \in Nat BY <4>2, <4>3
        <5>2. QED BY <4>4, <4>5, <5>1
      <4>6. CASE n % 2 # 1
        <5>1. KthSmallest(d, n \div 2 + 1) \in Nat /\ KthSmallest(d, n \div 2) \in Nat
          BY <4>2, <4>3, <4>6
        <5>2. QED BY <4>4, <4>6, <5>1
      <4>7. QED BY <4>5, <4>6
    <3>5. QED BY <3>2, <3>3, <3>4
  <2>7. /\ s.p50 # {} <=> passed # {}
        /\ s.p95 # {} <=> passed # {}
    BY <2>4, <2>5
  <2>8. \A p \in s.p50 : \A q \in s.p95 : p <= q
    <3>1. d # <<>> => FormatFloat(P50Doubled(d), 4) <= FormatFloat(P95(d), 2)
      BY <2>6, PrintedMedian
    <3>2. QED BY <2>5, <3>1
  <2>9. \A q \in s.p95 : \E k \in passed : LineOf(k).shown - q \in {0, 1}
    <3> SUFFICES ASSUME d # <<>>
                 PROVE  \E k \in passed : LineOf(k).shown - FormatFloat(P95(d), 2) \in {0, 1}
      BY <2>5
    <3>1. PICK i \in DOMAIN d : d[i] = P95(d) BY <2>6
    <3>2. PICK k \in AttemptsWith(l, {"ok", "warn"}) : attempts[k].layers[l].dur = d[i]
      BY <1>1 DEF RunnerInv, RenderInv
    <3>3. LineOf(k).shown = FormatDuration(P95(d))
      BY <2>1, <3>1, <3>2 DEF AttemptsWith
    <3>4. FormatDuration(P95(d)) - FormatFloat(P95(d), 2) \in {0, 1} BY <2>6, PrintedTwice
    <3>5. QED BY <2>1, <3>2, <3>3, <3>4
  <2>10. /\ lost = 0 \/ 2000 * lost < kept + lost => s.loss = 0
         /\ s.loss = 0 => 2000 * lost <= kept + lost
         /\ lost > 0 /\ (kept = 0 \/ 2000 * kept < kept + lost) => s.loss = 1000
         /\ s.loss = 1000 => lost > 0 /\ 2000 * kept <= kept + lost
    <3>1. CASE lost + kept > 0
      <4>1. s.loss = FormatFloat(1000 * lost, lost + kept) BY <2>3, <2>4, <3>1
      <4>2. lost \in Nat /\ kept \in Nat BY <2>4
      <4> DEFINE loss == FormatFloat(1000 * lost, lost + kept)
      <4>3. /\ lost = 0 \/ 2000 * lost < kept + lost => loss = 0
            /\ loss = 0 => 2000 * lost <= kept + lost
            /\ lost > 0 /\ (kept = 0 \/ 2000 * kept < kept + lost) => loss = 1000
            /\ loss = 1000 => lost > 0 /\ 2000 * kept <= kept + lost
        BY <3>1, <4>2, PrintedLoss
      <4>4. s.loss = loss BY <4>1
      <4> HIDE DEF loss
      <4>5. QED BY <4>3, <4>4
    <3>2. CASE ~(lost + kept > 0)
      <4>1. lost = 0 /\ kept = 0 BY <2>4, <3>2
      <4>2. s.loss = FormatFloat(1000 * 0, 1) BY <2>3, <2>4, <3>2
      <4>3. FormatFloat(1000 * 0, 1) = 0 BY DEF FormatFloat
      <4>4. QED BY <4>1, <4>2, <4>3
    <3>3. QED BY <3>1, <3>2
  <2>11. QED BY <2>7, <2>8, <2>9, <2>10 DEF s, kept, lost, passed, Attempted, LineOf, table
<1>2. RunnerInv => StatisticsReadAsAttempts BY <1>1 DEF StatisticsReadAsAttempts
<1>3. QED BY <1>2, RunnerInvariance, PTL

(***************************************************************************)
(* The percentiles, for every series.                                      *)
(***************************************************************************)

(* No two values have the same rank.                                       *)
LEMMA KthUnique ==
  ASSUME NEW d \in Seq(Nat), NEW k \in 1 .. Len(d), NEW v \in {d[i] : i \in DOMAIN d},
         Cardinality(Below(d, v)) < k, k <= Cardinality(UpTo(d, v))
  PROVE  v = KthSmallest(d, k)
<1> DEFINE w == KthSmallest(d, k)
<1>1. /\ w \in {d[i] : i \in DOMAIN d}
      /\ Cardinality(Below(d, w)) < k /\ k <= Cardinality(UpTo(d, w))
  BY KthExists
<1>2. /\ \A i \in DOMAIN d : d[i] \in Nat
      /\ \A u : /\ UpTo(d, u) \in SUBSET DOMAIN d /\ Below(d, u) \in SUBSET DOMAIN d
                /\ Cardinality(UpTo(d, u)) \in Nat /\ Cardinality(Below(d, u)) \in Nat
  BY SeriesFacts DEF UpTo, Below
<1>3. v \in Nat /\ w \in Nat BY <1>1, <1>2
<1> HIDE DEF w
<1>4. ASSUME NEW a \in {v, w}, NEW b \in {v, w} PROVE ~(a < b)
  <2>1. SUFFICES ASSUME a < b PROVE FALSE
    OBVIOUS
  <2>2. UpTo(d, a) \in SUBSET Below(d, b) BY <1>2, <1>3, <2>1 DEF UpTo, Below
  <2>3. Cardinality(UpTo(d, a)) <= Cardinality(Below(d, b)) BY <1>2, <2>2, Smaller
  <2>4. k \in Nat /\ Cardinality(Below(d, b)) < k /\ k <= Cardinality(UpTo(d, a)) BY <1>1
  <2>5. QED BY <1>2, <2>3, <2>4
<1>5. QED BY <1>3, <1>4 DEF w

(* Turned upside down, a series has its values the other way round.        *)
LEMMA KthMirrored ==
  ASSUME NEW d \in Seq(Nat), NEW k \in 1 .. Len(d)
  PROVE  KthSmallest([i \in DOMAIN d |-> -d[i]], Len(d) + 1 - k) = -KthSmallest(d, k)
<1> DEFINE e == [i \in DOMAIN d |-> -d[i]]
           n == Len(d)
           m == n + 1 - k
           v == KthSmallest(d, k)
           Lower(u) == {i \in DOMAIN e : e[i] < u}
           NotAbove(u) == {i \in DOMAIN e : e[i] <= u}
<1>1. /\ \A i \in DOMAIN d : d[i] \in Nat
      /\ IsFiniteSet(DOMAIN d) /\ Cardinality(DOMAIN d) = n
      /\ n \in Nat /\ k \in Nat
      /\ \A u : /\ UpTo(d, u) \in SUBSET DOMAIN d /\ Below(d, u) \in SUBSET DOMAIN d
                /\ Cardinality(UpTo(d, u)) \in Nat /\ Cardinality(Below(d, u)) \in Nat
  BY SeriesFacts DEF UpTo, Below
<1>2. v \in {d[i] : i \in DOMAIN d} /\ Cardinality(Below(d, v)) < k /\ k <= Cardinality(UpTo(d, v))
  BY KthExists
<1>3. v \in Nat BY <1>1, <1>2
<1>4. ASSUME NEW u \in Nat
      PROVE  /\ Cardinality(NotAbove(-u)) = n - Cardinality(Below(d, u))
             /\ Cardinality(Lower(-u)) = n - Cardinality(UpTo(d, u))
  <2>1. NotAbove(-u) = {i \in DOMAIN d : d[i] >= u} BY <1>1
  <2>2. Lower(-u) = DOMAIN d \ UpTo(d, u) BY <1>1 DEF UpTo
  <2>3. DOMAIN d \cap UpTo(d, u) = UpTo(d, u) BY DEF UpTo
  <2>4. Cardinality(DOMAIN d \ UpTo(d, u)) = Cardinality(DOMAIN d) - Cardinality(DOMAIN d \cap UpTo(d, u))
    BY <1>1, FS_Difference
  <2>5. QED BY <1>1, <2>1, <2>2, <2>3, <2>4, AtLeastCount
<1>5. /\ -v \in {e[i] : i \in DOMAIN e}
      /\ Cardinality(Lower(-v)) < m /\ m <= Cardinality(NotAbove(-v))
  <2>1. -v \in {e[i] : i \in DOMAIN e} BY <1>1, <1>2
  <2>2. /\ Cardinality(NotAbove(-v)) = n - Cardinality(Below(d, v))
        /\ Cardinality(Lower(-v)) = n - Cardinality(UpTo(d, v))
    BY <1>3, <1>4
  <2>3. Cardinality(Below(d, v)) \in Nat /\ Cardinality(UpTo(d, v)) \in Nat BY <1>1
  <2>4. n \in Nat /\ k \in Nat BY <1>1
  <2> HIDE DEF v, n, e, Lower, NotAbove
  <2>5. Cardinality(Lower(-v)) < m /\ m <= Cardinality(NotAbove(-v))
    BY <1>2, <2>2, <2>3, <2>4
  <2>6. QED BY <2>1, <2>5
<1>6. ASSUME NEW w \in {e[i] : i \in DOMAIN e},
             Cardinality(Lower(w)) < m, m <= Cardinality(NotAbove(w))
      PROVE  w = -v
  <2>1. PICK i \in DOMAIN d : w = -d[i] BY <1>6
  <2>2. d[i] \in Nat BY <1>1
  <2>3. /\ Cardinality(NotAbove(w)) = n - Cardinality(Below(d, d[i]))
        /\ Cardinality(Lower(w)) = n - Cardinality(UpTo(d, d[i]))
    BY <1>4, <2>1, <2>2
  <2>4. /\ Cardinality(Below(d, d[i])) \in Nat /\ Cardinality(UpTo(d, d[i])) \in Nat
        /\ n \in Nat /\ k \in Nat
    BY <1>1
  <2> HIDE DEF v, n, e, Lower, NotAbove
  <2>5. Cardinality(Below(d, d[i])) < k /\ k <= Cardinality(UpTo(d, d[i]))
    BY <1>6, <2>3, <2>4
  <2>6. d[i] = v BY <2>5, KthUnique DEF v
  <2>7. QED BY <2>1, <2>6
<1>7. KthSmallest(e, m) = CHOOSE w \in {e[i] : i \in DOMAIN e} :
                            Cardinality(Lower(w)) < m /\ m <= Cardinality(NotAbove(w))
  BY DEF KthSmallest
<1> HIDE DEF e, m, v, Lower, NotAbove
<1>8. KthSmallest(e, m) = -v BY <1>5, <1>6, <1>7
<1>9. QED BY <1>8 DEF e, m, v, n

(* percentile(d, 0.50) prefers neither side.                               *)
LEMMA MedianMirrored ==
  ASSUME NEW d \in Seq(Nat), d # <<>>
  PROVE  P50Doubled([i \in DOMAIN d |-> -d[i]]) = -P50Doubled(d)
<1> DEFINE e == [i \in DOMAIN d |-> -d[i]]
           n == Len(d)
           h == n \div 2
<1>1. n \in Nat /\ n > 0 BY P95AtRank
<1>2. h + 1 \in 1 .. n /\ (n % 2 # 1 => h \in 1 .. n) /\ h \in Nat BY <1>1, Ranks
<1>3. (n % 2 = 1 => n + 1 - (h + 1) = h + 1) /\ (n % 2 # 1 => n = 2 * h)
  BY <1>1
<1>4. Len(e) = n
  <2>1. DOMAIN e = 1 .. n BY SeriesFacts
  <2>2. QED BY <1>1, <2>1
<1>5. \A k \in 1 .. n : KthSmallest(d, k) \in Nat BY KthExists, SeriesFacts
<1>6. \A k \in 1 .. n : KthSmallest(e, n + 1 - k) = -KthSmallest(d, k) BY KthMirrored
<1>7. P50Doubled(e) = IF n % 2 = 1 THEN 2 * KthSmallest(e, h + 1)
                                   ELSE KthSmallest(e, h) + KthSmallest(e, h + 1)
  BY <1>4 DEF P50Doubled
<1>8. P50Doubled(d) = IF n % 2 = 1 THEN 2 * KthSmallest(d, h + 1)
                                   ELSE KthSmallest(d, h) + KthSmallest(d, h + 1)
  BY DEF P50Doubled
<1> HIDE DEF n, h, e
<1>9. ASSUME n % 2 = 1 PROVE P50Doubled(e) = -P50Doubled(d)
  <2>1. KthSmallest(e, h + 1) = -KthSmallest(d, h + 1)
    <3>1. KthSmallest(e, n + 1 - (h + 1)) = -KthSmallest(d, h + 1) BY <1>2, <1>6
    <3>2. QED BY <1>3, <1>9, <3>1
  <2>2. KthSmallest(d, h + 1) \in Nat BY <1>2, <1>5
  <2>3. P50Doubled(e) = 2 * KthSmallest(e, h + 1) /\ P50Doubled(d) = 2 * KthSmallest(d, h + 1)
    BY <1>7, <1>8, <1>9
  <2>4. QED BY <2>1, <2>2, <2>3
<1>10. ASSUME n % 2 # 1 PROVE P50Doubled(e) = -P50Doubled(d)
  <2>1. KthSmallest(e, h + 1) = -KthSmallest(d, h) /\ KthSmallest(e, h) = -KthSmallest(d, h + 1)
    <3>1. n + 1 - h = h + 1 /\ n + 1 - (h + 1) = h BY <1>2, <1>3, <1>10
    <3>2. KthSmallest(e, n + 1 - h) = -KthSmallest(d, h) BY <1>2, <1>6, <1>10
    <3>3. KthSmallest(e, n + 1 - (h + 1)) = -KthSmallest(d, h + 1) BY <1>2, <1>6
    <3>4. QED BY <3>1, <3>2, <3>3
  <2>2. KthSmallest(d, h) \in Nat /\ KthSmallest(d, h + 1) \in Nat BY <1>2, <1>5, <1>10
  <2>3. /\ P50Doubled(e) = KthSmallest(e, h) + KthSmallest(e, h + 1)
        /\ P50Doubled(d) = KthSmallest(d, h) + KthSmallest(d, h + 1)
    BY <1>7, <1>8, <1>10
  <2>4. QED BY <2>1, <2>2, <2>3
<1>11. QED BY <1>9, <1>10 DEF e

(* LongSeries are series.                                                  *)
LEMMA LongSeriesTyped == \A d \in LongSeries : d \in Seq(Nat) /\ d # <<>>
<1> SUFFICES ASSUME NEW d \in LongSeries PROVE d \in Seq(Nat) /\ d # <<>>
  OBVIOUS
<1>1. PICK n \in {1, 2, 3, 19, 20, 21, 39, 40, 41}, stride \in {0, 1, 2, 7, 11, 22} :
        d = [k \in 1 .. n |-> ((k - 1) * stride) % 23]
  BY DEF LongSeries
<1>2. n \in Nat /\ n >= 1 /\ stride \in Nat OBVIOUS
<1>3. ASSUME NEW k \in 1 .. n PROVE ((k - 1) * stride) % 23 \in Nat
  <2>1. k - 1 \in Nat BY <1>2
  <2>2. (k - 1) * stride \in Int BY <1>2, <2>1
  <2>3. QED BY <2>2
<1>4. d \in [1 .. n -> Nat] BY <1>1, <1>3
<1>5. d \in Seq(Nat) BY <1>2, <1>4, SeqDef
<1>6. DOMAIN d # {}
  <2>1. DOMAIN d = 1 .. n BY <1>4
  <2>2. 1 \in 1 .. n BY <1>2
  <2>3. QED BY <2>1, <2>2
<1>7. DOMAIN << >> = {} OBVIOUS
<1>8. QED BY <1>5, <1>6, <1>7

(* What docs/schema.md says of the percentiles: PercentilesAreRanks holds  *)
(* of the series the run looks at because it holds of every series.        *)
THEOREM PercentilesAreFair ==
  ASSUME NEW d \in Seq(Nat), d # <<>>
  PROVE  LET Values == {d[k] : k \in DOMAIN d}
             AtMost(v) == Cardinality({k \in DOMAIN d : d[k] <= v})
             enough == {v \in Values : 100 * AtMost(v) >= 95 * Len(d)}
         IN  /\ P95(d) \in enough /\ \A v \in enough : P95(d) <= v
             /\ P50Doubled([k \in DOMAIN d |-> -d[k]]) = -P50Doubled(d)
             /\ P50Doubled(d) <= 2 * P95(d)
<1>1. P50Doubled([k \in DOMAIN d |-> -d[k]]) = -P50Doubled(d) BY MedianMirrored
<1>2. P50Doubled(d) <= 2 * P95(d) BY PercentilesWithin
<1>3. QED BY <1>1, <1>2, P95IsNearestRank

(* runner.go computeStats: the series of MCRunner's run are series, so     *)
(* that what the run checks of them is an instance of the theorem above.   *)
THEOREM PercentilesCorrect == Spec => []PercentilesAreRanks
<1>1. PercentilesAreRanks BY LongSeriesTyped, PercentilesAreFair DEF PercentilesAreRanks
<1>2. QED BY <1>1, PTL

(***************************************************************************)
(* How long a run can be.  Fairness is not needed to say that the runner   *)
(* cannot go round forever: the steps it has left are counted from where   *)
(* it is, the deadline and the signal included, and every step takes from  *)
(* the count.                                                              *)
(***************************************************************************)
Bit(b) == IF b THEN 1 ELSE 0

(* What is left of the attempt under way: a layer takes two steps at most. *)
StepsToPublish ==
  IF pc = "begin" THEN 15
  ELSE IF pc = "loop" THEN 15 - 2 * pos
  ELSE IF pc = "probing" THEN 14 - 2 * pos
  ELSE IF pc = "collect" THEN 2 ELSE IF pc = "report" THEN 1 ELSE 0

AttemptsLeft == IF Active /\ count > 0 THEN count - attempt ELSE 0

DeadlineToCome == Bit(ctxErr = "nil")

SignalToCome == Bit(~interrupted)

StepsHere == StepsToPublish + DeadlineToCome + SignalToCome

StepsLeft == 14 * AttemptsLeft + StepsHere

(* The count is one of steps.                                              *)
Counted ==
  /\ pos \in 1 .. 6 /\ (pc = "probing" => pos <= 5)
  /\ StepsToPublish \in Nat /\ AttemptsLeft \in Nat
  /\ DeadlineToCome \in Nat /\ DeadlineToCome <= 1
  /\ SignalToCome \in Nat /\ SignalToCome <= 1

(* A bit counts one step or none.                                          *)
LEMMA BitType == \A b \in BOOLEAN : Bit(b) \in Nat /\ Bit(b) <= 1
BY DEF Bit

(* In every state the runner can be in, the parts of the count are counts. *)
LEMMA CountsSteps == RunnerInv => Counted
<1> SUFFICES ASSUME RunnerInv PROVE Counted
  OBVIOUS
<1>1. /\ attempt \in Nat \ {0} /\ count \in Nat
      /\ pos \in 1 .. Len(Stack) + 1
      /\ pc = "probing" => pos \in 1 .. Len(Stack)
  BY CountsAssumption DEF RunnerInv, TypeInv, TypeOK
<1>2. Len(Stack) \in 3 .. 5 BY StackTyped DEF RunnerInv, TypeInv
<1> DEFINE n == Len(Stack)
<1>n. n \in Nat /\ n <= 5 BY <1>2
<1>p. pos \in 1 .. n + 1 /\ (pc = "probing" => pos \in 1 .. n) BY <1>1
<1> HIDE DEF n
<1>3. pos \in 1 .. 6 BY <1>n, <1>p
<1>4. pc = "probing" => pos <= 5
  <2>1. pos \in 1 .. n => pos <= 5 BY <1>n
  <2>2. QED BY <1>p, <2>1
<1>5. StepsToPublish \in Nat
  <2>1. 15 - 2 * pos \in Nat BY <1>3
  <2>2. pc = "probing" => 14 - 2 * pos \in Nat BY <1>3, <1>4
  <2>3. QED BY <2>1, <2>2 DEF StepsToPublish
<1>6. AttemptsLeft \in Nat
  <2>1. Active /\ count > 0 => attempt <= count BY DEF RunnerInv, ReportInv
  <2>2. QED BY <1>1, <2>1 DEF AttemptsLeft
<1>7. /\ DeadlineToCome \in Nat /\ DeadlineToCome <= 1
      /\ SignalToCome \in Nat /\ SignalToCome <= 1
  BY BitType DEF DeadlineToCome, SignalToCome
<1>8. QED BY <1>3, <1>4, <1>5, <1>6, <1>7 DEF Counted

(* The sum of the parts falls when one of them does.                       *)
LEMMA SumOfParts ==
  ASSUME NEW s \in Nat, NEW c \in Nat, NEW i \in Nat,
         NEW t \in Nat, NEW d \in Nat, NEW j \in Nat, i <= j,
         \/ s + 2 <= t /\ c <= 1
         \/ s <= t /\ c <= d /\ (s < t \/ c < d \/ i < j)
  PROVE  s + c + i < t + d + j
OBVIOUS

(* It is a count.                                                          *)
LEMMA SumType == \A s, c, i \in Nat : s + c + i \in Nat
OBVIOUS

(* An attempt that is begun costs less than the fourteen steps set aside   *)
(* for it.                                                                 *)
LEMMA NextAttempt ==
  ASSUME NEW s \in Nat, NEW t \in Nat, s < 14 + t, NEW w \in Nat, NEW v \in Nat, w + 1 = v
  PROVE  14 * w + s < 14 * v + t
OBVIOUS

(* Within an attempt only its own steps count.                             *)
LEMMA SameAttempt ==
  ASSUME NEW s \in Nat, NEW t \in Nat, s < t, NEW w \in Nat
  PROVE  14 * w + s < 14 * w + t
OBVIOUS

(* A step takes from one of the parts and adds to no other, or not as much. *)
LEMMA StepHere ==
  ASSUME Counted, Counted', AttemptsLeft' = AttemptsLeft, SignalToCome' <= SignalToCome,
         \/ StepsToPublish' + 2 <= StepsToPublish /\ DeadlineToCome' <= 1
         \/ /\ StepsToPublish' <= StepsToPublish /\ DeadlineToCome' <= DeadlineToCome
            /\ \/ StepsToPublish' < StepsToPublish
               \/ DeadlineToCome' < DeadlineToCome
               \/ SignalToCome' < SignalToCome
  PROVE  StepsLeft' < StepsLeft
<1>1. /\ StepsToPublish \in Nat /\ AttemptsLeft \in Nat
      /\ DeadlineToCome \in Nat /\ SignalToCome \in Nat
  BY DEF Counted
<1>2. /\ StepsToPublish' \in Nat /\ AttemptsLeft' \in Nat
      /\ DeadlineToCome' \in Nat /\ SignalToCome' \in Nat
  BY DEF Counted
<1>3. StepsToPublish' + DeadlineToCome' + SignalToCome'
        < StepsToPublish + DeadlineToCome + SignalToCome
  BY Zenon, <1>1, <1>2, SumOfParts
<1>4. StepsHere' < StepsHere BY <1>3 DEF StepsHere
<1>5. StepsHere \in Nat BY <1>1 DEF StepsHere
<1>6. StepsHere' \in Nat BY Zenon, <1>2, SumType DEF StepsHere
<1>7. 14 * AttemptsLeft + StepsHere' < 14 * AttemptsLeft + StepsHere
  BY Zenon, <1>1, <1>4, <1>5, <1>6, SameAttempt
<1>8. QED BY <1>1, <1>7 DEF StepsLeft

(* A step of the runner that leaves contexts and counters alone is one of  *)
(* the steps of its attempt.                                               *)
LEMMA StepUncut ==
  ASSUME Counted, Counted', AttemptsLeft' = AttemptsLeft \/ UNCHANGED <<count, attempt, Active>>,
         UNCHANGED <<interrupted, ctxErr>>, StepsToPublish' < StepsToPublish
  PROVE  StepsLeft' < StepsLeft
<1>1. AttemptsLeft' = AttemptsLeft BY DEF AttemptsLeft
<1>2. SignalToCome' = SignalToCome /\ DeadlineToCome' = DeadlineToCome
  BY DEF SignalToCome, DeadlineToCome
<1>3. /\ StepsToPublish \in Nat /\ DeadlineToCome \in Nat /\ SignalToCome \in Nat
  BY DEF Counted
<1>4. StepsToPublish' \in Nat BY DEF Counted
<1>5. StepsToPublish' <= StepsToPublish
  <2>1. \A a, b \in Nat : a < b => a <= b OBVIOUS
  <2>2. QED BY Zenon, <1>3, <1>4, <2>1
<1>6. DeadlineToCome' <= DeadlineToCome /\ SignalToCome' <= SignalToCome BY <1>2, <1>3
<1>7. QED BY Zenon, <1>1, <1>5, <1>6, StepHere

(* Every action takes from the count.                                      *)
LEMMA StepTakes ==
  ASSUME RunnerInv, Counted, Counted', [Next]_vars, vars' # vars
  PROVE  StepsLeft' < StepsLeft
<1>0. /\ pos \in 1 .. 6 /\ StepsToPublish \in Nat /\ AttemptsLeft \in Nat
      /\ DeadlineToCome \in Nat /\ DeadlineToCome' <= 1 /\ SignalToCome \in Nat
  BY DEF Counted
<1>1. CASE Begin
  <2>1. /\ pc = "begin" /\ pc' = "loop" /\ pos' = 1
        /\ UNCHANGED <<count, attempt, interrupted>>
    BY <1>1 DEF Begin, sigVars
  <2>2. AttemptsLeft' = AttemptsLeft BY <2>1 DEF AttemptsLeft, Active
  <2>3. SignalToCome' <= SignalToCome BY <1>0, <2>1 DEF SignalToCome
  <2>4. StepsToPublish' + 2 <= StepsToPublish BY <2>1 DEF StepsToPublish
  <2>5. QED BY <1>0, <2>2, <2>3, <2>4, StepHere
<1>2. CASE SkipLayer
  <2>1. /\ pc = "loop" /\ pc' = "loop" /\ pos' = pos + 1
        /\ UNCHANGED <<count, attempt, interrupted, ctxErr>>
    BY <1>2 DEF SkipLayer, sigVars
  <2>2. StepsToPublish' < StepsToPublish BY <1>0, <2>1 DEF StepsToPublish
  <2>3. QED BY <2>1, <2>2, StepUncut DEF Active
<1>3. CASE CallProbe
  <2>1. /\ pc = "loop" /\ pc' = "probing" /\ pos' = pos
        /\ UNCHANGED <<count, attempt, interrupted, ctxErr>>
    BY <1>3 DEF CallProbe, sigVars, runVars
  <2>2. StepsToPublish' < StepsToPublish BY <1>0, <2>1 DEF StepsToPublish
  <2>3. QED BY <2>1, <2>2, StepUncut DEF Active
<1>4. ASSUME NEW r, ProbeReturns(r) PROVE StepsLeft' < StepsLeft
  <2>1. /\ pc = "probing" /\ pc' = "loop" /\ pos' = pos + 1
        /\ UNCHANGED <<count, attempt, interrupted, ctxErr>>
    BY <1>4 DEF ProbeReturns, sigVars
  <2>2. StepsToPublish' < StepsToPublish BY <1>0, <2>1 DEF StepsToPublish
  <2>3. QED BY <2>1, <2>2, StepUncut DEF Active
<1>5. CASE Summarize
  <2>1. /\ pc = "loop"
        /\ \/ count = 0 /\ pc' = "report"
           \/ count # 0 /\ pc' = "collect"
        /\ UNCHANGED <<count, attempt, interrupted, ctxErr>>
    BY <1>5 DEF Summarize, sigVars
  <2>2. ~(count = 0) \/ ~(count > 0) OBVIOUS
  <2>3. AttemptsLeft' = AttemptsLeft BY <2>1, <2>2 DEF AttemptsLeft, Active
  <2>4. StepsToPublish = 15 - 2 * pos /\ (StepsToPublish' = 1 \/ StepsToPublish' = 2)
    BY <2>1 DEF StepsToPublish
  <2>5. StepsToPublish' < StepsToPublish BY <1>0, <2>4
  <2>6. QED BY <2>1, <2>3, <2>5, StepUncut
<1>6. CASE Collect
  <2>1. /\ pc = "collect" /\ UNCHANGED <<count, interrupted>> /\ ctxErr' # "nil"
        /\ \/ attempt < count /\ attempt' = attempt + 1 /\ pc' = "begin"
           \/ ~(attempt < count) /\ attempt' = attempt /\ pc' = "report"
    BY <1>6 DEF Collect, sigVars
  <2>2. /\ attempt \in Nat /\ count \in Nat /\ count > 0 /\ attempt <= count
    BY <2>1, CountsAssumption DEF RunnerInv, TypeInv, TypeOK, ReportInv, Active
  <2>3. SignalToCome' = SignalToCome /\ DeadlineToCome' = 0 /\ StepsToPublish = 2
    BY <2>1 DEF Bit, DeadlineToCome, SignalToCome, StepsToPublish
  <2>4. CASE attempt < count /\ attempt' = attempt + 1 /\ pc' = "begin"
    <3>1. AttemptsLeft = count - attempt /\ AttemptsLeft' = count - (attempt + 1)
      BY <2>1, <2>2, <2>4 DEF AttemptsLeft, Active
    <3>2. AttemptsLeft' \in Nat /\ AttemptsLeft' + 1 = AttemptsLeft BY <2>2, <2>4, <3>1
    <3>3. StepsToPublish' = 15 BY <2>4 DEF StepsToPublish
    <3>4. StepsHere' \in Nat /\ StepsHere \in Nat /\ StepsHere' < 14 + StepsHere
      BY <1>0, <2>3, <3>3 DEF StepsHere
    <3>5. 14 * AttemptsLeft' + StepsHere' < 14 * AttemptsLeft + StepsHere
      BY Zenon, <1>0, <3>2, <3>4, NextAttempt
    <3>6. QED BY <3>5 DEF StepsLeft
  <2>5. CASE ~(attempt < count) /\ pc' = "report"
    <3>1. AttemptsLeft = 0 /\ AttemptsLeft' = 0
      BY <2>1, <2>2, <2>5 DEF AttemptsLeft, Active
    <3>2. StepsToPublish' = 1 BY <2>5 DEF StepsToPublish
    <3>3. QED BY <1>0, <2>3, <3>1, <3>2, StepHere
  <2>6. QED BY <2>1, <2>4, <2>5
<1>7. CASE Report
  <2>1. /\ pc = "report" /\ pc' = "done"
        /\ UNCHANGED <<count, attempt, interrupted, ctxErr>>
    BY <1>7 DEF Report, sigVars
  <2>2. AttemptsLeft' = AttemptsLeft BY <2>1 DEF AttemptsLeft, Active
  <2>3. StepsToPublish' < StepsToPublish BY <2>1 DEF StepsToPublish
  <2>4. QED BY <2>1, <2>2, <2>3, StepUncut
<1>8. CASE DeadlineFires
  <2>1. /\ ctxErr = "nil" /\ ctxErr' # "nil"
        /\ UNCHANGED <<count, attempt, interrupted, pc, pos>>
    BY <1>8 DEF DeadlineFires, sigVars, runVars
  <2>2. AttemptsLeft' = AttemptsLeft /\ StepsToPublish' = StepsToPublish
    BY <2>1 DEF AttemptsLeft, Active, StepsToPublish
  <2>3. SignalToCome' = SignalToCome BY <2>1 DEF SignalToCome
  <2>4. DeadlineToCome = 1 /\ DeadlineToCome' = 0 BY <2>1 DEF Bit, DeadlineToCome
  <2>5. QED BY <1>0, <2>2, <2>3, <2>4, StepHere
<1>9. CASE Signal
  <2>1. /\ ~interrupted /\ interrupted' = TRUE /\ (ctxErr' = "nil" => ctxErr = "nil")
        /\ UNCHANGED <<count, attempt, pc, pos>>
    BY <1>9 DEF Signal, runVars
  <2>2. AttemptsLeft' = AttemptsLeft /\ StepsToPublish' = StepsToPublish
    BY <2>1 DEF AttemptsLeft, Active, StepsToPublish
  <2>3. SignalToCome = 1 /\ SignalToCome' = 0 BY <2>1 DEF Bit, SignalToCome
  <2>4. DeadlineToCome' <= DeadlineToCome BY <2>1 DEF Bit, DeadlineToCome
  <2>5. QED BY <1>0, <2>2, <2>3, <2>4, StepHere
<1>10. QED
  BY <1>1, <1>2, <1>3, <1>4, <1>5, <1>6, <1>7, <1>8, <1>9
  DEF Next, RunnerStep, ProbeReturning

(* The loops of RunOnce and RunCount are bounded, whatever the probes      *)
(* return and whenever the deadlines and the signal fall: a run has 14     *)
(* steps for each attempt and three more, and each step it takes, down to  *)
(* the report, is one of them.  (That it takes them is Terminates.)        *)
THEOREM RunIsBounded ==
  Spec => /\ StepsLeft <= 14 * (IF count = 0 THEN 1 ELSE count) + 3
          /\ [](StepsLeft \in Nat)
          /\ [][StepsLeft' < StepsLeft]_vars
<1>1. Init => StepsLeft <= 14 * (IF count = 0 THEN 1 ELSE count) + 3
  <2> SUFFICES ASSUME Init PROVE StepsLeft <= 14 * (IF count = 0 THEN 1 ELSE count) + 3
    OBVIOUS
  <2>1. pc = "begin" /\ attempt = 1 /\ count \in Nat BY Zenon, CountsAssumption DEF Init
  <2>2. StepsToPublish = 15 BY <2>1 DEF StepsToPublish
  <2>3. AttemptsLeft = IF count = 0 THEN 0 ELSE count - 1 BY <2>1 DEF AttemptsLeft, Active
  <2>4. /\ DeadlineToCome \in Nat /\ DeadlineToCome <= 1
        /\ SignalToCome \in Nat /\ SignalToCome <= 1
    BY BitType DEF DeadlineToCome, SignalToCome
  <2>5. QED BY <2>1, <2>2, <2>3, <2>4 DEF StepsLeft, StepsHere
<1>2. Counted => StepsLeft \in Nat BY DEF Counted, StepsLeft, StepsHere
<1>3. RunnerInv /\ Counted /\ Counted' /\ [Next]_vars => [StepsLeft' < StepsLeft]_vars
  BY StepTakes
<1>4. QED BY <1>1, <1>2, <1>3, CountsSteps, RunnerInvariance, PTL DEF Spec

(***************************************************************************)
(* The exit code of a diagnosis, for every result.                         *)
(***************************************************************************)

(* exitcode.FromResult, over every map of results a walk can hand it and   *)
(* not those of the outcomes chosen for a run: 0 is no warning and no      *)
(* failure, 2 a warning and no failure, a layer's code is the lowest       *)
(* failing layer's, and 1 is that of a lowest failing layer that reports   *)
(* an error of the tool.                                                   *)
THEOREM FromResultIsExact ==
  ASSUME NEW ls \in [LayerNames -> LayerValue]
  PROVE  LET Failed(l) == ls[l].status = "fail"
             Lowest(l) == Failed(l) /\ \A m \in LayerNames : Failed(m) => Rank[l] <= Rank[m]
             tooled == {l \in LayerNames : ls[l].code \in ToolErrorCodes}
         IN  /\ FromResult(ls) = 0 <=> \A l \in LayerNames : ls[l].status \notin {"warn", "fail"}
             /\ FromResult(ls) = 1 <=> \E l \in tooled : Lowest(l)
             /\ FromResult(ls) = 2 <=> /\ \A l \in LayerNames : ~Failed(l)
                                       /\ \E l \in LayerNames : ls[l].status = "warn"
             /\ \A l \in LayerNames :
                  FromResult(ls) = LayerCodes[l] <=> Lowest(l) /\ l \notin tooled
<1> DEFINE Failed(l) == ls[l].status = "fail"
           Lowest(l) == Failed(l) /\ \A m \in LayerNames : Failed(m) => Rank[l] <= Rank[m]
           tooled == {l \in LayerNames : ls[l].code \in ToolErrorCodes}
           failing == WithStatus(ls, "fail")
           warning == WithStatus(ls, "warn")
           first == First(failing)
<1>1. \A l \in LayerNames : l \in failing <=> Failed(l) BY DEF WithStatus
<1>2. \A l \in LayerNames : l \in warning <=> ls[l].status = "warn" BY DEF WithStatus
<1>3. failing \in SUBSET LayerNames /\ warning \in SUBSET LayerNames BY DEF WithStatus
<1>4. failing # {} => \A l \in LayerNames : Lowest(l) <=> l = first
  <2>1. SUFFICES ASSUME failing # {}, NEW l \in LayerNames PROVE Lowest(l) <=> l = first
    OBVIOUS
  <2>2. first \in failing /\ \A m \in failing : Rank[first] <= Rank[m]
    BY <1>3, <2>1, FirstFacts
  <2>3. Lowest(first) BY <1>1, <1>3, <2>2
  <2>4. ASSUME Lowest(l) PROVE l = first
    <3>1. Rank[l] <= Rank[first] /\ Rank[first] <= Rank[l] BY <1>1, <1>3, <2>2, <2>4
    <3>2. first \in LayerNames BY <1>3, <2>2
    <3> HIDE DEF first
    <3>3. QED BY <3>1, <3>2 DEF Rank, LayerNames
  <2>5. QED BY <2>3, <2>4
<1>5. failing = {} => \A l \in LayerNames : ~Lowest(l) /\ ~Failed(l) BY <1>1
<1>6. failing # {} => first \in LayerNames BY <1>3, FirstFacts
<1>7. /\ \A l \in LayerNames : LayerCodes[l] \notin {0, 1, 2}
      /\ \A l, m \in LayerNames : LayerCodes[l] = LayerCodes[m] => l = m
  BY DEF LayerCodes, LayerNames
<1>8. CASE failing # {} /\ first \in tooled
  <2>1. FromResult(ls) = 1 BY <1>8 DEF FromResult
  <2>2. \A l \in LayerNames : Lowest(l) <=> l = first BY <1>4, <1>8
  <2>3. Failed(first) BY <1>1, <1>3, <1>6, <1>8, <2>2
  <2> HIDE DEF failing, warning, first, tooled, Lowest
  <2>4. \E l \in LayerNames : ls[l].status \in {"warn", "fail"} /\ Failed(l) BY <1>6, <1>8, <2>3
  <2>5. \A l \in LayerNames : FromResult(ls) # LayerCodes[l] BY <1>7, <2>1
  <2>6. \A l \in LayerNames : ~(Lowest(l) /\ l \notin tooled) BY <1>8, <2>2
  <2>7. \E l \in tooled : Lowest(l) BY <1>6, <1>8, <2>2
  <2>8. FromResult(ls) # 0 /\ FromResult(ls) # 2 BY <2>1
  <2>9. QED BY <2>1, <2>4, <2>5, <2>6, <2>7, <2>8 DEF tooled, Lowest
<1>9. CASE failing # {} /\ first \notin tooled
  <2>1. FromResult(ls) = LayerCodes[first] BY <1>6, <1>9 DEF FromResult
  <2>2. \A l \in LayerNames : Lowest(l) <=> l = first BY <1>4, <1>9
  <2>3. Failed(first) BY <1>1, <1>3, <1>6, <1>9, <2>2
  <2>t. \A l \in tooled : l \in LayerNames OBVIOUS
  <2> HIDE DEF failing, warning, first, tooled, Lowest
  <2>4. \E l \in LayerNames : ls[l].status \in {"warn", "fail"} /\ Failed(l) BY <1>6, <1>9, <2>3
  <2>5. \A l \in LayerNames : FromResult(ls) = LayerCodes[l] <=> l = first
    BY <1>6, <1>7, <1>9, <2>1
  <2>6. \A l \in LayerNames : Lowest(l) /\ l \notin tooled <=> l = first BY <1>9, <2>2
  <2>7. \A l \in tooled : ~Lowest(l) BY <1>9, <2>2, <2>t
  <2>8. FromResult(ls) \notin {0, 1, 2} BY <1>6, <1>7, <1>9, <2>1
  <2>9. QED BY <2>4, <2>5, <2>6, <2>7, <2>8 DEF tooled, Lowest
<1>10. CASE failing = {}
  <2>1. FromResult(ls) = IF warning # {} THEN 2 ELSE 0 BY <1>10 DEF FromResult
  <2>2. \A l \in LayerNames : ~Lowest(l) /\ ~Failed(l) BY <1>5, <1>10
  <2>3. warning # {} <=> \E l \in LayerNames : ls[l].status = "warn" BY <1>2, <1>3
  <2>4. \A l \in LayerNames : FromResult(ls) # LayerCodes[l] BY <1>7, <2>1
  <2>t. \A l \in tooled : l \in LayerNames OBVIOUS
  <2>5. FromResult(ls) = 0 <=> \A l \in LayerNames : ls[l].status \notin {"warn", "fail"}
    BY <2>1, <2>2, <2>3
  <2> HIDE DEF failing, warning, first, tooled, Lowest
  <2>6. FromResult(ls) # 1 /\ ~\E l \in tooled : Lowest(l) BY <2>1, <2>2, <2>t
  <2>7. QED BY <2>1, <2>2, <2>3, <2>4, <2>5, <2>6 DEF tooled, Lowest
<1>11. QED BY <1>8, <1>9, <1>10

(***************************************************************************)
(* What exit code 0 means of a diagnosis, and exit code 1 of a run.        *)
(***************************************************************************)

(* A walk that was stopped has a failed layer to show for it; a walk that  *)
(* was finished with exit code 0 under a live context executed everything. *)
FinishedInTime ==
  (pc = "collect" \/ (count = 0 /\ pc \in {"report", "done"}))
    /\ exitCode = 0 /\ ctxErr = "nil"
  => \A l \in Applicable(scheme) : Executed(layers[l])

InTimeInv ==
  /\ pc \in {"loop", "probing"} /\ stopped =>
       \E l \in LayerNames : layers[l].status = "fail"
  /\ FinishedInTime

(* Nothing is finished or stopped at first.                                *)
LEMMA InTimeInit == Init => InTimeInv
BY DEF Init, InTimeInv, FinishedInTime

(* Every step keeps it: Summarize because an exit code 0 leaves no failed  *)
(* layer, so that nothing stopped the walk, and a live context skips none. *)
LEMMA InTimeStep == RunnerInv /\ InTimeInv /\ [Next]_vars => InTimeInv'
<1> SUFFICES ASSUME RunnerInv, InTimeInv, [Next]_vars PROVE InTimeInv'
  OBVIOUS
<1>0. /\ layers \in [LayerNames -> LayerValue] /\ scheme \in AllSchemes
      /\ pos \in 1 .. Len(Stack) + 1
      /\ DOMAIN Stack = 1 .. Len(Stack) /\ Len(Stack) \in Nat
      /\ \A i \in 1 .. Len(Stack) : Stack[i] \in LayerNames
  <2>1. TypeOK BY DEF RunnerInv, TypeInv
  <2>2. /\ DOMAIN Stack = 1 .. Len(Stack) /\ Len(Stack) \in 3 .. 5
        /\ \A i \in 1 .. Len(Stack) : Stack[i] \in LayerNames
    BY <2>1, StackTyped
  <2>3. /\ layers \in [LayerNames -> LayerValue] /\ scheme \in AllSchemes
        /\ pos \in 1 .. Len(Stack) + 1
    BY <2>1, SchemesAssumption DEF TypeOK
  <2>4. QED BY <2>2, <2>3
<1>1. CASE Begin BY <1>1 DEF Begin, InTimeInv, FinishedInTime
<1>2. CASE SkipLayer
  <2>1. /\ pc = "loop" /\ pc' = "loop" /\ stopped' = stopped
        /\ pos \in DOMAIN Stack /\ layers' = [layers EXCEPT ![Stack[pos]] = SkipResult]
    BY <1>2 DEF SkipLayer
  <2>2. pos \in 1 .. Len(Stack) /\ TypeInv /\ WalkInv BY <1>0, <2>1 DEF RunnerInv
  <2>3. \A m \in LayerNames : Executed(layers[m]) => Rank[m] < Rank[Stack[pos]]
    BY <2>2, AtPos
  <2>4. ~Executed(layers[Stack[pos]])
    <3>1. Stack[pos] \in LayerNames BY <1>0, <2>2
    <3>2. ~(Rank[Stack[pos]] < Rank[Stack[pos]]) BY <3>1, RankType
    <3>3. QED BY <2>3, <3>1, <3>2
  <2>5. layers[Stack[pos]].status # "fail"
    <3>1. Stack[pos] \in LayerNames BY <1>0, <2>2
    <3>2. Sound(Stack[pos], layers[Stack[pos]]) BY <3>1 DEF RunnerInv, RenderInv
    <3>3. QED BY <2>4, <3>1, <3>2, SoundFacts
  <2>6. \A l \in LayerNames : layers[l].status = "fail" => layers'[l] = layers[l]
    BY <1>0, <2>1, <2>5
  <2>7. QED BY <2>1, <2>6 DEF InTimeInv, FinishedInTime
<1>3. CASE CallProbe
  BY <1>3 DEF CallProbe, runVars, MustSkip, InTimeInv, FinishedInTime
<1>4. ASSUME NEW r, ProbeReturns(r) PROVE InTimeInv'
  <2>1. /\ pc = "probing" /\ pc' = "loop"
        /\ layers' = [layers EXCEPT ![Stack[pos]] = r]
        /\ stopped' = (stopped \/ ~ShouldContinue(r.status))
    BY <1>4 DEF ProbeReturns
  <2>2. ~stopped BY <2>1 DEF RunnerInv, WalkInv
  <2>3. pos \in 1 .. Len(Stack) BY <2>1 DEF RunnerInv, TypeInv
  <2>4. Stack[pos] \in LayerNames BY <1>0, <2>3
  <2>5. layers'[Stack[pos]] = r BY <1>0, <2>1, <2>4
  <2>6. stopped' => r.status = "fail" BY <2>1, <2>2 DEF ShouldContinue
  <2>7. QED BY <2>1, <2>4, <2>5, <2>6 DEF InTimeInv, FinishedInTime
<1>5. CASE Summarize
  <2>1. /\ pc = "loop" /\ pos \notin DOMAIN Stack
        /\ layers' = [l \in LayerNames |->
                        IF layers[l] = Absent THEN SkipResult ELSE layers[l]]
        /\ exitCode' = FromResult(layers')
        /\ pc' = IF count = 0 THEN "report" ELSE "collect"
        /\ UNCHANGED <<scheme, count, ctxErr, stopped>>
    BY <1>5 DEF Summarize
  <2>2. SUFFICES ASSUME exitCode' = 0, ctxErr = "nil", NEW l \in Applicable(scheme)
                 PROVE  Executed(layers'[l])
    BY <2>1 DEF InTimeInv, FinishedInTime
  <2>3. layers' \in [LayerNames -> LayerValue] BY <1>0, <2>1, SkipResultType DEF LayerValue
  <2>4. \A m \in LayerNames : layers'[m].status # "fail" BY <2>1, <2>2, <2>3, FromResultIsExact
  <2>5. \A m \in LayerNames : layers[m].status = "fail" => layers'[m] = layers[m]
    BY <2>1 DEF Absent
  <2>6. ~stopped BY <2>1, <2>4, <2>5 DEF InTimeInv
  <2>7. Probing BY <2>1, <2>2, <2>6 DEF Probing, MustSkip
  <2>8. \A i \in 1 .. pos - 1 : Executed(layers[Stack[i]])
    BY <2>7 DEF RunnerInv, WalkInv
  <2>9. PICK i \in 1 .. Len(Stack) : Stack[i] = l
    BY <1>0, <2>2, StackFacts DEF Stack
  <2>10. pos - 1 = Len(Stack) BY <1>0, <2>1
  <2>11. Executed(layers[l]) BY <2>8, <2>9, <2>10
  <2>12. l \in LayerNames BY <1>0, <2>9
  <2>13. layers'[l] = layers[l] BY <2>1, <2>11, <2>12, NotExecuted
  <2>14. QED BY <2>11, <2>13
<1>6. CASE Collect
  <2>1. pc' \in {"begin", "report"} /\ count # 0 /\ count' = count
    BY <1>6 DEF Collect, RunnerInv, ReportInv
  <2>2. QED BY <2>1 DEF InTimeInv, FinishedInTime
<1>7. CASE Report
  BY <1>7 DEF Report, runVars, InTimeInv, FinishedInTime
<1>8. CASE DeadlineFires
  BY <1>8 DEF DeadlineFires, runVars, InTimeInv, FinishedInTime
<1>9. CASE Signal
  BY <1>9 DEF Signal, runVars, InTimeInv, FinishedInTime
<1>10. CASE UNCHANGED vars
  BY <1>10 DEF vars, runVars, InTimeInv, FinishedInTime
<1>11. QED
  BY <1>1, <1>2, <1>3, <1>4, <1>5, <1>6, <1>7, <1>8, <1>9, <1>10
  DEF Next, RunnerStep, ProbeReturning

(* cli.go, help text: "0   All layers passed".  ExitZeroMeansPassed is     *)
(* false, but only for want of time: a run whose context is still live     *)
(* once RunOnce has summarized it has exit code 0 only if every layer the  *)
(* target needs was executed.                                              *)
THEOREM ExitZeroInTime == Spec => []FinishedInTime
<1>1. InTimeInv => FinishedInTime BY DEF InTimeInv
<1>2. QED BY <1>1, RunnerInvariance, InTimeInit, InTimeStep, PTL DEF Spec

(* types.go: exit code 1 is for the tool's own errors, which main decides. *)
(* No diagnosis ends with it, whatever its probes returned: this is what   *)
(* Stdiag takes the exit code of a run to be.                              *)
THEOREM RunIsNoToolError == Spec => [](pc = "done" => report.exit \in ExitCodes \ {1})
<1>1. ASSUME RunnerInv, pc = "done" PROVE report.exit \in ExitCodes \ {1}
  <2>1. TypeOK BY <1>1 DEF RunnerInv, TypeInv
  <2>2. CASE count = 0
    <3>1. report = [exit |-> exitCode] BY <1>1, <2>2 DEF RunnerInv, RenderInv
    <3>2. exitCode \in ExitCodes BY <2>1 DEF TypeOK
    <3>3. exitCode # 1 BY <1>1, AttemptFacts DEF Agree
    <3>4. QED BY <3>1, <3>2, <3>3
  <2>3. CASE count > 0
    <3>1. PICK k \in DOMAIN attempts : report.exit = attempts[k].exit
      BY <1>1, <2>3, MeasurementSound DEF RunnerInv, ReportSound
    <3>2. attempts[k].exit # 1 BY <1>1, AttemptFacts DEF Agree
    <3>3. attempts[k].exit \in ExitCodes
      <4> DEFINE S == [layers : [LayerNames -> Result], exit : ExitCodes,
                       firstNonOK : LayerNames \cup {""}]
      <4>1. attempts \in Seq(S) BY <2>1 DEF TypeOK
      <4>2. \A a \in S : a.exit \in ExitCodes OBVIOUS
      <4> HIDE DEF S
      <4>3. QED BY <4>1, <4>2, LenProperties, ElementOfSeq
    <3>4. QED BY <3>1, <3>2, <3>3
  <2>4. QED BY <1>1, <2>2, <2>3, AttemptFacts
<1>2. RunnerInv => (pc = "done" => report.exit \in ExitCodes \ {1}) BY <1>1
<1>3. QED BY <1>2, RunnerInvariance, PTL
==============================================================================
