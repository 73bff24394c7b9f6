------------------------------- MODULE Pipeline -------------------------------
(***************************************************************************)
(* What a diagnosis promises, without saying how it is run: the layers a   *)
(* target needs are decided bottom up, one at a time; once one fails, or   *)
(* the run is cut short, nothing above it is executed any more; and when   *)
(* every layer is decided one exit code is published that names the layer  *)
(* that failed.  A repeated measurement is a series of such diagnoses.     *)
(*                                                                         *)
(* Runner.tla is shown to implement this specification.  It has no         *)
(* counterpart of its own in the code: it is the contract of docs/schema.md*)
(* "Status Values" and "Exit Codes" in the form the runner can keep.       *)
(***************************************************************************)
EXTENDS StackCore

VARIABLES
  scheme,     \* the scheme of the target
  verdict,    \* what is decided about each layer so far
  exit        \* the published exit code, or NotPublished

vars == <<scheme, verdict, exit>>

NotPublished == -1

(* "cut" is a layer reported as skipped without having been executed;      *)
(* "skip" is a layer that ran and could determine nothing.                 *)
Verdicts == Statuses \cup {"pending", "cut"}

Undecided == {l \in Applicable(scheme) : verdict[l] = "pending"}

Halted == \E l \in LayerNames : verdict[l] \in {"fail", "cut"}

(* The verdicts a layer that is executed may come to.                      *)
Possible(l) ==
  {"ok", "fail"}
    \cup (IF l = "tls" THEN {"warn"} ELSE {})
    \cup (IF l = "reachability" THEN {"skip"} ELSE {})

ExitOf(v) ==
  CASE \E l \in LayerNames : v[l] = "fail" ->
         LayerCodes[CHOOSE l \in LayerNames : v[l] = "fail"]
    [] ~(\E l \in LayerNames : v[l] = "fail")
         /\ (\E l \in LayerNames : v[l] = "warn") -> 2
    [] OTHER -> 0

Init ==
  /\ scheme \in AllSchemes
  /\ verdict = [l \in LayerNames |-> "pending"]
  /\ exit = NotPublished

Decide(l, v) ==
  /\ exit = NotPublished
  /\ l \in Undecided
  /\ l = First(Undecided)
  /\ verdict' = [verdict EXCEPT ![l] = v]
  /\ UNCHANGED <<scheme, exit>>

Execute(l) == ~Halted /\ \E v \in Possible(l) : Decide(l, v)

(* A layer may be cut off after a failure, and also at any earlier moment. *)
CutOff(l) == Decide(l, "cut")

Publish ==
  /\ exit = NotPublished
  /\ Undecided = {}
  /\ verdict' = [l \in LayerNames |->
                   IF verdict[l] = "pending" THEN "cut" ELSE verdict[l]]
  /\ exit' = ExitOf(verdict')
  /\ UNCHANGED scheme

Repeat ==
  /\ exit # NotPublished
  /\ verdict' = [l \in LayerNames |-> "pending"]
  /\ exit' = NotPublished
  /\ UNCHANGED scheme

Next ==
  \/ \E l \in LayerNames : Execute(l) \/ CutOff(l)
  \/ Publish
  \/ Repeat

Spec == Init /\ [][Next]_vars
==============================================================================
