------------------------------ MODULE LayerProbe ------------------------------
(***************************************************************************)
(* What the runner relies on when it calls core.Layer.Probe: the call      *)
(* returns once, with a conclusion the layer's contract allows, and it     *)
(* does return once the context it was given is done.  Runner.tla assumes  *)
(* exactly this of every layer; the modules of the single layers are shown *)
(* to implement it.  A repeated measurement renews the call.               *)
(***************************************************************************)
EXTENDS StackCore

CONSTANT Layer        \* the name of the layer, a member of LayerNames

VARIABLES
  phase,      \* "idle", "called" or "returned"
  ctxDone,    \* the context of the call is done
  conclusion  \* <<status, error code>> once returned, else Undecided

vars == <<phase, ctxDone, conclusion>>

Undecided == <<"none", NoError>>

Init ==
  /\ phase = "idle"
  /\ ctxDone \in BOOLEAN
  /\ conclusion = Undecided

Call ==
  /\ phase = "idle"
  /\ phase' = "called"
  /\ UNCHANGED <<ctxDone, conclusion>>

Return ==
  /\ phase = "called"
  /\ phase' = "returned"
  /\ conclusion' \in Conclusions[Layer]
  /\ UNCHANGED ctxDone

ContextDone ==
  /\ ~ctxDone
  /\ ctxDone' = TRUE
  /\ UNCHANGED <<phase, conclusion>>

(* The next attempt's call has a context of its own.                       *)
Renew ==
  /\ phase = "returned"
  /\ phase' = "idle"
  /\ ctxDone' \in BOOLEAN
  /\ conclusion' = Undecided

Next == Call \/ Return \/ ContextDone \/ Renew

Spec == Init /\ [][Next]_vars /\ WF_vars(ctxDone /\ Return)
==============================================================================
