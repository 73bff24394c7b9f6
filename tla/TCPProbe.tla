------------------------------- MODULE TCPProbe -------------------------------
(***************************************************************************)
(* internal/layers/tcp: one call of the tcp layer's Probe: one dial of the *)
(* first resolved address, and the classification of its error.            *)
(*                                                                         *)
(* The dialer fails with an error that may or may not call itself a        *)
(* timeout and may or may not carry an errno.  The context's deadline is a *)
(* timeout without errno, its cancellation is neither; the kernel's own    *)
(* ETIMEDOUT is both.                                                      *)
(***************************************************************************)
EXTENDS StackCore

CONSTANT Addresses      \* the addresses a name may resolve to

VARIABLES
  resolvedIPs,  \* pctx.ResolvedIPs
  ctxErr,       \* pctx.Context.Err()
  pc,           \* where Probe is
  dialed,       \* the address the connection under way goes to, as a set
  cause,        \* what made the dial fail
  result,       \* <<status, code>> of the result
  remoteIP      \* obs.RemoteIP, as a set: empty while it is ""

vars == <<resolvedIPs, ctxErr, pc, dialed, cause, result, remoteIP>>

Undecided == <<"none", NoError>>

(* The runner calls the layer after dns concluded ok, with its answers.    *)
Init ==
  /\ resolvedIPs \in UNION {[1 .. n -> Addresses] : n \in 1 .. 2}
  /\ ctxErr = "nil"
  /\ pc = "idle"
  /\ dialed = {}
  /\ cause = "none"
  /\ result = Undecided
  /\ remoteIP = {}

(* What net.Dialer's errors say of themselves.                             *)
Timeouts == {"deadline", "ETIMEDOUT"}

Errnos == {"ETIMEDOUT", "ECONNREFUSED", "EHOSTUNREACH", "ENETUNREACH", "other errno"}

(* A mistake the checks must notice: only the context makes a timeout.     *)
ClassifyTCPErrorNoKernelTimeout(e) ==
  CASE e = "deadline"     -> "TCP_TIMEOUT"
    [] e = "ECONNREFUSED" -> "TCP_REFUSED"
    [] e = "EHOSTUNREACH" -> "TCP_HOST_UNREACHABLE"
    [] e = "ENETUNREACH"  -> "TCP_NETWORK_UNREACHABLE"
    [] OTHER              -> "TCP_ERROR"

ClassifyTCPError(e) ==
  CASE e \in Timeouts     -> "TCP_TIMEOUT"
    [] e = "ECONNREFUSED" -> "TCP_REFUSED"
    [] e = "EHOSTUNREACH" -> "TCP_HOST_UNREACHABLE"
    [] e = "ENETUNREACH"  -> "TCP_NETWORK_UNREACHABLE"
    [] OTHER              -> "TCP_ERROR"

------------------------------------------------------------------------------
(* Probe.  The runner calls it only while the context is not done.         *)
Call ==
  /\ pc = "idle"
  /\ ctxErr = "nil"
  /\ pc' = "dialing"
  /\ dialed' = {resolvedIPs[1]}
  /\ UNCHANGED <<resolvedIPs, ctxErr, cause, result, remoteIP>>

Connected ==
  /\ pc = "dialing"
  /\ pc' = "returned"
  /\ result' = <<"ok", NoError>>
  /\ remoteIP' = dialed
  /\ UNCHANGED <<resolvedIPs, ctxErr, dialed, cause>>

DialFails ==
  /\ pc = "dialing"
  /\ \E e \in Errnos \cup ({ctxErr} \ {"nil"}) :
       /\ cause' = e
       /\ result' = <<"fail", ClassifyTCPError(e)>>
  /\ pc' = "returned"
  /\ UNCHANGED <<resolvedIPs, ctxErr, dialed, remoteIP>>

(* The deadline fires or a signal arrives.                                 *)
ContextDone ==
  /\ pc # "returned"
  /\ ctxErr = "nil"
  /\ ctxErr' \in {"deadline", "canceled"}
  /\ UNCHANGED <<resolvedIPs, pc, dialed, cause, result, remoteIP>>

Next == Call \/ Connected \/ DialFails \/ ContextDone

(* A dial is only known to end once its context is done.                   *)
Spec == Init /\ [][Next]_vars /\ WF_vars(ctxErr # "nil" /\ DialFails)

------------------------------------------------------------------------------
(* Type correctness of the call's state.                                   *)
TypeOK ==
  /\ resolvedIPs \in Seq(Addresses) /\ resolvedIPs # <<>>
  /\ ctxErr \in {"nil", "deadline", "canceled"}
  /\ pc \in {"idle", "dialing", "returned"}
  /\ dialed \subseteq Addresses /\ \A a, b \in dialed : a = b
  /\ cause \in Errnos \cup {"none", "deadline", "canceled"}
  /\ result \in TCPConclusions \cup {Undecided}
  /\ remoteIP \subseteq dialed

(* docs/schema.md "TCP Errors": a timeout is reported exactly when a time  *)
(* limit, the context's or the kernel's, ended the dial; a signal is not.  *)
TimeoutsAreNamed ==
  pc = "returned" =>
    /\ (result[2] = "TCP_TIMEOUT") <=> (cause \in Timeouts)
    /\ cause = "deadline" => ctxErr = "deadline"
    /\ result[1] = "ok" => remoteIP = {resolvedIPs[1]}

(* The call keeps the contract the runner relies on: it returns once its   *)
(* context is done, with a conclusion allowed to tcp.                      *)
Contract ==
  INSTANCE LayerProbe WITH
    Layer <- "tcp",
    phase <- IF pc = "dialing" THEN "called" ELSE pc,
    ctxDone <- ctxErr # "nil",
    conclusion <- IF pc = "returned" THEN result ELSE Undecided

ImplementsProbe == Contract!Spec
==============================================================================
