------------------------------- MODULE HTTPStack -------------------------------
(***************************************************************************)
(* The tcp and the http layer of one attempt at an http target, called by  *)
(* RunOnce one after the other under one context: the deadline and the     *)
(* signal end whichever call is under way, and what is left of the time    *)
(* after the dial is all the request has.  (TLSProbe.tla is what an https  *)
(* target has between the two.)                                            *)
(***************************************************************************)
EXTENDS HTTPProbe

CONSTANT Addresses      \* the addresses a name may resolve to

VARIABLES
  resolvedIPs,  \* pctx.ResolvedIPs
  tcpPc,        \* where the tcp layer's Probe is
  dialed,       \* the address it dials, as a set
  cause,        \* what made the dial fail
  tcpResult,    \* <<status, code>> of its result
  remoteIP      \* its obs.RemoteIP, as a set

TCP == INSTANCE TCPProbe WITH pc <- tcpPc, result <- tcpResult

tcpVars == <<resolvedIPs, tcpPc, dialed, cause, tcpResult, remoteIP>>

httpVars == <<inputs, pc, pending, header, asked, first, result, observations>>

stackVars == <<vars, tcpVars>>

StackInit == Init /\ TCP!Init

(* The dial, while the http layer waits for its turn.                      *)
TCPStep == (TCP!Call \/ TCP!Connected \/ TCP!DialFails) /\ UNCHANGED httpVars

(* RunOnce calls the http layer unless the tcp layer failed.               *)
HTTPCall == tcpResult[1] = "ok" /\ Call /\ UNCHANGED tcpVars

HTTPStep == Step /\ UNCHANGED tcpVars

ContextEnds == ContextDone /\ UNCHANGED tcpVars

StackNext == TCPStep \/ HTTPCall \/ HTTPStep \/ ContextEnds

(* A dial and Client.Do are only known to end once the context is done;    *)
(* the rest of both Probes is straight-line code.                          *)
StackSpec ==
  /\ StackInit /\ [][StackNext]_stackVars
  /\ WF_stackVars(ctxErr # "nil" /\ TCPStep)
  /\ WF_stackVars((NewRequest \/ SetHeader \/ Send) /\ UNCHANGED tcpVars)
  /\ WF_stackVars(ctxErr # "nil" /\ DoFails /\ UNCHANGED tcpVars)

------------------------------------------------------------------------------
(* Type correctness of both calls' state.                                  *)
StackTypeOK == TypeOK /\ TCP!TypeOK

(* docs/schema.md "TCP Errors": a dial is reported as timed out exactly    *)
(* when a time limit, the context's or the kernel's, ended it; a signal,   *)
(* which ends the same context, is none.  What is reported is the first    *)
(* address, and it is so still when the http layer is done.                *)
TimeoutsAreNamed == TCP!TimeoutsAreNamed

(* Both calls keep the contract the runner relies on: each returns once    *)
(* the context they share is done, with a conclusion its layer may have,   *)
(* and every code the http layer makes up from a status is documented.     *)
ImplementProbes == TCP!ImplementsProbe /\ ImplementsProbe
==============================================================================
