------------------------------ MODULE StackCore ------------------------------
(***************************************************************************)
(* The vocabulary every other module shares: the five layers and their     *)
(* canonical order, the status of a layer, the result a probe returns, the *)
(* contract each layer's Probe keeps, and the mapping from the results of  *)
(* one diagnosis to a process exit code.                                   *)
(*                                                                         *)
(* internal/core/types.go, internal/core/target.go, internal/exitcode and  *)
(* the return statements of internal/layers/*.                             *)
(***************************************************************************)
EXTENDS Integers, Sequences, FiniteSets, FiniteSetsExt

(* core.LayerOrder: the order of execution, and of every report.           *)
LayerOrder == <<"dns", "reachability", "tcp", "tls", "http">>

LayerNames == {"dns", "reachability", "tcp", "tls", "http"}

Rank == [dns |-> 1, reachability |-> 2, tcp |-> 3, tls |-> 4, http |-> 5]

(* The first layer of a non-empty set, in the canonical order.             *)
First(S) == CHOOSE l \in S : \A m \in S : Rank[l] <= Rank[m]

------------------------------------------------------------------------------
(* Targets.  The scheme decides which layers a diagnosis runs at all.      *)

AllSchemes == {"https", "http", "tcp"}

NeedsTLS(scheme) == scheme = "https"

NeedsHTTP(scheme) == scheme \in {"https", "http"}

(* main.buildLayers: the stack the runner walks, bottom up.                *)
BuildLayers(scheme) ==
  CASE NeedsTLS(scheme) /\ NeedsHTTP(scheme) ->
         <<"dns", "reachability", "tcp", "tls", "http">>
    [] ~NeedsTLS(scheme) /\ NeedsHTTP(scheme) ->
         <<"dns", "reachability", "tcp", "http">>
    [] OTHER -> <<"dns", "reachability", "tcp">>

(* The layers BuildLayers puts on the stack, as a set.                     *)
Applicable(scheme) ==
  {"dns", "reachability", "tcp"}
    \cup (IF NeedsTLS(scheme) THEN {"tls"} ELSE {})
    \cup (IF NeedsHTTP(scheme) THEN {"http"} ELSE {})

------------------------------------------------------------------------------
(* Results.  obs is "typed" when the layer filled in its own observation   *)
(* record and "empty" for the literal {} the runner writes for a layer it  *)
(* did not execute.  Absent stands for a key missing from Result.Layers.   *)

Statuses == {"ok", "warn", "fail", "skip"}

ShouldContinue(status) == status # "fail"

NoError == "none"

(* The error codes each layer classifies its errors into.                  *)
DNSCodes == {"DNS_TIMEOUT", "DNS_ERROR", "DNS_NXDOMAIN"}

ReachabilityCodes == {"REACHABILITY_TIMEOUT", "REACHABILITY_ERROR"}

TCPCodes ==
  {"TCP_TIMEOUT", "TCP_REFUSED", "TCP_HOST_UNREACHABLE", "TCP_NETWORK_UNREACHABLE",
   "TCP_ERROR"}

TLSCodes ==
  {"TLS_HOSTNAME_MISMATCH", "TLS_UNTRUSTED_CHAIN", "TLS_CERT_NOT_YET_VALID",
   "TLS_CERT_EXPIRED", "TLS_HANDSHAKE_TIMEOUT", "TLS_PROTOCOL_ERROR",
   "TLS_NO_CERTIFICATES", "TLS_ERROR"}

TLSWarnings ==
  {"TLS_CERT_NOT_YET_VALID", "TLS_CERT_EXPIRED", "TLS_CERT_EXPIRING_SOON",
   "TLS_DEPRECATED_VERSION_ENABLED"}

HTTPTransportCodes == {"HTTP_ERROR", "HTTP_TIMEOUT"}

HTTPStatusCodes ==
  {"HTTP_401", "HTTP_403", "HTTP_404", "HTTP_429", "HTTP_500", "HTTP_502", "HTTP_503",
   "HTTP_504", "HTTP_4XX", "HTTP_5XX"}

HTTPCodes == HTTPTransportCodes \cup HTTPStatusCodes

ToolErrorCodes == {"INVALID_TARGET", "INVALID_ARGS"}

Codes ==
  DNSCodes \cup ReachabilityCodes \cup TCPCodes \cup TLSCodes \cup TLSWarnings
    \cup HTTPCodes \cup ToolErrorCodes \cup {NoError}

Result ==
  [status : Statuses, code : Codes, dur : Nat, obs : {"typed", "empty"}]

SkipResult ==
  [status |-> "skip", code |-> NoError, dur |-> 0, obs |-> "empty"]

Absent ==
  [status |-> "absent", code |-> NoError, dur |-> 0, obs |-> "empty"]

(* What each layer's Probe may conclude, as pairs of status and error      *)
(* code: an error of its own exactly when it failed or warned.  Only tls   *)
(* ever warns and only reachability ever skips of its own accord.          *)
With(status, codes) == {<<status, c>> : c \in codes}

OK == With("ok", {NoError})

DNSConclusions == OK \cup With("fail", DNSCodes)

ReachabilityConclusions ==
  OK \cup With("skip", {NoError}) \cup With("fail", ReachabilityCodes)

TCPConclusions == OK \cup With("fail", TCPCodes)

TLSConclusions == OK \cup With("warn", TLSWarnings) \cup With("fail", TLSCodes)

HTTPConclusions == OK \cup With("fail", HTTPCodes)

Conclusions ==
  [dns |-> DNSConclusions, reachability |-> ReachabilityConclusions,
   tcp |-> TCPConclusions, tls |-> TLSConclusions, http |-> HTTPConclusions]

MeetsContract(l, r) ==
  /\ r \in Result
  /\ r.obs = "typed"
  /\ <<r.status, r.code>> \in Conclusions[l]

Executed(r) == r.obs = "typed"

------------------------------------------------------------------------------
(* Exit codes.                                                             *)

LayerCodes ==
  [dns |-> 10, reachability |-> 15, tcp |-> 20, tls |-> 30, http |-> 40]

ExitCodes == {0, 1, 2, 10, 15, 20, 30, 40}

WithStatus(layers, status) == {l \in LayerNames : layers[l].status = status}

(* A mistake the checks must notice: warnings looked for before failures.  *)
FromResultWarnFirst(layers) ==
  LET failing == WithStatus(layers, "fail")
  IN  CASE WithStatus(layers, "warn") # {} -> 2
        [] WithStatus(layers, "warn") = {} /\ failing # {} -> LayerCodes[First(failing)]
        [] OTHER -> 0

FromResult(layers) ==
  LET failing == WithStatus(layers, "fail")
  IN  CASE failing # {} /\ layers[First(failing)].code \in ToolErrorCodes -> 1
        [] failing # {} /\ layers[First(failing)].code \notin ToolErrorCodes
             -> LayerCodes[First(failing)]
        [] failing = {} /\ WithStatus(layers, "warn") # {} -> 2
        [] OTHER -> 0

(* The loop's variable worst after the first k codes.                      *)
WorstExitCode(codes) ==
  LET worst[k \in 0 .. Len(codes)] ==
        IF k = 0 THEN 0
        ELSE IF codes[k] > worst[k - 1] THEN codes[k] ELSE worst[k - 1]
  IN  worst[Len(codes)]
==============================================================================
