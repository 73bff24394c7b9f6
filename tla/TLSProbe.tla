-------------------------------- MODULE TLSProbe --------------------------------
(***************************************************************************)
(* internal/layers/tls: one call of the tls layer's Probe.                 *)
(*                                                                         *)
(* A first handshake that verifies nothing collects the server's           *)
(* certificate; without --insecure the certificate is then verified by     *)
(* hand; its validity period is checked once more; and with --tls-scan     *)
(* every protocol version is tried in turn.  The clock is read afresh at   *)
(* each of these steps, and the deadline or a signal may fall between any  *)
(* two of them.                                                            *)
(*                                                                         *)
(* A server is a certificate and a set of protocol versions.  It always    *)
(* presents a certificate: crypto/tls fails the handshake otherwise.       *)
(***************************************************************************)
EXTENDS StackCore

CONSTANTS
  ThresholdDays,    \* expiringThresholdDays of the code, scaled down
  UnitsPerDay,      \* units of the model's clock in a day
  Horizon,          \* bound on the clock
  Servers,          \* the sets of protocol versions a server may support
  Certificates      \* the certificates a server may present

ASSUME ThresholdAssumption == ThresholdDays \in Nat /\ UnitsPerDay \in Nat \ {0}

ASSUME HorizonAssumption == Horizon \in Nat

(* tlsScanVersions, in the order they are tried, and the deprecated ones.  *)
ScanVersions == <<"TLSv1.0", "TLSv1.1", "TLSv1.2", "TLSv1.3">>

DeprecatedVersions == {"TLSv1.0", "TLSv1.1"}

(* MinVersion of the first handshake's configuration.                      *)
ModernVersions == {"TLSv1.2", "TLSv1.3"}

AllVersions == ModernVersions \cup DeprecatedVersions

ASSUME ServersAssumption == Servers \subseteq SUBSET AllVersions

(* What becomes of the chain above the leaf: it ends in a root, it does    *)
(* not, a certificate above the leaf has expired, or it may not be used    *)
(* for other reasons (key usage, name constraints).                        *)
Chains == {"trusted", "unknown", "expired", "unusable"}

ASSUME CertificatesAssumption ==
  Certificates \subseteq [notBefore : Int, notAfter : Int,
                          hostMatch : BOOLEAN, chain : Chains]

VARIABLES
  insecure,     \* pctx.Insecure
  wantScan,     \* pctx.TLSScan
  versions,     \* the versions the server supports
  cert,         \* the certificate it presents
  clock,        \* the wall clock
  ctxErr,       \* pctx.Context.Err()
  pc,           \* where Probe is
  result,       \* <<status, code>> of the result under construction
  verified,     \* obs.CertVerified
  obsDays,      \* obs.CertDaysUntilExpiry, as a set: empty while it is nil
  scanned,      \* the scan's attempts so far: one <<version, supported>> each
  tlsScan       \* obs.TLSScan has been set

inputs == <<insecure, wantScan, versions, cert>>
env == <<clock, ctxErr>>
vars == <<inputs, env, pc, result, verified, obsDays, scanned, tlsScan>>

Undecided == <<"none", NoError>>

Init ==
  /\ insecure \in BOOLEAN
  /\ wantScan \in BOOLEAN
  /\ versions \in Servers
  /\ cert \in Certificates
  /\ clock = 0
  /\ ctxErr = "nil"
  /\ pc = "idle"
  /\ result = Undecided
  /\ verified = FALSE
  /\ obsDays = {}
  /\ scanned = <<>>
  /\ tlsScan = FALSE

------------------------------------------------------------------------------
(* Handshaker.Handshake with the versions vs enabled, InsecureSkipVerify.  *)

CanConnect(vs) == ctxErr = "nil" /\ vs \cap versions # {}

(* How it may fail: by the context, by the peer's protocol, or by the      *)
(* connection, which has time limits of its own in the kernel.             *)
HandshakeErrors ==
  IF ctxErr # "nil" THEN {ctxErr} ELSE {"protocol", "timeout", "connection"}

(* A mistake the checks must notice: a code of another layer.              *)
ErrorCodeOfAnother(e) == IF e = "deadline" THEN "TCP_TIMEOUT" ELSE "TLS_ERROR"

(* classifyTLSError, in the order of its cases.                            *)
ErrorCode(e) ==
  CASE e = "hostname"    -> "TLS_HOSTNAME_MISMATCH"
    [] e = "authority"   -> "TLS_UNTRUSTED_CHAIN"
    [] e = "notYetValid" -> "TLS_CERT_NOT_YET_VALID"
    [] e = "expired"     -> "TLS_CERT_EXPIRED"
    [] e \in {"deadline", "timeout"} -> "TLS_HANDSHAKE_TIMEOUT"
    [] e = "protocol"    -> "TLS_PROTOCOL_ERROR"
    [] OTHER             -> "TLS_ERROR"

(* int(d.Hours() / 24): whole days, truncated toward zero.                 *)
Days(d) == IF d >= 0 THEN d \div UnitsPerDay ELSE -((-d) \div UnitsPerDay)

(* The error of a chain, when the leaf itself is in order.                 *)
ChainErrors ==
  [trusted  |-> {},          unknown  |-> {"authority"},
   expired  |-> {"expired"}, unusable |-> {"usage"}]

LeafInPeriod == clock \in cert.notBefore .. cert.notAfter

(* x509's Verify: the leaf's validity period, its name, then the chain.    *)
VerifyErrors ==
  CASE clock < cert.notBefore            -> {"notYetValid"}
    [] clock > cert.notAfter             -> {"expired"}
    [] LeafInPeriod /\ ~cert.hostMatch   -> {"hostname"}
    [] LeafInPeriod /\ cert.hostMatch    -> ChainErrors[cert.chain]

(* Probe is about to return r, by way of the scan where the code does so.  *)
ReturnScanned(r) ==
  /\ result' = r
  /\ pc' = IF wantScan THEN "scan" ELSE "returned"

ReturnAtOnce(r) ==
  /\ result' = r
  /\ pc' = "returned"

------------------------------------------------------------------------------
(* Probe.                                                                  *)

(* The runner calls Probe only while the context is not done.              *)
Call ==
  /\ pc = "idle"
  /\ ctxErr = "nil"
  /\ pc' = "called"
  /\ UNCHANGED <<inputs, env, result, verified, obsDays, scanned, tlsScan>>

HandshakeFails ==
  /\ pc = "called"
  /\ \E e \in HandshakeErrors :
       ReturnScanned(<<"fail", ErrorCode(e)>>)
  /\ UNCHANGED <<inputs, env, verified, obsDays, scanned, tlsScan>>

(* The first look at the certificate.                                      *)
BuildObservations == obsDays' = {Days(cert.notAfter - clock)}

HandshakeSucceeds ==
  /\ pc = "called"
  /\ CanConnect(ModernVersions)
  /\ BuildObservations
  /\ pc' = IF insecure THEN "validity" ELSE "verify"
  /\ UNCHANGED <<inputs, env, result, verified, scanned, tlsScan>>

(* A mistake the checks must notice: the target's name is not passed on.   *)
VerifyNoName ==
  /\ pc = "verify"
  /\ \/ /\ VerifyErrors \ {"hostname"} = {}
        /\ verified' = TRUE
        /\ pc' = "validity"
        /\ UNCHANGED result
     \/ /\ \E e \in VerifyErrors \ {"hostname"} : ReturnScanned(<<"fail", ErrorCode(e)>>)
        /\ UNCHANGED verified
  /\ UNCHANGED <<inputs, env, obsDays, scanned, tlsScan>>

Verify ==
  /\ pc = "verify"
  /\ \/ /\ VerifyErrors = {}
        /\ verified' = TRUE
        /\ pc' = "validity"
        /\ UNCHANGED result
     \/ /\ \E e \in VerifyErrors : ReturnScanned(<<"fail", ErrorCode(e)>>)
        /\ UNCHANGED verified
  /\ UNCHANGED <<inputs, env, obsDays, scanned, tlsScan>>

(* A mistake the checks must notice: --insecure forgotten.                 *)
InvalidAlways(code) == ReturnAtOnce(<<"fail", code>>)

(* A certificate outside its validity period: a warning with --insecure.   *)
Invalid(code) == ReturnAtOnce(<<IF insecure THEN "warn" ELSE "fail", code>>)

(* A mistake the checks must notice: the threshold itself counts as soon.  *)
CheckValidityOffByOne ==
  /\ pc = "validity"
  /\ LET left == cert.notAfter - clock
     IN  CASE clock < cert.notBefore -> Invalid("TLS_CERT_NOT_YET_VALID")
           [] clock >= cert.notBefore /\ left < 0 -> Invalid("TLS_CERT_EXPIRED")
           [] clock >= cert.notBefore /\ left >= 0 /\ Days(left) <= ThresholdDays
                -> ReturnAtOnce(<<"warn", "TLS_CERT_EXPIRING_SOON">>)
           [] OTHER -> ReturnScanned(<<"ok", NoError>>)
  /\ UNCHANGED <<inputs, env, verified, obsDays, scanned, tlsScan>>

CheckValidity ==
  /\ pc = "validity"
  /\ LET left == cert.notAfter - clock
     IN  CASE clock < cert.notBefore -> Invalid("TLS_CERT_NOT_YET_VALID")
           [] clock >= cert.notBefore /\ left < 0 -> Invalid("TLS_CERT_EXPIRED")
           [] clock >= cert.notBefore /\ left >= 0 /\ Days(left) < ThresholdDays
                -> ReturnAtOnce(<<"warn", "TLS_CERT_EXPIRING_SOON">>)
           [] OTHER -> ReturnScanned(<<"ok", NoError>>)
  /\ UNCHANGED <<inputs, env, verified, obsDays, scanned, tlsScan>>

------------------------------------------------------------------------------
(* performTLSScan.                                                         *)

(* A mistake the checks must notice: a handshake of the scan that does not *)
(* give up when the context is done.                                       *)
ScanVersionDetached ==
  /\ pc = "scan"
  /\ ctxErr = "nil"
  /\ Len(scanned) < Len(ScanVersions)
  /\ LET v == ScanVersions[Len(scanned) + 1]
     IN  \/ {v} \cap versions # {} /\ scanned' = Append(scanned, <<v, TRUE>>)
         \/ scanned' = Append(scanned, <<v, FALSE>>)
  /\ UNCHANGED <<inputs, env, pc, result, verified, obsDays, tlsScan>>

ScanVersion ==
  /\ pc = "scan"
  /\ Len(scanned) < Len(ScanVersions)
  /\ LET v == ScanVersions[Len(scanned) + 1]
     IN  \/ CanConnect({v}) /\ scanned' = Append(scanned, <<v, TRUE>>)
         \/ scanned' = Append(scanned, <<v, FALSE>>)    \* any handshake may fail
  /\ UNCHANGED <<inputs, env, pc, result, verified, obsDays, tlsScan>>

DeprecatedEnabled ==
  {k \in DOMAIN scanned : scanned[k][2] /\ scanned[k][1] \in DeprecatedVersions}

(* A mistake the checks must notice: the warning replaces a failure.       *)
FinishScanOverwriting ==
  /\ pc = "scan"
  /\ Len(scanned) = Len(ScanVersions)
  /\ tlsScan' = TRUE
  /\ result' = IF DeprecatedEnabled # {}
               THEN <<"warn", "TLS_DEPRECATED_VERSION_ENABLED">> ELSE result
  /\ pc' = "returned"
  /\ UNCHANGED <<inputs, env, verified, obsDays, scanned>>

(* A deprecated version turns ok into a warning, and nothing else.         *)
FinishScan ==
  /\ pc = "scan"
  /\ Len(scanned) = Len(ScanVersions)
  /\ tlsScan' = TRUE
  /\ result' = IF DeprecatedEnabled # {} /\ result[1] = "ok"
               THEN <<"warn", "TLS_DEPRECATED_VERSION_ENABLED">> ELSE result
  /\ pc' = "returned"
  /\ UNCHANGED <<inputs, env, verified, obsDays, scanned>>

------------------------------------------------------------------------------
(* The table renderer's line about the scan.  It has a table of deprecated *)
(* versions of its own, keyed by their names.                              *)

(* A mistake the checks must notice: the two tables have drifted apart.    *)
RendererDeprecatedNot11 == {"TLSv1.0"}

RendererDeprecated == {"TLSv1.0", "TLSv1.1"}

ScanMark(attempt) ==
  CASE attempt[2] /\ attempt[1] \in RendererDeprecated -> "[!!]"
    [] attempt[2] /\ attempt[1] \notin RendererDeprecated -> "[ok]"
    [] OTHER -> "[FAIL]"

(* renderTLSScanLine: nothing without a scan, else one mark per version.   *)
ScanLine == IF tlsScan THEN [k \in DOMAIN scanned |-> ScanMark(scanned[k])] ELSE <<>>

------------------------------------------------------------------------------
(* The environment: time passes, the deadline fires, a signal arrives.     *)

Tick ==
  /\ pc # "returned"
  /\ clock < Horizon
  /\ clock' = clock + 1
  /\ UNCHANGED <<inputs, ctxErr, pc, result, verified, obsDays, scanned, tlsScan>>

ContextDone ==
  /\ pc # "returned"
  /\ ctxErr = "nil"
  /\ ctxErr' \in {"deadline", "canceled"}
  /\ UNCHANGED <<inputs, clock, pc, result, verified, obsDays, scanned, tlsScan>>

Step ==
  \/ HandshakeFails \/ HandshakeSucceeds
  \/ Verify \/ CheckValidity
  \/ ScanVersion \/ FinishScan

Next == Call \/ Step \/ Tick \/ ContextDone

(* A handshake is only known to end once its context is done; the rest of  *)
(* Probe is straight-line code.                                            *)
Local == Verify \/ CheckValidity \/ FinishScan

Fairness == WF_vars(Local) /\ WF_vars(ctxErr # "nil" /\ Step)

Spec == Init /\ [][Next]_vars /\ Fairness

------------------------------------------------------------------------------
(* Type correctness of the call's state.                                   *)
TypeOK ==
  /\ insecure \in BOOLEAN
  /\ wantScan \in BOOLEAN
  /\ versions \in Servers
  /\ cert \in Certificates
  /\ clock \in 0 .. Horizon
  /\ ctxErr \in {"nil", "deadline", "canceled"}
  /\ pc \in {"idle", "called", "verify", "validity", "scan", "returned"}
  /\ result \in TLSConclusions \cup {Undecided}
  /\ verified \in BOOLEAN
  /\ obsDays \subseteq Int /\ Cardinality(obsDays) <= 1
  /\ scanned \in Seq(AllVersions \X BOOLEAN)
  /\ tlsScan \in BOOLEAN

(* docs/schema.md "Status Classification": without --insecure the layer is *)
(* ok or warns only about a certificate that has been verified, which      *)
(* carries the target's name, chains to a root and whose validity has      *)
(* begun; cert_verified is never claimed with --insecure or for any other  *)
(* certificate.                                                            *)
NothingUnverifiedPasses ==
  /\ pc = "returned" /\ ~insecure /\ result[1] \in {"ok", "warn"} => verified
  /\ verified => /\ ~insecure
                 /\ cert.hostMatch /\ cert.chain = "trusted"
                 /\ clock >= cert.notBefore

(* The clock is read three times, and yet the days a report shows never    *)
(* contradict its status: an ok layer shows no less than the threshold, a  *)
(* warning for expiry has really come that close, and an expiry failure of *)
(* a certificate that is in order is one of the chain above it.            *)
DaysAgreeWithStatus ==
  pc = "returned" =>
    /\ result[1] = "ok" => \A d \in obsDays : d >= ThresholdDays
    /\ result[2] = "TLS_CERT_EXPIRING_SOON" =>
         /\ Days(cert.notAfter - clock) < ThresholdDays
         /\ \A d \in obsDays : d >= 0
    /\ result[2] = "TLS_CERT_EXPIRED" =>
         clock > cert.notAfter \/ (~insecure /\ cert.chain = "expired")

(* With --insecure no property of the certificate makes the layer fail: a  *)
(* failure means that the handshake itself failed.                         *)
InsecureForgivesCertificates ==
  pc = "returned" /\ insecure /\ result[1] = "fail" =>
    obsDays = {} /\ result[2] \in {"TLS_HANDSHAKE_TIMEOUT", "TLS_PROTOCOL_ERROR", "TLS_ERROR"}

(* The scan changes the verdict in one way only, from ok to a warning that *)
(* a deprecated version is enabled, and then the server does enable one;   *)
(* it never hides or replaces the failure it was run after.                *)
ScanOnlyWarns ==
  [][pc = "scan" /\ result' # result =>
       /\ result[1] = "ok"
       /\ result' = <<"warn", "TLS_DEPRECATED_VERSION_ENABLED">>
       /\ versions \cap DeprecatedVersions # {}]_vars

(* The table and the probe decide apart from each other what is deprecated *)
(* and must agree: a warning mark on the scan's line comes with a layer    *)
(* that warns of a deprecated version or had failed before the scan, and a *)
(* layer that warns of one shows which it was.  What is marked as accepted *)
(* is spoken by the server.  (Not conversely, docs/schema.md:336: a        *)
(* handshake that fails for want of time is marked as refused.)            *)
ScanLineExplainsStatus ==
  pc = "returned" =>
    LET warned == \E k \in DOMAIN ScanLine : ScanLine[k] = "[!!]"
    IN  /\ warned /\ result[1] # "fail" => result[2] = "TLS_DEPRECATED_VERSION_ENABLED"
        /\ result[2] = "TLS_DEPRECATED_VERSION_ENABLED" => warned
        /\ \A k \in DOMAIN ScanLine : ScanLine[k] # "[FAIL]" => scanned[k][1] \in versions

(* The call keeps the contract the runner relies on: it returns once its   *)
(* context is done, scan included, with a conclusion allowed to tls.       *)
Contract ==
  INSTANCE LayerProbe WITH
    Layer <- "tls",
    phase <- IF pc \in {"idle", "returned"} THEN pc ELSE "called",
    ctxDone <- ctxErr # "nil",
    conclusion <- IF pc = "returned" THEN result ELSE Undecided

ImplementsProbe == Contract!Spec

------------------------------------------------------------------------------
(* docs/schema.md:313, --tls-scan results are part of the observations: a  *)
(* Probe that was asked to scan returns with the scan performed.           *)
ScanAlwaysPerformed == pc = "returned" /\ wantScan => tlsScan

==============================================================================
