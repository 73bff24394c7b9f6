------------------------------- MODULE TLSProofs -------------------------------
(***************************************************************************)
(* One call of the tls layer's Probe, for every certificate, every set of  *)
(* protocol versions, every length of a day and threshold, with the clock  *)
(* advancing and the context ending between any two of its steps.          *)
(***************************************************************************)
EXTENDS TLSProbe, FiniteSetTheorems, TLAPS

(* Before the certificate has been looked at nothing has been found, and   *)
(* until there is a result nothing has been scanned.                       *)
ProgressInv ==
  /\ pc \in {"idle", "called"} => obsDays = {}
  /\ pc \in {"idle", "called", "verify", "validity"} =>
       result = Undecided /\ scanned = <<>> /\ ~tlsScan
  /\ pc \in {"scan", "returned"} => result \in TLSConclusions
  /\ pc = "scan" => result[1] \in {"ok", "fail"} /\ ~tlsScan

(* What was verified stays true while the clock advances, and no way to a  *)
(* good result passes the verification by.                                 *)
VerifiedInv ==
  /\ verified => /\ ~insecure
                 /\ cert.hostMatch /\ cert.chain = "trusted"
                 /\ clock >= cert.notBefore
  /\ pc = "verify" => ~insecure
  /\ pc = "validity" /\ ~insecure => verified
  /\ pc \in {"scan", "returned"} /\ ~insecure /\ result[1] \in {"ok", "warn"} => verified

(* The days were counted at an earlier reading of the clock than the one   *)
(* that decided, so that there were at least as many.                      *)
DaysInv ==
  /\ \A d \in obsDays : d >= Days(cert.notAfter - clock)
  /\ pc \in {"scan", "returned"} =>
       /\ result[1] = "ok" => \A d \in obsDays : d >= ThresholdDays
       /\ result[2] = "TLS_CERT_EXPIRING_SOON" =>
            /\ Days(cert.notAfter - clock) < ThresholdDays
            /\ \A d \in obsDays : d >= 0
       /\ result[2] = "TLS_CERT_EXPIRED" =>
            clock > cert.notAfter \/ (~insecure /\ cert.chain = "expired")
       /\ insecure /\ result[1] = "fail" =>
            /\ obsDays = {}
            /\ result[2] \in {"TLS_HANDSHAKE_TIMEOUT", "TLS_PROTOCOL_ERROR", "TLS_ERROR"}

(* What the scan has recorded as spoken is spoken, and a verdict about a   *)
(* deprecated version is the scan's.                                       *)
ScanInv ==
  /\ \A k \in DOMAIN scanned : scanned[k][2] => scanned[k][1] \in versions
  /\ pc = "scan" => result[2] # "TLS_DEPRECATED_VERSION_ENABLED"
  /\ pc = "returned" /\ result[2] = "TLS_DEPRECATED_VERSION_ENABLED" =>
       tlsScan /\ DeprecatedEnabled # {}
  /\ pc = "returned" /\ tlsScan /\ DeprecatedEnabled # {} =>
       result[1] = "fail" \/ result[2] = "TLS_DEPRECATED_VERSION_ENABLED"

TLSInv == TypeOK /\ ProgressInv /\ VerifiedInv /\ DaysInv /\ ScanInv
------------------------------------------------------------------------------
(* The operators.                                                          *)

(* The days to an instant are a whole number that does not grow when the   *)
(* instant comes closer, and is not negative while it is still to come.    *)
LEMMA DaysMonotone ==
  ASSUME NEW d \in Int, NEW e \in Int, d <= e
  PROVE  /\ Days(d) \in Int
         /\ Days(d) <= Days(e)
         /\ d >= 0 => Days(d) >= 0
<1>1. UnitsPerDay \in Nat \ {0}
  BY ThresholdAssumption
<1>2. \A m \in Nat : m \div UnitsPerDay \in Nat
  BY <1>1
<1>3. \A m, n \in Nat : m <= n => m \div UnitsPerDay <= n \div UnitsPerDay
  BY <1>1
<1>4. CASE d >= 0
  BY <1>2, <1>3, <1>4 DEF Days
<1>5. CASE d < 0 /\ e >= 0
  BY <1>2, <1>5 DEF Days
<1>6. CASE e < 0
  BY <1>2, <1>3, <1>6 DEF Days
<1> QED
  BY <1>4, <1>5, <1>6

(* An error that is not the handshake's is one of verification, and each   *)
(* has its reason in the certificate and the clock.                        *)
LEMMA VerifyErrorsHaveReasons ==
  ASSUME TypeOK
  PROVE  /\ VerifyErrors = {} => /\ cert.hostMatch /\ cert.chain = "trusted"
                                /\ clock >= cert.notBefore
         /\ \A e \in VerifyErrors :
              /\ e \in {"notYetValid", "expired", "hostname", "authority", "usage"}
              /\ e = "expired" => clock > cert.notAfter \/ cert.chain = "expired"
<1>1. cert \in [notBefore : Int, notAfter : Int, hostMatch : BOOLEAN, chain : Chains]
      /\ clock \in Int
  BY CertificatesAssumption, HorizonAssumption DEF TypeOK
<1>2. CASE clock < cert.notBefore
  BY <1>1, <1>2 DEF VerifyErrors, LeafInPeriod
<1>3. CASE clock >= cert.notBefore /\ clock > cert.notAfter
  BY <1>1, <1>3 DEF VerifyErrors, LeafInPeriod
<1>4. CASE LeafInPeriod /\ ~cert.hostMatch
  BY <1>1, <1>4 DEF VerifyErrors, LeafInPeriod
<1>5. CASE LeafInPeriod /\ cert.hostMatch
  <2>1. VerifyErrors = ChainErrors[cert.chain]
    BY <1>1, <1>5 DEF VerifyErrors, LeafInPeriod
  <2> QED
    BY <1>1, <1>5, <2>1 DEF ChainErrors, Chains, LeafInPeriod
<1> QED
  BY <1>1, <1>2, <1>3, <1>4, <1>5 DEF LeafInPeriod

(* Every error is classified into a code of the layer, and of those a      *)
(* handshake may end with none is about the certificate.                   *)
LEMMA ErrorCodeKinds ==
  /\ \A e \in {"notYetValid", "expired", "hostname", "authority", "usage"} :
       /\ ErrorCode(e) \in TLSCodes
       /\ ErrorCode(e) = "TLS_CERT_EXPIRED" => e = "expired"
  /\ \A e \in {"deadline", "canceled", "protocol", "timeout", "connection"} :
       ErrorCode(e) \in {"TLS_HANDSHAKE_TIMEOUT", "TLS_PROTOCOL_ERROR", "TLS_ERROR"}
  BY DEF ErrorCode, TLSCodes

LEMMA HandshakeErrorKinds ==
  ASSUME ctxErr \in {"nil", "deadline", "canceled"}
  PROVE  HandshakeErrors \subseteq {"deadline", "canceled", "protocol", "timeout", "connection"}
  BY DEF HandshakeErrors

(* A failure with a code of the layer is a conclusion of the layer, and so *)
(* are its warnings and an ok.                                             *)
LEMMA LayerConclusions ==
  /\ <<"ok", NoError>> \in TLSConclusions
  /\ \A code \in TLSCodes : <<"fail", code>> \in TLSConclusions
  /\ \A code \in TLSWarnings : <<"warn", code>> \in TLSConclusions
  BY DEF TLSConclusions, OK, With

(* The four ends of the last look at the certificate.                      *)
LEMMA CheckValidityCases ==
  ASSUME TypeOK, CheckValidity
  PROVE  /\ pc = "validity" /\ pc' \in {"scan", "returned"}
         /\ pc' = "scan" => wantScan
         /\ UNCHANGED <<inputs, env, verified, obsDays, scanned, tlsScan>>
         /\ \/ /\ result' = <<IF insecure THEN "warn" ELSE "fail", "TLS_CERT_NOT_YET_VALID">>
               /\ pc' = "returned"
            \/ /\ result' = <<IF insecure THEN "warn" ELSE "fail", "TLS_CERT_EXPIRED">>
               /\ pc' = "returned"
               /\ cert.notAfter - clock < 0
            \/ /\ result' = <<"warn", "TLS_CERT_EXPIRING_SOON">>
               /\ pc' = "returned"
               /\ cert.notAfter - clock >= 0
               /\ Days(cert.notAfter - clock) < ThresholdDays
            \/ /\ result' = <<"ok", NoError>>
               /\ pc' = IF wantScan THEN "scan" ELSE "returned"
               /\ ~(Days(cert.notAfter - clock) < ThresholdDays)
<1>1. cert.notBefore \in Int /\ cert.notAfter - clock \in Int /\ clock \in Int
  BY CertificatesAssumption, HorizonAssumption DEF TypeOK
<1>2. CASE clock < cert.notBefore
  BY <1>1, <1>2 DEF CheckValidity, Invalid, ReturnAtOnce
<1>3. CASE clock >= cert.notBefore /\ cert.notAfter - clock < 0
  BY <1>1, <1>3 DEF CheckValidity, Invalid, ReturnAtOnce
<1>4. CASE /\ clock >= cert.notBefore /\ cert.notAfter - clock >= 0
           /\ Days(cert.notAfter - clock) < ThresholdDays
  BY <1>1, <1>4 DEF CheckValidity, ReturnAtOnce
<1>5. CASE /\ clock >= cert.notBefore /\ cert.notAfter - clock >= 0
           /\ ~(Days(cert.notAfter - clock) < ThresholdDays)
  BY <1>1, <1>5 DEF CheckValidity, ReturnScanned
<1> QED
  BY <1>1, <1>2, <1>3, <1>4, <1>5

(* A handshake of the scan succeeds only in a version the server speaks.   *)
LEMMA ScanAppends ==
  ASSUME TypeOK, ScanVersion
  PROVE  \E v \in AllVersions : \E supported \in BOOLEAN :
           /\ scanned' = Append(scanned, <<v, supported>>)
           /\ supported => v \in versions
<1>1. Len(scanned) \in Nat /\ Len(ScanVersions) = 4
  BY DEF TypeOK, ScanVersions
<1>2. Len(scanned) + 1 \in 1 .. 4
  BY <1>1 DEF ScanVersion
<1>3. \A k \in 1 .. 4 : ScanVersions[k] \in AllVersions
  BY DEF ScanVersions, AllVersions, ModernVersions, DeprecatedVersions
<1>4. ScanVersions[Len(scanned) + 1] \in AllVersions
  BY <1>2, <1>3
<1> QED
  BY <1>4 DEF ScanVersion, CanConnect

------------------------------------------------------------------------------
(* The invariant.                                                          *)

LEMMA InitInv == Init => TLSInv
<1> SUFFICES ASSUME Init PROVE TLSInv
  OBVIOUS
<1>1. TypeOK
  <2>1. Cardinality({}) <= 1
    BY FS_EmptySet
  <2>2. <<>> \in Seq(AllVersions \X BOOLEAN)
    OBVIOUS
  <2>3. 0 \in 0 .. Horizon
    BY HorizonAssumption
  <2> QED
    BY <2>1, <2>2, <2>3 DEF Init, TypeOK
<1>2. ProgressInv /\ VerifiedInv /\ DaysInv /\ ScanInv
  BY DEF Init, ProgressInv, VerifiedInv, DaysInv, ScanInv
<1> QED
  BY <1>1, <1>2 DEF TLSInv

(* Every step keeps the type of the state.                                 *)
LEMMA NextType ==
  ASSUME TypeOK, ProgressInv, [Next]_vars
  PROVE  TypeOK'
<1> USE DEF TypeOK, inputs, env
<1>1. CASE Call
  BY <1>1 DEF Call
<1>2. CASE HandshakeFails
  <2>1. PICK e \in HandshakeErrors : ReturnScanned(<<"fail", ErrorCode(e)>>)
    BY <1>2 DEF HandshakeFails
  <2>2. ErrorCode(e) \in TLSCodes
    <3>1. e \in {"deadline", "canceled", "protocol", "timeout", "connection"}
      BY <2>1, HandshakeErrorKinds
    <3>2. ErrorCode(e) \in {"TLS_HANDSHAKE_TIMEOUT", "TLS_PROTOCOL_ERROR", "TLS_ERROR"}
      BY <3>1, ErrorCodeKinds
    <3> QED
      BY <3>2 DEF TLSCodes
  <2> QED
    BY <1>2, <2>1, <2>2, LayerConclusions DEF HandshakeFails, ReturnScanned
<1>3. CASE HandshakeSucceeds
  <2>1. Days(cert.notAfter - clock) \in Int
    BY DaysMonotone, CertificatesAssumption, HorizonAssumption
  <2>2. obsDays' = {Days(cert.notAfter - clock)}
    BY <1>3 DEF HandshakeSucceeds, BuildObservations
  <2>3. Cardinality(obsDays') = 1
    BY <2>2, FS_Singleton
  <2>4. obsDays' \subseteq Int /\ Cardinality(obsDays') <= 1
    BY <2>1, <2>2, <2>3
  <2> QED
    BY <1>3, <2>4 DEF HandshakeSucceeds
<1>4. CASE Verify
  <2>1. CASE verified' = TRUE /\ pc' = "validity" /\ UNCHANGED result
    BY <1>4, <2>1 DEF Verify
  <2>2. ASSUME NEW e \in VerifyErrors, ReturnScanned(<<"fail", ErrorCode(e)>>), UNCHANGED verified
        PROVE  TypeOK'
    <3>1. ErrorCode(e) \in TLSCodes
      BY VerifyErrorsHaveReasons, ErrorCodeKinds
    <3> QED
      BY <1>4, <2>2, <3>1, LayerConclusions DEF Verify, ReturnScanned
  <2> QED
    BY <1>4, <2>1, <2>2 DEF Verify
<1>5. CASE CheckValidity
  <2>1. result' \in TLSConclusions
    BY <1>5, CheckValidityCases, LayerConclusions DEF TLSCodes, TLSWarnings
  <2> QED
    BY <1>5, <2>1, CheckValidityCases
<1>6. CASE ScanVersion
  <2>1. scanned' \in Seq(AllVersions \X BOOLEAN)
    <3>1. PICK v \in AllVersions, supported \in BOOLEAN :
            scanned' = Append(scanned, <<v, supported>>)
      BY <1>6, ScanAppends
    <3>2. scanned \in Seq(AllVersions \X BOOLEAN) /\ <<v, supported>> \in AllVersions \X BOOLEAN
      OBVIOUS
    <3> HIDE DEF TypeOK
    <3> QED
      BY <3>1, <3>2
  <2> QED
    BY <1>6, <2>1 DEF ScanVersion
<1>7. CASE FinishScan
  <2>1. result' \in TLSConclusions
    BY <1>7, LayerConclusions DEF FinishScan, ProgressInv, TLSWarnings
  <2> QED
    BY <1>7, <2>1 DEF FinishScan
<1>8. CASE Tick
  <2>1. clock' \in 0 .. Horizon
    BY <1>8, HorizonAssumption DEF Tick
  <2> QED
    BY <1>8, <2>1 DEF Tick
<1>9. CASE ContextDone
  BY <1>9 DEF ContextDone
<1>10. CASE UNCHANGED vars
  BY <1>10 DEF vars
<1> QED
  BY <1>1, <1>2, <1>3, <1>4, <1>5, <1>6, <1>7, <1>8, <1>9, <1>10 DEF Next, Step

(* The clock only advances, and only by itself; what the call was given    *)
(* stays as it is.                                                         *)
LEMMA ClockAdvances ==
  ASSUME TypeOK, [Next]_vars
  PROVE  /\ cert' = cert /\ insecure' = insecure /\ versions' = versions /\ wantScan' = wantScan
         /\ clock \in Int /\ clock' \in Int /\ clock <= clock'
         /\ ~Tick => clock' = clock
         /\ cert.notBefore \in Int /\ cert.notAfter \in Int
<1>1. clock \in Int /\ cert.notBefore \in Int /\ cert.notAfter \in Int
  BY CertificatesAssumption, HorizonAssumption DEF TypeOK
<1>2. CASE Tick
  BY <1>1, <1>2 DEF Tick, inputs
<1>3. CASE ~Tick
  <2>1. UNCHANGED inputs /\ UNCHANGED clock
    BY <1>3, CheckValidityCases
       DEF Next, Step, Call, HandshakeFails, HandshakeSucceeds, Verify, ScanVersion,
           FinishScan, ContextDone, vars, env
  <2> QED
    BY <1>1, <1>3, <2>1 DEF inputs
<1> QED
  BY <1>1, <1>2, <1>3

(* Every step keeps the order of Probe's parts.                            *)
LEMMA NextProgress ==
  ASSUME TypeOK, ProgressInv, [Next]_vars
  PROVE  ProgressInv'
<1> USE DEF ProgressInv
<1>1. CASE Call \/ Tick \/ ContextDone \/ UNCHANGED vars
  BY <1>1 DEF Call, Tick, ContextDone, vars
<1>2. CASE HandshakeFails
  <2>1. PICK e \in HandshakeErrors : ReturnScanned(<<"fail", ErrorCode(e)>>)
    BY <1>2 DEF HandshakeFails
  <2>2. ErrorCode(e) \in TLSCodes
    BY <2>1, HandshakeErrorKinds, ErrorCodeKinds DEF TLSCodes, TypeOK
  <2> QED
    BY <1>2, <2>1, <2>2, LayerConclusions DEF HandshakeFails, ReturnScanned
<1>3. CASE HandshakeSucceeds
  BY <1>3 DEF HandshakeSucceeds
<1>4. CASE Verify
  <2>1. CASE verified' = TRUE /\ pc' = "validity" /\ UNCHANGED result
    BY <1>4, <2>1 DEF Verify
  <2>2. ASSUME NEW e \in VerifyErrors, ReturnScanned(<<"fail", ErrorCode(e)>>)
        PROVE  ProgressInv'
    <3>1. ErrorCode(e) \in TLSCodes
      BY <2>2, VerifyErrorsHaveReasons, ErrorCodeKinds
    <3> QED
      BY <1>4, <2>2, <3>1, LayerConclusions DEF Verify, ReturnScanned
  <2> QED
    BY <1>4, <2>1, <2>2 DEF Verify
<1>5. CASE CheckValidity
  <2>1. result' \in TLSConclusions
    BY <1>5, CheckValidityCases, LayerConclusions DEF TLSCodes, TLSWarnings
  <2> QED
    BY <1>5, <2>1, CheckValidityCases
<1>6. CASE ScanVersion
  BY <1>6 DEF ScanVersion
<1>7. CASE FinishScan
  BY <1>7, LayerConclusions DEF FinishScan, TLSWarnings
<1> QED
  BY <1>1, <1>2, <1>3, <1>4, <1>5, <1>6, <1>7 DEF Next, Step

(* Every step keeps what was verified.                                     *)
LEMMA NextVerified ==
  ASSUME TypeOK, ProgressInv, VerifiedInv, [Next]_vars
  PROVE  VerifiedInv'
<1> USE DEF VerifiedInv
<1>0. /\ cert' = cert /\ insecure' = insecure
      /\ cert.notBefore \in Int /\ clock \in Int /\ clock' \in Int /\ clock <= clock'
  BY ClockAdvances
<1>1. CASE Call \/ Tick \/ ContextDone \/ ScanVersion \/ UNCHANGED vars
  <2>1. UNCHANGED <<result, verified>> /\ (pc' = pc \/ (pc = "idle" /\ pc' = "called"))
    BY <1>1 DEF Call, Tick, ContextDone, ScanVersion, vars
  <2> QED
    BY <1>0, <2>1
<1>2. CASE HandshakeFails
  BY <1>0, <1>2 DEF HandshakeFails, ReturnScanned
<1>3. CASE HandshakeSucceeds
  BY <1>0, <1>3 DEF HandshakeSucceeds
<1>4. CASE Verify
  BY <1>0, <1>4, VerifyErrorsHaveReasons DEF Verify, ReturnScanned
<1>5. CASE CheckValidity
  BY <1>0, <1>5, CheckValidityCases
<1>6. CASE FinishScan
  BY <1>0, <1>6 DEF FinishScan
<1> QED
  BY <1>1, <1>2, <1>3, <1>4, <1>5, <1>6 DEF Next, Step

(* Every step keeps the days in agreement with the clock and the result.   *)
LEMMA NextDays ==
  ASSUME TypeOK, ProgressInv, VerifiedInv, DaysInv, [Next]_vars
  PROVE  DaysInv'
<1> USE DEF DaysInv
<1>0. /\ UNCHANGED <<cert, insecure>>
      /\ cert.notAfter \in Int /\ clock \in Int /\ clock' \in Int /\ clock <= clock'
      /\ ~Tick => clock' = clock
      /\ obsDays \subseteq Int /\ ThresholdDays \in Int
  BY ClockAdvances, ThresholdAssumption DEF TypeOK
<1>1. CASE Tick
  <2>1. /\ Days(cert.notAfter - clock') <= Days(cert.notAfter - clock)
        /\ Days(cert.notAfter - clock') \in Int /\ Days(cert.notAfter - clock) \in Int
    BY <1>0, DaysMonotone
  <2>2. UNCHANGED <<pc, result, obsDays>>
    BY <1>1 DEF Tick
  <2>3. \A d \in obsDays' : d >= Days(cert'.notAfter - clock')
    BY <1>0, <2>1, <2>2
  <2>4. Days(cert.notAfter - clock) < ThresholdDays => Days(cert'.notAfter - clock') < ThresholdDays
    BY <1>0, <2>1
  <2>5. Days(cert.notAfter - clock)' = Days(cert'.notAfter - clock')
    BY DEF Days
  <2> QED
    BY <1>0, <2>2, <2>3, <2>4, <2>5
<1>2. CASE Call \/ ContextDone \/ ScanVersion \/ UNCHANGED vars
  <2>1. clock' = clock
    BY <1>0, <1>2 DEF Tick, Call, ContextDone, ScanVersion, vars, env
  <2>2. Days(cert.notAfter - clock)' = Days(cert.notAfter - clock)
    BY <1>0, <2>1 DEF Days
  <2>3. UNCHANGED <<result, obsDays>> /\ (pc' = pc \/ (pc = "idle" /\ pc' = "called"))
    BY <1>2 DEF Call, ContextDone, ScanVersion, vars
  <2> QED
    BY <1>0, <2>1, <2>2, <2>3
<1>3. CASE HandshakeFails
  <2>1. PICK e \in HandshakeErrors : ReturnScanned(<<"fail", ErrorCode(e)>>)
    BY <1>3 DEF HandshakeFails
  <2>2. ErrorCode(e) \in {"TLS_HANDSHAKE_TIMEOUT", "TLS_PROTOCOL_ERROR", "TLS_ERROR"}
    BY <2>1, HandshakeErrorKinds, ErrorCodeKinds DEF TypeOK
  <2>3. result' = <<"fail", ErrorCode(e)>> /\ obsDays' = obsDays /\ obsDays = {}
    BY <1>3, <2>1 DEF HandshakeFails, ReturnScanned, ProgressInv
  <2> QED
    BY <2>2, <2>3
<1>4. CASE HandshakeSucceeds
  <2>1. obsDays' = {Days(cert.notAfter - clock)} /\ pc' \notin {"scan", "returned"}
        /\ UNCHANGED clock
    BY <1>4 DEF HandshakeSucceeds, BuildObservations, env
  <2>2. Days(cert.notAfter - clock) \in Int
    BY <1>0, DaysMonotone
  <2>3. Days(cert.notAfter - clock)' = Days(cert.notAfter - clock)
    BY <1>0, <2>1 DEF Days
  <2> QED
    BY <2>1, <2>2, <2>3
<1>5. CASE Verify
  <2>1. UNCHANGED <<obsDays, clock>> /\ ~insecure
    BY <1>5 DEF Verify, VerifiedInv, env
  <2>2. Days(cert.notAfter - clock)' = Days(cert.notAfter - clock)
    BY <1>0, <2>1 DEF Days
  <2>3. CASE pc' = "validity"
    BY <2>1, <2>2, <2>3
  <2>4. ASSUME NEW e \in VerifyErrors, ReturnScanned(<<"fail", ErrorCode(e)>>)
        PROVE  DaysInv'
    <3>1. /\ ErrorCode(e) \in TLSCodes
          /\ ErrorCode(e) = "TLS_CERT_EXPIRED" => clock > cert.notAfter \/ cert.chain = "expired"
      BY <2>4, VerifyErrorsHaveReasons, ErrorCodeKinds
    <3>2. result' = <<"fail", ErrorCode(e)>>
      BY <2>4 DEF ReturnScanned
    <3> QED
      BY <1>0, <2>1, <2>2, <3>1, <3>2 DEF TLSCodes
  <2> QED
    BY <1>5, <2>3, <2>4 DEF Verify
<1>6. CASE CheckValidity
  <2>1. UNCHANGED <<obsDays, clock>>
    BY <1>6, CheckValidityCases DEF env
  <2>2. Days(cert.notAfter - clock)' = Days(cert.notAfter - clock)
    BY <1>0, <2>1 DEF Days
  <2>3. /\ Days(cert.notAfter - clock) \in Int
        /\ cert.notAfter - clock >= 0 => Days(cert.notAfter - clock) >= 0
    BY <1>0, DaysMonotone
  <2>4. CASE /\ result' = <<IF insecure THEN "warn" ELSE "fail", "TLS_CERT_NOT_YET_VALID">>
    BY <1>0, <2>1, <2>2, <2>4
  <2>5. CASE /\ result' = <<IF insecure THEN "warn" ELSE "fail", "TLS_CERT_EXPIRED">>
             /\ cert.notAfter - clock < 0
    BY <1>0, <2>1, <2>2, <2>5
  <2>6. CASE /\ result' = <<"warn", "TLS_CERT_EXPIRING_SOON">>
             /\ cert.notAfter - clock >= 0
             /\ Days(cert.notAfter - clock) < ThresholdDays
    <3>1. \A d \in obsDays : d >= 0
      BY <1>0, <2>3, <2>6
    <3> QED
      BY <1>0, <2>1, <2>2, <2>6, <3>1
  <2>7. CASE /\ result' = <<"ok", NoError>>
             /\ ~(Days(cert.notAfter - clock) < ThresholdDays)
    <3>1. \A d \in obsDays : d >= ThresholdDays
      BY <1>0, <2>3, <2>7
    <3> QED
      BY <1>0, <2>1, <2>2, <2>7, <3>1 DEF NoError
  <2> QED
    BY <1>6, <2>4, <2>5, <2>6, <2>7, CheckValidityCases
<1>7. CASE FinishScan
  <2>1. UNCHANGED <<obsDays, clock>> /\ pc = "scan"
        /\ result' \in {result, <<"warn", "TLS_DEPRECATED_VERSION_ENABLED">>}
    BY <1>7 DEF FinishScan, env
  <2>2. Days(cert.notAfter - clock)' = Days(cert.notAfter - clock)
    BY <1>0, <2>1 DEF Days
  <2>3. CASE result' = result
    BY <1>0, <2>1, <2>2, <2>3
  <2>4. CASE result' = <<"warn", "TLS_DEPRECATED_VERSION_ENABLED">>
    BY <1>0, <2>1, <2>2, <2>4
  <2> QED
    BY <2>1, <2>3, <2>4
<1> QED
  BY <1>1, <1>2, <1>3, <1>4, <1>5, <1>6, <1>7 DEF Next, Step

(* The scan's records say no more than the server spoke.                   *)
LEMMA AppendKeepsSpoken ==
  ASSUME TypeOK, ScanInv, NEW v \in AllVersions, NEW supported \in BOOLEAN,
         supported => v \in versions, scanned' = Append(scanned, <<v, supported>>)
  PROVE  \A k \in DOMAIN scanned' : scanned'[k][2] => scanned'[k][1] \in versions
<1>1. scanned \in Seq(AllVersions \X BOOLEAN)
  BY DEF TypeOK
<1>2. ASSUME NEW k \in DOMAIN scanned'
      PROVE  (k \in DOMAIN scanned /\ scanned'[k] = scanned[k]) \/ scanned'[k] = <<v, supported>>
  BY <1>1, <1>2
<1> QED
  BY <1>2 DEF ScanInv

(* Every step keeps the scan's records and the verdict in step.            *)
LEMMA NextScan ==
  ASSUME TypeOK, ProgressInv, ScanInv, [Next]_vars
  PROVE  ScanInv'
<1> USE DEF ScanInv
<1>0. UNCHANGED versions /\ Undecided[2] # "TLS_DEPRECATED_VERSION_ENABLED"
      /\ (scanned' = scanned => DeprecatedEnabled' = DeprecatedEnabled)
  BY ClockAdvances DEF Undecided, NoError, DeprecatedEnabled
<1>1. CASE Call \/ Tick \/ ContextDone \/ UNCHANGED vars
  <2>1. UNCHANGED <<result, scanned, tlsScan>> /\ (pc' = pc \/ (pc = "idle" /\ pc' = "called"))
    BY <1>1 DEF Call, Tick, ContextDone, vars
  <2> QED
    BY <1>0, <2>1
<1>2. CASE HandshakeFails
  <2>1. PICK e \in HandshakeErrors : ReturnScanned(<<"fail", ErrorCode(e)>>)
    BY <1>2 DEF HandshakeFails
  <2>2. ErrorCode(e) \in {"TLS_HANDSHAKE_TIMEOUT", "TLS_PROTOCOL_ERROR", "TLS_ERROR"}
    BY <2>1, HandshakeErrorKinds, ErrorCodeKinds DEF TypeOK
  <2>3. result' = <<"fail", ErrorCode(e)>> /\ UNCHANGED <<scanned, tlsScan>> /\ ~tlsScan
    BY <1>2, <2>1 DEF HandshakeFails, ReturnScanned, ProgressInv
  <2> QED
    BY <1>0, <2>2, <2>3
<1>3. CASE HandshakeSucceeds
  <2>1. UNCHANGED <<result, scanned, tlsScan>> /\ pc' \in {"validity", "verify"}
    BY <1>3 DEF HandshakeSucceeds
  <2> QED
    BY <1>0, <2>1
<1>4. CASE Verify
  <2>1. UNCHANGED <<scanned, tlsScan>> /\ ~tlsScan
    BY <1>4 DEF Verify, ProgressInv
  <2>2. CASE pc' = "validity"
    BY <1>0, <2>1, <2>2
  <2>3. ASSUME NEW e \in VerifyErrors, ReturnScanned(<<"fail", ErrorCode(e)>>)
        PROVE  ScanInv'
    <3>1. ErrorCode(e) # "TLS_DEPRECATED_VERSION_ENABLED"
      BY <2>3, VerifyErrorsHaveReasons, ErrorCodeKinds DEF TLSCodes
    <3>2. result' = <<"fail", ErrorCode(e)>>
      BY <2>3 DEF ReturnScanned
    <3> QED
      BY <1>0, <2>1, <3>1, <3>2
  <2> QED
    BY <1>4, <2>2, <2>3 DEF Verify
<1>5. CASE CheckValidity
  <2>1. UNCHANGED <<scanned, tlsScan>> /\ ~tlsScan
    BY <1>5, CheckValidityCases DEF ProgressInv
  <2>2. result'[2] # "TLS_DEPRECATED_VERSION_ENABLED"
    BY <1>5, CheckValidityCases DEF NoError
  <2> QED
    BY <1>0, <2>1, <2>2
<1>6. CASE ScanVersion
  <2>1. \A k \in DOMAIN scanned' : scanned'[k][2] => scanned'[k][1] \in versions
    BY <1>6, ScanAppends, AppendKeepsSpoken
  <2>2. UNCHANGED <<pc, result>> /\ pc = "scan"
    BY <1>6 DEF ScanVersion
  <2> QED
    BY <1>0, <2>1, <2>2
<1>7. CASE FinishScan
  <2>1. UNCHANGED scanned /\ tlsScan' /\ pc = "scan" /\ pc' = "returned"
    BY <1>7 DEF FinishScan
  <2>2. CASE DeprecatedEnabled # {} /\ result[1] = "ok"
    <3>1. result' = <<"warn", "TLS_DEPRECATED_VERSION_ENABLED">>
      BY <1>7, <2>2 DEF FinishScan
    <3> QED
      BY <1>0, <2>1, <2>2, <3>1
  <2>3. CASE ~(DeprecatedEnabled # {} /\ result[1] = "ok")
    <3>1. result' = result
      BY <1>7, <2>3 DEF FinishScan
    <3> QED
      BY <1>0, <2>1, <2>3, <3>1 DEF ProgressInv
  <2> QED
    BY <2>2, <2>3
<1> QED
  BY <1>1, <1>2, <1>3, <1>4, <1>5, <1>6, <1>7 DEF Next, Step

(* The invariant is inductive.                                             *)
LEMMA Invariance == Spec => []TLSInv
<1>1. TLSInv /\ [Next]_vars => TLSInv'
  BY NextType, NextProgress, NextVerified, NextDays, NextScan DEF TLSInv
<1> QED
  BY <1>1, InitInv, PTL DEF Spec

------------------------------------------------------------------------------
(* The results.                                                            *)

(* tls.go: the call's state keeps its types, and at most one number of     *)
(* days is observed.                                                       *)
THEOREM TLSTypeCorrect == Spec => []TypeOK
<1>1. TLSInv => TypeOK
  BY DEF TLSInv
<1> QED
  BY <1>1, Invariance, PTL

(* tls.go, Probe and verifyCertificate: no certificate passes, and none is *)
(* called verified, without the whole verification.                        *)
THEOREM UnverifiedFails == Spec => []NothingUnverifiedPasses
<1>1. TLSInv => NothingUnverifiedPasses
  BY DEF TLSInv, VerifiedInv, NothingUnverifiedPasses
<1> QED
  BY <1>1, Invariance, PTL

(* tls.go, Probe and buildObservations: the days shown and the status were *)
(* taken at different readings of the clock and never contradict.          *)
THEOREM DaysAgree == Spec => []DaysAgreeWithStatus
<1>1. TLSInv => DaysAgreeWithStatus
  BY DEF TLSInv, DaysInv, DaysAgreeWithStatus
<1> QED
  BY <1>1, Invariance, PTL

(* tls.go, the uses of pctx.Insecure: with it, only the handshake fails.   *)
THEOREM InsecureForgives == Spec => []InsecureForgivesCertificates
<1>1. TLSInv => InsecureForgivesCertificates
  BY DEF TLSInv, DaysInv, InsecureForgivesCertificates
<1> QED
  BY <1>1, Invariance, PTL

(* tls.go, the end of performTLSScan: the one change the scan makes.       *)
THEOREM ScanWarnsOnly == Spec => ScanOnlyWarns
<1>1. TLSInv /\ [Next]_vars =>
        [pc = "scan" /\ result' # result =>
           /\ result[1] = "ok"
           /\ result' = <<"warn", "TLS_DEPRECATED_VERSION_ENABLED">>
           /\ versions \cap DeprecatedVersions # {}]_vars
  <2> SUFFICES ASSUME TLSInv, [Next]_vars, pc = "scan", result' # result
               PROVE  /\ result[1] = "ok"
                      /\ result' = <<"warn", "TLS_DEPRECATED_VERSION_ENABLED">>
                      /\ versions \cap DeprecatedVersions # {}
    OBVIOUS
  <2>1. FinishScan
    BY DEF Next, Step, Call, HandshakeFails, HandshakeSucceeds, Verify, CheckValidity,
           ScanVersion, Tick, ContextDone, vars
  <2>2. /\ DeprecatedEnabled # {} /\ result[1] = "ok"
        /\ result' = <<"warn", "TLS_DEPRECATED_VERSION_ENABLED">>
    BY <2>1 DEF FinishScan
  <2>3. PICK k \in DOMAIN scanned : scanned[k][2] /\ scanned[k][1] \in DeprecatedVersions
    BY <2>2 DEF DeprecatedEnabled
  <2> QED
    BY <2>2, <2>3 DEF TLSInv, ScanInv
<1> QED
  BY <1>1, Invariance, PTL DEF ScanOnlyWarns, Spec

(* A mark says what the attempt was and whether its version is deprecated. *)
LEMMA ScanMarkKinds ==
  ASSUME NEW attempt \in AllVersions \X BOOLEAN
  PROVE  /\ ScanMark(attempt) = "[!!]" <=> attempt[2] /\ attempt[1] \in DeprecatedVersions
         /\ ScanMark(attempt) # "[FAIL]" => attempt[2]
<1>1. RendererDeprecated = DeprecatedVersions
  BY DEF RendererDeprecated, DeprecatedVersions
<1>2. CASE attempt[2] /\ attempt[1] \in RendererDeprecated
  BY <1>1, <1>2 DEF ScanMark
<1>3. CASE attempt[2] /\ attempt[1] \notin RendererDeprecated
  BY <1>1, <1>3 DEF ScanMark
<1>4. CASE ~attempt[2]
  BY <1>4 DEF ScanMark
<1> QED
  BY <1>2, <1>3, <1>4

(* tls.go and renderer.go, renderTLSScanLine: the scan's line and the      *)
(* layer's status, decided apart, never contradict each other.             *)
THEOREM ScanLineExplains == Spec => []ScanLineExplainsStatus
<1>1. TLSInv => ScanLineExplainsStatus
  <2> SUFFICES ASSUME TLSInv, pc = "returned" PROVE ScanLineExplainsStatus
    BY DEF ScanLineExplainsStatus
  <2> DEFINE warned == \E k \in DOMAIN ScanLine : ScanLine[k] = "[!!]"
  <2>1. \A k \in DOMAIN scanned : scanned[k] \in AllVersions \X BOOLEAN
    BY DEF TLSInv, TypeOK
  <2>2. CASE tlsScan
    <3>1. /\ DOMAIN ScanLine = DOMAIN scanned
          /\ \A k \in DOMAIN scanned : ScanLine[k] = ScanMark(scanned[k])
      BY <2>2 DEF ScanLine
    <3>2. warned <=> DeprecatedEnabled # {}
      BY <2>1, <3>1, ScanMarkKinds DEF DeprecatedEnabled
    <3>3. \A k \in DOMAIN ScanLine : ScanLine[k] # "[FAIL]" => scanned[k][1] \in versions
      BY <2>1, <3>1, ScanMarkKinds DEF TLSInv, ScanInv
    <3> QED
      BY <2>2, <3>2, <3>3 DEF ScanLineExplainsStatus, TLSInv, ScanInv
  <2>3. CASE ~tlsScan
    <3>1. DOMAIN ScanLine = {}
      BY <2>3 DEF ScanLine
    <3> QED
      BY <2>3, <3>1 DEF ScanLineExplainsStatus, TLSInv, ScanInv
  <2> QED
    BY <2>2, <2>3
<1> QED
  BY <1>1, Invariance, PTL

(* The contract's table is the one the model uses.                         *)
LEMMA SameConclusions == Contract!Conclusions["tls"] = TLSConclusions
  BY DEF Contract!Conclusions, Contract!TLSConclusions, Contract!TLSCodes, Contract!TLSWarnings,
         Contract!OK, Contract!With, Contract!NoError,
         TLSConclusions, TLSCodes, TLSWarnings, OK, With, NoError

(* tls.go, Layer.Probe: every behaviour of the call is, step for step, one *)
(* the contract of the layer allows (its safety part).                     *)
THEOREM TLSKeepsContract == Spec => Contract!Init /\ [][Contract!Next]_(Contract!vars)
<1>1. Init => Contract!Init
  BY DEF Init, Contract!Init, Contract!Undecided, Undecided, Contract!NoError, NoError
<1>2. TLSInv /\ [Next]_vars => [Contract!Next]_(Contract!vars)
  <2> SUFFICES ASSUME TLSInv, [Next]_vars PROVE [Contract!Next]_(Contract!vars)
    OBVIOUS
  <2> USE DEF Contract!vars, Contract!Next
  <2>1. CASE Call
    BY <2>1 DEF Call, Contract!Call, env
  <2>2. CASE ContextDone
    BY <2>2 DEF ContextDone, Contract!ContextDone
  <2>3. CASE Tick
    BY <2>3 DEF Tick
  <2>4. CASE Step
    <3>1. UNCHANGED ctxErr /\ pc \notin {"idle", "returned"} /\ pc' # "idle"
      BY <2>4, CheckValidityCases
         DEF Step, HandshakeFails, HandshakeSucceeds, Verify, ScanVersion, FinishScan,
             ReturnScanned, env, TLSInv
    <3>2. pc' = "returned" => result' \in TLSConclusions
      BY NextProgress DEF TLSInv, ProgressInv
    <3> QED
      BY <3>1, <3>2, SameConclusions DEF Contract!Return
  <2>5. CASE UNCHANGED vars
    BY <2>5 DEF vars, env
  <2> QED
    BY <2>1, <2>2, <2>3, <2>4, <2>5 DEF Next
<1> QED
  BY <1>1, <1>2, Invariance, PTL DEF Spec

(***************************************************************************)
(* What the scan leaves in its results, and when it is left out.           *)
(***************************************************************************)

(* The versions are tried in their order, each once, before the scan's     *)
(* results are set; only what the check of the validity period decided is  *)
(* returned past the scan.                                                 *)
OrderInv ==
  /\ Len(scanned) <= Len(ScanVersions)
  /\ \A k \in DOMAIN scanned : scanned[k][1] = ScanVersions[k]
  /\ tlsScan => Len(scanned) = Len(ScanVersions)
  /\ pc = "returned" /\ wantScan /\ ~tlsScan =>
       result[2] \in {"TLS_CERT_NOT_YET_VALID", "TLS_CERT_EXPIRED", "TLS_CERT_EXPIRING_SOON"}

(* Nothing is scanned at first.                                            *)
LEMMA OrderInit == Init => OrderInv
BY DEF Init, OrderInv, ScanVersions

(* Every step keeps it; ScanVersion is the one that adds an entry.         *)
LEMMA OrderStep == TLSInv /\ OrderInv /\ [Next]_vars => OrderInv'
<1> SUFFICES ASSUME TLSInv, OrderInv, [Next]_vars PROVE OrderInv'
  OBVIOUS
<1>0. TypeOK /\ ProgressInv BY DEF TLSInv
<1>1. CASE pc' # "returned" /\ UNCHANGED <<scanned, tlsScan>>
  BY <1>1 DEF OrderInv
<1>2. CASE UNCHANGED <<pc, result, wantScan, scanned, tlsScan>>
  BY <1>2 DEF OrderInv
<1>3. CASE Call BY <1>1, <1>3 DEF Call
<1>4. CASE HandshakeFails
  BY <1>1, <1>4 DEF HandshakeFails, ReturnScanned, inputs, OrderInv
<1>5. CASE HandshakeSucceeds BY <1>1, <1>5 DEF HandshakeSucceeds
<1>6. CASE Verify
  BY <1>1, <1>6 DEF Verify, ReturnScanned, inputs, OrderInv
<1>7. CASE CheckValidity
  <2>1. wantScan' = wantScan /\ UNCHANGED <<scanned, tlsScan>>
    BY <1>0, <1>7, CheckValidityCases DEF inputs
  <2>2. pc' = "returned" /\ wantScan =>
          result'[2] \in {"TLS_CERT_NOT_YET_VALID", "TLS_CERT_EXPIRED",
                          "TLS_CERT_EXPIRING_SOON"}
    BY <1>0, <1>7, CheckValidityCases
  <2>3. QED BY <2>1, <2>2 DEF OrderInv
<1>8. CASE ScanVersion
  <2>1. PICK supported \in BOOLEAN :
          scanned' = Append(scanned, <<ScanVersions[Len(scanned) + 1], supported>>)
    BY <1>8 DEF ScanVersion
  <2>2. /\ pc = "scan" /\ pc' = "scan" /\ tlsScan' = tlsScan
        /\ Len(scanned) < Len(ScanVersions)
    BY <1>8 DEF ScanVersion
  <2>3. scanned \in Seq(AllVersions \X BOOLEAN) BY <1>0 DEF TypeOK
  <2>4. ~tlsScan BY <1>0, <2>2 DEF ProgressInv
  <2>5. Len(scanned') = Len(scanned) + 1 BY <2>1, <2>3
  <2>6. Len(scanned') <= Len(ScanVersions)
    <3>1. Len(scanned) \in Nat /\ Len(ScanVersions) = 4 BY <2>3 DEF ScanVersions
    <3>2. QED BY <2>2, <2>5, <3>1
  <2>7. \A k \in DOMAIN scanned' : scanned'[k][1] = ScanVersions[k]
    <3>1. SUFFICES ASSUME NEW k \in DOMAIN scanned' PROVE scanned'[k][1] = ScanVersions[k]
      OBVIOUS
    <3>2. CASE k \in DOMAIN scanned
      <4>1. scanned'[k] = scanned[k] BY <2>1, <2>3, <3>2
      <4>2. QED BY <3>2, <4>1 DEF OrderInv
    <3>3. CASE k \notin DOMAIN scanned
      <4>1. k = Len(scanned) + 1 /\ scanned'[k] = <<ScanVersions[k], supported>>
        BY <2>1, <2>3, <3>1, <3>3
      <4>2. QED BY <4>1
    <3>4. QED BY <3>2, <3>3
  <2>8. QED BY <2>2, <2>4, <2>6, <2>7 DEF OrderInv
<1>9. CASE FinishScan
  BY <1>9 DEF FinishScan, OrderInv
<1>10. CASE Tick BY <1>2, <1>10 DEF Tick, inputs
<1>11. CASE ContextDone BY <1>2, <1>11 DEF ContextDone, inputs
<1>12. CASE UNCHANGED vars BY <1>2, <1>12 DEF vars, inputs
<1>13. QED
  BY <1>3, <1>4, <1>5, <1>6, <1>7, <1>8, <1>9, <1>10, <1>11, <1>12 DEF Next, Step

(* It is an invariant.                                                     *)
LEMMA OrderHolds == Spec => [](TLSInv /\ OrderInv)
BY Invariance, OrderInit, OrderStep, PTL DEF Spec

(* tls.go performTLSScan: a scan that is reported has one entry for each   *)
(* version, in the order of tlsScanVersions, whenever the deadline fell.   *)
THEOREM ScanIsComplete ==
  Spec => [](tlsScan => /\ Len(scanned) = Len(ScanVersions)
                        /\ \A k \in DOMAIN scanned : scanned[k][1] = ScanVersions[k])
<1>1. TLSInv /\ OrderInv =>
        (tlsScan => /\ Len(scanned) = Len(ScanVersions)
                    /\ \A k \in DOMAIN scanned : scanned[k][1] = ScanVersions[k])
  BY DEF OrderInv
<1>2. QED BY <1>1, OrderHolds, PTL

(* docs/schema.md:313.  ScanAlwaysPerformed is false, but only because of  *)
(* the returns of the validity check: a Probe that was asked to scan and   *)
(* did not warns or fails for the certificate's dates, and no call that is *)
(* ok or failed in another way returns without its scan.                   *)
THEOREM ScanLeftOutOnlyForDates ==
  Spec => [](pc = "returned" /\ wantScan /\ ~tlsScan =>
               result[2] \in {"TLS_CERT_NOT_YET_VALID", "TLS_CERT_EXPIRED",
                              "TLS_CERT_EXPIRING_SOON"})
<1>1. TLSInv /\ OrderInv =>
        (pc = "returned" /\ wantScan /\ ~tlsScan =>
           result[2] \in {"TLS_CERT_NOT_YET_VALID", "TLS_CERT_EXPIRED",
                          "TLS_CERT_EXPIRING_SOON"})
  BY DEF OrderInv
<1>2. QED BY <1>1, OrderHolds, PTL

(***************************************************************************)
(* How long a call can take.                                               *)
(***************************************************************************)

(* How much the call has still to do, the end of its context included.     *)
Stage ==
  IF pc = "idle" THEN 9 ELSE IF pc = "called" THEN 8 ELSE IF pc = "verify" THEN 7
  ELSE IF pc = "validity" THEN 6 ELSE IF pc = "scan" THEN 5 - Len(scanned) ELSE 0

StepsLeft == Stage + IF ctxErr = "nil" THEN 1 ELSE 0

(* The count is one of steps.                                              *)
LEMMA StageType == TLSInv /\ OrderInv => Stage \in 0 .. 9 /\ StepsLeft \in 0 .. 10
<1> SUFFICES ASSUME TLSInv, OrderInv PROVE Stage \in 0 .. 9 /\ StepsLeft \in 0 .. 10
  OBVIOUS
<1>1. Len(scanned) \in Nat /\ Len(scanned) <= 4
  BY DEF TLSInv, TypeOK, OrderInv, ScanVersions
<1>2. Stage \in 0 .. 9 BY <1>1 DEF Stage
<1>3. QED BY <1>2 DEF StepsLeft

(* Every step but the passing of time takes from it.                       *)
LEMMA StageFalls ==
  ASSUME TLSInv, OrderInv, [Next]_vars, vars' # vars
  PROVE  StepsLeft' < StepsLeft \/ (clock' = clock + 1 /\ StepsLeft' = StepsLeft)
<1>0. Len(scanned) \in Nat /\ Len(scanned) <= 4 /\ Len(ScanVersions) = 4
  BY DEF TLSInv, TypeOK, OrderInv, ScanVersions
<1>1. CASE Call \/ HandshakeFails \/ HandshakeSucceeds \/ Verify \/ CheckValidity
  <2>1. ctxErr' = ctxErr /\ scanned' = scanned
    BY <1>1, CheckValidityCases
    DEF Call, HandshakeFails, HandshakeSucceeds, Verify, ReturnScanned, env, TLSInv
  <2>2. \/ pc = "idle" /\ pc' = "called"
        \/ pc = "called" /\ pc' \in {"verify", "validity", "scan", "returned"}
        \/ pc = "verify" /\ pc' \in {"validity", "scan", "returned"}
        \/ pc = "validity" /\ pc' \in {"scan", "returned"}
    BY <1>1, CheckValidityCases
    DEF Call, HandshakeFails, HandshakeSucceeds, Verify, ReturnScanned, TLSInv
  <2>3. \/ Stage = 9 /\ Stage' = 8
        \/ Stage = 8 /\ Stage' \in {7, 6, 5 - Len(scanned), 0}
        \/ Stage = 7 /\ Stage' \in {6, 5 - Len(scanned), 0}
        \/ Stage = 6 /\ Stage' \in {5 - Len(scanned), 0}
    BY <2>1, <2>2 DEF Stage
  <2>4. QED BY <1>0, <2>1, <2>3 DEF StepsLeft
<1>2. CASE ScanVersion
  <2>1. pc = "scan" /\ pc' = "scan" /\ ctxErr' = ctxErr
    BY <1>2 DEF ScanVersion, env
  <2>2. Len(scanned') = Len(scanned) + 1
    <3>1. scanned \in Seq(AllVersions \X BOOLEAN) BY DEF TLSInv, TypeOK
    <3>2. PICK x : scanned' = Append(scanned, x) BY <1>2 DEF ScanVersion
    <3>3. QED BY <3>1, <3>2
  <2>3. QED BY <1>0, <2>1, <2>2 DEF StepsLeft, Stage
<1>3. CASE FinishScan
  <2>1. pc = "scan" /\ pc' = "returned" /\ ctxErr' = ctxErr
    BY <1>3 DEF FinishScan, env
  <2>2. QED BY <1>0, <2>1 DEF StepsLeft, Stage
<1>4. CASE Tick
  <2>1. UNCHANGED <<pc, scanned, ctxErr>> /\ clock' = clock + 1 BY <1>4 DEF Tick
  <2>2. QED BY <2>1 DEF StepsLeft, Stage
<1>5. CASE ContextDone
  <2>1. UNCHANGED <<pc, scanned>> /\ ctxErr = "nil" /\ ctxErr' # "nil"
    BY <1>5 DEF ContextDone
  <2>2. Stage \in 0 .. 9 BY StageType
  <2>3. Stage' = Stage BY <2>1 DEF Stage
  <2>4. QED BY <2>1, <2>2, <2>3 DEF StepsLeft
<1>6. QED BY <1>1, <1>2, <1>3, <1>4, <1>5 DEF Next, Step

(* A call takes ten steps at most, all its handshakes and the end of its   *)
(* context included; between them nothing passes but time.                 *)
THEOREM ProbeIsBounded ==
  Spec => /\ [](StepsLeft \in 0 .. 10)
          /\ [][StepsLeft' < StepsLeft \/ (clock' = clock + 1 /\ StepsLeft' = StepsLeft)]_vars
<1>1. TLSInv /\ OrderInv => StepsLeft \in 0 .. 10 BY StageType
<1>2. TLSInv /\ OrderInv /\ [Next]_vars =>
        [StepsLeft' < StepsLeft \/ (clock' = clock + 1 /\ StepsLeft' = StepsLeft)]_vars
  BY StageFalls
<1>3. QED BY <1>1, <1>2, OrderHolds, PTL DEF Spec
==============================================================================
