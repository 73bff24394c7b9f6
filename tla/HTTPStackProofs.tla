----------------------------- MODULE HTTPStackProofs -----------------------------
(***************************************************************************)
(* The tcp and the http layer of an attempt, for every set of header maps, *)
(* every set of replies and addresses, and a context that may end at any   *)
(* point: what is shown of the headers, what is made of the response, and  *)
(* how the dial's end is named.                                            *)
(***************************************************************************)
EXTENDS HTTPStack, FiniteSetTheorems, TLAPS

(* While the tcp layer dials and when the context ends, the http layer's   *)
(* part of the state stands still.                                         *)
LEMMA StackStep ==
  ASSUME [StackNext]_stackVars
  PROVE  UNCHANGED httpVars \/ Call \/ Step
  BY DEF StackNext, stackVars, vars, TCPStep, HTTPCall, HTTPStep, ContextEnds, ContextDone,
         httpVars, inputs, observations

------------------------------------------------------------------------------
(* The headers.                                                            *)

(* Every key visited so far has left a value under its name, and every     *)
(* value is that of a key of the name it stands under; when the request    *)
(* is sent none is left.  What is shown is built from the whole map.       *)
HeadersInv ==
  /\ headers \subseteq Keys
  /\ pc \in {"idle", "build", "headers", "waiting", "returned"}
  /\ pending \subseteq headers
  /\ \A n \in DOMAIN header : header[n] \in headers /\ header[n].name = n
  /\ pc \in {"headers", "waiting"} => \A k \in headers \ pending : k.name \in DOMAIN header
  /\ pc = "waiting" => pending = {}
  /\ obsRequest \in {Empty, BuildRequestHeaders}
  /\ obsResponse = Empty \/ \E names : obsResponse = BuildResponseHeaders(names)
  /\ obsStatus # 0 => /\ pc = "returned"
                      /\ obsRequest = BuildRequestHeaders
                      /\ \A k \in headers : k.name \in DOMAIN header

(* The invariant holds before the call.                                    *)
LEMMA InitHeaders == StackInit => HeadersInv
  BY HeaderMapsAssumption, ZenonT(30) DEF StackInit, Init, HeadersInv, Empty

(* What a reply leaves in the observations is what HeadersInv says of them.*)
LEMMA ReportsObserves ==
  ASSUME NEW r, Reports(r)
  PROVE  /\ pc' = "returned"
         /\ obsRequest' = BuildRequestHeaders
         /\ \E names : obsResponse' = BuildResponseHeaders(names)
  BY DEF Reports

(* A reply or a failure of Do, the map having been walked to its end.      *)
LEMMA DoKeepsHeaders ==
  ASSUME HeadersInv, Responds \/ DoFails
  PROVE  HeadersInv'
<1>1. pc = "waiting" /\ UNCHANGED <<inputs, pending, header>>
  BY DEF Responds, DoFails
<1>2. \A k \in headers : k.name \in DOMAIN header
  BY <1>1 DEF HeadersInv
<1>3. UNCHANGED <<headers, redact>>
  BY <1>1 DEF inputs
<1>4. BuildRequestHeaders' = BuildRequestHeaders
  BY <1>3 DEF BuildRequestHeaders
<1>5. \A names : BuildResponseHeaders(names)' = BuildResponseHeaders(names)
  BY <1>3 DEF BuildResponseHeaders
<1>6. CASE \E r \in Replies : Reports(r)
  <2>1. PICK r \in Replies : Reports(r)
    BY <1>6
  <2>2. /\ pc' = "returned"
        /\ obsRequest' = BuildRequestHeaders'
        /\ \E names : obsResponse' = BuildResponseHeaders(names)'
    BY <1>4, <1>5, <2>1, ReportsObserves
  <2> QED
    BY <1>1, <1>2, <1>3, <2>2 DEF HeadersInv
<1>7. CASE \E code : Fails(code)
  <2>1. pc' = "returned" /\ UNCHANGED observations
    BY <1>7 DEF Fails
  <2>2. obsStatus = 0
    BY <1>1 DEF HeadersInv
  <2> QED
    BY <1>1, <1>3, <1>4, <1>5, <2>1, <2>2 DEF HeadersInv, observations
<1>8. (\E r \in Replies : Reports(r)) \/ (\E code : Fails(code))
  BY DEF Responds, DoFails, CheckRedirect
<1> QED
  BY <1>6, <1>7, <1>8

(* One turn of the walk over the map.                                      *)
LEMMA SetHeaderKeepsHeaders ==
  ASSUME HeadersInv, SetHeader
  PROVE  HeadersInv'
<1>1. PICK k \in pending :
        /\ pending' = pending \ {k}
        /\ header' = [n \in DOMAIN header \cup {k.name} |->
                        IF n = k.name THEN k ELSE header[n]]
  BY DEF SetHeader
<1>2. UNCHANGED <<headers, redact, pc, obsStatus, obsRequest, obsResponse>>
  BY DEF SetHeader, inputs, observations
<1>3. pc = "headers" /\ obsStatus = 0
  BY DEF SetHeader, HeadersInv
<1>4. BuildRequestHeaders' = BuildRequestHeaders
  BY <1>2 DEF BuildRequestHeaders
<1>5. \A names : BuildResponseHeaders(names)' = BuildResponseHeaders(names)
  BY <1>2 DEF BuildResponseHeaders
<1>6. \A n \in DOMAIN header' : header'[n] \in headers /\ header'[n].name = n
  BY <1>1 DEF HeadersInv
<1>7. \A j \in headers \ pending' : j.name \in DOMAIN header'
  BY <1>1, <1>3 DEF HeadersInv
<1> QED
  BY <1>1, <1>2, <1>3, <1>4, <1>5, <1>6, <1>7 DEF HeadersInv

(* The steps that touch neither the header under construction nor, but for *)
(* a failure to make the request, anything that is reported.               *)
LEMMA OthersKeepHeaders ==
  ASSUME HeadersInv, UNCHANGED httpVars \/ Call \/ NewRequest \/ Send
  PROVE  HeadersInv'
<1>1. UNCHANGED <<headers, redact, header, obsStatus, obsRequest, obsResponse>>
  BY DEF httpVars, inputs, observations, Call, NewRequest, Send, Fails
<1>2. BuildRequestHeaders' = BuildRequestHeaders
  BY <1>1 DEF BuildRequestHeaders
<1>3. \A names : BuildResponseHeaders(names)' = BuildResponseHeaders(names)
  BY <1>1 DEF BuildResponseHeaders
<1>4. CASE UNCHANGED httpVars
  BY <1>1, <1>2, <1>3, <1>4 DEF httpVars, HeadersInv
<1>5. CASE Call
  BY <1>1, <1>2, <1>3, <1>5 DEF Call, HeadersInv
<1>6. CASE NewRequest
  BY <1>1, <1>2, <1>3, <1>6 DEF NewRequest, Fails, HeadersInv
<1>7. CASE Send
  BY <1>1, <1>2, <1>3, <1>7 DEF Send, HeadersInv
<1> QED
  BY <1>4, <1>5, <1>6, <1>7

(* Every step keeps the invariant.                                         *)
LEMMA NextHeaders == HeadersInv /\ [StackNext]_stackVars => HeadersInv'
  BY StackStep, DoKeepsHeaders, SetHeaderKeepsHeaders, OthersKeepHeaders DEF Step

(* What is built from the user's map and from a response shows no value    *)
(* under a sensitive name while redaction is on.                           *)
LEMMA BuiltIsRedacted ==
  ASSUME redact, headers \subseteq Keys,
         NEW k \in Keys, k.name \in SensitiveHeaders
  PROVE  /\ k \notin ShownIn(Empty)
         /\ k \notin ShownIn(BuildRequestHeaders)
         /\ \A names : k \notin ShownIn(BuildResponseHeaders(names))
<1>1. k # Redacted
  BY DEF Redacted, SensitiveHeaders
<1> QED
  BY <1>1 DEF ShownIn, Empty, BuildRequestHeaders, BuildResponseHeaders, IsSensitiveHeader

(* The property follows: a value that was sent is a key's, so it is shown  *)
(* or masked under that key; and a key that was not sent is a Host header  *)
(* or was overwritten by another of its name.                              *)
LEMMA HeadersInvSuffices == HeadersInv => RedactionIsExact
<1> SUFFICES ASSUME HeadersInv PROVE RedactionIsExact
  OBVIOUS
<1>1. ASSUME redact, NEW k \in Keys, k.name \in SensitiveHeaders
      PROVE  k \notin ShownIn(obsRequest) \cup ShownIn(obsResponse)
  BY <1>1, BuiltIsRedacted DEF HeadersInv
<1>2. ASSUME obsStatus # 0, NEW n \in DOMAIN Sent
      PROVE  \/ Sent[n] \in ShownIn(obsRequest)
             \/ redact /\ n \in SensitiveHeaders /\ obsRequest[Sent[n]] = Redacted
  <2>1. n \in DOMAIN header /\ Sent[n] = header[n]
    BY DEF Sent
  <2>2. header[n] \in headers /\ header[n].name = n
    BY <2>1 DEF HeadersInv
  <2>3. obsRequest = BuildRequestHeaders
    BY <1>2 DEF HeadersInv
  <2>4. DOMAIN obsRequest = headers
    BY <2>3 DEF BuildRequestHeaders
  <2>5. CASE redact /\ n \in SensitiveHeaders
    BY <2>1, <2>2, <2>3, <2>5 DEF BuildRequestHeaders, IsSensitiveHeader
  <2>6. CASE ~(redact /\ n \in SensitiveHeaders)
    <3>1. obsRequest[header[n]] = header[n]
      BY <2>2, <2>3, <2>6 DEF BuildRequestHeaders, IsSensitiveHeader
    <3> QED
      BY <2>1, <2>2, <2>4, <3>1 DEF ShownIn
  <2> QED
    BY <2>5, <2>6
<1>3. ASSUME obsStatus # 0, NEW k \in DOMAIN obsRequest
      PROVE  \/ \E n \in DOMAIN Sent : Sent[n] = k
             \/ k.name \in Unwritten
             \/ \E other \in DOMAIN obsRequest \ {k} : other.name = k.name
  <2>1. DOMAIN obsRequest = headers
    BY <1>3 DEF HeadersInv, BuildRequestHeaders
  <2>2. k.name \in DOMAIN header
    BY <1>3, <2>1 DEF HeadersInv
  <2>3. header[k.name] \in headers /\ header[k.name].name = k.name
    BY <2>2 DEF HeadersInv
  <2>4. k.name \notin Unwritten => k.name \in DOMAIN Sent /\ Sent[k.name] = header[k.name]
    BY <2>2 DEF Sent
  <2> QED
    BY <2>1, <2>3, <2>4
<1> QED
  BY <1>1, <1>2, <1>3 DEF RedactionIsExact

(* http.go, isSensitiveHeader and the loop over pctx.Headers: whatever the *)
(* user's map and the order it is walked in, redaction hides exactly the   *)
(* values under sensitive names, and what is shown is what was sent but    *)
(* for Host and overwritten keys.                                          *)
THEOREM RedactionExact == StackSpec => []RedactionIsExact
<1>1. StackSpec => []HeadersInv
  BY InitHeaders, NextHeaders, PTL DEF StackSpec
<1> QED
  BY <1>1, HeadersInvSuffices, PTL

------------------------------------------------------------------------------
(* The response.                                                           *)

(* What became of the first response r once Probe has returned.            *)
Reported(r) ==
  IF Redirects(r) /\ r.location # "valid"
  THEN result = <<"fail", IF r.location = "quoting" THEN "HTTP_TIMEOUT" ELSE "HTTP_ERROR">>
  ELSE result[1] = "ok" <=> r.status < 400

(* Nothing is asked before the header is complete, one host while Do is    *)
(* under way, and no response comes before the one that ends it.           *)
ResponseInv ==
  /\ pc \in {"idle", "build", "headers", "waiting", "returned"}
  /\ pc \in {"idle", "build", "headers"} => asked = <<>>
  /\ pc = "waiting" => asked = <<"target">>
  /\ pc = "returned" => asked \in {<<>>, <<"target">>}
  /\ pc # "returned" => first = {} /\ obsStatus = 0
  /\ pc = "returned" => \A r \in first : Reported(r)
  /\ obsStatus # 0 => \E r \in first : r.status = obsStatus

(* The invariant holds before the call.                                    *)
LEMMA InitResponse == StackInit => ResponseInv
  BY DEF StackInit, Init, ResponseInv

(* A response below 400 is ok and every other is not.                      *)
LEMMA ReportsByStatus ==
  ASSUME NEW r \in Replies, Reports(r)
  PROVE  /\ pc' = "returned" /\ obsStatus' = r.status
         /\ result'[1] = "ok" <=> r.status < 400
<1>1. r.status \in Nat
  BY RepliesAssumption DEF FinalStatus
<1> QED
  BY <1>1 DEF Reports

(* The response that ends Do is the first, and is reported.                *)
LEMMA RespondsKeepsResponse ==
  ASSUME ResponseInv, Responds
  PROVE  ResponseInv'
<1>1. pc = "waiting" /\ first = {} /\ obsStatus = 0 /\ asked = <<"target">>
  BY DEF Responds, ResponseInv
<1>2. PICK r \in Replies :
        /\ first' = {r}
        /\ asked' = asked
        /\ \/ ~(Redirects(r) /\ r.location # "valid") /\ Reports(r)
           \/ Redirects(r) /\ r.location # "valid" /\ Fails(ClassifyHTTPError(r.location))
  BY <1>1 DEF Responds, CheckRedirect
<1>3. CASE ~(Redirects(r) /\ r.location # "valid") /\ Reports(r)
  BY <1>1, <1>2, <1>3, ReportsByStatus DEF ResponseInv, Reported
<1>4. CASE Redirects(r) /\ r.location # "valid" /\ Fails(ClassifyHTTPError(r.location))
  <2>1. r.location \in {"invalid", "quoting"}
    BY <1>4, RepliesAssumption DEF Redirects
  <2> QED
    BY <1>1, <1>2, <1>4, <2>1 DEF ResponseInv, Reported, Fails, ClassifyHTTPError, observations
<1> QED
  BY <1>2, <1>3, <1>4

(* Every other step leaves the responses alone.                            *)
LEMMA OthersKeepResponse ==
  ASSUME ResponseInv,
         UNCHANGED httpVars \/ Call \/ NewRequest \/ SetHeader \/ Send \/ DoFails
  PROVE  ResponseInv'
<1>1. UNCHANGED first /\ UNCHANGED obsStatus
  BY DEF httpVars, observations, Call, NewRequest, SetHeader, Send, DoFails, Fails
<1>2. CASE UNCHANGED httpVars
  BY <1>1, <1>2 DEF httpVars, ResponseInv, Reported
<1>3. CASE Call
  BY <1>1, <1>3 DEF Call, ResponseInv, Reported
<1>4. CASE NewRequest
  BY <1>1, <1>4 DEF NewRequest, Fails, ResponseInv, Reported
<1>5. CASE SetHeader
  BY <1>1, <1>5 DEF SetHeader, ResponseInv, Reported
<1>6. CASE Send
  BY <1>1, <1>6 DEF Send, Route, ResponseInv, Reported
<1>7. CASE DoFails
  BY <1>1, <1>7 DEF DoFails, Fails, ResponseInv, Reported
<1> QED
  BY <1>2, <1>3, <1>4, <1>5, <1>6, <1>7

(* Every step keeps the invariant.                                         *)
LEMMA NextResponse == ResponseInv /\ [StackNext]_stackVars => ResponseInv'
  BY StackStep, RespondsKeepsResponse, OthersKeepResponse DEF Step

(* http.go, CheckRedirect and the classification: whatever servers reply,  *)
(* one request goes to the target and the first response is reported.      *)
THEOREM OneResponse == StackSpec => []FirstResponseReported
<1>1. StackSpec => []ResponseInv
  BY InitResponse, NextResponse, PTL DEF StackSpec
<1>2. ResponseInv => FirstResponseReported
  BY DEF ResponseInv, Reported, FirstResponseReported
<1> QED
  BY <1>1, <1>2, PTL

------------------------------------------------------------------------------
(* The dial.                                                               *)

(* What made the dial fail is known once it has, is in accordance with the *)
(* context, and decides the code.                                          *)
DialInv ==
  /\ tcpPc \in {"idle", "dialing", "returned"}
  /\ tcpPc = "idle" => tcpResult = TCP!Undecided
  /\ tcpPc = "dialing" => dialed = {resolvedIPs[1]} /\ tcpResult = TCP!Undecided
  /\ tcpPc # "returned" => cause = "none" /\ remoteIP = {}
  /\ tcpPc = "returned" => tcpResult \in TCPConclusions /\ TCP!TimeoutsAreNamed

(* The invariant holds before the calls.                                   *)
LEMMA InitDial == StackInit => DialInv
  BY DEF StackInit, TCP!Init, DialInv

(* Every error the dialer may return has one of the layer's codes, and it  *)
(* is TCP_TIMEOUT for those that are a time limit's.                       *)
LEMMA ClassifyNamesTimeouts ==
  ASSUME NEW e
  PROVE  /\ TCP!ClassifyTCPError(e) \in TCPCodes
         /\ TCP!ClassifyTCPError(e) = "TCP_TIMEOUT" <=> e \in TCP!Timeouts
  BY DEF TCP!ClassifyTCPError, TCP!Timeouts, TCPCodes

(* The dial itself.                                                        *)
LEMMA DialKeepsDial ==
  ASSUME DialInv, TCP!Call \/ TCP!Connected \/ TCP!DialFails
  PROVE  DialInv'
<1>1. CASE TCP!Call
  BY <1>1 DEF TCP!Call, DialInv
<1>2. CASE TCP!Connected
  <2>1. tcpResult' = <<"ok", NoError>> /\ tcpPc' = "returned" /\ cause' = "none"
    BY <1>2 DEF TCP!Connected, DialInv, NoError, TCP!NoError
  <2>2. tcpResult' \in TCPConclusions
    BY <2>1 DEF TCPConclusions, OK, With
  <2>3. TCP!TimeoutsAreNamed'
    BY <1>2, <2>1 DEF TCP!Connected, DialInv, TCP!TimeoutsAreNamed, TCP!Timeouts, NoError
  <2> QED
    BY <2>1, <2>2, <2>3 DEF DialInv
<1>3. CASE TCP!DialFails
  <2>1. PICK e \in TCP!Errnos \cup ({ctxErr} \ {"nil"}) :
          cause' = e /\ tcpResult' = <<"fail", TCP!ClassifyTCPError(e)>>
    BY <1>3 DEF TCP!DialFails
  <2>2. tcpPc' = "returned" /\ UNCHANGED <<resolvedIPs, ctxErr>>
    BY <1>3 DEF TCP!DialFails
  <2>3. tcpResult' \in TCPConclusions
    BY <2>1, ClassifyNamesTimeouts DEF TCPConclusions, With
  <2>4. e = "deadline" => ctxErr = "deadline"
    BY <2>1 DEF TCP!Errnos
  <2>5. TCP!TimeoutsAreNamed'
    BY <2>1, <2>2, <2>4, ClassifyNamesTimeouts DEF TCP!TimeoutsAreNamed, TCP!Timeouts
  <2> QED
    BY <2>2, <2>3, <2>5 DEF DialInv
<1> QED
  BY <1>1, <1>2, <1>3

(* The end of the context, once, and all that the http layer does.         *)
LEMMA OthersKeepDial ==
  ASSUME DialInv, UNCHANGED tcpVars, ctxErr' = ctxErr \/ ctxErr = "nil"
  PROVE  DialInv'
  BY DEF DialInv, tcpVars, TCP!TimeoutsAreNamed, TCP!Timeouts, TCP!Undecided

(* Every step keeps the invariant.                                         *)
LEMMA NextDial == DialInv /\ [StackNext]_stackVars => DialInv'
<1> SUFFICES ASSUME DialInv, [StackNext]_stackVars PROVE DialInv'
  OBVIOUS
<1>1. CASE TCPStep
  BY <1>1, DialKeepsDial DEF TCPStep
<1>2. CASE ~TCPStep
  <2>1. UNCHANGED tcpVars
    BY <1>2 DEF StackNext, stackVars, HTTPCall, HTTPStep, ContextEnds
  <2>2. ctxErr' = ctxErr \/ ctxErr = "nil"
    BY <1>2 DEF StackNext, stackVars, vars, HTTPCall, HTTPStep, ContextEnds, ContextDone,
                Call, Step, NewRequest, SetHeader, Send, Responds, DoFails
  <2> QED
    BY <2>1, <2>2, OthersKeepDial
<1> QED
  BY <1>1, <1>2

(* tcp.go, classifyTCPError: a timeout is named exactly when a time limit  *)
(* ended the dial, also after the http layer went on under the context.    *)
THEOREM TimeoutsNamed == StackSpec => []TimeoutsAreNamed
<1>1. StackSpec => []DialInv
  BY InitDial, NextDial, PTL DEF StackSpec
<1>2. DialInv => TimeoutsAreNamed
  BY DEF DialInv, TimeoutsAreNamed, TCP!TimeoutsAreNamed
<1> QED
  BY <1>1, <1>2, PTL

------------------------------------------------------------------------------
(* The contract of the http layer.                                         *)

(* Until Probe returns it has concluded nothing.                           *)
ProbeInv == pc \in {"idle", "build", "headers", "waiting"} => result = Undecided

(* The code made up for a status of 400 and above is a documented one.     *)
LEMMA StatusCodesDocumented ==
  ASSUME NEW s \in Nat, s >= 400
  PROVE  ClassifyStatusCode(s) \in HTTPStatusCodes
<1>1. CASE s \in 400 .. 499
  BY <1>1 DEF ClassifyStatusCode, HTTPStatusCodes
<1>2. CASE s >= 500
  BY <1>2 DEF ClassifyStatusCode, HTTPStatusCodes
<1> QED
  BY <1>1, <1>2

(* Whatever Probe returns with is a conclusion its layer may have.         *)
LEMMA ReturnsConclude ==
  ASSUME \/ \E r \in Replies : Reports(r)
         \/ \E e : Fails(ClassifyHTTPError(e))
         \/ Fails("HTTP_ERROR")
  PROVE  pc' = "returned" /\ result' \in Conclusions["http"]
<1>1. Conclusions["http"] = HTTPConclusions
  BY DEF Conclusions
<1>2. CASE \E r \in Replies : Reports(r)
  <2>1. PICK r \in Replies : Reports(r)
    BY <1>2
  <2>2. r.status \in Nat
    BY RepliesAssumption DEF FinalStatus
  <2>3. r.status >= 400 => ClassifyStatusCode(r.status) \in HTTPCodes
    BY <2>2, StatusCodesDocumented DEF HTTPCodes
  <2> QED
    BY <1>1, <2>1, <2>2, <2>3 DEF Reports, HTTPConclusions, OK, With
<1>3. CASE (\E e : Fails(ClassifyHTTPError(e))) \/ Fails("HTTP_ERROR")
  BY <1>1, <1>3 DEF Fails, ClassifyHTTPError, HTTPConclusions, HTTPCodes, HTTPTransportCodes, With
<1> QED
  BY <1>2, <1>3

(* The contract's conclusions are those of StackCore.                      *)
LEMMA SameConclusions == Contract!Conclusions["http"] = Conclusions["http"]
<1>1. Conclusions["http"] = HTTPConclusions
  BY DEF Conclusions
<1>2. Contract!Conclusions["http"] = Contract!HTTPConclusions
  BY DEF Contract!Conclusions
<1>3. Contract!HTTPCodes = HTTPCodes
  BY DEF Contract!HTTPCodes, HTTPCodes, Contract!HTTPTransportCodes, HTTPTransportCodes,
         Contract!HTTPStatusCodes, HTTPStatusCodes
<1>4. Contract!HTTPConclusions = HTTPConclusions
  BY <1>3 DEF Contract!HTTPConclusions, HTTPConclusions, Contract!OK, OK, Contract!With, With,
              Contract!NoError, NoError
<1> QED
  BY <1>1, <1>2, <1>4

(* A step that returns is a Return of the contract.                        *)
LEMMA HTTPReturns ==
  ASSUME ProbeInv, pc \in {"build", "waiting"}, UNCHANGED ctxErr,
         pc' = "returned", result' \in Conclusions["http"]
  PROVE  Contract!Return
  BY SameConclusions DEF Contract!Return

(* Every step is one of the contract, or none it can see.                  *)
LEMMA HTTPSteps ==
  ASSUME ResponseInv, ProbeInv, [StackNext]_stackVars
  PROVE  ProbeInv' /\ [Contract!Next]_(Contract!vars)
<1> USE DEF Contract!vars, Contract!Next, ResponseInv, ProbeInv
<1>1. CASE Call
  BY <1>1 DEF Call, Contract!Call
<1>2. CASE NewRequest
  <2>1. CASE urlParses
    BY <1>2, <2>1 DEF NewRequest, observations
  <2>2. CASE ~urlParses
    BY <1>2, <2>2, ReturnsConclude, HTTPReturns DEF NewRequest
  <2> QED
    BY <2>1, <2>2
<1>3. CASE SetHeader \/ Send
  BY <1>3 DEF SetHeader, Send
<1>4. CASE Responds
  BY <1>4, ReturnsConclude, HTTPReturns DEF Responds, CheckRedirect
<1>5. CASE DoFails
  BY <1>5, ReturnsConclude, HTTPReturns DEF DoFails
<1>6. CASE UNCHANGED httpVars
  <2>1. ctxErr' = ctxErr \/ (ctxErr = "nil" /\ ctxErr' # "nil")
    BY <1>6 DEF StackNext, stackVars, vars, TCPStep, HTTPCall, HTTPStep, ContextEnds, ContextDone,
                Call, Step, NewRequest, SetHeader, Send, Responds, DoFails,
                TCP!Call, TCP!Connected, TCP!DialFails
  <2> QED
    BY <1>6, <2>1 DEF httpVars, Contract!ContextDone
<1> QED
  BY StackStep, <1>1, <1>2, <1>3, <1>4, <1>5, <1>6 DEF Step

(* http.go, Probe: under whatever header map, replies and context, every   *)
(* step is one LayerProbe allows, and only documented codes are returned.  *)
(* (That it returns once its context is done is left to the model checker.)*)
THEOREM HTTPKeepsContract ==
  StackSpec => Contract!Init /\ [][Contract!Next]_(Contract!vars)
<1>1. StackInit => ResponseInv /\ ProbeInv /\ Contract!Init
  BY InitResponse DEF StackInit, Init, ProbeInv, Contract!Init, Undecided, Contract!Undecided,
                      NoError, Contract!NoError
<1>2. ResponseInv /\ ProbeInv /\ [StackNext]_stackVars
        => ResponseInv' /\ ProbeInv' /\ [Contract!Next]_(Contract!vars)
  BY NextResponse, HTTPSteps
<1> QED
  BY <1>1, <1>2, PTL DEF StackSpec
------------------------------------------------------------------------------
(* Type correctness.                                                       *)

(* What is returned is a conclusion, and what is observed has the type of  *)
(* what was sent and received.                                             *)
LEMMA OutcomeType ==
  ASSUME TypeOK, UNCHANGED inputs,
         \/ \E r \in Replies : Reports(r)
         \/ \E e : Fails(ClassifyHTTPError(e))
         \/ Fails("HTTP_ERROR")
  PROVE  /\ pc' = "returned"
         /\ result' \in HTTPConclusions
         /\ obsStatus' \in {0} \cup {r.status : r \in Replies}
         /\ DOMAIN obsRequest' \subseteq headers
         /\ DOMAIN obsResponse' \subseteq Keys
<1>1. pc' = "returned" /\ result' \in HTTPConclusions
  BY ReturnsConclude DEF Conclusions
<1>2. CASE UNCHANGED observations
  BY <1>1, <1>2 DEF observations, TypeOK
<1>3. ASSUME NEW r \in Replies, Reports(r)
      PROVE  /\ obsStatus' = r.status
             /\ DOMAIN obsRequest' \subseteq headers
             /\ DOMAIN obsResponse' \subseteq Keys
  <2>1. DOMAIN BuildRequestHeaders \subseteq headers
    BY DEF BuildRequestHeaders
  <2>2. \A names : DOMAIN BuildResponseHeaders(names) \subseteq Keys
    BY DEF BuildResponseHeaders, Keys, ImportantResponseHeaders, Names
  <2> QED
    BY <1>3, <2>1, <2>2 DEF Reports
<1> QED
  BY <1>1, <1>2, <1>3 DEF Fails

(* The http layer keeps the type of its state.                             *)
LEMMA HTTPKeepsType ==
  ASSUME TypeOK, ResponseInv, Call \/ Step \/ ContextDone
  PROVE  TypeOK'
<1> USE DEF TypeOK, inputs
<1>1. CASE Call
  BY <1>1 DEF Call, observations
<1>2. CASE NewRequest
  <2>1. CASE urlParses
    BY <1>2, <2>1 DEF NewRequest, observations
  <2>2. CASE ~urlParses
    BY <1>2, <2>2, OutcomeType DEF NewRequest
  <2> QED
    BY <2>1, <2>2
<1>3. CASE SetHeader
  <2>1. PICK k \in pending :
          /\ pending' = pending \ {k}
          /\ header' = [n \in DOMAIN header \cup {k.name} |->
                          IF n = k.name THEN k ELSE header[n]]
    BY <1>3 DEF SetHeader
  <2>2. k \in headers /\ k.name \in Names
    BY HeaderMapsAssumption DEF Keys
  <2>3. \A n \in DOMAIN header' : header'[n] \in headers
    BY <2>1, <2>2
  <2> QED
    BY <1>3, <2>1, <2>2, <2>3 DEF SetHeader, observations
<1>4. CASE Send
  <2>1. asked' \in Seq({"target", "proxy"})
    BY <1>4 DEF Send, Route
  <2> QED
    BY <1>4, <2>1 DEF Send, observations
<1>5. CASE Responds
  <2>1. first = {}
    BY <1>5 DEF Responds, ResponseInv
  <2>2. /\ \E r \in Replies : first' = {r}
        /\ UNCHANGED <<inputs, ctxErr, pending, header, asked>>
        /\ (\E r \in Replies : Reports(r)) \/ \E e : Fails(ClassifyHTTPError(e))
    BY <1>5, <2>1 DEF Responds, CheckRedirect
  <2> QED
    BY <2>2, OutcomeType
<1>6. CASE DoFails
  <2>1. \E e : Fails(ClassifyHTTPError(e))
    BY <1>6 DEF DoFails
  <2> QED
    BY <1>6, <2>1, OutcomeType DEF DoFails
<1>7. CASE ContextDone
  BY <1>7 DEF ContextDone, observations
<1> QED
  BY <1>1, <1>2, <1>3, <1>4, <1>5, <1>6, <1>7 DEF Step

(* The dial keeps the type of its state.                                   *)
LEMMA DialKeepsType ==
  ASSUME TCP!TypeOK, DialInv, TCP!Call \/ TCP!Connected \/ TCP!DialFails
  PROVE  TCP!TypeOK'
<1> USE DEF TCP!TypeOK
<1>1. CASE TCP!Call
  <2>1. resolvedIPs[1] \in Addresses
    OBVIOUS
  <2> QED
    BY <1>1, <2>1 DEF TCP!Call, DialInv
<1>2. CASE TCP!Connected
  <2>1. tcpResult' \in TCP!TCPConclusions
    BY <1>2 DEF TCP!Connected, TCP!TCPConclusions, TCP!OK, TCP!With
  <2> QED
    BY <1>2, <2>1 DEF TCP!Connected
<1>3. CASE TCP!DialFails
  <2>1. PICK e \in TCP!Errnos \cup ({ctxErr} \ {"nil"}) :
          cause' = e /\ tcpResult' = <<"fail", TCP!ClassifyTCPError(e)>>
    BY <1>3 DEF TCP!DialFails
  <2>2. tcpResult' \in TCP!TCPConclusions
    BY <2>1, ClassifyNamesTimeouts DEF TCP!TCPConclusions, TCP!With, TCP!TCPCodes, TCPCodes
  <2> QED
    BY <1>3, <2>1, <2>2 DEF TCP!DialFails
<1> QED
  BY <1>1, <1>2, <1>3

(* http.go and tcp.go: both calls keep the type of their state.            *)
THEOREM StackTypeCorrect == StackSpec => []StackTypeOK
<1>1. StackInit => ResponseInv /\ DialInv /\ TypeOK
  BY InitResponse, InitDial, HeaderMapsAssumption
     DEF StackInit, Init, TypeOK, Empty, Undecided
<1>2. ASSUME StackInit PROVE TCP!TypeOK
  <2>1. PICK n \in 1 .. 2 : resolvedIPs \in [1 .. n -> Addresses]
    BY <1>2 DEF StackInit, TCP!Init
  <2>2. resolvedIPs \in Seq(Addresses) /\ resolvedIPs # <<>>
    BY <2>1
  <2>3. /\ ctxErr = "nil" /\ tcpPc = "idle" /\ dialed = {} /\ cause = "none"
        /\ tcpResult = TCP!Undecided /\ remoteIP = {}
    BY <1>2 DEF StackInit, TCP!Init
  <2> QED
    BY <2>2, <2>3 DEF TCP!TypeOK
<1>3. ResponseInv /\ DialInv /\ StackTypeOK /\ [StackNext]_stackVars
        => ResponseInv' /\ DialInv' /\ StackTypeOK'
  <2> SUFFICES ASSUME ResponseInv, DialInv, StackTypeOK, [StackNext]_stackVars
               PROVE  ResponseInv' /\ DialInv' /\ StackTypeOK'
    OBVIOUS
  <2> USE DEF StackTypeOK
  <2>1. CASE TCPStep
    <3>1. TypeOK' /\ UNCHANGED httpVars
      BY <2>1 DEF TCPStep, TCP!Call, TCP!Connected, TCP!DialFails,
                  TypeOK, httpVars, inputs, observations
    <3> QED
      BY <2>1, <3>1, DialKeepsType, NextResponse, NextDial DEF TCPStep
  <2>2. CASE UNCHANGED tcpVars /\ (Call \/ Step \/ ContextDone)
    <3>1. ctxErr' \in {"nil", "deadline", "canceled"}
      BY <2>2, HTTPKeepsType DEF TypeOK
    <3> QED
      BY <2>2, <3>1, HTTPKeepsType, NextResponse, NextDial DEF TCP!TypeOK, tcpVars
  <2>3. CASE UNCHANGED stackVars
    BY <2>3, NextResponse, NextDial
       DEF stackVars, vars, tcpVars, inputs, observations, TypeOK, TCP!TypeOK
  <2> QED
    BY <2>1, <2>2, <2>3 DEF StackNext, HTTPCall, HTTPStep, ContextEnds
<1> QED
  BY <1>1, <1>2, <1>3, PTL DEF StackSpec, StackTypeOK
------------------------------------------------------------------------------
(* The tcp layer's side of the contract.                                   *)

(* What LayerProbe and the dial's module call tcp's conclusions is one set. *)
LEMMA SameTCPConclusions == TCP!Contract!Conclusions["tcp"] = TCPConclusions
  BY DEF TCP!Contract!Conclusions, TCP!Contract!TCPConclusions, TCP!Contract!TCPCodes,
         TCP!Contract!OK, TCP!Contract!With, TCP!Contract!NoError,
         TCPConclusions, TCPCodes, OK, With, NoError

(* The call, the end of the dial and the end of the context map to         *)
(* LayerProbe's; the http layer's steps are none that it sees.             *)
LEMMA TCPSteps ==
  ASSUME DialInv, DialInv', [StackNext]_stackVars
  PROVE  [TCP!Contract!Next]_(TCP!Contract!vars)
<1> USE DEF TCP!Contract!vars, TCP!Contract!Next
<1>1. CASE TCP!Call
  BY <1>1 DEF TCP!Call, TCP!Contract!Call
<1>2. CASE TCP!Connected \/ TCP!DialFails
  <2>1. tcpPc = "dialing" /\ tcpPc' = "returned" /\ UNCHANGED ctxErr
    BY <1>2 DEF TCP!Connected, TCP!DialFails
  <2>2. tcpResult' \in TCP!Contract!Conclusions["tcp"]
    BY <2>1, SameTCPConclusions DEF DialInv
  <2> QED
    BY <2>1, <2>2 DEF TCP!Contract!Return
<1>3. CASE UNCHANGED tcpVars
  <2>1. ctxErr' = ctxErr \/ (ctxErr = "nil" /\ ctxErr' # "nil")
    BY <1>3 DEF StackNext, stackVars, vars, TCPStep, HTTPCall, HTTPStep, ContextEnds, ContextDone,
                Call, Step, NewRequest, SetHeader, Send, Responds, DoFails,
                TCP!Call, TCP!Connected, TCP!DialFails
  <2> QED
    BY <1>3, <2>1 DEF tcpVars, TCP!Contract!ContextDone, TCP!Undecided
<1> QED
  BY <1>1, <1>2, <1>3 DEF StackNext, stackVars, TCPStep, HTTPCall, HTTPStep, ContextEnds

(* tcp.go, Probe: whatever ends the dial, and whatever the http layer does *)
(* after it, every step is one LayerProbe allows.                          *)
THEOREM TCPKeepsContract ==
  StackSpec => TCP!Contract!Init /\ [][TCP!Contract!Next]_(TCP!Contract!vars)
<1>1. StackInit => TCP!Contract!Init
  BY DEF StackInit, TCP!Init, TCP!Contract!Init, TCP!Undecided, TCP!Contract!Undecided,
         TCP!NoError, TCP!Contract!NoError
<1>2. DialInv /\ DialInv' /\ [StackNext]_stackVars => [TCP!Contract!Next]_(TCP!Contract!vars)
  BY TCPSteps
<1> QED
  BY <1>1, <1>2, InitDial, NextDial, PTL DEF StackSpec

(* What the two calls have still to do, the headers to be set and the end  *)
(* of the context they share included.                                     *)
DialToDo ==
  IF tcpPc = "idle" THEN {"dial", "connect"}
  ELSE IF tcpPc = "dialing" THEN {"connect"} ELSE {}

RequestToDo ==
  IF pc = "idle" THEN {"call", "build", "send", "answer"}
  ELSE IF pc = "build" THEN {"build", "send", "answer"}
  ELSE IF pc = "headers" THEN {"send", "answer"}
  ELSE IF pc = "waiting" THEN {"answer"} ELSE {}

HeadersToDo ==
  IF pc \in {"idle", "build"} THEN headers ELSE IF pc = "headers" THEN pending ELSE {}

ContextToDo == IF ctxErr = "nil" THEN {"end"} ELSE {}

Todo ==
  ({"step"} \X (DialToDo \cup RequestToDo \cup ContextToDo)) \cup ({"header"} \X HeadersToDo)

(* That is finitely much.                                                  *)
LEMMA FinitelyMuch == HeadersInv => IsFiniteSet(Todo)
<1> SUFFICES ASSUME HeadersInv PROVE IsFiniteSet(Todo)
  OBVIOUS
<1> DEFINE All == {} \cup {"dial"} \cup {"connect"} \cup {"call"} \cup {"build"}
                     \cup {"send"} \cup {"answer"} \cup {"end"}
           N == {} \cup {"authorization"} \cup {"cookie"} \cup {"host"}
                   \cup {"content-length"} \cup {"accept"} \cup {"server"}
                   \cup {"location"} \cup {"set-cookie"}
           W == {} \cup {"canonical"} \cup {"lower"}
<1>1. IsFiniteSet(All) BY FS_EmptySet, FS_AddElement
<1>2. IsFiniteSet(N) /\ IsFiniteSet(W) BY FS_EmptySet, FS_AddElement
<1>3. IsFiniteSet(Keys)
  <2> DEFINE key(p) == [name |-> p[1], written |-> p[2]]
             f == [p \in N \X W |-> key(p)]
  <2>1. IsFiniteSet(N \X W) BY <1>2, FS_Product
  <2>2. \A k \in Keys : \E p \in N \X W : f[p] = k
    <3>1. SUFFICES ASSUME NEW k \in Keys PROVE \E p \in N \X W : f[p] = k
      OBVIOUS
    <3>2. k.name \in N /\ k.written \in W /\ k = [name |-> k.name, written |-> k.written]
      BY DEF Keys, Names
    <3> HIDE DEF N, W
    <3>3. <<k.name, k.written>> \in N \X W BY <3>2
    <3>4. f[<<k.name, k.written>>] = k BY <3>2, <3>3
    <3>5. QED BY <3>3, <3>4
  <2>3. \A p \in N \X W : f[p] \in Keys BY DEF Keys, Names
  <2> HIDE DEF N, W, f
  <2>4. f \in Surjection(N \X W, Keys)
    <3>1. f = [p \in N \X W |-> f[p]] BY DEF f
    <3>2. f \in [N \X W -> Keys] BY <2>3, <3>1
    <3>3. QED BY <2>2, <3>2 DEF Surjection
  <2>5. QED BY <2>1, <2>4, FS_Surjection
<1>4. IsFiniteSet({"step"}) /\ IsFiniteSet({"header"}) BY FS_Singleton
<1> HIDE DEF All, N, W
<1>5. IsFiniteSet({"step"} \X All) /\ IsFiniteSet({"header"} \X Keys)
  BY <1>1, <1>3, <1>4, FS_Product
<1>6. IsFiniteSet(({"step"} \X All) \cup ({"header"} \X Keys)) BY <1>5, FS_Union
<1>7. DialToDo \cup RequestToDo \cup ContextToDo \subseteq All
  BY DEF DialToDo, RequestToDo, ContextToDo, All
<1>8. HeadersToDo \subseteq Keys BY DEF HeadersInv, HeadersToDo
<1>9. Todo \in SUBSET (({"step"} \X All) \cup ({"header"} \X Keys)) BY <1>7, <1>8 DEF Todo
<1>10. QED BY <1>6, <1>9, FS_Subset

(* A step that takes from one part and adds to none.                       *)
LEMMA TakesStep ==
  ASSUME DialToDo' \subseteq DialToDo, RequestToDo' \subseteq RequestToDo,
         ContextToDo' \subseteq ContextToDo, HeadersToDo' \subseteq HeadersToDo,
         \/ \E s \in DialToDo \cup RequestToDo \cup ContextToDo :
              s \notin (DialToDo \cup RequestToDo \cup ContextToDo)'
         \/ \E k \in HeadersToDo : k \notin HeadersToDo'
  PROVE  Todo' \subseteq Todo /\ Todo' # Todo
<1>1. Todo' = ({"step"} \X (DialToDo \cup RequestToDo \cup ContextToDo)')
                \cup ({"header"} \X HeadersToDo')
  BY DEF Todo
<1>2. Todo' \subseteq Todo BY <1>1 DEF Todo
<1>3. CASE \E s \in DialToDo \cup RequestToDo \cup ContextToDo :
             s \notin (DialToDo \cup RequestToDo \cup ContextToDo)'
  <2>1. PICK s \in DialToDo \cup RequestToDo \cup ContextToDo :
          s \notin (DialToDo \cup RequestToDo \cup ContextToDo)'
    BY <1>3
  <2>2. <<"step", s>> \in Todo /\ <<"step", s>> \notin Todo' BY <1>1, <2>1 DEF Todo
  <2>3. QED BY <1>2, <2>2
<1>4. CASE \E k \in HeadersToDo : k \notin HeadersToDo'
  <2>1. PICK k \in HeadersToDo : k \notin HeadersToDo' BY <1>4
  <2>2. <<"header", k>> \in Todo /\ <<"header", k>> \notin Todo' BY <1>1, <2>1 DEF Todo
  <2>3. QED BY <1>2, <2>2
<1>5. QED BY <1>3, <1>4

(* Every step of the two calls does.                                       *)
LEMMA StackTakes ==
  ASSUME HeadersInv, DialInv, StackNext
  PROVE  Todo' \subseteq Todo /\ Todo' # Todo
<1> USE DEF inputs, tcpVars, httpVars
<1>1. CASE TCPStep
  <2>1. /\ UNCHANGED <<pc, headers, pending, ctxErr>>
        /\ \/ tcpPc = "idle" /\ tcpPc' = "dialing"
           \/ tcpPc = "dialing" /\ tcpPc' = "returned"
    BY <1>1 DEF TCPStep, TCP!Call, TCP!Connected, TCP!DialFails
  <2>2. RequestToDo' = RequestToDo /\ HeadersToDo' = HeadersToDo /\ ContextToDo' = ContextToDo
    BY <2>1 DEF RequestToDo, HeadersToDo, ContextToDo
  <2>3. DialToDo' \subseteq DialToDo
    BY <2>1 DEF DialToDo
  <2>4. \E s \in DialToDo : s \notin (DialToDo \cup RequestToDo \cup ContextToDo)'
    BY <2>1 DEF DialToDo, RequestToDo, ContextToDo
  <2>5. QED BY <2>2, <2>3, <2>4, TakesStep
<1>2. CASE HTTPCall \/ HTTPStep
  <2>1. UNCHANGED <<headers, tcpPc, ctxErr>>
    BY <1>2 DEF HTTPCall, HTTPStep, Call, Step, NewRequest, SetHeader, Send, Responds, DoFails
  <2>2. DialToDo' = DialToDo /\ ContextToDo' = ContextToDo
    BY <2>1 DEF DialToDo, ContextToDo
  <2>3. CASE SetHeader
    <3>1. PICK k \in pending : pending' = pending \ {k} BY <2>3 DEF SetHeader
    <3>2. pc = "headers" /\ pc' = "headers" BY <2>3 DEF SetHeader
    <3>3. RequestToDo' = RequestToDo BY <3>2 DEF RequestToDo
    <3>4. HeadersToDo = pending /\ HeadersToDo' = pending' BY <3>2 DEF HeadersToDo
    <3>5. QED BY <2>2, <3>1, <3>3, <3>4, TakesStep
  <2>4. CASE Call \/ NewRequest \/ Send \/ Responds \/ DoFails
    <3>1. \/ pc = "idle" /\ pc' = "build"
          \/ pc = "build" /\ pc' = "headers" /\ pending' = headers
          \/ pc = "build" /\ pc' = "returned"
          \/ pc = "headers" /\ pc' = "waiting"
          \/ pc = "waiting" /\ pc' = "returned"
      BY <2>4 DEF Call, NewRequest, Send, Responds, DoFails, CheckRedirect, Reports, Fails
    <3>2. HeadersToDo' \subseteq HeadersToDo BY <2>1, <3>1 DEF HeadersToDo
    <3>3. RequestToDo' \subseteq RequestToDo BY <3>1 DEF RequestToDo
    <3>4. \E s \in RequestToDo : s \notin (DialToDo \cup RequestToDo \cup ContextToDo)'
      BY <3>1 DEF RequestToDo, DialToDo, ContextToDo
    <3>5. QED BY <2>2, <3>2, <3>3, <3>4, TakesStep
  <2>5. QED BY <1>2, <2>3, <2>4 DEF HTTPCall, HTTPStep, Step
<1>3. CASE ContextEnds
  <2>1. UNCHANGED <<pc, headers, pending, tcpPc>> /\ ctxErr = "nil" /\ ctxErr' # "nil"
    BY <1>3 DEF ContextEnds, ContextDone
  <2>2. RequestToDo' = RequestToDo /\ HeadersToDo' = HeadersToDo /\ DialToDo' = DialToDo
    BY <2>1 DEF RequestToDo, HeadersToDo, DialToDo
  <2>3. ContextToDo = {"end"} /\ ContextToDo' = {} BY <2>1 DEF ContextToDo
  <2>4. "end" \notin DialToDo \cup RequestToDo BY DEF DialToDo, RequestToDo
  <2>5. QED BY <2>2, <2>3, <2>4, TakesStep
<1>4. QED BY <1>1, <1>2, <1>3 DEF StackNext

(* Whatever the headers and the replies are, the two calls come to an end  *)
(* of their steps: no key is set twice, no redirect is followed, and       *)
(* nothing is tried again.                                                 *)
THEOREM CallsAreBounded ==
  StackSpec => [](IsFiniteSet(Todo)) /\ [][Todo' \subseteq Todo /\ Todo' # Todo]_stackVars
<1>1. HeadersInv => IsFiniteSet(Todo) BY FinitelyMuch
<1>2. HeadersInv /\ DialInv /\ [StackNext]_stackVars
        => [Todo' \subseteq Todo /\ Todo' # Todo]_stackVars
  BY StackTakes
<1>3. QED
  BY <1>1, <1>2, InitHeaders, NextHeaders, InitDial, NextDial, PTL DEF StackSpec

==============================================================================
