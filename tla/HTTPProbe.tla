------------------------------- MODULE HTTPProbe -------------------------------
(***************************************************************************)
(* internal/layers/http: one call of the http layer's Probe.               *)
(*                                                                         *)
(* A request is built from the target and the user's headers, sent once    *)
(* through net/http's Client, and what comes back is classified.  The      *)
(* user's headers are a Go map: its keys are names as they were written,   *)
(* two of which may differ in case only, and it is walked in any order.    *)
(*                                                                         *)
(* A key is a name and a way of writing it; the value the user gave under  *)
(* a key is identified with the key.                                       *)
(***************************************************************************)
EXTENDS StackCore

CONSTANTS
  HeaderMaps,       \* the sets of keys pctx.Headers may have
  Replies           \* the responses a server may give

Names ==
  {"authorization", "cookie", "host", "content-length", "accept", "server", "location",
   "set-cookie"}

(* "canonical" is the spelling of http.CanonicalHeaderKey.                 *)
Keys == [name : Names, written : {"canonical", "lower"}]

ASSUME HeaderMapsAssumption == HeaderMaps \subseteq SUBSET Keys

(* The transport keeps informational responses to itself, except 101.  A   *)
(* Location that is no URL may contain the words of an expired deadline,   *)
(* and then so does the client's error, which quotes it.                   *)
FinalStatus == (0 .. 999) \ ((100 .. 199) \ {101})

ASSUME RepliesAssumption ==
  Replies \subseteq [status : FinalStatus, names : SUBSET (Names \ {"location"}),
                     location : {"none", "valid", "invalid", "quoting"}]

Redacted == [name |-> "[REDACTED]", written |-> "masked"]

(* The part of the code's lists that concerns Names.                       *)
SensitiveHeaders == {"authorization", "cookie", "set-cookie"}

ImportantResponseHeaders == {"server", "location"}

VARIABLES
  headers,      \* the keys of pctx.Headers
  redact,       \* pctx.Redact
  urlParses,    \* buildURL's text is a URL (Target.tla says when)
  proxyEnv,     \* a proxy is set in the environment
  ctxErr,       \* pctx.Context.Err()
  pc,           \* where Probe is
  pending,      \* the keys the loop over pctx.Headers has yet to visit
  header,       \* req.Header: from canonical names to values
  asked,        \* the hosts connected to with a request so far
  first,        \* the first response, as a set: empty until there is one
  result,       \* <<status, code>> of the result
  obsStatus,    \* obs.StatusCode, 0 where the observations have none
  obsRequest,   \* obs.RequestHeaders
  obsResponse   \* obs.ResponseHeaders

inputs == <<headers, redact, urlParses, proxyEnv>>
observations == <<obsStatus, obsRequest, obsResponse>>
vars == <<inputs, ctxErr, pc, pending, header, asked, first, result, observations>>

Undecided == <<"none", NoError>>

Empty == [k \in {} |-> k]

Init ==
  /\ headers \in HeaderMaps
  /\ redact \in BOOLEAN
  /\ urlParses \in BOOLEAN
  /\ proxyEnv \in BOOLEAN
  /\ ctxErr = "nil"
  /\ pc = "idle"
  /\ pending = {}
  /\ header = Empty
  /\ asked = <<>>
  /\ first = {}
  /\ result = Undecided
  /\ obsStatus = 0
  /\ obsRequest = Empty
  /\ obsResponse = Empty

------------------------------------------------------------------------------
(* What is shown, and what is made of an outcome.                          *)

(* A mistake the checks must notice: the name is compared as written.      *)
IsSensitiveAsCanonical(k) == k.name \in SensitiveHeaders /\ k.written = "canonical"

IsSensitiveHeader(k) == k.name \in SensitiveHeaders

BuildRequestHeaders ==
  [k \in headers |-> IF redact /\ IsSensitiveHeader(k) THEN Redacted ELSE k]

(* net/http's response headers have canonical keys.                        *)
BuildResponseHeaders(names) ==
  LET keys == [name : names \cap ImportantResponseHeaders, written : {"canonical"}]
  IN  [k \in keys |-> IF redact /\ IsSensitiveHeader(k) THEN Redacted ELSE k]

(* isTimeout, which also looks for the words in the error's text.          *)
ClassifyHTTPError(e) ==
  IF e \in {"deadline", "timeout", "quoting"} THEN "HTTP_TIMEOUT" ELSE "HTTP_ERROR"

(* classifyStatusCode; its last return is for codes below 400.             *)
ClassifyStatusCode(s) ==
  CASE s = 401 -> "HTTP_401" [] s = 403 -> "HTTP_403" [] s = 404 -> "HTTP_404"
    [] s = 429 -> "HTTP_429" [] s = 500 -> "HTTP_500" [] s = 502 -> "HTTP_502"
    [] s = 503 -> "HTTP_503" [] s = 504 -> "HTTP_504"
    [] s \in (400 .. 499) \ {401, 403, 404, 429} -> "HTTP_4XX"
    [] s >= 500 /\ s \notin {500, 502, 503, 504} -> "HTTP_5XX"
    [] OTHER -> "HTTP_other"

Fails(code) ==
  /\ pc' = "returned"
  /\ result' = <<"fail", code>>
  /\ UNCHANGED observations

(* A mistake the checks must notice: redirects count as failures.          *)
ReportsRedirectAsFailure(r) ==
  /\ pc' = "returned"
  /\ result' = IF r.status >= 300 THEN <<"fail", ClassifyStatusCode(r.status)>>
                                  ELSE <<"ok", NoError>>
  /\ obsStatus' = r.status
  /\ obsRequest' = BuildRequestHeaders
  /\ obsResponse' = BuildResponseHeaders(
       r.names \cup (IF r.location = "none" THEN {} ELSE {"location"}))

Reports(r) ==
  /\ pc' = "returned"
  /\ result' = IF r.status >= 400 THEN <<"fail", ClassifyStatusCode(r.status)>>
                                  ELSE <<"ok", NoError>>
  /\ obsStatus' = r.status
  /\ obsRequest' = BuildRequestHeaders
  /\ obsResponse' = BuildResponseHeaders(
       r.names \cup (IF r.location = "none" THEN {} ELSE {"location"}))

------------------------------------------------------------------------------
(* Probe.                                                                  *)

(* The runner calls Probe only while the context is not done.              *)
Call ==
  /\ pc = "idle"
  /\ ctxErr = "nil"
  /\ pc' = "build"
  /\ UNCHANGED <<inputs, ctxErr, pending, header, asked, first, result, observations>>

(* http.NewRequestWithContext                                              *)
NewRequest ==
  /\ pc = "build"
  /\ \/ /\ urlParses
        /\ pc' = "headers"
        /\ pending' = headers
        /\ UNCHANGED <<result, observations>>
     \/ /\ ~urlParses
        /\ Fails("HTTP_ERROR")
        /\ UNCHANGED pending
  /\ UNCHANGED <<inputs, ctxErr, header, asked, first>>

(* req.Header.Set(k, v), k chosen by the order of the map.                 *)
SetHeader ==
  /\ pc = "headers"
  /\ \E k \in pending :
       /\ pending' = pending \ {k}
       /\ header' = [n \in DOMAIN header \cup {k.name} |-> IF n = k.name THEN k ELSE header[n]]
  /\ UNCHANGED <<inputs, ctxErr, pc, asked, first, result, observations>>

(* Where the request goes: the transport is built without a Proxy.         *)
Route == "target"

Send ==
  /\ pc = "headers"
  /\ pending = {}
  /\ pc' = "waiting"
  /\ asked' = Append(asked, Route)
  /\ UNCHANGED <<inputs, ctxErr, pending, header, first, result, observations>>

(* net/http does not write these from Header, but from the request itself; *)
(* so it is with Transfer-Encoding and Trailer, which Content-Length       *)
(* stands for.                                                             *)
Unwritten == {"host", "content-length"}

Sent == [n \in DOMAIN header \ Unwritten |-> header[n]]

(* Client.Do has a redirect in hand: Location is parsed before             *)
(* CheckRedirect is asked.                                                 *)
Redirects(r) == r.status \in {301, 302, 303, 307, 308} /\ r.location # "none"

(* A mistake the checks must notice: no CheckRedirect.                     *)
CheckRedirectFollows(r) ==
  /\ asked' = Append(asked, Route)
  /\ UNCHANGED <<pc, result, observations>>

(* http.ErrUseLastResponse: the redirect itself is the response.           *)
CheckRedirect(r) ==
  /\ Reports(r)
  /\ UNCHANGED asked

Responds ==
  /\ pc = "waiting"
  /\ \E r \in Replies :
       /\ first' = IF first = {} THEN {r} ELSE first
       /\ \/ ~Redirects(r) /\ Reports(r) /\ UNCHANGED asked
          \/ Redirects(r) /\ r.location = "valid" /\ CheckRedirect(r)
          \/ /\ Redirects(r) /\ r.location # "valid"
             /\ Fails(ClassifyHTTPError(r.location))
             /\ UNCHANGED asked
  /\ UNCHANGED <<inputs, ctxErr, pending, header>>

(* A mistake the checks must notice: a request without the context.        *)
DoFailsDetached ==
  /\ pc = "waiting"
  /\ ctxErr = "nil"
  /\ \E e \in {"connection", "timeout"} : Fails(ClassifyHTTPError(e))
  /\ UNCHANGED <<inputs, ctxErr, pending, header, asked, first>>

(* Client.Do fails: by the context, or at any time by the connection.      *)
DoFails ==
  /\ pc = "waiting"
  /\ \E e \in {"connection", "timeout"} \cup ({ctxErr} \ {"nil"}) :
       Fails(ClassifyHTTPError(e))
  /\ UNCHANGED <<inputs, ctxErr, pending, header, asked, first>>

------------------------------------------------------------------------------
(* The deadline fires or a signal arrives.                                 *)
ContextDone ==
  /\ pc # "returned"
  /\ ctxErr = "nil"
  /\ ctxErr' \in {"deadline", "canceled"}
  /\ UNCHANGED <<inputs, pc, pending, header, asked, first, result, observations>>

Step == NewRequest \/ SetHeader \/ Send \/ Responds \/ DoFails

Next == Call \/ Step \/ ContextDone

(* Client.Do is only known to end once the context is done; the rest of    *)
(* Probe is straight-line code.                                            *)
Fairness ==
  /\ WF_vars(NewRequest \/ SetHeader \/ Send)
  /\ WF_vars(ctxErr # "nil" /\ DoFails)

Spec == Init /\ [][Next]_vars /\ Fairness

------------------------------------------------------------------------------
(* Type correctness of the call's state.                                   *)
TypeOK ==
  /\ headers \in HeaderMaps
  /\ redact \in BOOLEAN /\ urlParses \in BOOLEAN /\ proxyEnv \in BOOLEAN
  /\ ctxErr \in {"nil", "deadline", "canceled"}
  /\ pc \in {"idle", "build", "headers", "waiting", "returned"}
  /\ pending \subseteq headers
  /\ DOMAIN header \subseteq Names /\ \A n \in DOMAIN header : header[n] \in headers
  /\ asked \in Seq({"target", "proxy"})
  /\ first \subseteq Replies /\ \A r, s \in first : r = s
  /\ result \in HTTPConclusions \cup {Undecided}
  /\ obsStatus \in {0} \cup {r.status : r \in Replies}
  /\ DOMAIN obsRequest \subseteq headers
  /\ DOMAIN obsResponse \subseteq Keys

ShownIn(obs) == {obs[k] : k \in DOMAIN obs}

(* Redaction, the default, hides every value given or received under a     *)
(* sensitive name, however the name is written, and hides no other: every  *)
(* value that was sent is shown under its own key or masked.  What is      *)
(* shown was sent, except the headers net/http writes by itself (Host from *)
(* the URL, and those that frame a body) and a key that another spelling   *)
(* of the same name may have overwritten; docs/schema.md:135, "Request     *)
(* headers sent", knows of neither exception.                              *)
RedactionIsExact ==
  /\ redact => \A k \in Keys :
       k.name \in SensitiveHeaders => k \notin ShownIn(obsRequest) \cup ShownIn(obsResponse)
  /\ obsStatus # 0 =>
       /\ \A n \in DOMAIN Sent :
            \/ Sent[n] \in ShownIn(obsRequest)
            \/ redact /\ n \in SensitiveHeaders /\ obsRequest[Sent[n]] = Redacted
       /\ \A k \in DOMAIN obsRequest :
            \/ \E n \in DOMAIN Sent : Sent[n] = k
            \/ k.name \in Unwritten
            \/ \E other \in DOMAIN obsRequest \ {k} : other.name = k.name

(* docs/schema.md "Redirect Policy": whatever chain of redirects servers   *)
(* offer, one request is made and its response is the one reported, ok     *)
(* below 400.  The one exception, which line 268 does not make: a redirect *)
(* whose Location is no URL is an error of the client, and one of time if  *)
(* the Location says so.  And the one host asked is the target, also with  *)
(* a proxy in the environment, of which line 302 says that the request is  *)
(* routed through it.                                                      *)
FirstResponseReported ==
  /\ asked \in {<<>>, <<"target">>}
  /\ obsStatus # 0 => \E r \in first : r.status = obsStatus
  /\ pc = "returned" => \A r \in first :
       IF Redirects(r) /\ r.location # "valid"
       THEN result = <<"fail", IF r.location = "quoting" THEN "HTTP_TIMEOUT" ELSE "HTTP_ERROR">>
       ELSE result[1] = "ok" <=> r.status < 400

(* The call keeps the contract the runner relies on: it returns once its   *)
(* context is done, and every error code it makes up from a status code is *)
(* one of the documented ones.                                             *)
Contract ==
  INSTANCE LayerProbe WITH
    Layer <- "http",
    phase <- IF pc \in {"idle", "returned"} THEN pc ELSE "called",
    ctxDone <- ctxErr # "nil",
    conclusion <- IF pc = "returned" THEN result ELSE Undecided

ImplementsProbe == Contract!Spec

==============================================================================
