-------------------------------- MODULE DNSProbe --------------------------------
(***************************************************************************)
(* internal/layers/dns: one name resolution per attempt, all of them by    *)
(* the same trackingResolver.                                              *)
(*                                                                         *)
(* Go's resolver looks up A and AAAA records in two goroutines.  Each of   *)
(* them tries the configured nameservers in turn and calls the Dial hook   *)
(* for each try; the hook refuses link-local servers, redirects to the     *)
(* server of --dns-server, and writes the server's address to a field of   *)
(* the resolver, which is never cleared and which Probe reads, under the   *)
(* same lock, once LookupHost has returned.                                *)
(*                                                                         *)
(* LookupHost (with PreferGo) waits for both goroutines, the context done  *)
(* or not.  It returns after the context's end because they do: a dial     *)
(* that comes too late fails at once, and an exchange has a time limit of  *)
(* its own, no later than the context's deadline.  A signal sets no such   *)
(* limit: an exchange under way is not broken off, only what follows it.   *)
(*                                                                         *)
(* A name is local (an address literal, or in the hosts file), or else it  *)
(* is asked for as it stands, without search domains.  Every try is one    *)
(* exchange; the second dial of a truncated answer, to the same server, is *)
(* part of it.  Nameservers has a server as often as it is tried (twice,   *)
(* by the default of two rounds).                                          *)
(***************************************************************************)
EXTENDS StackCore

CONSTANTS
  Attempts,       \* how many resolutions the process makes, one after the other
  Nameservers,    \* the system's nameservers, in the order they are tried, each round
  Custom,         \* the servers --dns-server may name
  LinkLocal,      \* the servers whose address is link-local
  Domains         \* the names: local ones, absent ones, and the records others have

NoServer == "none"

ASSUME AttemptsAssumption == Attempts \in Nat \ {0}

ASSUME ServersAssumption ==
  /\ Nameservers \in Seq({Nameservers[i] : i \in DOMAIN Nameservers})
  /\ Nameservers # <<>>
  /\ NoServer \notin Custom \cup LinkLocal \cup {Nameservers[i] : i \in DOMAIN Nameservers}

Attempt == 1 .. Attempts

Queries == {"A", "AAAA"}

ASSUME DomainsAssumption ==
  Domains \subseteq [local : BOOLEAN, records : SUBSET Queries]

VARIABLES
  fixedServer,  \* the server of --dns-server, or NoServer
  domain,       \* what the name has
  current,      \* the attempt under way
  pc,           \* where its thread is
  ctxErr,       \* pctx.Context.Err() of the attempt under way
  interrupted,  \* the process has been signaled
  err,          \* the error LookupHost returned, "nil" when it has none
  query,        \* per attempt and query, its goroutine
  lane,         \* per attempt, the finished queries in the order they arrived
  address,      \* trackingResolver.address, or NoServer
  reported,     \* per attempt, obs.ResolverAddress, or NoServer
  conclusion    \* per attempt, <<status, code>> of the Probe that returned

inputs == <<fixedServer, domain>>
timeVars == <<ctxErr, interrupted>>
lookups == <<query, lane>>
vars == <<inputs, current, pc, timeVars, err, lookups, address, reported, conclusion>>

Undecided == <<"none", NoError>>

(* next is the index of the server a goroutine tries; last is the error of *)
(* the server before it.                                                   *)
NotStarted == [state |-> "none", next |-> 1, last |-> "nil"]

Init ==
  /\ fixedServer \in Custom \cup {NoServer}
  /\ domain \in Domains
  /\ current = 1
  /\ pc = "idle"
  /\ ctxErr = "nil"
  /\ interrupted = FALSE
  /\ err = "nil"
  /\ query = [a \in Attempt |-> [q \in Queries |-> NotStarted]]
  /\ lane = [a \in Attempt |-> <<>>]
  /\ address = NoServer
  /\ reported = [a \in Attempt |-> NoServer]
  /\ conclusion = [a \in Attempt |-> Undecided]

------------------------------------------------------------------------------
(* Probe and LookupHost.                                                   *)

(* The runner calls Probe only while the context is not done.  An address  *)
(* literal, or a name of the hosts file, is resolved without any query.    *)
Call ==
  /\ pc = "idle"
  /\ ctxErr = "nil"
  /\ pc' = IF domain.local THEN "read" ELSE "lookup"
  /\ query' = IF domain.local THEN query
              ELSE [query EXCEPT ![current] =
                      [q \in Queries |-> [NotStarted EXCEPT !.state = "dial"]]]
  /\ UNCHANGED <<inputs, current, timeVars, err, lane, address, reported, conclusion>>

(* Both queries are in: any records will do, else the error that arrived   *)
(* first is the lookup's.  The context is not asked.                       *)
LookupEnds ==
  /\ pc = "lookup"
  /\ Len(lane[current]) = Cardinality(Queries)
  /\ err' = IF \E q \in Queries : query[current][q].state = "records"
            THEN "nil" ELSE query[current][Head(lane[current])].last
  /\ pc' = "read"
  /\ UNCHANGED <<inputs, current, timeVars, lookups, address, reported, conclusion>>

(* A mistake the checks must notice: an interrupted lookup is a skip.      *)
ClassifyCanceledAsSkip(e) ==
  CASE e = "nil"                    -> <<"ok", NoError>>
    [] e = "canceled"               -> <<"skip", NoError>>
    [] e \in {"deadline", "timeout"} -> <<"fail", "DNS_TIMEOUT">>
    [] e = "notfound"               -> <<"fail", "DNS_NXDOMAIN">>
    [] OTHER                        -> <<"fail", "DNS_ERROR">>

(* A mistake the checks must notice: every unknown error is "not found".   *)
ClassifyUnknownAsNotFound(e) ==
  CASE e = "nil"                                 -> <<"ok", NoError>>
    [] e \in {"deadline", "canceled", "timeout"} -> <<"fail", "DNS_TIMEOUT">>
    [] OTHER                                     -> <<"fail", "DNS_NXDOMAIN">>

(* classifyDNSError.                                                       *)
Classify(e) ==
  CASE e = "nil"                                -> <<"ok", NoError>>
    [] e \in {"deadline", "canceled", "timeout"} -> <<"fail", "DNS_TIMEOUT">>
    [] e = "notfound"                           -> <<"fail", "DNS_NXDOMAIN">>
    [] OTHER                                    -> <<"fail", "DNS_ERROR">>

(* ResolverAddress, a step after LookupHost, and the result.               *)
ProbeReturns ==
  /\ pc = "read"
  /\ reported' = [reported EXCEPT ![current] = address]
  /\ conclusion' = [conclusion EXCEPT ![current] = Classify(err)]
  /\ pc' = "returned"
  /\ UNCHANGED <<inputs, current, timeVars, err, lookups, address>>

(* RunCount goes on to the next attempt, with a context of its own.        *)
NextAttempt ==
  /\ pc = "returned"
  /\ current < Attempts
  /\ current' = current + 1
  /\ pc' = "idle"
  /\ ctxErr' = IF interrupted THEN "canceled" ELSE "nil"
  /\ err' = "nil"
  /\ UNCHANGED <<inputs, interrupted, lookups, address, reported, conclusion>>

------------------------------------------------------------------------------
(* The goroutine of query q in attempt a.                                  *)

Running(a, q) == query[a][q].state \in {"dial", "asked"}

(* A mistake the checks must notice: --dns-server is ignored by the hook.  *)
DialTargetOfSystem(i) == Nameservers[i]

(* The server the Dial hook dials when the resolver asks for its i-th.     *)
DialTarget(i) == IF fixedServer # NoServer THEN fixedServer ELSE Nameservers[i]

(* The next server after an error; with none left the query has failed.    *)
TryNext(a, q, e) ==
  LET i == query[a][q].next
      exhausted == i = Len(Nameservers)
  IN  /\ query' = [query EXCEPT ![a][q] =
                     [state |-> IF exhausted THEN "failed" ELSE "dial",
                      next |-> IF exhausted THEN i ELSE i + 1, last |-> e]]
      /\ lane' = IF exhausted THEN [lane EXCEPT ![a] = Append(@, q)] ELSE lane

(* A mistake the checks must notice: the zone is not stripped off first,   *)
(* and ParseIP knows of no zones.                                          *)
ZoneNotStripped(server) == FALSE

IsLinkLocalNameserver(server) == server \in LinkLocal

DialRefused(a, q) ==
  /\ query[a][q].state = "dial"
  /\ IsLinkLocalNameserver(DialTarget(query[a][q].next))
  /\ TryNext(a, q, "link-local")
  /\ UNCHANGED <<inputs, current, pc, timeVars, err, address, reported, conclusion>>

(* The address is recorded before the dialing, which may yet fail.         *)
Dial(a, q) ==
  /\ query[a][q].state = "dial"
  /\ ctxErr = "nil"
  /\ ~IsLinkLocalNameserver(DialTarget(query[a][q].next))
  /\ address' = DialTarget(query[a][q].next)
  /\ query' = [query EXCEPT ![a][q].state = "asked"]
  /\ UNCHANGED <<inputs, current, pc, timeVars, err, lane, reported, conclusion>>

(* With the context done the dialing fails at once; the hook has recorded  *)
(* the address all the same.                                               *)
DialTooLate(a, q) ==
  /\ query[a][q].state = "dial"
  /\ ctxErr # "nil"
  /\ ~IsLinkLocalNameserver(DialTarget(query[a][q].next))
  /\ address' = DialTarget(query[a][q].next)
  /\ TryNext(a, q, ctxErr)
  /\ UNCHANGED <<inputs, current, pc, timeVars, err, reported, conclusion>>

(* A server that answers says what there is; "no such name" and "no        *)
(* records of this type" are one answer to the resolver.                   *)
ServerAnswers(a, q) ==
  /\ query[a][q].state = "asked"
  /\ query' = [query EXCEPT ![a][q] =
                 IF q \in domain.records THEN [@ EXCEPT !.state = "records"]
                 ELSE [@ EXCEPT !.state = "failed", !.last = "notfound"]]
  /\ lane' = [lane EXCEPT ![a] = Append(@, q)]
  /\ UNCHANGED <<inputs, current, pc, timeVars, err, address, reported,
                 conclusion>>

(* Or it refuses, or is not heard of within the exchange's time limit, or  *)
(* the context ended before the dialing did.                               *)
ExchangeFails(a, q) ==
  /\ query[a][q].state = "asked"
  /\ \E e \in {"refused", "timeout"} \cup ({ctxErr} \ {"nil"}) : TryNext(a, q, e)
  /\ UNCHANGED <<inputs, current, pc, timeVars, err, address, reported, conclusion>>

------------------------------------------------------------------------------
ContextTimer ==
  /\ ctxErr = "nil"
  /\ pc # "returned"
  /\ ctxErr' = "deadline"
  /\ UNCHANGED <<inputs, current, pc, interrupted, err, lookups, address, reported,
                 conclusion>>

Signal ==
  /\ ~interrupted
  /\ interrupted' = TRUE
  /\ ctxErr' = IF ctxErr = "nil" THEN "canceled" ELSE ctxErr
  /\ UNCHANGED <<inputs, current, pc, err, lookups, address, reported, conclusion>>

Exchange(a, q) == ServerAnswers(a, q) \/ ExchangeFails(a, q)

Goroutine(a, q) ==
  DialRefused(a, q) \/ Dial(a, q) \/ DialTooLate(a, q) \/ Exchange(a, q)

Thread == LookupEnds \/ ProbeReturns

Next ==
  \/ Call \/ Thread \/ NextAttempt
  \/ \E a \in Attempt : \E q \in Queries : Goroutine(a, q)
  \/ ContextTimer \/ Signal

(* The thread and the goroutines are scheduled, and an exchange ends by    *)
(* its own time limit: but not one with a link-local nameserver, in which  *)
(* Go's resolver may hang (dns.go:64).  That a server answers is nowhere   *)
(* assumed.                                                                *)
GoesOn(a, q) ==
  \/ DialRefused(a, q) \/ Dial(a, q) \/ DialTooLate(a, q)
  \/ DialTarget(query[a][q].next) \notin LinkLocal /\ Exchange(a, q)

Fairness ==
  /\ WF_vars(Thread)
  /\ \A a \in Attempt : \A q \in Queries : WF_vars(GoesOn(a, q))

Spec == Init /\ [][Next]_vars /\ Fairness
------------------------------------------------------------------------------
(* Type correctness of the resolver's state.                               *)
Errors == {"nil", "link-local", "refused", "timeout", "notfound", "canceled", "deadline"}

Known == Custom \cup {Nameservers[i] : i \in DOMAIN Nameservers} \cup {NoServer}

TypeOK ==
  /\ fixedServer \in Custom \cup {NoServer}
  /\ domain \in Domains
  /\ current \in Attempt
  /\ pc \in {"idle", "lookup", "read", "returned"}
  /\ ctxErr \in {"nil", "deadline", "canceled"}
  /\ interrupted \in BOOLEAN
  /\ err \in Errors
  /\ query \in [Attempt -> [Queries -> [state : {"none", "dial", "asked", "records", "failed"},
                                        next : 1 .. Len(Nameservers), last : Errors]]]
  /\ lane \in [Attempt -> Seq(Queries)]
  /\ address \in Known
  /\ reported \in [Attempt -> Known]
  /\ conclusion \in [Attempt -> DNSConclusions \cup {Undecided}]

(* dns.go:70, "It still captures the resolver address and skips link-local *)
(* nameservers": whichever goroutine wrote it last, the address a report   *)
(* shows is never link-local, with --dns-server it is that server, and a   *)
(* name that was resolved by a query has an address to show.  (It need not *)
(* be the one that answered, docs/schema.md:86 "Resolver address used for  *)
(* the query": the address was captured when some goroutine dialed.)       *)
ReportedWasEligible ==
  \A a \in Attempt :
    /\ reported[a] \notin LinkLocal
    /\ fixedServer # NoServer => reported[a] \in {fixedServer, NoServer}
    /\ conclusion[a][1] = "ok" => (reported[a] # NoServer <=> ~domain.local)

(* A verdict is about its own attempt: ok means that a server of this      *)
(* attempt sent records, and "not found" that one of them said so,         *)
(* whatever became of the other query, of the tries before it and of the   *)
(* attempts before.  ("Not found" need not mean docs/schema.md's "Domain   *)
(* does not exist": it is also said of a name that exists without such     *)
(* records, while the other query fails.)                                  *)
VerdictIsOfThisAttempt ==
  \A a \in Attempt :
    /\ conclusion[a][1] = "ok" =>
         domain.local \/ \E q \in Queries : query[a][q].state = "records"
    /\ conclusion[a][2] = "DNS_NXDOMAIN" =>
         /\ domain.records # Queries
         /\ \E q \in Queries : query[a][q].state = "failed" /\ query[a][q].last = "notfound"

(* The call keeps the contract the runner relies on.  It returns once its  *)
(* context is done although it waits for both queries, with any number of  *)
(* nameservers that never answer and with a link-local one before them.    *)
Contract ==
  INSTANCE LayerProbe WITH
    Layer <- "dns",
    phase <- IF pc \in {"idle", "returned"} THEN pc ELSE "called",
    ctxDone <- ctxErr # "nil",
    conclusion <- conclusion[current]

ImplementsProbe == Contract!Spec
==============================================================================
