------------------------------- MODULE DNSProofs -------------------------------
(***************************************************************************)
(* Any number of resolutions by one trackingResolver, with any servers and *)
(* any name: in whatever order the goroutines of a lookup go on, and       *)
(* whenever the context ends.                                              *)
(***************************************************************************)
EXTENDS DNSProbe, FiniteSetTheorems, SequenceTheorems, TLAPS

QueryState ==
  [state : {"none", "dial", "asked", "records", "failed"},
   next : 1 .. Len(Nameservers), last : Errors]

(* An attempt that has not been called has asked nothing.                  *)
NotBegun(a) == a > current \/ (a = current /\ pc = "idle")

FreshInv ==
  \A a \in Attempt :
    /\ NotBegun(a) => lane[a] = <<>> /\ \A q \in Queries : query[a][q] = NotStarted
    /\ a > current \/ (a = current /\ pc # "returned") => conclusion[a] = Undecided

(* The queries: one that is in the lane has ended, one that has failed has *)
(* an error, and one that a server had nothing for has ended so.           *)
QueryInv ==
  \A a \in Attempt :
    /\ \A k \in DOMAIN lane[a] : query[a][lane[a][k]].state \in {"records", "failed"}
    /\ \A q \in Queries :
         /\ query[a][q].state = "failed" => query[a][q].last # "nil"
         /\ query[a][q].last = "notfound" =>
              query[a][q].state = "failed" /\ q \notin domain.records

(* The resolver's address: written for the first time before the first     *)
(* server is asked, never with a server that is refused or not chosen, and *)
(* not at all for a local name.                                            *)
AddressInv ==
  /\ address \notin LinkLocal
  /\ fixedServer # NoServer => address \in {fixedServer, NoServer}
  /\ \A a \in Attempt : \A q \in Queries :
       query[a][q].state \in {"asked", "records"} => address # NoServer
  /\ domain.local =>
       address = NoServer /\ \A a \in Attempt : \A q \in Queries : query[a][q].state = "none"
  /\ pc = "lookup" => ~domain.local

(* What the lookup's end owes to this attempt's queries, and the reports   *)
(* made of it.                                                             *)
Resolved(a) == domain.local \/ \E q \in Queries : query[a][q].state = "records"

SaidAbsent(a) ==
  /\ domain.records # Queries
  /\ \E q \in Queries : query[a][q].state = "failed" /\ query[a][q].last = "notfound"

VerdictInv ==
  /\ pc = "idle" => err = "nil"
  /\ pc \in {"read", "returned"} =>
       /\ err = "nil" => Resolved(current)
       /\ err = "notfound" => SaidAbsent(current)
  /\ \A a \in Attempt :
       /\ conclusion[a][1] = "ok" => Resolved(a)
       /\ conclusion[a][2] = "DNS_NXDOMAIN" => SaidAbsent(a)

DNSInv == TypeOK /\ FreshInv /\ QueryInv /\ AddressInv /\ ReportedWasEligible /\ VerdictInv
------------------------------------------------------------------------------
(* The operators and the steps.                                            *)

(* There are two queries.                                                  *)
LEMMA TwoQueries == Cardinality(Queries) = 2
<1>1. IsFiniteSet({"A"}) /\ Cardinality({"A"}) = 1
  BY FS_Singleton
<1>2. Queries = {"A"} \cup {"AAAA"} /\ "AAAA" \notin {"A"}
  BY DEF Queries
<1>3. Cardinality({"A"} \cup {"AAAA"}) = Cardinality({"A"}) + 1
  BY <1>1, <1>2, FS_AddElement
<1> QED
  BY <1>1, <1>2, <1>3

(* The nameservers are numbered from 1.                                    *)
LEMMA NameserverNumbers ==
  /\ Len(Nameservers) \in Nat \ {0}
  /\ DOMAIN Nameservers = 1 .. Len(Nameservers)
  BY ServersAssumption

(* Every error has a conclusion the contract of the layer allows; only no  *)
(* error at all is an ok, and only "not found" is an NXDOMAIN.             *)
LEMMA ClassifyKinds ==
  ASSUME NEW e \in Errors
  PROVE  /\ Classify(e) \in DNSConclusions
         /\ Classify(e)[1] = "ok" <=> e = "nil"
         /\ Classify(e)[2] = "DNS_NXDOMAIN" <=> e = "notfound"
  BY DEF Errors, Classify, DNSConclusions, DNSCodes, OK, With, NoError

(* What the hook dials is a server, and the one of --dns-server when there *)
(* is one.                                                                 *)
LEMMA DialTargetKnown ==
  ASSUME TypeOK, NEW i \in 1 .. Len(Nameservers)
  PROVE  /\ DialTarget(i) \in Known \ {NoServer}
         /\ fixedServer # NoServer => DialTarget(i) = fixedServer
<1>1. Nameservers[i] \in {Nameservers[j] : j \in DOMAIN Nameservers}
  BY NameserverNumbers
<1>2. Nameservers[i] # NoServer /\ (fixedServer # NoServer => fixedServer \in Custom)
  BY <1>1, ServersAssumption DEF TypeOK
<1> QED
  BY <1>1, <1>2 DEF DialTarget, Known

LEMMA NextIsAttempt ==
  ASSUME NEW a \in Attempt, a < Attempts
  PROVE  /\ a + 1 \in Attempt /\ a + 1 > a
         /\ \A b \in Attempt : b > a + 1 \/ b = a + 1 => b > a
  BY AttemptsAssumption DEF Attempt

LEMMA NotLater == \A a \in Attempt : ~(a > a)
  BY AttemptsAssumption DEF Attempt

(* A try that ends in an error: the query goes on to the next server, or   *)
(* it has failed and is in.                                                *)
LEMMA TryNextStep ==
  ASSUME query \in [Attempt -> [Queries -> QueryState]],
         NEW a \in Attempt, NEW q \in Queries, NEW e \in Errors, TryNext(a, q, e)
  PROVE  \E r \in QueryState :
           /\ query' = [query EXCEPT ![a][q] = r]
           /\ r.last = e
           /\ \/ r.state = "dial" /\ lane' = lane
              \/ r.state = "failed" /\ lane' = [lane EXCEPT ![a] = Append(@, q)]
<1> DEFINE i == query[a][q].next
<1>1. i \in 1 .. Len(Nameservers)
  BY DEF QueryState
<1>2. CASE i = Len(Nameservers)
  <2> DEFINE r == [state |-> "failed", next |-> i, last |-> e]
  <2>1. r \in QueryState
    BY <1>1 DEF QueryState
  <2>2. query' = [query EXCEPT ![a][q] = r] /\ lane' = [lane EXCEPT ![a] = Append(@, q)]
    BY <1>2 DEF TryNext
  <2> QED
    BY <2>1, <2>2
<1>3. CASE i # Len(Nameservers)
  <2> DEFINE r == [state |-> "dial", next |-> i + 1, last |-> e]
  <2>1. i + 1 \in 1 .. Len(Nameservers)
    BY <1>1, <1>3, NameserverNumbers
  <2>2. r \in QueryState
    BY <2>1 DEF QueryState
  <2>3. query' = [query EXCEPT ![a][q] = r] /\ lane' = lane
    BY <1>3 DEF TryNext
  <2> QED
    BY <2>2, <2>3
<1> QED
  BY <1>2, <1>3

(* A goroutine's step, whichever it is: it replaces the record of its own  *)
(* query, which was running, and puts it in the lane when it has ended.    *)
LEMMA GoroutineStep ==
  ASSUME TypeOK, QueryInv, AddressInv, NEW a \in Attempt, NEW q \in Queries, Goroutine(a, q)
  PROVE  /\ UNCHANGED <<inputs, current, pc, timeVars, err, reported, conclusion>>
         /\ Running(a, q)
         /\ \/ address' = address
            \/ address' \in {DialTarget(i) : i \in 1 .. Len(Nameservers)} \ LinkLocal
         /\ \E r \in QueryState :
              /\ query' = [query EXCEPT ![a][q] = r]
              /\ r.state # "none"
              /\ r.state \in {"asked", "records"} => address' # NoServer
              /\ r.state = "failed" => r.last # "nil"
              /\ r.last = "notfound" => r.state = "failed" /\ q \notin domain.records
              /\ \/ r.state \in {"dial", "asked"} /\ lane' = lane
                 \/ /\ r.state \in {"records", "failed"}
                    /\ lane' = [lane EXCEPT ![a] = Append(@, q)]
<1>0. query \in [Attempt -> [Queries -> QueryState]]
  BY DEF TypeOK, QueryState
<1>1. CASE DialRefused(a, q)
  <2>1. TryNext(a, q, "link-local") /\ address' = address
    BY <1>1 DEF DialRefused
  <2>2. "link-local" \in Errors
    BY DEF Errors
  <2> QED
    BY <1>0, <1>1, <2>1, <2>2, TryNextStep DEF DialRefused, Running
<1>2. CASE Dial(a, q)
  <2> DEFINE r == [query[a][q] EXCEPT !.state = "asked"]
  <2>1. r \in QueryState /\ r.state = "asked" /\ r.last = query[a][q].last
    BY <1>0 DEF QueryState
  <2>2. query' = [query EXCEPT ![a][q] = r] /\ lane' = lane
    BY <1>2 DEF Dial
  <2>3. query[a][q].next \in 1 .. Len(Nameservers)
    BY <1>0 DEF QueryState
  <2>4. address' \in {DialTarget(i) : i \in 1 .. Len(Nameservers)} \ LinkLocal
    BY <1>2, <2>3 DEF Dial, IsLinkLocalNameserver
  <2>5. address' # NoServer
    BY <2>4, DialTargetKnown
  <2>6. r.last # "notfound"
    BY <1>2, <2>1 DEF Dial, QueryInv
  <2> HIDE DEF r
  <2> QED
    BY <1>2, <2>1, <2>2, <2>4, <2>5, <2>6 DEF Dial, Running
<1>3. CASE ServerAnswers(a, q)
  <2>1. address' = address /\ address # NoServer /\ query[a][q].state = "asked"
    BY <1>3 DEF ServerAnswers, AddressInv
  <2>2. lane' = [lane EXCEPT ![a] = Append(@, q)]
    BY <1>3 DEF ServerAnswers
  <2>3. CASE q \in domain.records
    <3> DEFINE r == [query[a][q] EXCEPT !.state = "records"]
    <3>1. r \in QueryState /\ r.state = "records" /\ r.last = query[a][q].last
      BY <1>0 DEF QueryState
    <3>2. query' = [query EXCEPT ![a][q] = r]
      BY <1>3, <2>3 DEF ServerAnswers
    <3>3. r.last # "notfound"
      BY <2>1, <3>1 DEF QueryInv
    <3> HIDE DEF r
    <3> QED
      BY <1>3, <2>1, <2>2, <3>1, <3>2, <3>3 DEF ServerAnswers, Running
  <2>4. CASE q \notin domain.records
    <3> DEFINE r == [query[a][q] EXCEPT !.state = "failed", !.last = "notfound"]
    <3>0. query[a][q] \in QueryState /\ "notfound" \in Errors
      BY <1>0 DEF Errors
    <3>1. r \in QueryState /\ r.state = "failed" /\ r.last = "notfound"
      BY <3>0 DEF QueryState
    <3>2. query' = [query EXCEPT ![a][q] = r]
      BY <1>3, <2>4 DEF ServerAnswers
    <3> HIDE DEF r
    <3> QED
      BY <1>3, <2>1, <2>2, <2>4, <3>1, <3>2 DEF ServerAnswers, Running
  <2> QED
    BY <2>3, <2>4
<1>4. CASE ExchangeFails(a, q)
  <2>1. PICK e \in {"refused", "timeout"} \cup ({ctxErr} \ {"nil"}) : TryNext(a, q, e)
    BY <1>4 DEF ExchangeFails
  <2>2. e \in Errors \ {"nil", "notfound"} /\ address' = address
    BY <1>4 DEF Errors, ExchangeFails, TypeOK
  <2> QED
    BY <1>0, <1>4, <2>1, <2>2, TryNextStep DEF ExchangeFails, Running
<1>5. CASE DialTooLate(a, q)
  <2>1. TryNext(a, q, ctxErr) /\ ctxErr \in Errors \ {"nil", "notfound"}
    BY <1>5 DEF DialTooLate, TypeOK, Errors
  <2>2. query[a][q].next \in 1 .. Len(Nameservers)
    BY <1>0 DEF QueryState
  <2>3. address' \in {DialTarget(i) : i \in 1 .. Len(Nameservers)} \ LinkLocal
    BY <1>5, <2>2 DEF DialTooLate, IsLinkLocalNameserver
  <2> QED
    BY <1>0, <1>5, <2>1, <2>3, TryNextStep DEF DialTooLate, Running
<1> QED
  BY <1>1, <1>2, <1>3, <1>4, <1>5 DEF Goroutine, Exchange

------------------------------------------------------------------------------
(* The type of the state.                                                  *)

LEMMA InitInv == Init => DNSInv
<1> SUFFICES ASSUME Init PROVE DNSInv
  OBVIOUS
<1>1. 1 \in Attempt /\ 1 \in 1 .. Len(Nameservers)
  BY AttemptsAssumption, NameserverNumbers DEF Attempt
<1>2. NotStarted \in QueryState
  BY <1>1 DEF NotStarted, QueryState, Errors
<1>3. <<>> \in Seq(Queries)
  OBVIOUS
<1>4. TypeOK
  BY <1>1, <1>2, <1>3, ZenonT(30) DEF Init, TypeOK, QueryState, Known, Errors
<1>5. FreshInv /\ QueryInv
  BY DEF Init, FreshInv, QueryInv, NotStarted
<1>6. AddressInv
  BY ServersAssumption DEF Init, AddressInv, NotStarted
<1>7. ReportedWasEligible /\ VerdictInv
  BY ServersAssumption DEF Init, ReportedWasEligible, VerdictInv, Undecided, NoError
<1> QED
  BY <1>4, <1>5, <1>6, <1>7 DEF DNSInv

(* Every step keeps the type of the state.                                 *)
LEMMA NextType ==
  ASSUME TypeOK, QueryInv, AddressInv, [Next]_vars
  PROVE  TypeOK'
<1> USE DEF inputs, timeVars, lookups
<1>0. query \in [Attempt -> [Queries -> QueryState]]
  BY DEF TypeOK, QueryState
<1>1. CASE Call
  <2>1. [NotStarted EXCEPT !.state = "dial"] \in QueryState
    BY NameserverNumbers DEF NotStarted, QueryState, Errors
  <2>2. query' \in [Attempt -> [Queries -> QueryState]]
    BY <1>0, <1>1, <2>1 DEF Call
  <2> QED
    BY <1>1, <2>2 DEF Call, TypeOK, QueryState
<1>2. CASE LookupEnds
  <2>1. lane[current] \in Seq(Queries) /\ Len(lane[current]) = 2
    BY <1>2, TwoQueries DEF LookupEnds, TypeOK
  <2>2. Head(lane[current]) \in Queries
    BY <2>1
  <2>3. query[current][Head(lane[current])].last \in Errors
    BY <1>0, <2>2 DEF TypeOK, QueryState
  <2>4. err' \in Errors
    BY <1>2, <2>3 DEF LookupEnds, Errors
  <2> QED
    BY <1>2, <2>4 DEF LookupEnds, TypeOK
<1>3. CASE ProbeReturns
  BY <1>3, ClassifyKinds DEF ProbeReturns, TypeOK
<1>4. CASE NextAttempt
  <2>1. current + 1 \in Attempt
    BY <1>4, NextIsAttempt DEF NextAttempt, TypeOK
  <2> QED
    BY <1>4, <2>1 DEF NextAttempt, TypeOK, Errors
<1>5. ASSUME NEW a \in Attempt, NEW q \in Queries, Goroutine(a, q)
      PROVE  TypeOK'
  <2>1. query' \in [Attempt -> [Queries -> QueryState]]
    <3>1. PICK r \in QueryState : query' = [query EXCEPT ![a][q] = r]
      BY <1>5, GoroutineStep
    <3> QED
      BY <1>0, <3>1
  <2>2. lane' \in [Attempt -> Seq(Queries)]
    <3>1. lane \in [Attempt -> Seq(Queries)]
      BY DEF TypeOK
    <3>2. lane' = lane \/ lane' = [lane EXCEPT ![a] = Append(@, q)]
      BY <1>5, GoroutineStep
    <3>3. Append(lane[a], q) \in Seq(Queries)
      BY <3>1
    <3> QED
      BY <3>1, <3>2, <3>3
  <2>3. address' \in Known
    <3>1. CASE address' = address
      BY <3>1 DEF TypeOK, Known
    <3>2. ASSUME NEW i \in 1 .. Len(Nameservers), address' = DialTarget(i)
          PROVE  address' \in Known
      BY <3>2, DialTargetKnown
    <3>3. address' = address \/ \E i \in 1 .. Len(Nameservers) : address' = DialTarget(i)
      BY <1>5, GoroutineStep
    <3> QED
      BY <3>1, <3>2, <3>3
  <2>4. UNCHANGED <<inputs, current, pc, timeVars, err, reported, conclusion>>
    BY <1>5, GoroutineStep
  <2> QED
    BY <2>1, <2>2, <2>3, <2>4 DEF TypeOK, QueryState
<1>6. CASE ContextTimer \/ Signal
  BY <1>6 DEF ContextTimer, Signal, TypeOK
<1>7. CASE UNCHANGED vars
  BY <1>7 DEF vars, TypeOK
<1> QED
  BY <1>1, <1>2, <1>3, <1>4, <1>5, <1>6, <1>7 DEF Next, Thread

------------------------------------------------------------------------------
(* The invariant, part by part.                                            *)

(* Every step leaves the attempts to come untouched.                       *)
LEMMA NextFresh ==
  ASSUME TypeOK, FreshInv, QueryInv, AddressInv, [Next]_vars
  PROVE  FreshInv'
<1> USE DEF FreshInv, NotBegun, inputs, timeVars, lookups
<1>0. current \in Attempt /\ ~(current > current)
  BY NotLater DEF TypeOK
<1>1. CASE Call
  BY <1>0, <1>1 DEF Call, TypeOK
<1>2. CASE LookupEnds
  BY <1>2 DEF LookupEnds
<1>3. CASE ProbeReturns
  BY <1>0, <1>3 DEF ProbeReturns, TypeOK
<1>4. CASE NextAttempt
  BY <1>0, <1>4, NextIsAttempt DEF NextAttempt
<1>5. ASSUME NEW a \in Attempt, NEW q \in Queries, Goroutine(a, q)
      PROVE  FreshInv'
  <2>1. ~NotBegun(a)
    BY <1>5, GoroutineStep DEF Running, NotStarted
  <2>2. \A b \in Attempt \ {a} : query'[b] = query[b] /\ lane'[b] = lane[b]
    <3>1. PICK r \in QueryState :
            /\ query' = [query EXCEPT ![a][q] = r]
            /\ lane' = lane \/ lane' = [lane EXCEPT ![a] = Append(@, q)]
      BY <1>5, GoroutineStep
    <3>2. query \in [Attempt -> [Queries -> QueryState]] /\ lane \in [Attempt -> Seq(Queries)]
      BY DEF TypeOK, QueryState
    <3> QED
      BY <3>1, <3>2
  <2>3. UNCHANGED <<current, pc, conclusion>>
    BY <1>5, GoroutineStep
  <2> QED
    BY <2>1, <2>2, <2>3
<1>6. CASE ContextTimer \/ Signal \/ UNCHANGED vars
  BY <1>6 DEF ContextTimer, Signal, vars
<1> QED
  BY <1>1, <1>2, <1>3, <1>4, <1>5, <1>6 DEF Next, Thread

(* Every step keeps what is known of the queries.                          *)
LEMMA NextQueries ==
  ASSUME TypeOK, FreshInv, QueryInv, AddressInv, [Next]_vars
  PROVE  QueryInv'
<1> USE DEF inputs, timeVars, lookups
<1>0. current \in Attempt /\ query \in [Attempt -> [Queries -> QueryState]]
      /\ lane \in [Attempt -> Seq(Queries)]
  BY DEF TypeOK, QueryState
<1>1. CASE Call /\ ~domain.local
  <2> DEFINE r == [NotStarted EXCEPT !.state = "dial"]
  <2>1. lane[current] = <<>>
    BY <1>0, <1>1 DEF Call, FreshInv, NotBegun
  <2>2. r.state = "dial" /\ r.last = "nil"
    BY DEF NotStarted
  <2>3. \A a \in Attempt : query'[a] = IF a = current THEN [q \in Queries |-> r] ELSE query[a]
    BY <1>0, <1>1 DEF Call
  <2>4. UNCHANGED <<lane, domain>>
    BY <1>1 DEF Call
  <2> HIDE DEF r
  <2> QED
    BY <2>1, <2>2, <2>3, <2>4 DEF QueryInv
<1>2. ASSUME NEW a \in Attempt, NEW q \in Queries, Goroutine(a, q)
      PROVE  QueryInv'
  <2>1. PICK r \in QueryState :
          /\ query' = [query EXCEPT ![a][q] = r]
          /\ r.state = "failed" => r.last # "nil"
          /\ r.last = "notfound" => r.state = "failed" /\ q \notin domain.records
          /\ \/ lane' = lane
             \/ /\ r.state \in {"records", "failed"}
                /\ lane' = [lane EXCEPT ![a] = Append(@, q)]
    BY <1>2, GoroutineStep
  <2>2. UNCHANGED domain /\ query[a][q].state \in {"dial", "asked"}
    BY <1>2, GoroutineStep DEF Running
  <2>3. \A b \in Attempt : \A p \in Queries :
          query'[b][p] = IF b = a /\ p = q THEN r ELSE query[b][p]
    BY <1>0, <2>1
  <2>4. ASSUME NEW b \in Attempt, NEW k \in DOMAIN lane'[b]
        PROVE  query'[b][lane'[b][k]].state \in {"records", "failed"}
    <3>1. CASE k \in DOMAIN lane[b] /\ lane'[b][k] = lane[b][k]
      <4>1. lane[b][k] \in Queries /\ query[b][lane[b][k]].state \in {"records", "failed"}
        BY <1>0, <3>1 DEF QueryInv
      <4>2. ~(b = a /\ lane[b][k] = q)
        BY <2>2, <4>1
      <4> QED
        BY <2>3, <3>1, <4>1, <4>2
    <3>2. CASE b = a /\ lane'[b][k] = q /\ r.state \in {"records", "failed"}
      BY <2>3, <3>2
    <3>3. CASE lane' = lane
      BY <3>1, <3>3, <2>4
    <3>4. CASE r.state \in {"records", "failed"} /\ lane' = [lane EXCEPT ![a] = Append(@, q)]
      <4>1. CASE b = a
        <5>1. lane'[b] = Append(lane[a], q) /\ lane[a] \in Seq(Queries)
          BY <1>0, <3>4, <4>1
        <5>2. (k \in DOMAIN lane[a] /\ lane'[b][k] = lane[a][k]) \/ lane'[b][k] = q
          BY <2>4, <5>1
        <5> QED
          BY <3>1, <3>2, <3>4, <4>1, <5>2
      <4>2. CASE b # a
        BY <1>0, <2>4, <3>1, <3>4, <4>2
      <4> QED
        BY <4>1, <4>2
    <3> QED
      BY <2>1, <3>3, <3>4
  <2> QED
    BY <2>1, <2>2, <2>3, <2>4 DEF QueryInv
<1>3. CASE UNCHANGED <<query, lane, domain>>
  BY <1>3 DEF QueryInv
<1>4. (Call /\ domain.local) \/ LookupEnds \/ ProbeReturns \/ NextAttempt
        \/ ContextTimer \/ Signal \/ UNCHANGED vars
      => UNCHANGED <<query, lane, domain>>
  BY DEF Call, LookupEnds, ProbeReturns, NextAttempt, ContextTimer, Signal, vars
<1> QED
  BY <1>1, <1>2, <1>3, <1>4 DEF Next, Thread

(* Every step leaves an address that may be shown.                         *)
LEMMA NextAddress ==
  ASSUME TypeOK, QueryInv, AddressInv, [Next]_vars
  PROVE  AddressInv'
<1> USE DEF inputs, timeVars, lookups
<1>0. current \in Attempt /\ query \in [Attempt -> [Queries -> QueryState]]
  BY DEF TypeOK, QueryState
<1>1. CASE Call
  <2>1. CASE domain.local
    BY <1>1, <2>1 DEF Call, AddressInv
  <2>2. CASE ~domain.local
    <3> DEFINE r == [NotStarted EXCEPT !.state = "dial"]
    <3>1. r.state = "dial"
      BY DEF NotStarted
    <3>2. \A a \in Attempt : query'[a] = IF a = current THEN [q \in Queries |-> r] ELSE query[a]
      BY <1>0, <1>1, <2>2 DEF Call
    <3>3. UNCHANGED <<address, domain, fixedServer>>
      BY <1>1 DEF Call
    <3> HIDE DEF r
    <3> QED
      BY <2>2, <3>1, <3>2, <3>3 DEF AddressInv
  <2> QED
    BY <2>1, <2>2
<1>2. ASSUME NEW a \in Attempt, NEW q \in Queries, Goroutine(a, q)
      PROVE  AddressInv'
  <2>1. PICK r \in QueryState :
          /\ query' = [query EXCEPT ![a][q] = r]
          /\ r.state \in {"asked", "records"} => address' # NoServer
    BY <1>2, GoroutineStep
  <2>2. UNCHANGED <<inputs, pc>> /\ query[a][q].state \in {"dial", "asked"}
    BY <1>2, GoroutineStep DEF Running
  <2>3. \A b \in Attempt : \A p \in Queries :
          query'[b][p] = IF b = a /\ p = q THEN r ELSE query[b][p]
    BY <1>0, <2>1
  <2>4. ~domain.local
    BY <2>2 DEF AddressInv
  <2>5. address' = address
        \/ (/\ address' \notin LinkLocal /\ address' # NoServer
            /\ fixedServer # NoServer => address' = fixedServer)
    BY <1>2, GoroutineStep, DialTargetKnown
  <2> QED
    BY <2>1, <2>2, <2>3, <2>4, <2>5 DEF AddressInv
<1>3. CASE LookupEnds \/ ProbeReturns \/ NextAttempt
            \/ ContextTimer \/ Signal \/ UNCHANGED vars
  <2>1. UNCHANGED <<address, query, domain, fixedServer>> /\ (pc' = "lookup" => pc = "lookup")
    BY <1>3 DEF LookupEnds, ProbeReturns, NextAttempt, ContextTimer, Signal, vars
  <2> QED
    BY <2>1 DEF AddressInv
<1> QED
  BY <1>1, <1>2, <1>3 DEF Next, Thread

(* A query that has ended stays as it is.                                  *)
LEMMA EndedStays ==
  ASSUME TypeOK, FreshInv, QueryInv, AddressInv, [Next]_vars, NEW a \in Attempt
  PROVE  /\ domain' = domain
         /\ \A q \in Queries : query[a][q].state \in {"records", "failed"} => query'[a][q] = query[a][q]
<1> USE DEF inputs, timeVars, lookups
<1>0. current \in Attempt /\ query \in [Attempt -> [Queries -> QueryState]]
  BY DEF TypeOK, QueryState
<1>1. CASE Call
  <2>1. \A q \in Queries : query[current][q].state = "none"
    BY <1>0, <1>1 DEF Call, FreshInv, NotBegun, NotStarted
  <2>2. \A b \in Attempt \ {current} : query'[b] = query[b]
    BY <1>0, <1>1 DEF Call
  <2>3. domain' = domain
    BY <1>1 DEF Call
  <2> QED
    BY <2>1, <2>2, <2>3
<1>2. ASSUME NEW b \in Attempt, NEW p \in Queries, Goroutine(b, p)
      PROVE  /\ domain' = domain
             /\ \A q \in Queries :
                  query[a][q].state \in {"records", "failed"} => query'[a][q] = query[a][q]
  <2>1. PICK r \in QueryState : query' = [query EXCEPT ![b][p] = r]
    BY <1>2, GoroutineStep
  <2>2. UNCHANGED inputs /\ query[b][p].state \in {"dial", "asked"}
    BY <1>2, GoroutineStep DEF Running
  <2> QED
    BY <1>0, <2>1, <2>2
<1>3. CASE LookupEnds \/ ProbeReturns \/ NextAttempt
            \/ ContextTimer \/ Signal \/ UNCHANGED vars
  BY <1>3 DEF LookupEnds, ProbeReturns, NextAttempt, ContextTimer, Signal, vars
<1> QED
  BY <1>1, <1>2, <1>3 DEF Next, Thread

(* So do the reasons a verdict has.                                        *)
LEMMA ReasonsStay ==
  ASSUME TypeOK, FreshInv, QueryInv, AddressInv, [Next]_vars, NEW a \in Attempt
  PROVE  (Resolved(a) => Resolved(a)') /\ (SaidAbsent(a) => SaidAbsent(a)')
  BY EndedStays DEF Resolved, SaidAbsent

(* What LookupHost returns has its reason in the queries of the attempt.   *)
LEMMA LookupEndsWithReason ==
  ASSUME TypeOK, QueryInv, LookupEnds
  PROVE  /\ err' = "nil" => Resolved(current)
         /\ err' = "notfound" => SaidAbsent(current)
<1>1. lane[current] \in Seq(Queries) /\ Len(lane[current]) = 2 /\ current \in Attempt
  BY TwoQueries DEF LookupEnds, TypeOK
<1>2. 1 \in DOMAIN lane[current] /\ Head(lane[current]) = lane[current][1]
      /\ Head(lane[current]) \in Queries
  BY <1>1
<1> DEFINE q == Head(lane[current])
<1>3. query[current][q].state \in {"records", "failed"}
  BY <1>1, <1>2 DEF QueryInv
<1>4. CASE \E p \in Queries : query[current][p].state = "records"
  BY <1>4 DEF LookupEnds, Resolved
<1>5. CASE ~\E p \in Queries : query[current][p].state = "records"
  <2>1. err' = query[current][q].last /\ query[current][q].state = "failed" /\ q \in Queries
    BY <1>2, <1>3, <1>5 DEF LookupEnds
  <2>2. query[current][q].last # "nil"
    BY <1>1, <2>1 DEF QueryInv
  <2>3. query[current][q].last = "notfound" => q \notin domain.records
    BY <1>1, <2>1 DEF QueryInv
  <2> HIDE DEF q
  <2> QED
    BY <2>1, <2>2, <2>3 DEF SaidAbsent
<1> QED
  BY <1>4, <1>5

(* Every step leaves the verdicts with their reasons.                      *)
LEMMA NextVerdict ==
  ASSUME TypeOK, FreshInv, QueryInv, AddressInv, VerdictInv, [Next]_vars
  PROVE  VerdictInv'
<1> USE DEF inputs, timeVars, lookups
<1>0. current \in Attempt
  BY DEF TypeOK
<1>1. \A a \in Attempt : (Resolved(a) => Resolved(a)') /\ (SaidAbsent(a) => SaidAbsent(a)')
  BY ReasonsStay
<1>2. CASE Call
  <2>1. err' = "nil" /\ (pc' # "read" \/ domain'.local) /\ pc' \in {"read", "lookup"}
        /\ UNCHANGED <<current, conclusion>>
    BY <1>2 DEF Call, VerdictInv
  <2>2. domain'.local => Resolved(current)'
    BY DEF Resolved
  <2> QED
    BY <1>1, <2>1, <2>2 DEF VerdictInv
<1>3. CASE LookupEnds
  <2>1. /\ err' = "nil" => Resolved(current)
        /\ err' = "notfound" => SaidAbsent(current)
    BY <1>3, LookupEndsWithReason
  <2>2. pc' = "read" /\ UNCHANGED <<current, conclusion>>
    BY <1>3 DEF LookupEnds
  <2>3. /\ err' = "nil" => Resolved(current)'
        /\ err' = "notfound" => SaidAbsent(current)'
    BY <1>0, <1>1, <2>1, <2>2 DEF Resolved, SaidAbsent
  <2> QED
    BY <1>1, <2>2, <2>3 DEF VerdictInv
<1>4. CASE ProbeReturns
  <2>1. UNCHANGED <<current, err, query, domain>> /\ pc' = "returned" /\ pc = "read"
        /\ \A a \in Attempt :
             conclusion'[a] = IF a = current THEN Classify(err) ELSE conclusion[a]
    BY <1>0, <1>4 DEF ProbeReturns, TypeOK
  <2>2. /\ Classify(err)[1] = "ok" => Resolved(current)
        /\ Classify(err)[2] = "DNS_NXDOMAIN" => SaidAbsent(current)
    BY <2>1, ClassifyKinds DEF VerdictInv, TypeOK
  <2>3. /\ err' = "nil" => Resolved(current)'
        /\ err' = "notfound" => SaidAbsent(current)'
    BY <2>1 DEF VerdictInv, Resolved, SaidAbsent
  <2> QED
    BY <1>0, <1>1, <2>1, <2>2, <2>3 DEF VerdictInv
<1>5. CASE NextAttempt
  <2>1. pc' = "idle" /\ err' = "nil" /\ UNCHANGED conclusion
    BY <1>5 DEF NextAttempt
  <2> QED
    BY <1>1, <2>1 DEF VerdictInv
<1>6. CASE UNCHANGED <<pc, err, current, conclusion>>
  <2>1. pc \in {"read", "returned"} =>
          /\ err = "nil" => Resolved(current)'
          /\ err = "notfound" => SaidAbsent(current)'
    BY <1>0, <1>1, <1>6 DEF VerdictInv, Resolved, SaidAbsent
  <2> QED
    BY <1>1, <1>6, <2>1 DEF VerdictInv
<1>7. ASSUME (\E a \in Attempt : \E q \in Queries : Goroutine(a, q))
               \/ ContextTimer \/ Signal \/ UNCHANGED vars
      PROVE  UNCHANGED <<pc, err, current, conclusion>>
  BY <1>7, GoroutineStep DEF ContextTimer, Signal, vars
<1> QED
  BY <1>2, <1>3, <1>4, <1>5, <1>6, <1>7 DEF Next, Thread

(* The address is reported when the verdict is made, and by then a server  *)
(* has been dialed exactly when there was something to ask.                *)
LEMMA NextReported ==
  ASSUME TypeOK, AddressInv, VerdictInv, ReportedWasEligible, QueryInv, FreshInv, [Next]_vars
  PROVE  ReportedWasEligible'
<1> USE DEF ReportedWasEligible
<1>0. current \in Attempt
  BY DEF TypeOK
<1>1. UNCHANGED inputs
  <2>1. CASE \E a \in Attempt : \E q \in Queries : Goroutine(a, q)
    BY <2>1, GoroutineStep
  <2>2. CASE ~\E a \in Attempt : \E q \in Queries : Goroutine(a, q)
    BY <2>2
       DEF Next, Thread, Call, LookupEnds, ProbeReturns, NextAttempt, ContextTimer,
           Signal, vars
  <2> QED
    BY <2>1, <2>2
<1>2. CASE ProbeReturns
  <2>1. \A a \in Attempt :
          /\ reported'[a] = IF a = current THEN address ELSE reported[a]
          /\ conclusion'[a] = IF a = current THEN Classify(err) ELSE conclusion[a]
    BY <1>0, <1>2 DEF ProbeReturns, TypeOK
  <2>2. Classify(err)[1] = "ok" => Resolved(current)
    BY <1>2, ClassifyKinds DEF ProbeReturns, VerdictInv, TypeOK
  <2>3. Resolved(current) => (address # NoServer <=> ~domain.local)
    BY <1>0 DEF Resolved, AddressInv
  <2>4. address \notin LinkLocal /\ (fixedServer # NoServer => address \in {fixedServer, NoServer})
    BY DEF AddressInv
  <2> QED
    BY <1>1, <2>1, <2>2, <2>3, <2>4 DEF inputs
<1>3. ~ProbeReturns => UNCHANGED <<reported, conclusion>>
  BY GoroutineStep
     DEF Next, Thread, Call, LookupEnds, NextAttempt, ContextTimer, Signal, vars
<1> QED
  BY <1>1, <1>2, <1>3 DEF inputs

(* The invariant is inductive.                                             *)
LEMMA Invariance == Spec => []DNSInv
<1>1. DNSInv /\ [Next]_vars => DNSInv'
  BY NextType, NextFresh, NextQueries, NextAddress, NextVerdict, NextReported DEF DNSInv
<1> QED
  BY <1>1, InitInv, PTL DEF Spec

------------------------------------------------------------------------------
(* The results.                                                            *)

(* dns.go: the resolver, its goroutines and the attempts keep their types. *)
THEOREM DNSTypeCorrect == Spec => []TypeOK
<1>1. DNSInv => TypeOK
  BY DEF DNSInv
<1> QED
  BY <1>1, Invariance, PTL

(* dns.go, the Dial hook and ResolverAddress: the address a report shows,  *)
(* whichever goroutine of whichever attempt wrote it, is one that the hook *)
(* may dial, and is there exactly when a name was resolved by a query.     *)
THEOREM ReportedEligible == Spec => []ReportedWasEligible
<1>1. DNSInv => ReportedWasEligible
  BY DEF DNSInv
<1> QED
  BY <1>1, Invariance, PTL

(* dns.go, Probe and classifyDNSError: "resolved" and "not found" were     *)
(* said by a server of the same attempt.                                   *)
THEOREM VerdictIsOwn == Spec => []VerdictIsOfThisAttempt
<1>1. DNSInv => VerdictIsOfThisAttempt
  BY DEF DNSInv, VerdictInv, VerdictIsOfThisAttempt, Resolved, SaidAbsent
<1> QED
  BY <1>1, Invariance, PTL

(* The contract's table is the one the model uses.                         *)
LEMMA SameConclusions == Contract!Conclusions["dns"] = DNSConclusions
  BY DEF Contract!Conclusions, Contract!DNSConclusions, Contract!DNSCodes, Contract!OK,
         Contract!With, Contract!NoError, DNSConclusions, DNSCodes, OK, With, NoError

(* dns.go, Layer.Probe: every behaviour of the resolutions is, step for    *)
(* step, one the contract of the layer allows (its safety part).           *)
THEOREM DNSKeepsContract == Spec => Contract!Init /\ [][Contract!Next]_(Contract!vars)
<1>1. Init => Contract!Init
  <2> SUFFICES ASSUME Init PROVE Contract!Init
    OBVIOUS
  <2>1. conclusion[current] = Undecided
    BY AttemptsAssumption DEF Init, Attempt
  <2> QED
    BY <2>1 DEF Init, Contract!Init, Contract!Undecided, Undecided, Contract!NoError, NoError
<1>2. DNSInv /\ [Next]_vars => [Contract!Next]_(Contract!vars)
  <2> SUFFICES ASSUME DNSInv, [Next]_vars PROVE [Contract!Next]_(Contract!vars)
    OBVIOUS
  <2> USE DEF Contract!vars, Contract!Next, inputs, timeVars, lookups
  <2>0. current \in Attempt
    BY DEF DNSInv, TypeOK
  <2>1. CASE Call
    BY <2>1 DEF Call, Contract!Call
  <2>2. CASE LookupEnds
    BY <2>2 DEF LookupEnds
  <2>3. CASE ProbeReturns
    <3>1. conclusion'[current'] \in DNSConclusions
      BY <2>0, <2>3, ClassifyKinds DEF ProbeReturns, DNSInv, TypeOK
    <3> QED
      BY <2>3, <3>1, SameConclusions DEF ProbeReturns, Contract!Return
  <2>4. CASE NextAttempt
    <3>1. current + 1 \in Attempt /\ current + 1 > current
      BY <2>0, <2>4, NextIsAttempt DEF NextAttempt
    <3>2. conclusion[current + 1] = Undecided
      BY <3>1 DEF DNSInv, FreshInv
    <3> QED
      BY <2>4, <3>2 DEF NextAttempt, Contract!Renew, Contract!Undecided, Undecided,
                        Contract!NoError, NoError
  <2>5. ASSUME NEW a \in Attempt, NEW q \in Queries, Goroutine(a, q)
        PROVE  [Contract!Next]_(Contract!vars)
    BY <2>5, GoroutineStep DEF DNSInv
  <2>6. CASE ContextTimer \/ Signal
    BY <2>6 DEF ContextTimer, Signal, Contract!ContextDone
  <2>7. CASE UNCHANGED vars
    BY <2>7 DEF vars
  <2> QED
    BY <2>1, <2>2, <2>3, <2>4, <2>5, <2>6, <2>7 DEF Next, Thread
<1> QED
  BY <1>1, <1>2, Invariance, PTL DEF Spec

(***************************************************************************)
(* The lane, and what a failed query has tried.                            *)
(***************************************************************************)

(* A query is in the lane exactly when it has ended, and once.             *)
Ended(a, q) == query[a][q].state \in {"records", "failed"}

Arrived(a, q) == \E k \in DOMAIN lane[a] : lane[a][k] = q

LaneInv ==
  \A a \in Attempt :
    /\ \A q \in Queries : Arrived(a, q) <=> Ended(a, q)
    /\ \A j, k \in DOMAIN lane[a] : lane[a][j] = lane[a][k] => j = k

(* A query fails with the answer of a server, or with the error of the     *)
(* last of them; a lookup reports such an error only of a query like that. *)
Exhausted(a) ==
  \E q \in Queries : query[a][q].state = "failed" /\ query[a][q].next = Len(Nameservers)

ExhaustInv ==
  /\ \A a \in Attempt : \A q \in Queries : query[a][q].state = "failed" =>
       query[a][q].last = "notfound" \/ query[a][q].next = Len(Nameservers)
  /\ pc \in {"read", "returned"} /\ err \in {"refused", "link-local"} => Exhausted(current)
  /\ \A a \in Attempt : conclusion[a][2] = "DNS_ERROR" => Exhausted(a)

(* No query has started at first, and the lane is empty.                   *)
LEMMA LaneInit == Init => LaneInv
BY DEF Init, LaneInv, Arrived, Ended, NotStarted

(* No query has failed at first.                                           *)
LEMMA ExhaustInit == Init => ExhaustInv
BY DEF Init, ExhaustInv, NotStarted, Undecided, NoError

(* Appending what is not there keeps a sequence free of repetitions.       *)
LEMMA AppendOnce ==
  ASSUME NEW S, NEW s \in Seq(S), NEW x \in S, \A k \in DOMAIN s : s[k] # x,
         \A j, k \in DOMAIN s : s[j] = s[k] => j = k
  PROVE  /\ \A j, k \in DOMAIN Append(s, x) : Append(s, x)[j] = Append(s, x)[k] => j = k
         /\ \A y : (\E k \in DOMAIN Append(s, x) : Append(s, x)[k] = y)
                     <=> y = x \/ \E k \in DOMAIN s : s[k] = y
<1> DEFINE t == Append(s, x)
           n == Len(s) + 1
<1>1. DOMAIN t = DOMAIN s \cup {n} /\ n \notin DOMAIN s
  BY LenProperties
<1>2. t[n] = x /\ \A k \in DOMAIN s : t[k] = s[k]
  BY AppendProperties
<1> HIDE DEF t, n
<1>3. QED BY <1>1, <1>2 DEF t

(* A goroutine that ends is the only one to append to the lane, and it     *)
(* appends its own query, which was running and so was not in it.          *)
LEMMA LaneStep == DNSInv /\ LaneInv /\ [Next]_vars => LaneInv'
<1> SUFFICES ASSUME DNSInv, LaneInv, [Next]_vars PROVE LaneInv'
  OBVIOUS
<1> USE DEF inputs, timeVars, lookups
<1>0. current \in Attempt /\ query \in [Attempt -> [Queries -> QueryState]]
      /\ lane \in [Attempt -> Seq(Queries)]
      /\ TypeOK /\ FreshInv /\ QueryInv /\ AddressInv
  BY DEF DNSInv, TypeOK, QueryState
<1>1. CASE Call /\ ~domain.local
  <2> DEFINE r == [NotStarted EXCEPT !.state = "dial"]
  <2>1. r.state = "dial" BY DEF NotStarted
  <2>2. \A q \in Queries : query[current][q].state = "none"
    BY <1>0, <1>1 DEF Call, FreshInv, NotBegun, NotStarted
  <2>3. lane' = lane
        /\ \A a \in Attempt : query'[a] = IF a = current THEN [q \in Queries |-> r] ELSE query[a]
    BY <1>0, <1>1 DEF Call
  <2> HIDE DEF r
  <2>4. \A a \in Attempt : \A q \in Queries : Ended(a, q)' <=> Ended(a, q)
    BY <2>1, <2>2, <2>3 DEF Ended
  <2>5. QED BY <2>3, <2>4 DEF LaneInv, Arrived
<1>2. ASSUME NEW a \in Attempt, NEW q \in Queries, Goroutine(a, q)
      PROVE  LaneInv'
  <2>1. PICK r \in QueryState :
          /\ query' = [query EXCEPT ![a][q] = r]
          /\ \/ r.state \in {"dial", "asked"} /\ lane' = lane
             \/ /\ r.state \in {"records", "failed"}
                /\ lane' = [lane EXCEPT ![a] = Append(@, q)]
    BY <1>0, <1>2, GoroutineStep
  <2>2. ~Ended(a, q) BY <1>0, <1>2, GoroutineStep DEF Running, Ended
  <2>3. \A b \in Attempt : \A p \in Queries :
          query'[b][p] = IF b = a /\ p = q THEN r ELSE query[b][p]
    BY <1>0, <2>1
  <2>4. CASE r.state \in {"dial", "asked"} /\ lane' = lane
    <3>1. \A b \in Attempt : \A p \in Queries : Ended(b, p)' <=> Ended(b, p)
      BY <2>2, <2>3, <2>4 DEF Ended
    <3>2. QED BY <2>4, <3>1 DEF LaneInv, Arrived
  <2>5. CASE r.state \in {"records", "failed"} /\ lane' = [lane EXCEPT ![a] = Append(@, q)]
    <3>1. \A b \in Attempt : \A p \in Queries : Ended(b, p)' <=> Ended(b, p) \/ (b = a /\ p = q)
      BY <2>3, <2>5 DEF Ended
    <3>2. lane[a] \in Seq(Queries) /\ lane'[a] = Append(lane[a], q)
          /\ \A b \in Attempt : b # a => lane'[b] = lane[b]
      BY <1>0, <2>5
    <3>3. ~Arrived(a, q) BY <2>2 DEF LaneInv
    <3>4. /\ \A j, k \in DOMAIN lane'[a] : lane'[a][j] = lane'[a][k] => j = k
          /\ \A y : (\E k \in DOMAIN lane'[a] : lane'[a][k] = y)
                      <=> y = q \/ \E k \in DOMAIN lane[a] : lane[a][k] = y
      <4>1. /\ \A k \in DOMAIN lane[a] : lane[a][k] # q
            /\ \A j, k \in DOMAIN lane[a] : lane[a][j] = lane[a][k] => j = k
        BY <3>3 DEF Arrived, LaneInv
      <4>2. QED BY <3>2, <4>1, AppendOnce
    <3>5. \A b \in Attempt : \A p \in Queries :
            Arrived(b, p)' <=> Arrived(b, p) \/ (b = a /\ p = q)
      BY <3>2, <3>4 DEF Arrived
    <3>6. \A b \in Attempt : \A j, k \in DOMAIN lane'[b] : lane'[b][j] = lane'[b][k] => j = k
      BY <3>2, <3>4 DEF LaneInv
    <3>7. QED BY <3>1, <3>5, <3>6 DEF LaneInv
  <2>6. QED BY <2>1, <2>4, <2>5
<1>3. CASE UNCHANGED <<query, lane>>
  BY <1>3 DEF LaneInv, Arrived, Ended
<1>4. (Call /\ domain.local) \/ LookupEnds \/ ProbeReturns \/ NextAttempt
        \/ ContextTimer \/ Signal \/ UNCHANGED vars
      => UNCHANGED <<query, lane>>
  BY DEF Call, LookupEnds, ProbeReturns, NextAttempt, ContextTimer, Signal, vars
<1>5. QED
  BY <1>1, <1>2, <1>3, <1>4 DEF Next, Thread

(* A try that leaves a query failed was answered, or was the last.         *)
LEMMA FailsExhausted ==
  ASSUME TypeOK, NEW a \in Attempt, NEW q \in Queries, Goroutine(a, q),
         query'[a][q].state = "failed"
  PROVE  query'[a][q].last = "notfound" \/ query'[a][q].next = Len(Nameservers)
<1>0. query \in [Attempt -> [Queries -> QueryState]] BY DEF TypeOK, QueryState
<1>1. ASSUME NEW e, TryNext(a, q, e)
      PROVE  query'[a][q].next = Len(Nameservers)
  <2> DEFINE i == query[a][q].next
  <2>1. CASE i = Len(Nameservers) BY <1>0, <1>1, <2>1 DEF TryNext
  <2>2. CASE i # Len(Nameservers)
    <3>1. query'[a][q].state = "dial" BY <1>0, <1>1, <2>2 DEF TryNext
    <3>2. QED BY <3>1
  <2>3. QED BY <2>1, <2>2
<1>2. CASE Dial(a, q)
  <2>1. query' = [query EXCEPT ![a][q].state = "asked"] BY <1>2 DEF Dial
  <2>2. query[a][q] \in QueryState BY <1>0
  <2>3. query'[a][q].state = "asked" BY <1>0, <2>1, <2>2 DEF QueryState
  <2>4. QED BY <2>3
<1>3. CASE ServerAnswers(a, q)
  <2>1. query[a][q] \in QueryState BY <1>0
  <2>2. CASE q \in domain.records
    <3>1. query' = [query EXCEPT ![a][q] = [@ EXCEPT !.state = "records"]]
      BY <1>3, <2>2 DEF ServerAnswers
    <3>2. query'[a][q].state = "records" BY <1>0, <2>1, <3>1 DEF QueryState
    <3>3. QED BY <3>2
  <2>3. CASE q \notin domain.records
    <3>1. query' = [query EXCEPT ![a][q] = [@ EXCEPT !.state = "failed", !.last = "notfound"]]
      BY <1>3, <2>3 DEF ServerAnswers
    <3>2. query'[a][q].last = "notfound" BY <1>0, <2>1, <3>1 DEF QueryState
    <3>3. QED BY <3>2
  <2>4. QED BY <2>2, <2>3
<1>4. QED BY <1>1, <1>2, <1>3 DEF Goroutine, Exchange, DialRefused, DialTooLate, ExchangeFails

(* The errors reported as DNS_ERROR are those of a refused connection or   *)
(* of an address nobody routes.                                            *)
LEMMA ErrorKind ==
  ASSUME NEW e \in Errors, Classify(e)[2] = "DNS_ERROR"
  PROVE  e \in {"refused", "link-local"}
BY DEF Errors, Classify, NoError

(* Every step keeps it: what LookupEnds reports is the error of a query    *)
(* that failed, and a failed query stays as it is.                         *)
LEMMA ExhaustStep == DNSInv /\ ExhaustInv /\ [Next]_vars => ExhaustInv'
<1> SUFFICES ASSUME DNSInv, ExhaustInv, [Next]_vars PROVE ExhaustInv'
  OBVIOUS
<1> USE DEF inputs, timeVars, lookups
<1>0. current \in Attempt /\ query \in [Attempt -> [Queries -> QueryState]]
      /\ TypeOK /\ FreshInv /\ QueryInv /\ AddressInv
  BY DEF DNSInv, TypeOK, QueryState
<1>1. \A a \in Attempt : Exhausted(a) => Exhausted(a)'
  BY <1>0, EndedStays DEF Exhausted
<1>2. \A a \in Attempt : \A q \in Queries : query'[a][q].state = "failed" =>
        query'[a][q].last = "notfound" \/ query'[a][q].next = Len(Nameservers)
  <2>1. CASE Call
    <3>1. \A a \in Attempt : \A q \in Queries :
            query'[a][q] = query[a][q] \/ query'[a][q].state = "dial"
      BY <1>0, <2>1 DEF Call, NotStarted
    <3>2. QED BY <3>1 DEF ExhaustInv
  <2>2. ASSUME NEW b \in Attempt, NEW p \in Queries, Goroutine(b, p)
        PROVE  \A a \in Attempt : \A q \in Queries : query'[a][q].state = "failed" =>
                 query'[a][q].last = "notfound" \/ query'[a][q].next = Len(Nameservers)
    <3>1. PICK r \in QueryState : query' = [query EXCEPT ![b][p] = r]
      BY <1>0, <2>2, GoroutineStep
    <3>2. \A a \in Attempt : \A q \in Queries :
            query'[a][q] = query[a][q] \/ (a = b /\ q = p)
      BY <1>0, <3>1
    <3>3. QED BY <1>0, <2>2, <3>2, FailsExhausted DEF ExhaustInv
  <2>3. CASE query' = query BY <2>3 DEF ExhaustInv
  <2>4. QED
    BY <2>1, <2>2, <2>3
    DEF Next, Thread, LookupEnds, ProbeReturns, NextAttempt, ContextTimer,
        Signal, vars
<1>3. CASE LookupEnds
  <2>1. lane[current] \in Seq(Queries) /\ Len(lane[current]) = 2
    BY <1>0, <1>3, TwoQueries DEF LookupEnds, TypeOK
  <2>2. 1 \in DOMAIN lane[current] /\ Head(lane[current]) = lane[current][1]
        /\ Head(lane[current]) \in Queries
    BY <2>1
  <2>3. query[current][Head(lane[current])].state \in {"records", "failed"}
    BY <1>0, <2>2 DEF QueryInv
  <2>4. err' \in {"refused", "link-local"} => Exhausted(current)
    <3>1. SUFFICES ASSUME err' \in {"refused", "link-local"} PROVE Exhausted(current)
      OBVIOUS
    <3>2. ~\E q \in Queries : query[current][q].state = "records"
      BY <1>3, <3>1 DEF LookupEnds
    <3>3. err' = query[current][Head(lane[current])].last BY <1>3, <3>2 DEF LookupEnds
    <3>4. QED BY <1>0, <2>2, <2>3, <3>1, <3>2, <3>3 DEF ExhaustInv, Exhausted
  <2>5. UNCHANGED <<current, query, conclusion>> BY <1>3 DEF LookupEnds
  <2>6. QED BY <1>2, <2>4, <2>5 DEF ExhaustInv, Exhausted
<1>4. CASE ProbeReturns
  <2>1. /\ UNCHANGED <<current, err, query>> /\ pc = "read" /\ err \in Errors
        /\ \A a \in Attempt :
             conclusion'[a] = IF a = current THEN Classify(err) ELSE conclusion[a]
    BY <1>0, <1>4 DEF ProbeReturns, TypeOK
  <2>2. Classify(err)[2] = "DNS_ERROR" => Exhausted(current)
    BY <2>1, ErrorKind DEF ExhaustInv
  <2>3. QED BY <1>2, <2>1, <2>2 DEF ExhaustInv, Exhausted
<1>5. CASE /\ conclusion' = conclusion
           /\ \/ pc' \notin {"read", "returned"}
              \/ err' \notin {"refused", "link-local"}
              \/ UNCHANGED <<pc, err, current>>
  <2>1. \A a \in Attempt : conclusion'[a][2] = "DNS_ERROR" => Exhausted(a)'
    BY <1>1, <1>5 DEF ExhaustInv
  <2>2. (pc \in {"read", "returned"} /\ err \in {"refused", "link-local"} => Exhausted(current))'
    <3>1. CASE UNCHANGED <<pc, err, current>>
      BY <1>0, <1>1, <3>1 DEF ExhaustInv, Exhausted
    <3>2. QED BY <1>5, <3>1
  <2>3. QED BY <1>2, <2>1, <2>2 DEF ExhaustInv
<1>6. ASSUME Call \/ NextAttempt \/ ContextTimer \/ Signal
             \/ (\E a \in Attempt : \E q \in Queries : Goroutine(a, q)) \/ UNCHANGED vars
      PROVE  ExhaustInv'
  <2>1. Call => err' = err /\ err = "nil" /\ conclusion' = conclusion
    BY DEF Call, DNSInv, VerdictInv
  <2>2. NextAttempt => err' = "nil" /\ conclusion' = conclusion BY DEF NextAttempt
  <2>3. ContextTimer \/ Signal \/ UNCHANGED vars => UNCHANGED <<pc, err, current, conclusion>>
    BY DEF ContextTimer, Signal, vars
  <2>4. (\E a \in Attempt : \E q \in Queries : Goroutine(a, q))
          => UNCHANGED <<pc, err, current, conclusion>>
    BY <1>0, GoroutineStep
  <2>5. QED BY <1>5, <1>6, <2>1, <2>2, <2>3, <2>4
<1>7. QED
  BY <1>3, <1>4, <1>6 DEF Next, Thread

(* A lookup has both results exactly when both queries have ended.         *)
LookupWaitsForBoth ==
  \A a \in Attempt : Len(lane[a]) = Cardinality(Queries) <=> \A q \in Queries : Ended(a, q)

(* Only of a query that has tried every nameserver is a DNS_ERROR          *)
(* reported.                                                               *)
ErrorAfterLastServer == \A a \in Attempt : conclusion[a][2] = "DNS_ERROR" => Exhausted(a)

(* A query runs only while the thread waits for it in its own lookup.      *)
NothingOutlives ==
  \A a \in Attempt : \A q \in Queries : Running(a, q) => a = current /\ pc = "lookup"

(* A lane without repetitions is full when it holds each query.            *)
LEMMA BothArrived ==
  ASSUME NEW s \in Seq(Queries), \A j, k \in DOMAIN s : s[j] = s[k] => j = k
  PROVE  Len(s) = 2 <=> \A q \in Queries : \E k \in DOMAIN s : s[k] = q
<1>0. DOMAIN s = 1 .. Len(s) /\ Len(s) \in Nat /\ \A k \in DOMAIN s : s[k] \in {"A", "AAAA"}
  BY DEF Queries
<1>1. ASSUME Len(s) = 2 PROVE \A q \in Queries : \E k \in DOMAIN s : s[k] = q
  <2>1. 1 \in DOMAIN s /\ 2 \in DOMAIN s BY <1>0, <1>1
  <2>2. s[1] # s[2] BY <2>1
  <2>3. QED BY <1>0, <2>1, <2>2 DEF Queries
<1>2. ASSUME \A q \in Queries : \E k \in DOMAIN s : s[k] = q PROVE Len(s) = 2
  <2>1. PICK j \in DOMAIN s : s[j] = "A" BY <1>2 DEF Queries
  <2>2. PICK k \in DOMAIN s : s[k] = "AAAA" BY <1>2 DEF Queries
  <2>3. j # k BY <2>1, <2>2
  <2>4. \A i \in DOMAIN s : i = j \/ i = k BY <1>0, <2>1, <2>2
  <2>5. Len(s) >= 2 BY <1>0, <2>1, <2>2, <2>3
  <2>6. ~(Len(s) >= 3)
    <3>1. SUFFICES ASSUME Len(s) >= 3 PROVE FALSE
      OBVIOUS
    <3>2. 1 \in DOMAIN s /\ 2 \in DOMAIN s /\ 3 \in DOMAIN s BY <1>0, <3>1
    <3>3. QED BY <2>4, <3>2
  <2>7. QED BY <1>0, <2>5, <2>6
<1>3. QED BY <1>1, <1>2

(* The lane of a lookup that waits fills up with both queries.             *)
LEMMA WaitsForBoth == DNSInv /\ LaneInv => LookupWaitsForBoth
<1> SUFFICES ASSUME DNSInv, LaneInv, NEW a \in Attempt
             PROVE  Len(lane[a]) = Cardinality(Queries) <=> \A q \in Queries : Ended(a, q)
  BY DEF LookupWaitsForBoth
<1>1. lane[a] \in Seq(Queries) BY DEF DNSInv, TypeOK
<1>2. Len(lane[a]) = 2 <=> \A q \in Queries : Arrived(a, q)
  BY <1>1, BothArrived DEF LaneInv, Arrived
<1>3. QED BY <1>2, TwoQueries DEF LaneInv

(* The thread leaves a lookup only when both queries have ended, and a     *)
(* goroutine starts no other.                                              *)
LEMMA OutlivesStep ==
  DNSInv /\ LaneInv /\ NothingOutlives /\ [Next]_vars => NothingOutlives'
<1> SUFFICES ASSUME DNSInv, LaneInv, NothingOutlives, [Next]_vars PROVE NothingOutlives'
  OBVIOUS
<1> USE DEF inputs, timeVars, lookups
<1>0. current \in Attempt /\ query \in [Attempt -> [Queries -> QueryState]]
      /\ TypeOK /\ FreshInv /\ QueryInv /\ AddressInv /\ LookupWaitsForBoth
  BY WaitsForBoth DEF DNSInv, TypeOK, QueryState
<1>1. CASE Call
  <2>1. pc = "idle" /\ current' = current /\ (pc' = "lookup" \/ query' = query)
        /\ \A a \in Attempt : a # current => query'[a] = query[a]
    BY <1>0, <1>1 DEF Call
  <2>2. QED BY <2>1 DEF NothingOutlives, Running
<1>2. CASE LookupEnds
  <2>1. UNCHANGED <<query, current>> /\ pc = "lookup"
        /\ Len(lane[current]) = Cardinality(Queries)
    BY <1>2 DEF LookupEnds
  <2>2. \A q \in Queries : Ended(current, q) BY <1>0, <2>1 DEF LookupWaitsForBoth
  <2>3. QED BY <2>1, <2>2 DEF NothingOutlives, Running, Ended
<1>3. CASE ProbeReturns \/ NextAttempt
  <2>1. query' = query /\ pc # "lookup" BY <1>3 DEF ProbeReturns, NextAttempt
  <2>2. QED BY <2>1 DEF NothingOutlives, Running
<1>4. ASSUME NEW b \in Attempt, NEW p \in Queries, Goroutine(b, p)
      PROVE  NothingOutlives'
  <2>1. UNCHANGED <<current, pc>> /\ Running(b, p) BY <1>0, <1>4, GoroutineStep
  <2>2. PICK r \in QueryState : query' = [query EXCEPT ![b][p] = r]
    BY <1>0, <1>4, GoroutineStep
  <2>3. \A a \in Attempt : a # b => query'[a] = query[a] BY <1>0, <2>2
  <2>4. QED BY <2>1, <2>3 DEF NothingOutlives, Running
<1>5. CASE ContextTimer \/ Signal \/ UNCHANGED vars
  BY <1>5 DEF ContextTimer, Signal, vars, NothingOutlives, Running
<1>6. QED BY <1>1, <1>2, <1>3, <1>4, <1>5 DEF Next, Thread

(* The resolver's two goroutines: a lookup has both results exactly when   *)
(* both queries have ended, so that it neither ends on one query counted   *)
(* twice nor waits for a result that was lost, and once it has returned no *)
(* goroutine of it is left to write the address; and a DNS_ERROR is only   *)
(* reported of a query that has been through the whole list of             *)
(* nameservers.                                                            *)
THEOREM LookupEndsOnBoth ==
  Spec => [](LookupWaitsForBoth /\ NothingOutlives /\ ErrorAfterLastServer)
<1>1. ExhaustInv => ErrorAfterLastServer BY DEF ExhaustInv, ErrorAfterLastServer
<1>2. Init => NothingOutlives BY DEF Init, NothingOutlives, Running, NotStarted
<1>3. QED
  BY <1>1, <1>2, WaitsForBoth, OutlivesStep, Invariance, LaneInit, LaneStep,
     ExhaustInit, ExhaustStep, PTL DEF Spec

(***************************************************************************)
(* How much can happen.  What the thread, the goroutines, the timer and    *)
(* the signal have still to do is a finite set, and each step takes from   *)
(* it: a goroutine dials and asks at each place of the list of nameservers *)
(* once, and a dial that comes too late does both.                         *)
(***************************************************************************)
Names == {"next", "lookup", "read", "return", "deadline", "signal", "dial", "ask"}

Steps == (0 .. Len(Nameservers)) \X Names

Workers == Queries \cup {"thread", "process"}

(* What the thread does in attempt a, and the end of its context.          *)
LeftToThread(a) ==
  {0} \X
    (IF a > current THEN {"next", "lookup", "read", "return", "deadline"}
     ELSE IF a < current THEN {}
     ELSE (IF pc = "idle" THEN {"lookup", "read", "return"}
           ELSE IF pc = "lookup" THEN {"read", "return"}
           ELSE IF pc = "read" THEN {"return"} ELSE {})
          \cup (IF ctxErr = "nil" THEN {"deadline"} ELSE {}))

(* What the goroutine of query q does: the server at each place from next  *)
(* on is dialed, then asked.                                               *)
LeftToQuery(a, q) ==
  LET g == query[a][q]
  IN  {s \in (1 .. Len(Nameservers)) \X {"dial", "ask"} :
         /\ g.state \in {"none", "dial", "asked"}
         /\ s[1] > g.next \/ (s[1] = g.next /\ (s[2] = "ask" \/ g.state # "asked"))}

Left(a, w) ==
  IF w = "thread" THEN LeftToThread(a)
  ELSE IF w = "process" THEN (IF interrupted THEN {} ELSE {<<0, "signal">>})
  ELSE LeftToQuery(a, w)

Todo == {t \in Attempt \X (Workers \X Steps) : t[2][2] \in Left(t[1], t[2][1])}

(* All that can ever be left is one of the steps.                          *)
LEMMA LeftInSteps == \A a \in Attempt, w \in Workers : Left(a, w) \subseteq Steps
<1>0. Len(Nameservers) \in Nat BY NameserverNumbers
<1>1. {0} \X Names \subseteq Steps BY <1>0 DEF Steps
<1>2. (1 .. Len(Nameservers)) \X {"dial", "ask"} \subseteq Steps BY <1>0 DEF Steps, Names
<1>3. \A a : LeftToThread(a) \subseteq {0} \X Names BY DEF LeftToThread, Names
<1>4. <<0, "signal">> \in Steps BY <1>1 DEF Names
<1>5. QED BY <1>1, <1>2, <1>3, <1>4 DEF Left, LeftToQuery

(* They are finitely many.                                                 *)
LEMMA FinitelyMany == IsFiniteSet(Todo)
<1>1. IsFiniteSet(Attempt) BY AttemptsAssumption, FS_Interval DEF Attempt
<1>2. IsFiniteSet(0 .. Len(Nameservers)) BY NameserverNumbers, FS_Interval
<1>3. IsFiniteSet(Names)
  <2>1. Names = ({} \cup {"next"} \cup {"lookup"} \cup {"read"} \cup {"return"}
                    \cup {"deadline"} \cup {"signal"} \cup {"dial"} \cup {"ask"})
    BY DEF Names
  <2>2. QED BY <2>1, FS_EmptySet, FS_AddElement
<1>4. IsFiniteSet(Workers)
  <2>1. Workers = ({} \cup {"A"} \cup {"AAAA"} \cup {"thread"} \cup {"process"})
    BY DEF Workers, Queries
  <2>2. QED BY <2>1, FS_EmptySet, FS_AddElement
<1>5. IsFiniteSet(Steps) BY <1>2, <1>3, FS_Product DEF Steps
<1>6. IsFiniteSet(Attempt \X (Workers \X Steps)) BY <1>1, <1>4, <1>5, FS_Product
<1>7. Todo \in SUBSET (Attempt \X (Workers \X Steps)) BY DEF Todo
<1>8. QED BY <1>6, <1>7, FS_Subset

(* One worker with less to do, and none with more.                         *)
LEMMA TakesFromTodo ==
  ASSUME \A a \in Attempt, w \in Workers : Left(a, w)' \subseteq Left(a, w),
         NEW b \in Attempt, NEW v \in Workers, NEW s,
         s \in Left(b, v), s \notin Left(b, v)'
  PROVE  Todo' \subseteq Todo /\ Todo' # Todo
<1>1. Todo' = {t \in Attempt \X (Workers \X Steps) : t[2][2] \in Left(t[1], t[2][1])'}
  BY DEF Todo
<1>2. Todo' \subseteq Todo BY <1>1 DEF Todo
<1>3. s \in Steps BY LeftInSteps
<1>4. <<b, <<v, s>>>> \in Todo BY <1>3 DEF Todo
<1>5. <<b, <<v, s>>>> \notin Todo' BY <1>1
<1>6. QED BY <1>2, <1>4, <1>5

(* A step of the thread, the timer or the signal.                          *)
LEMMA ThreadTakes ==
  ASSUME DNSInv, query' = query \/ Call,
         Call \/ LookupEnds \/ ProbeReturns \/ NextAttempt
           \/ ContextTimer \/ Signal
  PROVE  Todo' \subseteq Todo /\ Todo' # Todo
<1> USE DEF timeVars, inputs, lookups
<1>0. /\ current \in Attempt /\ TypeOK /\ FreshInv
      /\ query \in [Attempt -> [Queries -> QueryState]]
      /\ Attempt \subseteq Nat
  BY AttemptsAssumption DEF DNSInv, TypeOK, QueryState, Attempt
<1>1. \A a \in Attempt, q \in Queries : LeftToQuery(a, q)' = LeftToQuery(a, q)
  <2>1. CASE query' = query BY <2>1 DEF LeftToQuery
  <2>2. CASE Call
    <3>1. \A a \in Attempt \ {current} : query'[a] = query[a] BY <1>0, <2>2 DEF Call
    <3>2. ASSUME NEW q \in Queries
          PROVE  LeftToQuery(current, q)' = LeftToQuery(current, q)
      <4>1. current' = current BY <2>2 DEF Call
      <4>2. query[current][q] = NotStarted BY <1>0, <2>2 DEF Call, FreshInv, NotBegun
      <4>3. query'[current][q] \in {NotStarted, [NotStarted EXCEPT !.state = "dial"]}
        BY <1>0, <2>2, <4>2 DEF Call
      <4>4. /\ query'[current][q].next = query[current][q].next
            /\ query[current][q].state \in {"none", "dial"}
            /\ query'[current][q].state \in {"none", "dial"}
        BY <4>2, <4>3 DEF NotStarted
      <4>5. QED BY <4>1, <4>4 DEF LeftToQuery
    <3>3. ASSUME NEW a \in Attempt \ {current}, NEW q \in Queries
          PROVE  LeftToQuery(a, q)' = LeftToQuery(a, q)
      BY <3>1 DEF LeftToQuery
    <3>4. ASSUME NEW a \in Attempt, NEW q \in Queries
          PROVE  LeftToQuery(a, q)' = LeftToQuery(a, q)
      <4>1. CASE a = current
        <5>1. current' = current BY <2>2 DEF Call
        <5>2. QED BY <3>2, <4>1, <5>1
      <4>2. CASE a # current BY <3>3, <4>2
      <4>3. QED BY <4>1, <4>2
    <3>5. QED BY <3>4
  <2>3. QED BY <2>1, <2>2
<1>2. Queries \subseteq Workers /\ "thread" \notin Queries /\ "process" \notin Queries
      /\ "thread" \in Workers /\ "process" \in Workers
  BY DEF Workers, Queries
<1>3. ASSUME NEW b \in Attempt, NEW s,
             \A a \in Attempt : LeftToThread(a)' \subseteq LeftToThread(a),
             s \in LeftToThread(b), s \notin LeftToThread(b)',
             interrupted' = interrupted
      PROVE  Todo' \subseteq Todo /\ Todo' # Todo
  <2>1. \A a \in Attempt, w \in Workers : Left(a, w)' \subseteq Left(a, w)
    BY <1>1, <1>2, <1>3 DEF Left, Workers
  <2>2. s \in Left(b, "thread") /\ s \notin Left(b, "thread")' BY <1>3 DEF Left
  <2>3. QED BY <1>2, <2>1, <2>2, TakesFromTodo
<1>4. CASE Call
  <2>1. pc = "idle" /\ pc' \in {"lookup", "read"} /\ UNCHANGED <<current, ctxErr, interrupted>>
    BY <1>4 DEF Call
  <2>2. \A a \in Attempt : LeftToThread(a)' \subseteq LeftToThread(a)
    BY <2>1 DEF LeftToThread
  <2>3. <<0, "lookup">> \in LeftToThread(current) /\ <<0, "lookup">> \notin LeftToThread(current)'
    BY <1>0, <2>1 DEF LeftToThread
  <2>4. QED BY <1>0, <1>3, <2>1, <2>2, <2>3
<1>5. CASE LookupEnds
  <2>1. pc = "lookup" /\ pc' = "read" /\ UNCHANGED <<current, ctxErr, interrupted>>
    BY <1>5 DEF LookupEnds
  <2>2. \A a \in Attempt : LeftToThread(a)' \subseteq LeftToThread(a)
    BY <2>1 DEF LeftToThread
  <2>3. <<0, "read">> \in LeftToThread(current) /\ <<0, "read">> \notin LeftToThread(current)'
    BY <1>0, <2>1 DEF LeftToThread
  <2>4. QED BY <1>0, <1>3, <2>1, <2>2, <2>3
<1>6. CASE ProbeReturns
  <2>1. pc = "read" /\ pc' = "returned" /\ UNCHANGED <<current, ctxErr, interrupted>>
    BY <1>6 DEF ProbeReturns
  <2>2. \A a \in Attempt : LeftToThread(a)' \subseteq LeftToThread(a)
    BY <2>1 DEF LeftToThread
  <2>3. <<0, "return">> \in LeftToThread(current) /\ <<0, "return">> \notin LeftToThread(current)'
    BY <1>0, <2>1 DEF LeftToThread
  <2>4. QED BY <1>0, <1>3, <2>1, <2>2, <2>3
<1>7. CASE NextAttempt
  <2>1. /\ pc' = "idle" /\ interrupted' = interrupted
        /\ current' = current + 1 /\ current' \in Attempt
    BY <1>0, <1>7, AttemptsAssumption DEF NextAttempt, Attempt
  <2>c. PICK c \in Attempt : c = current + 1 BY <1>0, <2>1
  <2>2. \A a \in Attempt : a = current \/ a = c \/ a > c \/ a < current
    BY <1>0, <2>c
  <2>3. \A a \in Attempt : (a = current => a < c) /\ (a = c => a > current)
                           /\ (a > c => a > current) /\ (a < current => a < c /\ ~(a > c))
                           /\ (a = current => ~(a > c)) /\ (a = c => ~(a > c) /\ ~(a < c))
    BY <1>0, <2>c
  <2>4. \A a \in Attempt :
          LeftToThread(a)' =
            {0} \X
              (IF a > c THEN {"next", "lookup", "read", "return", "deadline"}
               ELSE IF a < c THEN {}
               ELSE {"lookup", "read", "return"}
                    \cup (IF ctxErr' = "nil" THEN {"deadline"} ELSE {}))
    BY <2>1, <2>c DEF LeftToThread
  <2>5. \A a \in Attempt : LeftToThread(a)' \subseteq LeftToThread(a)
    BY <2>2, <2>3, <2>4 DEF LeftToThread
  <2>6. <<0, "next">> \in LeftToThread(c) BY <2>3 DEF LeftToThread
  <2>7. <<0, "next">> \notin LeftToThread(c)' BY <2>3, <2>4
  <2>8. QED BY <1>3, <2>1, <2>5, <2>6, <2>7
<1>8. CASE ContextTimer
  <2>1. ctxErr = "nil" /\ ctxErr' # "nil" /\ UNCHANGED <<pc, current, interrupted>>
    BY <1>8 DEF ContextTimer
  <2>2. \A a \in Attempt : LeftToThread(a)' \subseteq LeftToThread(a)
    BY <2>1 DEF LeftToThread
  <2>3. <<0, "deadline">> \in LeftToThread(current) /\ <<0, "deadline">> \notin LeftToThread(current)'
    BY <1>0, <2>1 DEF LeftToThread
  <2>4. QED BY <1>0, <1>3, <2>1, <2>2, <2>3
<1>9. CASE Signal
  <2>1. /\ ~interrupted /\ interrupted' /\ (ctxErr' = "nil" => ctxErr = "nil")
        /\ UNCHANGED <<pc, current>>
    BY <1>9 DEF Signal
  <2>2. \A a \in Attempt : LeftToThread(a)' \subseteq LeftToThread(a)
    BY <2>1 DEF LeftToThread
  <2>3. \A a \in Attempt, w \in Workers : Left(a, w)' \subseteq Left(a, w)
    BY <1>1, <1>2, <2>1, <2>2 DEF Left, Workers
  <2>4. PICK a \in Attempt : TRUE BY <1>0
  <2>5. <<0, "signal">> \in Left(a, "process") /\ <<0, "signal">> \notin Left(a, "process")'
    BY <2>1 DEF Left
  <2>6. QED BY <1>2, <2>3, <2>5, TakesFromTodo
<1>10. QED BY <1>4, <1>5, <1>6, <1>7, <1>8, <1>9

(* What a step of a goroutine makes of its query.                          *)
LEMMA GoroutineAdvances ==
  ASSUME TypeOK, NEW a \in Attempt, NEW q \in Queries, Goroutine(a, q)
  PROVE  LET g == query[a][q]
             h == query'[a][q]
         IN  /\ query' = [query EXCEPT ![a][q] = h]
             /\ g.state \in {"dial", "asked"} /\ g.next \in 1 .. Len(Nameservers)
             /\ \/ g.state = "dial" /\ h.state = "asked" /\ h.next = g.next
                \/ h.state = "dial" /\ h.next = g.next + 1
                \/ h.state \in {"records", "failed"}
<1>0. query \in [Attempt -> [Queries -> QueryState]] BY DEF TypeOK, QueryState
<1>1. query[a][q] \in QueryState BY <1>0
<1>t. ASSUME NEW e, TryNext(a, q, e)
      PROVE  LET g == query[a][q]
                 h == query'[a][q]
             IN  /\ query' = [query EXCEPT ![a][q] = h]
                 /\ \/ h.state = "dial" /\ h.next = g.next + 1
                    \/ h.state = "failed"
  <2>1. CASE query[a][q].next = Len(Nameservers)
    <3> DEFINE r == [state |-> "failed", next |-> query[a][q].next, last |-> e]
    <3>1. query' = [query EXCEPT ![a][q] = r] BY <1>t, <2>1 DEF TryNext
    <3>2. r.state = "failed" /\ r.next = query[a][q].next OBVIOUS
    <3> HIDE DEF r
    <3>3. query'[a][q] = r BY <1>0, <3>1
    <3>4. QED BY <3>1, <3>2, <3>3
  <2>2. CASE query[a][q].next # Len(Nameservers)
    <3> DEFINE r == [state |-> "dial", next |-> query[a][q].next + 1, last |-> e]
    <3>1. query' = [query EXCEPT ![a][q] = r] BY <1>t, <2>2 DEF TryNext
    <3>2. r.state = "dial" /\ r.next = query[a][q].next + 1 OBVIOUS
    <3> HIDE DEF r
    <3>3. query'[a][q] = r BY <1>0, <3>1
    <3>4. QED BY <3>1, <3>2, <3>3
  <2>3. QED BY <2>1, <2>2
<1>2. CASE DialRefused(a, q) BY <1>1, <1>2, <1>t DEF DialRefused, QueryState
<1>3. CASE ExchangeFails(a, q) BY <1>1, <1>3, <1>t DEF ExchangeFails, QueryState
<1>4. CASE Dial(a, q)
  <2> DEFINE h == [query[a][q] EXCEPT !.state = "asked"]
  <2>1. query' = [query EXCEPT ![a][q] = h] BY <1>4 DEF Dial
  <2>2. h.state = "asked" /\ h.next = query[a][q].next BY <1>1 DEF QueryState
  <2> HIDE DEF h
  <2>3. query'[a][q] = h BY <1>0, <2>1
  <2>4. QED BY <1>1, <1>4, <2>1, <2>2, <2>3 DEF Dial, QueryState
<1>5. CASE ServerAnswers(a, q)
  <2> DEFINE h == IF q \in domain.records THEN [query[a][q] EXCEPT !.state = "records"]
                  ELSE [query[a][q] EXCEPT !.state = "failed", !.last = "notfound"]
  <2>1. query' = [query EXCEPT ![a][q] = h] BY <1>5 DEF ServerAnswers
  <2>2. h.state \in {"records", "failed"} BY <1>1 DEF QueryState
  <2> HIDE DEF h
  <2>3. query'[a][q] = h BY <1>0, <2>1
  <2>4. QED BY <1>1, <1>5, <2>1, <2>2, <2>3 DEF ServerAnswers, QueryState
<1>6. CASE DialTooLate(a, q) BY <1>1, <1>6, <1>t DEF DialTooLate, QueryState
<1>7. QED BY <1>2, <1>3, <1>4, <1>5, <1>6 DEF Goroutine, Exchange

(* A goroutine is done with the server it tried, or has dialed it.         *)
LEMMA GoroutineTakes ==
  ASSUME DNSInv, NEW b \in Attempt, NEW p \in Queries, Goroutine(b, p)
  PROVE  Todo' \subseteq Todo /\ Todo' # Todo
<1>0. query \in [Attempt -> [Queries -> QueryState]] /\ TypeOK /\ QueryInv /\ AddressInv
  BY DEF DNSInv, TypeOK, QueryState
<1> DEFINE g == query[b][p]
           h == query'[b][p]
           tried == IF g.state = "dial" THEN "dial" ELSE "ask"
<1>1. UNCHANGED <<current, pc, ctxErr, interrupted>>
  BY <1>0, GoroutineStep DEF timeVars
<1>2. /\ query' = [query EXCEPT ![b][p] = h]
      /\ g.state \in {"dial", "asked"} /\ g.next \in 1 .. Len(Nameservers)
      /\ \/ g.state = "dial" /\ h.state = "asked" /\ h.next = g.next
         \/ h.state = "dial" /\ h.next = g.next + 1
         \/ h.state \in {"records", "failed"}
  BY <1>0, GoroutineAdvances
<1>3. \A a \in Attempt, q \in Queries : a # b \/ q # p => query'[a][q] = query[a][q]
  BY <1>0, <1>2
<1>4. \A a \in Attempt, q \in Queries :
        a # b \/ q # p => LeftToQuery(a, q)' = LeftToQuery(a, q)
  BY <1>3 DEF LeftToQuery
<1>5. Len(Nameservers) \in Nat BY NameserverNumbers
<1>6. LeftToQuery(b, p) =
        {s \in (1 .. Len(Nameservers)) \X {"dial", "ask"} :
           s[1] > g.next \/ (s[1] = g.next /\ (s[2] = "ask" \/ g.state # "asked"))}
  BY <1>2 DEF LeftToQuery
<1>7. LeftToQuery(b, p)' =
        {s \in (1 .. Len(Nameservers)) \X {"dial", "ask"} :
           /\ h.state \in {"none", "dial", "asked"}
           /\ s[1] > h.next \/ (s[1] = h.next /\ (s[2] = "ask" \/ h.state # "asked"))}
  BY DEF LeftToQuery
<1> HIDE DEF g, h
<1>8. LeftToQuery(b, p)' \subseteq LeftToQuery(b, p)
  BY <1>2, <1>5, <1>6, <1>7
<1>9. <<g.next, tried>> \in LeftToQuery(b, p) /\ <<g.next, tried>> \notin LeftToQuery(b, p)'
  BY <1>2, <1>5, <1>6, <1>7
<1>10. Queries \subseteq Workers /\ "thread" \notin Queries /\ "process" \notin Queries
  BY DEF Workers, Queries
<1>11. \A a \in Attempt : LeftToThread(a)' = LeftToThread(a) BY <1>1 DEF LeftToThread
<1>12. \A a \in Attempt, w \in Workers : Left(a, w)' \subseteq Left(a, w)
  BY <1>1, <1>4, <1>8, <1>11 DEF Left, Workers
<1>13. Left(b, p) = LeftToQuery(b, p) /\ Left(b, p)' = LeftToQuery(b, p)'
  BY <1>10 DEF Left
<1>14. QED BY <1>9, <1>10, <1>12, <1>13, TakesFromTodo

(* dns.go, trackingResolver: any number of lookups is a finite matter.     *)
(* Whatever the servers do and whenever the context ends, every step takes *)
(* from a finite set, so that no query dials or asks at a place of the     *)
(* list of nameservers (which names a server once for each round) that it  *)
(* has been at before.                                                     *)
THEOREM ResolutionsAreBounded ==
  Spec => [](IsFiniteSet(Todo)) /\ [][Todo' \subseteq Todo /\ Todo' # Todo]_vars
<1>1. IsFiniteSet(Todo) BY FinitelyMany
<1>2. DNSInv /\ [Next]_vars => [Todo' \subseteq Todo /\ Todo' # Todo]_vars
  <2> SUFFICES ASSUME DNSInv, Next PROVE Todo' \subseteq Todo /\ Todo' # Todo
    OBVIOUS
  <2>1. ASSUME NEW a \in Attempt, NEW q \in Queries, Goroutine(a, q)
        PROVE  Todo' \subseteq Todo /\ Todo' # Todo
    BY <2>1, GoroutineTakes
  <2>2. LookupEnds \/ ProbeReturns \/ NextAttempt \/ ContextTimer \/ Signal
          => query' = query
    BY DEF LookupEnds, ProbeReturns, NextAttempt, ContextTimer, Signal, lookups
  <2>3. QED BY <2>1, <2>2, ThreadTakes DEF Next, Thread
<1>3. QED BY <1>1, <1>2, Invariance, PTL DEF Spec

==============================================================================
