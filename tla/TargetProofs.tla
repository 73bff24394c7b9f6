----------------------------- MODULE TargetProofs -----------------------------
(***************************************************************************)
(* Theorems about Target, for targets of every length and every port: what *)
(* ParseTarget accepts can be used, and what has no escapes in its path is *)
(* what the second parse of net/http asks for.                             *)
(***************************************************************************)
EXTENDS Target, SequenceTheorems, WellFoundedInduction, TLAPS

(***************************************************************************)
(* What the two steps leave behind.                                        *)
(***************************************************************************)
TargetInv ==
  /\ raw \in RawTargets /\ address \in Addresses
  /\ pc \in {"typed", "parsed", "rejected", "requested", "refused"}
  /\ pc = "typed" => target = Nothing
  /\ pc # "typed" => target = ParseTarget(raw)
  /\ pc \in {"parsed", "requested", "refused"} => Accepts(raw)
  /\ pc \in {"requested", "refused"} => NeedsHTTP(target.scheme)
  /\ pc = "requested" => request = Resource(target.path)
  /\ pc = "refused" => ~Requestable(target, address)

(* Nothing is read of an argument before it is parsed.                     *)
LEMMA TargetInit == Init => TargetInv
BY DEF Init, TargetInv

(* Each step leaves behind what it computes from the argument.             *)
LEMMA TargetStep == TargetInv /\ [Next]_vars => TargetInv'
<1> SUFFICES ASSUME TargetInv, [Next]_vars PROVE TargetInv'
  OBVIOUS
<1>1. CASE Parse BY <1>1 DEF Parse, TargetInv
<1>2. CASE NewRequest BY <1>2 DEF NewRequest, TargetInv
<1>3. CASE UNCHANGED vars BY <1>3 DEF vars, TargetInv
<1>4. QED BY <1>1, <1>2, <1>3 DEF Next

(***************************************************************************)
(* What is accepted.                                                       *)
(***************************************************************************)

(* A port that is resolved exists.                                         *)
LEMMA PortInRange ==
  ASSUME NEW r, NEW s \in AllSchemes
  PROVE  ResolvePort(r, s) \subseteq ValidPorts
<1>1. 443 \in ValidPorts /\ 80 \in ValidPorts BY DEF ValidPorts
<1>2. r.port # NoPort => ResolvePort(r, s) = {r.port} \cap ValidPorts BY DEF ResolvePort
<1>3. r.port = NoPort /\ s = "tcp" => ResolvePort(r, s) = {} BY DEF ResolvePort
<1>4. r.port = NoPort /\ s # "tcp" => ResolvePort(r, s) = {DefaultPort[s]}
  BY DEF ResolvePort
<1>5. s # "tcp" => DefaultPort[s] \in {443, 80} BY DEF DefaultPort, AllSchemes
<1>6. QED BY <1>1, <1>2, <1>3, <1>4, <1>5

(* Of two arguments that differ in their userinfo only, one is a target if *)
(* and only if the other is, and the same one.                             *)
LEMMA UserIgnored ==
  ASSUME NEW r \in RawTargets
  PROVE  /\ Original(r) \in RawTargets /\ ~Original(r).user
         /\ Original(Original(r)) = Original(r)
         /\ Accepts(Original(r)) <=> Accepts(r)
         /\ Parsed(Original(r)) = Parsed(r)
<1> DEFINE o == Original(r)
<1>1. /\ o.scheme = r.scheme /\ o.host = r.host /\ o.port = r.port /\ o.tail = r.tail
      /\ o.user = FALSE /\ o \in RawTargets
  BY DEF Original, RawTargets
<1>2. Original(o) = o BY <1>1 DEF Original, RawTargets
<1> HIDE DEF o
<1>3. Scheme(o) = Scheme(r) BY <1>1 DEF Scheme, HadScheme
<1>4. ResolvePort(o, Scheme(o)) = ResolvePort(r, Scheme(r)) BY <1>1, <1>3 DEF ResolvePort
<1>5. Accepts(o) <=> Accepts(r) BY <1>1, <1>3, <1>4 DEF Accepts
<1>6. TargetPath(o) = TargetPath(r) BY <1>1, <1>3 DEF TargetPath
<1>7. Parsed(o) = Parsed(r)
  BY <1>1, <1>2, <1>3, <1>4, <1>6 DEF Parsed, o
<1>8. QED BY <1>1, <1>2, <1>5, <1>7 DEF o

(* A raw target's tail is a sequence of tokens.                            *)
LEMMA TailType == ASSUME NEW t \in Tails PROVE t \in Seq(Tokens)
<1>1. CASE t = <<>> BY <1>1, EmptySeq
<1>2. CASE \E n \in 1 .. MaxTokens : t \in [1 .. n -> Tokens]
  <2>1. PICK n \in 1 .. MaxTokens : t \in [1 .. n -> Tokens] BY <1>2
  <2>2. n \in Nat BY <2>1, TargetAssumption
  <2>3. QED BY <2>1, <2>2, SeqDef
<1>3. QED BY <1>1, <1>2 DEF Tails

(* A set of natural numbers has a least element.                           *)
LEMMA LeastOf ==
  ASSUME NEW S \in SUBSET Nat, S # {}
  PROVE  \E m \in S : \A n \in S : m <= n
<1>1. PICK m \in S : \A n \in S : ~(<<n, m>> \in OpToRel(<, Nat))
  BY NatLessThanWellFounded, WFMin
<1>2. \A n \in S : ~(n < m) BY <1>1 DEF OpToRel
<1>3. QED BY <1>2

(* The first place of a token, or the one after the last.                  *)
LEMMA IndexFacts ==
  ASSUME NEW S, NEW t \in Seq(S), NEW c
  PROVE  /\ IndexOf(t, c) \in 1 .. Len(t) + 1
         /\ \A k \in 1 .. IndexOf(t, c) - 1 : t[k] # c
         /\ IndexOf(t, c) <= Len(t) => t[IndexOf(t, c)] = c
<1> DEFINE K == {k \in DOMAIN t : t[k] = c}
<1>1. Len(t) \in Nat /\ DOMAIN t = 1 .. Len(t) BY LenProperties
<1>2. CASE K = {}
  <2>1. IndexOf(t, c) = Len(t) + 1 BY <1>2 DEF IndexOf
  <2>2. QED BY <1>1, <1>2, <2>1
<1>3. CASE K # {}
  <2>1. IndexOf(t, c) = Min(K) BY <1>3 DEF IndexOf
  <2>2. K \in SUBSET Nat BY <1>1
  <2>3. \E m \in K : \A n \in K : m <= n BY <1>3, <2>2, LeastOf
  <2>4. Min(K) \in K /\ \A n \in K : Min(K) <= n BY <2>3 DEF Min
  <2> DEFINE m == Min(K)
  <2>5. m \in 1 .. Len(t) /\ t[m] = c BY <1>1, <2>4
  <2>6. \A k \in 1 .. Len(t) : t[k] = c => m <= k BY <1>1, <2>4
  <2> HIDE DEF m
  <2>7. \A k \in 1 .. m - 1 : k \in 1 .. Len(t) /\ ~(m <= k) BY <1>1, <2>5
  <2>8. IndexOf(t, c) = m BY <2>1 DEF m
  <2>9. QED BY <1>1, <2>5, <2>6, <2>7, <2>8
<1>4. QED BY <1>2, <1>3

(* What is before the first occurrence of a token, none of which is it.    *)
LEMMA BeforeFacts ==
  ASSUME NEW S, NEW t \in Seq(S), NEW c
  PROVE  /\ Before(t, c) \in Seq(S)
         /\ Len(Before(t, c)) = IndexOf(t, c) - 1
         /\ \A k \in 1 .. Len(Before(t, c)) : Before(t, c)[k] = t[k] /\ t[k] # c
<1> DEFINE n == IndexOf(t, c)
<1>1. n \in 1 .. Len(t) + 1 /\ \A k \in 1 .. n - 1 : t[k] # c BY IndexFacts
<1>2. Len(t) \in Nat /\ \A k \in 1 .. Len(t) : t[k] \in S BY LenProperties, ElementOfSeq
<1> HIDE DEF n
<1>3. \A k \in 1 .. n - 1 : t[k] \in S BY <1>1, <1>2
<1>4. /\ SubSeq(t, 1, n - 1) \in Seq(S)
      /\ Len(SubSeq(t, 1, n - 1)) = IF 1 <= n - 1 THEN n - 1 - 1 + 1 ELSE 0
      /\ \A k \in 1 .. n - 1 - 1 + 1 : SubSeq(t, 1, n - 1)[k] = t[1 + k - 1]
  BY <1>1, <1>2, <1>3, SubSeqProperties
<1>5. Len(SubSeq(t, 1, n - 1)) = n - 1 BY <1>1, <1>2, <1>4
<1>6. \A k \in 1 .. n - 1 : SubSeq(t, 1, n - 1)[k] = t[k] BY <1>1, <1>2, <1>4
<1>7. QED BY <1>1, <1>4, <1>5, <1>6 DEF Before, n

(* What is after it.                                                       *)
LEMMA AfterFacts ==
  ASSUME NEW S, NEW t \in Seq(S), NEW c
  PROVE  /\ After(t, c) \in Seq(S)
         /\ Len(After(t, c)) = IF IndexOf(t, c) < Len(t) THEN Len(t) - IndexOf(t, c) ELSE 0
         /\ \A k \in 1 .. Len(After(t, c)) : After(t, c)[k] = t[IndexOf(t, c) + k]
<1> DEFINE n == IndexOf(t, c)
<1>1. n \in 1 .. Len(t) + 1 BY IndexFacts
<1>2. Len(t) \in Nat /\ \A k \in 1 .. Len(t) : t[k] \in S BY LenProperties, ElementOfSeq
<1> HIDE DEF n
<1>3. \A k \in n + 1 .. Len(t) : t[k] \in S BY <1>1, <1>2
<1>4. /\ SubSeq(t, n + 1, Len(t)) \in Seq(S)
      /\ Len(SubSeq(t, n + 1, Len(t))) = IF n + 1 <= Len(t) THEN Len(t) - (n + 1) + 1 ELSE 0
      /\ \A k \in 1 .. Len(t) - (n + 1) + 1 : SubSeq(t, n + 1, Len(t))[k] = t[n + 1 + k - 1]
  BY <1>1, <1>2, <1>3, SubSeqProperties
<1>5. Len(SubSeq(t, n + 1, Len(t))) = IF n < Len(t) THEN Len(t) - n ELSE 0
  BY <1>1, <1>2, <1>4
<1>6. \A k \in 1 .. Len(SubSeq(t, n + 1, Len(t))) : SubSeq(t, n + 1, Len(t))[k] = t[n + k]
  BY <1>1, <1>2, <1>4, <1>5
<1>7. QED BY <1>4, <1>5, <1>6 DEF After, n

(* A path is empty for tcp and only for tcp.                               *)
LEMMA PathEmpty ==
  ASSUME NEW r \in RawTargets, Accepts(r)
  PROVE  TargetPath(r) = <<>> <=> Scheme(r) = "tcp"
<1> DEFINE query == ParseQuery(r.tail)
           path == Unescape(ParsePath(r.tail)) \o (IF query # <<>> THEN <<"?">> \o query ELSE <<>>)
<1>1. TargetPath(r) = IF path = <<>> /\ Scheme(r) # "tcp" THEN <<"/">> ELSE path
  BY DEF TargetPath
<1>2. <<"/">> # <<>>
  <2>1. Len(<<"/">>) = 1 /\ Len(<<>>) = 0 OBVIOUS
  <2>2. QED BY <2>1
<1>3. Scheme(r) = "tcp" => path = <<>>
  <2>1. SUFFICES ASSUME Scheme(r) = "tcp" PROVE path = <<>>
    OBVIOUS
  <2>2. ParsePath(r.tail) = <<>> /\ query = <<>> BY <2>1 DEF Accepts
  <2>3. Unescape(<<>>) = <<>>
    <3>1. DOMAIN <<>> = {} OBVIOUS
    <3>2. Unescape(<<>>) = [k \in {} |-> Decoded(<<>>[k])] BY <3>1 DEF Unescape
    <3>3. <<>> = [k \in {} |-> Decoded(<<>>[k])] OBVIOUS
    <3>4. QED BY <3>2, <3>3
  <2>4. QED BY <2>2, <2>3
<1> HIDE DEF path
<1>4. QED BY <1>1, <1>2, <1>3

(* Whatever is typed, a target that is accepted is one the layers can use, *)
(* and one that a report can name.                                         *)
LEMMA AcceptedUsable ==
  ASSUME NEW r \in RawTargets, Accepts(r)
  PROVE  LET t == ParseTarget(r)
         IN  /\ t.scheme \in AllSchemes /\ t.host \in {"name", "v6"}
             /\ t.port \in ValidPorts
             /\ (t.path = <<>>) <=> (t.scheme = "tcp")
             /\ ~t.original.user /\ ParseTarget(t.original) = t
<1> DEFINE t == ParseTarget(r)
<1>1. t = Parsed(r) BY DEF ParseTarget
<1>2. /\ t.scheme = Scheme(r) /\ t.host = r.host /\ t.path = TargetPath(r)
      /\ t.original = Original(r)
      /\ t.port = CHOOSE p \in ResolvePort(r, Scheme(r)) : TRUE
  BY <1>1 DEF Parsed
<1>3. /\ Scheme(r) \in AllSchemes /\ r.host # "missing" /\ ResolvePort(r, Scheme(r)) # {}
  BY DEF Accepts
<1>4. r.host \in {"name", "v6"} BY <1>3 DEF RawTargets
<1>5. t.port \in ValidPorts
  <2>1. (CHOOSE p \in ResolvePort(r, Scheme(r)) : TRUE) \in ResolvePort(r, Scheme(r))
    BY <1>3
  <2>2. QED BY <1>2, <1>3, <2>1, PortInRange
<1>6. ParseTarget(t.original) = t BY <1>1, <1>2, UserIgnored DEF ParseTarget
<1>7. ~t.original.user BY <1>2, UserIgnored
<1> HIDE DEF t
<1>8. QED BY <1>2, <1>3, <1>4, <1>5, <1>6, <1>7, PathEmpty DEF t

(* Without a scheme a target is the one with https:// before it, unless it *)
(* holds "://" further on.                                                 *)
LEMMA DefaultScheme ==
  ASSUME NEW r \in RawTargets, r.scheme = "none"
  PROVE  IF Holds(r.tail, "://") THEN ~Accepts(r)
         ELSE Accepts(r) <=> Accepts([r EXCEPT !.scheme = "https"])
<1> DEFINE h == [r EXCEPT !.scheme = "https"]
<1>1. CASE Holds(r.tail, "://")
  <2>1. Scheme(r) = "none" BY <1>1 DEF Scheme, HadScheme
  <2>2. QED BY <1>1, <2>1 DEF Accepts, AllSchemes
<1>2. CASE ~Holds(r.tail, "://")
  <2>1. /\ h.scheme = "https" /\ h.tail = r.tail /\ h.host = r.host /\ h.port = r.port
    BY DEF RawTargets
  <2> HIDE DEF h
  <2>2. Scheme(r) = "https" /\ Scheme(h) = "https" BY <1>2, <2>1 DEF Scheme, HadScheme
  <2>3. ResolvePort(h, "https") = ResolvePort(r, "https") BY <2>1 DEF ResolvePort
  <2>4. Accepts(r) <=> Accepts(h) BY <2>1, <2>2, <2>3 DEF Accepts
  <2>5. QED BY <1>2, <2>4 DEF h
<1>3. QED BY <1>1, <1>2

(* For every tail and every port: what is accepted can be used, can be     *)
(* typed again, and does not depend on writing https:// out.               *)
THEOREM AcceptedUsableAgain == Spec => []AcceptedTargetsAreUsable
<1>1. ASSUME TargetInv PROVE AcceptedTargetsAreUsable
  <2>1. raw \in RawTargets BY <1>1 DEF TargetInv
  <2>2. target.accepted => target = ParseTarget(raw) /\ Accepts(raw)
    <3>1. Nothing.accepted = FALSE BY DEF Nothing
    <3>2. pc # "typed" => target = ParseTarget(raw) BY <1>1 DEF TargetInv
    <3>3. pc = "typed" => target = Nothing BY <1>1 DEF TargetInv
    <3>4. ~Accepts(raw) => ParseTarget(raw) = Nothing BY DEF ParseTarget
    <3>5. QED BY <3>1, <3>2, <3>3, <3>4
  <2>3. pc # "typed" => (target.accepted <=> Accepts(raw))
    <3>1. pc # "typed" => target = ParseTarget(raw) BY <1>1 DEF TargetInv
    <3>2. Accepts(raw) => ParseTarget(raw).accepted = TRUE BY DEF ParseTarget, Parsed
    <3>3. QED BY <2>2, <3>1, <3>2
  <2>4. QED BY <2>1, <2>2, <2>3, AcceptedUsable, DefaultScheme DEF AcceptedTargetsAreUsable
<1>2. QED BY <1>1, TargetInit, TargetStep, PTL DEF Spec

(***************************************************************************)
(* The second parse.                                                       *)
(***************************************************************************)

(* w is the path p, without "?" and "#", followed by "?" and the query q,  *)
(* without "#", or by nothing if there is no query.                        *)
Writes(S, w, p, q) ==
  /\ \A k \in 1 .. Len(p) : p[k] # "?" /\ p[k] # "#"
  /\ \A k \in 1 .. Len(q) : q[k] # "#"
  /\ \/ q = <<>> /\ w = p
     \/ q # <<>> /\ "?" \in S /\ w = p \o (<<"?">> \o q)

(* Such a text is parsed again to that path and that query.                *)
LEMMA Reparse ==
  ASSUME NEW S, NEW p \in Seq(S), NEW q \in Seq(S), NEW w \in Seq(S), Writes(S, w, p, q)
  PROVE  ParsePath(w) = p /\ ParseQuery(w) = q /\ ParseFragment(w) = <<>>
<1> USE DEF Writes
<1>0. Len(p) \in Nat /\ Len(q) \in Nat /\ Len(w) \in Nat BY LenProperties
<1>1. /\ \A k \in 1 .. Len(p) : w[k] = p[k]
      /\ q = <<>> => Len(w) = Len(p)
      /\ q # <<>> => /\ Len(w) = Len(p) + 1 + Len(q) /\ w[Len(p) + 1] = "?"
                     /\ \A k \in 1 .. Len(q) : w[Len(p) + 1 + k] = q[k]
  <2>1. CASE q = <<>> BY <2>1
  <2>2. CASE q # <<>>
    <3> DEFINE mark == <<"?">>
               rest == mark \o q
    <3>1. mark \in Seq(S) /\ Len(mark) = 1 /\ mark[1] = "?" BY <2>2
    <3> HIDE DEF mark
    <3>2. /\ rest \in Seq(S) /\ Len(rest) = 1 + Len(q) /\ rest[1] = "?"
          /\ \A k \in 1 .. Len(q) : rest[1 + k] = q[k]
      <4>1. /\ rest \in Seq(S) /\ Len(rest) = Len(mark) + Len(q)
            /\ \A k \in 1 .. Len(mark) + Len(q) :
                 rest[k] = IF k <= Len(mark) THEN mark[k] ELSE q[k - Len(mark)]
        BY <3>1, ConcatProperties
      <4> HIDE DEF rest
      <4>2. /\ Len(rest) = 1 + Len(q)
            /\ \A k \in 1 .. 1 + Len(q) : rest[k] = IF k <= 1 THEN mark[k] ELSE q[k - 1]
        BY <3>1, <4>1
      <4>3. rest[1] = "?" BY <1>0, <3>1, <4>2
      <4>4. ASSUME NEW k \in 1 .. Len(q) PROVE rest[1 + k] = q[k]
        <5>1. 1 + k \in 1 .. 1 + Len(q) /\ ~(1 + k <= 1) /\ 1 + k - 1 = k BY <1>0
        <5>2. QED BY <4>2, <5>1
      <4>5. QED BY <4>1, <4>2, <4>3, <4>4
    <3>3. w = p \o rest BY <2>2 DEF mark
    <3> HIDE DEF rest
    <3>4. /\ Len(w) = Len(p) + Len(rest)
          /\ \A k \in 1 .. Len(p) + Len(rest) :
               w[k] = IF k <= Len(p) THEN p[k] ELSE rest[k - Len(p)]
      BY <3>2, <3>3, ConcatProperties
    <3>5. \A k \in 1 .. Len(p) : w[k] = p[k] BY <1>0, <3>2, <3>4
    <3>6. w[Len(p) + 1] = "?" BY <1>0, <3>2, <3>4
    <3>7. ASSUME NEW k \in 1 .. Len(q) PROVE w[Len(p) + 1 + k] = q[k]
      <4>1. /\ Len(p) + 1 + k \in 1 .. Len(p) + Len(rest) /\ ~(Len(p) + 1 + k <= Len(p))
            /\ Len(p) + 1 + k - Len(p) = 1 + k
        BY <1>0, <3>2
      <4>2. w[Len(p) + 1 + k] = rest[Len(p) + 1 + k - Len(p)] BY <3>4, <4>1
      <4>3. QED BY <3>2, <4>1, <4>2
    <3>8. QED BY <1>0, <2>2, <3>2, <3>4, <3>5, <3>6, <3>7
  <2>3. QED BY <2>1, <2>2
<1>2. \A k \in 1 .. Len(w) : w[k] # "#"
  <2>1. SUFFICES ASSUME NEW k \in 1 .. Len(w), w[k] = "#" PROVE FALSE
    OBVIOUS
  <2>2. CASE k <= Len(p) BY <1>0, <1>1, <2>1, <2>2
  <2>3. CASE k > Len(p)
    <3>1. q # <<>> BY <1>0, <1>1, <2>3
    <3>2. k = Len(p) + 1 \/ \E j \in 1 .. Len(q) : k = Len(p) + 1 + j
      <4>1. k - Len(p) - 1 \in 1 .. Len(q) \/ k = Len(p) + 1 BY <1>0, <1>1, <2>3, <3>1
      <4>2. k = Len(p) + 1 + (k - Len(p) - 1) BY <1>0
      <4>3. QED BY <4>1, <4>2
    <3>3. CASE k = Len(p) + 1 BY <1>1, <2>1, <3>1, <3>3
    <3>4. CASE \E j \in 1 .. Len(q) : k = Len(p) + 1 + j
      <4>1. PICK j \in 1 .. Len(q) : k = Len(p) + 1 + j BY <3>4
      <4>2. w[k] = q[j] BY <1>1, <3>1, <4>1
      <4>3. QED BY <2>1, <4>1, <4>2
    <3>5. QED BY <3>2, <3>3, <3>4
  <2>4. QED BY <1>0, <2>2, <2>3
<1>3. IndexOf(w, "#") = Len(w) + 1 BY <1>0, <1>2, IndexFacts
<1>4. Before(w, "#") = w
  <2>1. /\ Before(w, "#") \in Seq(S) /\ Len(Before(w, "#")) = Len(w)
        /\ \A k \in 1 .. Len(w) : Before(w, "#")[k] = w[k]
    BY <1>0, <1>3, BeforeFacts
  <2>2. QED BY <2>1, SeqEqual
<1>5. ParseFragment(w) = <<>>
  <2>1. After(w, "#") \in Seq(S) /\ Len(After(w, "#")) = 0 BY <1>0, <1>3, AfterFacts
  <2>2. QED BY <2>1, EmptySeq DEF ParseFragment
<1>6. IndexOf(w, "?") = Len(p) + 1
  <2> DEFINE n == IndexOf(w, "?")
  <2>1. /\ n \in 1 .. Len(w) + 1 /\ \A k \in 1 .. n - 1 : w[k] # "?"
        /\ n <= Len(w) => w[n] = "?"
    BY IndexFacts
  <2> HIDE DEF n
  <2>2. ~(n <= Len(p))
    <3>1. SUFFICES ASSUME n <= Len(p) PROVE FALSE
      OBVIOUS
    <3>2. n \in 1 .. Len(p) /\ n <= Len(w) BY <1>0, <1>1, <2>1, <3>1
    <3>3. QED BY <1>1, <2>1, <3>2
  <2>3. CASE q = <<>> BY <1>0, <1>1, <2>1, <2>2, <2>3 DEF n
  <2>4. CASE q # <<>>
    <3>1. ~(Len(p) + 1 \in 1 .. n - 1) BY <1>1, <2>1, <2>4
    <3>2. n = Len(p) + 1 BY <1>0, <2>1, <2>2, <3>1
    <3>3. QED BY <3>2 DEF n
  <2>5. QED BY <2>3, <2>4
<1>7. ParsePath(w) = p
  <2>1. /\ Before(w, "?") \in Seq(S) /\ Len(Before(w, "?")) = Len(p)
        /\ \A k \in 1 .. Len(p) : Before(w, "?")[k] = w[k]
    BY <1>0, <1>6, BeforeFacts
  <2>2. Before(w, "?") = p BY <1>1, <2>1, SeqEqual
  <2>3. QED BY <1>4, <2>2 DEF ParsePath
<1>8. ParseQuery(w) = q
  <2> DEFINE a == After(w, "?")
  <2>1. /\ a \in Seq(S)
        /\ Len(a) = IF Len(p) + 1 < Len(w) THEN Len(w) - (Len(p) + 1) ELSE 0
        /\ \A k \in 1 .. Len(a) : a[k] = w[Len(p) + 1 + k]
    BY <1>6, AfterFacts
  <2> HIDE DEF a
  <2>2. Len(a) = Len(q)
    <3>1. q = <<>> => Len(q) = 0 OBVIOUS
    <3>2. q # <<>> => Len(q) > 0 BY <1>0, EmptySeq
    <3>3. QED BY <1>0, <1>1, <2>1, <3>1, <3>2
  <2>3. q # <<>> => \A k \in 1 .. Len(a) : a[k] = q[k] BY <1>1, <2>1, <2>2
  <2>4. q = <<>> => a = <<>> BY <2>1, <2>2, EmptySeq
  <2>5. a = q BY <2>1, <2>2, <2>3, <2>4, SeqEqual
  <2>6. QED BY <1>4, <2>5 DEF ParseQuery, a
<1>9. QED BY <1>5, <1>7, <1>8

(* What the first parse of a tail leaves.                                  *)
LEMMA ParsedParts ==
  ASSUME NEW t \in Seq(Tokens)
  PROVE  /\ ParsePath(t) \in Seq(Tokens) /\ ParseQuery(t) \in Seq(Tokens)
         /\ \A k \in 1 .. Len(ParsePath(t)) : ParsePath(t)[k] # "?" /\ ParsePath(t)[k] # "#"
         /\ \A k \in 1 .. Len(ParseQuery(t)) : ParseQuery(t)[k] # "#"
<1> DEFINE b == Before(t, "#")
           n == IndexOf(b, "?")
<1>1. b \in Seq(Tokens) /\ \A k \in 1 .. Len(b) : b[k] # "#" BY BeforeFacts
<1> HIDE DEF b
<1>2. Len(b) \in Nat /\ n \in 1 .. Len(b) + 1 BY <1>1, LenProperties, IndexFacts
<1>3. /\ Before(b, "?") \in Seq(Tokens)
      /\ Len(Before(b, "?")) = n - 1
      /\ \A k \in 1 .. Len(Before(b, "?")) : Before(b, "?")[k] = b[k] /\ b[k] # "?"
  BY <1>1, BeforeFacts
<1>4. /\ After(b, "?") \in Seq(Tokens)
      /\ Len(After(b, "?")) = IF n < Len(b) THEN Len(b) - n ELSE 0
      /\ \A k \in 1 .. Len(After(b, "?")) : After(b, "?")[k] = b[n + k]
  BY <1>1, AfterFacts
<1> HIDE DEF n
<1>5. \A k \in 1 .. Len(Before(b, "?")) : k \in 1 .. Len(b) BY <1>2, <1>3
<1>6. \A k \in 1 .. Len(After(b, "?")) : n + k \in 1 .. Len(b) BY <1>2, <1>4
<1>7. QED BY <1>1, <1>3, <1>4, <1>5, <1>6 DEF ParsePath, ParseQuery, b

(* Tokens that are not escapes stand for themselves.                       *)
LEMMA PlainUnescape ==
  ASSUME NEW S, NEW p \in Seq(S), \A c \in Escapes : ~Holds(p, c)
  PROVE  Unescape(p) = p
<1>1. DOMAIN p = 1 .. Len(p) /\ p \in [1 .. Len(p) -> S] BY LenProperties
<1>2. \A k \in DOMAIN p : p[k] \notin Escapes BY DEF Holds
<1>3. \A k \in DOMAIN p : Decoded(p[k]) = p[k] BY <1>2 DEF Decoded, Escapes
<1>4. Unescape(p) = [k \in DOMAIN p |-> p[k]] BY <1>3 DEF Unescape
<1>5. QED BY <1>1, <1>4

(* A target with a plain path, once accepted, is parsed again to the same  *)
(* path and query.                                                         *)
LEMMA PlainAgain ==
  ASSUME NEW r \in RawTargets, Accepts(r), Scheme(r) # "tcp",
         \A c \in Escapes : ~Holds(ParsePath(r.tail), c)
  PROVE  /\ Parses(TargetPath(r))
         /\ SameResource(Resource(TargetPath(r)), Named(r))
<1> DEFINE p == ParsePath(r.tail)
           q == ParseQuery(r.tail)
           w == p \o (IF q # <<>> THEN <<"?">> \o q ELSE <<>>)
<1>1. r.tail \in Seq(Tokens) BY TailType DEF RawTargets
<1>2. /\ p \in Seq(Tokens) /\ q \in Seq(Tokens)
      /\ \A k \in 1 .. Len(p) : p[k] # "?" /\ p[k] # "#"
      /\ \A k \in 1 .. Len(q) : q[k] # "#"
  BY <1>1, ParsedParts
<1>3. Unescape(p) = p BY <1>2, PlainUnescape
<1>4. TargetPath(r) = IF w = <<>> THEN <<"/">> ELSE w BY <1>3 DEF TargetPath
<1>5. \A k \in DOMAIN p : p[k] # "%" BY DEF Accepts, Parses, Unescapes
<1>6. Named(r) = [accepted |-> TRUE, path |-> p, query |-> q] BY <1>3 DEF Named, Resource
<1>7. /\ w \in Seq(Tokens)
      /\ \/ q = <<>> /\ w = p
         \/ q # <<>> /\ w = p \o (<<"?">> \o q)
  <2>1. "?" \in Tokens BY DEF Tokens
  <2>2. <<"?">> \in Seq(Tokens) /\ <<>> \in Seq(Tokens) BY <2>1
  <2>3. p \o <<>> = p BY <1>2, ConcatEmptySeq
  <2>4. <<"?">> \o q \in Seq(Tokens) BY <1>2, <2>2, ConcatProperties
  <2>5. CASE q = <<>>
    <3>1. w = p \o <<>> BY <2>5
    <3> HIDE DEF w, p, q
    <3>2. w = p BY <2>3, <3>1
    <3>3. w \in Seq(Tokens) BY <1>2, <3>2
    <3>4. QED BY <2>5, <3>2, <3>3
  <2>6. CASE q # <<>>
    <3>1. w = p \o (<<"?">> \o q) BY <2>6
    <3> HIDE DEF w, p, q
    <3>2. w \in Seq(Tokens) BY <1>2, <2>4, <3>1, ConcatProperties
    <3>3. QED BY <2>6, <3>1, <3>2
  <2>7. QED BY <2>5, <2>6
<1> HIDE DEF w
<1>8. ParsePath(w) = p /\ ParseQuery(w) = q /\ ParseFragment(w) = <<>>
  <2>1. "?" \in Tokens BY DEF Tokens
  <2> HIDE DEF p, q
  <2>2. Writes(Tokens, w, p, q) BY <1>2, <1>7, <2>1 DEF Writes
  <2>3. QED BY <1>2, <1>7, <2>2, Reparse
<1>9. Unescapes(<<>>) BY DEF Unescapes
<1>10. CASE w # <<>>
  <2>1. TargetPath(r) = w BY <1>4, <1>10
  <2>2. Parses(w) BY <1>5, <1>8, <1>9 DEF Parses, Unescapes
  <2>3. Resource(w) = [accepted |-> TRUE, path |-> p, query |-> q] BY <1>3, <1>8 DEF Resource
  <2>4. QED BY <1>6, <2>1, <2>2, <2>3 DEF SameResource
<1>11. CASE w = <<>>
  <2> DEFINE slash == <<"/">>
  <2>1. q = <<>> /\ p = <<>>
    <3>1. q # <<>> => w # <<>>
      <4>1. "?" \in Tokens BY DEF Tokens
      <4>2. <<"?">> \in Seq(Tokens) /\ <<"?">> # <<>> BY <4>1
      <4>3. <<"?">> \o q \in Seq(Tokens) /\ <<"?">> \o q # <<>>
        BY <1>2, <4>2, ConcatProperties, ConcatEqualIffEmpty
      <4>4. QED BY <1>2, <1>7, <4>3, ConcatEqualIffEmpty
    <3>2. QED BY <1>7, <1>11, <3>1
  <2>2. /\ slash \in Seq({"/"}) /\ Len(slash) = 1 /\ slash[1] = "/" OBVIOUS
  <2> HIDE DEF slash
  <2>3. ParsePath(slash) = slash /\ ParseQuery(slash) = <<>> /\ ParseFragment(slash) = <<>>
    <3>1. <<>> \in Seq({"/"}) /\ Len(<<>>) = 0 BY EmptySeq
    <3>2. \A k \in 1 .. Len(slash) : slash[k] # "?" /\ slash[k] # "#" BY <2>2
    <3>3. \A k \in 1 .. Len(<<>>) : <<>>[k] # "#" BY <3>1
    <3>4. Writes({"/"}, slash, slash, <<>>) BY <3>2, <3>3 DEF Writes
    <3>5. QED BY <2>2, <3>1, <3>4, Reparse
  <2>4. TargetPath(r) = slash BY <1>4, <1>11 DEF slash
  <2>5. \A k \in DOMAIN slash : slash[k] = "/" BY <2>2, LenProperties
  <2>6. Parses(slash) BY <1>9, <2>3, <2>5 DEF Parses, Unescapes
  <2>7. Unescape(slash) = slash
    <3>1. \A c \in Escapes : ~Holds(slash, c) BY <2>5 DEF Holds, Escapes
    <3>2. QED BY <2>2, <3>1, PlainUnescape
  <2>8. Resource(slash) = [accepted |-> TRUE, path |-> slash, query |-> <<>>]
    BY <2>3, <2>7 DEF Resource
  <2>9. QED BY <1>6, <2>1, <2>4, <2>6, <2>8 DEF SameResource, slash
<1>12. QED BY <1>10, <1>11

(* Whatever else is in the argument, a target without escapes in its path  *)
(* is refused for a zone only, and what is requested is what was typed.    *)
THEOREM PlainRequested == Spec => []PlainTargetsAreRequested
<1>1. ASSUME TargetInv PROVE PlainTargetsAreRequested
  <2>1. SUFFICES ASSUME \A c \in Escapes : ~Holds(ParsePath(raw.tail), c),
                        pc \in {"requested", "refused"}
                 PROVE  /\ pc = "refused" => address = "zoned"
                        /\ pc = "requested" => SameResource(request, Named(raw))
    BY DEF PlainTargetsAreRequested
  <2>2. raw \in RawTargets /\ Accepts(raw) /\ target = Parsed(raw)
    BY <1>1, <2>1 DEF TargetInv, ParseTarget
  <2>3. target.scheme = Scheme(raw) /\ target.path = TargetPath(raw) BY <2>2 DEF Parsed
  <2>4. Scheme(raw) # "tcp" BY <1>1, <2>1, <2>3 DEF TargetInv, NeedsHTTP
  <2>5. Parses(target.path) /\ SameResource(Resource(target.path), Named(raw))
    BY <2>1, <2>2, <2>3, <2>4, PlainAgain
  <2>6. pc = "refused" => address = "zoned"
    BY <1>1, <2>5 DEF TargetInv, Requestable, HostPortParses
  <2>7. pc = "requested" => request = Resource(target.path) BY <1>1 DEF TargetInv
  <2>8. QED BY <2>5, <2>6, <2>7
<1>2. QED BY <1>1, TargetInit, TargetStep, PTL DEF Spec
===============================================================================
