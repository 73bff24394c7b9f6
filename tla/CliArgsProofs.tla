---------------------------- MODULE CliArgsProofs ----------------------------
(***************************************************************************)
(* Theorems about CliArgs, for argument lists of every length and content: *)
(* separating the positional arguments and parsing the flags apart from    *)
(* them comes to the same as one reading from left to right, the scan of   *)
(* the raw list agrees with it where no value looks like a flag, and one   *)
(* Authorization is sent.                                                  *)
(***************************************************************************)
EXTENDS CliArgs, FiniteSetTheorems, SequenceTheorems, WellFoundedInduction, TLAPS

(***************************************************************************)
(* The positions of the list.                                              *)
(***************************************************************************)

(* What is gathered in q is what the list has at the positions S, in order. *)
Gathers(list, q, S) ==
  \E f \in [1 .. Len(q) -> S] :
    /\ \A m, n \in 1 .. Len(q) : m < n => f[m] < f[n]
    /\ \A k \in S : \E m \in 1 .. Len(q) : f[m] = k
    /\ \A m \in 1 .. Len(q) : q[m] = list[f[m]]

(* The positions before j at which a flag of the name is read.             *)
Said(name, j) == {k \in Having({"flag"}) : k < j /\ args[k].name = name}

AskedBefore(name, j) ==
  Said(name, j) # {} /\ args[Max(Said(name, j))].value # "false"

(***************************************************************************)
(* The inductive invariant.                                                *)
(***************************************************************************)
Text == BoolFlags \cup ValueFlags \cup HelpFlags \cup Texts \cup {"", "bogus", NoValue}

Config ==
  [json : BOOLEAN, pretty : BOOLEAN, version : BOOLEAN, timeout : Text,
   header : Seq(Text), bearer : Text, basic : Text, target : Text]

TypeInv ==
  /\ args \in Seq(Argument) /\ flagArgs \in Seq(Argument) /\ positional \in Seq(Argument)
  /\ pc \in {"split", "flags", "validate", "auth", "done"}
  /\ i \in 1 .. Len(args) + 1
  /\ cfg \in Config

(* The loop of ParseArgs stands where the reading from left to right would *)
(* begin something new, and has told apart what it would.                  *)
SplitInv ==
  /\ pc = "split" =>
       /\ i <= Len(args) => Role[i] = ByItself(args[i])
       /\ Gathers(args, flagArgs, {k \in Having({"flag", "value"}) : k < i})
       /\ Gathers(args, positional, {k \in Having({"word", "rest"}) : k < i})
       /\ ~cfg.json /\ ~cfg.pretty
  /\ pc \in {"flags", "validate", "auth"} => Gathers(args, positional, Having({"word", "rest"}))

(* So does the flag package, in what it was handed: what it has consumed   *)
(* are the flags before some position, and the last of each name decided.  *)
ReadTo(j) ==
  /\ j <= Len(args) => Role[j] # "value"
  /\ Gathers(args, flagArgs, {k \in Having({"flag", "value"}) : k >= j})
  /\ \A k \in Having({"flag"}) :
       k < j /\ args[k].name \in BoolFlags => args[k].value \in {NoValue, "true", "false"}
  /\ cfg.json <=> AskedBefore("json", j)
  /\ cfg.pretty <=> AskedBefore("json-pretty", j)

FlagsInv == pc = "flags" => \E j \in 1 .. Len(args) + 1 : ReadTo(j)

ParsedInv ==
  pc \in {"validate", "auth"} =>
    /\ flagArgs = <<>>
    /\ \A k \in Having({"flag"}) :
         args[k].name \in BoolFlags => args[k].value \in {NoValue, "true", "false"}
    /\ cfg.json <=> Asked("json") \/ Asked("json-pretty")
    /\ cfg.pretty <=> Asked("json-pretty")

(* A configuration that takes its Authorization from the environment has   *)
(* no header given that could be another.                                  *)
AuthInv ==
  /\ pc = "auth" /\ {cfg.bearer, cfg.basic} # {Unset} => DOMAIN headers = {}
  /\ outcome = "config" => pc = "done"
  /\ AuthorizationIsUnambiguous

CliInv == TypeInv /\ SplitInv /\ FlagsInv /\ ParsedInv /\ AuthInv

------------------------------------------------------------------------------
(* The operators.                                                          *)

(* A set of natural numbers has a least element.                           *)
LEMMA LeastOf ==
  ASSUME NEW S \in SUBSET Nat, S # {}
  PROVE  \E m \in S : \A n \in S : m <= n
<1>1. PICK m \in S : \A n \in S : ~(<<n, m>> \in OpToRel(<, Nat))
  BY NatLessThanWellFounded, WFMin
<1>2. \A n \in S : ~(n < m)
  BY <1>1 DEF OpToRel
<1> QED
  BY <1>2

(* And a bounded one a greatest.                                           *)
LEMMA MaxOf ==
  ASSUME NEW n \in Nat, NEW S \in SUBSET (1 .. n), S # {}
  PROVE  Max(S) \in S /\ \A k \in S : k <= Max(S)
<1> DEFINE T == {n - k : k \in S}
<1>1. T \in SUBSET Nat /\ T # {}
  OBVIOUS
<1>2. PICK m \in T : \A t \in T : m <= t
  BY <1>1, LeastOf
<1>3. PICK g \in S : m = n - g
  BY <1>2
<1>4. \A k \in S : g >= k
  <2> TAKE k \in S
  <2>1. m <= n - k
    BY <1>2
  <2> QED
    BY <2>1, <1>3
<1> HIDE DEF T
<1>5. \E x \in S : \A y \in S : x >= y
  BY <1>4
<1>6. Max(S) \in S /\ \A y \in S : Max(S) >= y
  BY <1>5 DEF Max
<1> QED
  BY <1>6

(* The greatest element added to a set is its greatest.                    *)
LEMMA MaxAdded ==
  ASSUME NEW n \in Nat, NEW S \in SUBSET (1 .. n), NEW m \in 1 .. n, \A k \in S : k < m
  PROVE  Max(S \cup {m}) = m
<1>1. S \cup {m} \in SUBSET (1 .. n) /\ S \cup {m} # {}
  OBVIOUS
<1> DEFINE x == Max(S \cup {m})
<1>2. x \in S \cup {m} /\ \A k \in S \cup {m} : k <= x
  BY <1>1, MaxOf
<1> HIDE DEF x
<1>3. m <= x /\ (x = m \/ x < m) /\ x \in Int
  BY <1>2
<1>4. x = m
  BY <1>3
<1> QED
  BY <1>4 DEF x

(* Nothing is gathered from no position, and only from none.               *)
LEMMA GathersNothing ==
  ASSUME NEW list, NEW q, NEW S
  PROVE  /\ Gathers(list, <<>>, {})
         /\ Gathers(list, q, S) /\ q = <<>> => S = {}
<1>1. Gathers(list, <<>>, {})
  <2>1. [k \in 1 .. 0 |-> k] \in [1 .. Len(<<>>) -> {}]
    OBVIOUS
  <2>2. \A m \in 1 .. Len(<<>>) : FALSE
    OBVIOUS
  <2> QED
    BY <2>1, <2>2 DEF Gathers
<1>2. Gathers(list, q, S) /\ q = <<>> => S = {}
  BY DEF Gathers
<1> QED
  BY <1>1, <1>2

(* A stretch of the list gathers its positions.                            *)
LEMMA GathersStretch ==
  ASSUME NEW A, NEW list \in Seq(A), NEW a \in 1 .. Len(list) + 1, NEW b \in a - 1 .. Len(list)
  PROVE  /\ SubSeq(list, a, b) \in Seq(A)
         /\ Gathers(list, SubSeq(list, a, b), a .. b)
<1> DEFINE q == SubSeq(list, a, b)
           f == [m \in 1 .. b - a + 1 |-> a + m - 1]
<1>1. \A k \in a .. b : list[k] \in A
  BY ElementOfSeq
<1>2. /\ q \in Seq(A)
      /\ Len(q) = b - a + 1
      /\ \A m \in 1 .. b - a + 1 : q[m] = list[a + m - 1]
  BY <1>1, SubSeqProperties
<1> HIDE DEF q
<1>3. f \in [1 .. Len(q) -> a .. b]
  <2>1. \A m \in 1 .. b - a + 1 : a + m - 1 \in a .. b
    OBVIOUS
  <2> QED
    BY <2>1, <1>2
<1>4. \A m, n \in 1 .. Len(q) : m < n => f[m] < f[n]
  BY <1>2
<1>5. ASSUME NEW k \in a .. b
      PROVE  \E m \in 1 .. Len(q) : f[m] = k
  <2>1. k - a + 1 \in 1 .. Len(q) /\ a + (k - a + 1) - 1 = k
    BY <1>2
  <2> QED
    BY <2>1, <1>2
<1>6. \A m \in 1 .. Len(q) : q[m] = list[f[m]]
  BY <1>2
<1>7. Gathers(list, q, a .. b)
  BY <1>3, <1>4, <1>5, <1>6 DEF Gathers
<1> QED
  BY <1>2, <1>7 DEF q

(* What lies further on is gathered behind.                                *)
LEMMA GathersBoth ==
  ASSUME NEW A, NEW list, NEW q \in Seq(A), NEW r \in Seq(A),
         NEW S \in SUBSET Int, NEW T \in SUBSET Int,
         Gathers(list, q, S), Gathers(list, r, T), \A s \in S, t \in T : s < t
  PROVE  q \o r \in Seq(A) /\ Gathers(list, q \o r, S \cup T)
<1> DEFINE a == Len(q)
           b == Len(r)
<1>1. PICK f \in [1 .. a -> S] :
        /\ \A m, n \in 1 .. a : m < n => f[m] < f[n]
        /\ \A k \in S : \E m \in 1 .. a : f[m] = k
        /\ \A m \in 1 .. a : q[m] = list[f[m]]
  BY DEF Gathers
<1>2. PICK g \in [1 .. b -> T] :
        /\ \A m, n \in 1 .. b : m < n => g[m] < g[n]
        /\ \A k \in T : \E m \in 1 .. b : g[m] = k
        /\ \A m \in 1 .. b : r[m] = list[g[m]]
  BY DEF Gathers
<1>3. /\ q \o r \in Seq(A) /\ Len(q \o r) = a + b
      /\ \A m \in 1 .. a + b : (q \o r)[m] = IF m <= a THEN q[m] ELSE r[m - a]
      /\ a \in Nat /\ b \in Nat
  BY ConcatProperties
<1> DEFINE h == [m \in 1 .. a + b |-> IF m <= a THEN f[m] ELSE g[m - a]]
<1> HIDE DEF a, b
<1>4. \A m \in 1 .. a + b : IF m <= a THEN m \in 1 .. a ELSE m - a \in 1 .. b
  BY <1>3
<1>5. h \in [1 .. a + b -> S \cup T]
  BY <1>1, <1>2, <1>4
<1>6. ASSUME NEW m \in 1 .. a + b, NEW n \in 1 .. a + b, m < n
      PROVE  h[m] < h[n]
  <2>1. CASE n <= a
    <3>1. m <= a /\ m \in 1 .. a /\ n \in 1 .. a
      BY <2>1, <1>6, <1>3
    <3> QED
      BY <3>1, <2>1, <1>1, <1>6
  <2>2. CASE m > a
    <3>1. ~(n <= a) /\ ~(m <= a) /\ m - a \in 1 .. b /\ n - a \in 1 .. b /\ m - a < n - a
      BY <2>2, <1>6, <1>3
    <3> QED
      BY <3>1, <1>2
  <2>3. CASE m <= a /\ n > a
    <3>1. m \in 1 .. a /\ n - a \in 1 .. b /\ ~(n <= a)
      BY <2>3, <1>3
    <3>2. f[m] \in S /\ g[n - a] \in T
      BY <3>1, <1>1, <1>2
    <3> QED
      BY <3>1, <3>2, <2>3
  <2> QED
    BY <2>1, <2>2, <2>3, <1>3
<1>7. ASSUME NEW k \in S \cup T
      PROVE  \E m \in 1 .. a + b : h[m] = k
  <2>1. CASE k \in S
    <3>1. PICK m \in 1 .. a : f[m] = k
      BY <1>1, <2>1
    <3>2. m \in 1 .. a + b /\ m <= a
      BY <1>3
    <3> QED
      BY <3>1, <3>2
  <2>2. CASE k \in T
    <3>1. PICK m \in 1 .. b : g[m] = k
      BY <1>2, <2>2
    <3>2. m + a \in 1 .. a + b /\ ~(m + a <= a) /\ (m + a) - a = m
      BY <1>3
    <3>3. h[m + a] = k
      BY <3>1, <3>2
    <3> QED
      BY <3>2, <3>3
  <2> QED
    BY <2>1, <2>2
<1>8. ASSUME NEW m \in 1 .. a + b
      PROVE  (q \o r)[m] = list[h[m]]
  BY <1>1, <1>2, <1>3, <1>4
<1> HIDE DEF h
<1>9. Gathers(list, q \o r, S \cup T)
  <2>1. h \in [1 .. Len(q \o r) -> S \cup T]
    BY <1>3, <1>5
  <2>2. \A m, n \in 1 .. Len(q \o r) : m < n => h[m] < h[n]
    BY <1>3, <1>6
  <2>3. \A k \in S \cup T : \E m \in 1 .. Len(q \o r) : h[m] = k
    BY <1>3, <1>7
  <2>4. \A m \in 1 .. Len(q \o r) : (q \o r)[m] = list[h[m]]
    BY <1>3, <1>8
  <2> QED
    BY <2>1, <2>2, <2>3, <2>4, Zenon DEF Gathers
<1> QED
  BY <1>3, <1>9

(* So is the next stretch of the list.                                     *)
LEMMA GathersOn ==
  ASSUME NEW A, NEW list \in Seq(A), NEW q \in Seq(A),
         NEW a \in 1 .. Len(list) + 1, NEW b \in a - 1 .. Len(list),
         NEW S \in SUBSET (1 .. a - 1), Gathers(list, q, S)
  PROVE  Gathers(list, q \o SubSeq(list, a, b), S \cup (a .. b))
<1>1. SubSeq(list, a, b) \in Seq(A) /\ Gathers(list, SubSeq(list, a, b), a .. b)
  BY GathersStretch
<1>2. S \in SUBSET Int /\ a .. b \in SUBSET Int
  OBVIOUS
<1>3. \A s \in S, t \in a .. b : s < t
  <2> TAKE s \in S, t \in a .. b
  <2>1. s \in 1 .. a - 1 /\ t \in Int /\ a <= t
    OBVIOUS
  <2> QED
    BY <2>1
<1> QED
  BY <1>1, <1>2, <1>3, GathersBoth

(* The first of what is gathered is what the list has at the first of the  *)
(* positions, and the rest what it has at the others.                      *)
LEMMA GathersFirst ==
  ASSUME NEW A, NEW list, NEW q \in Seq(A), NEW S \in SUBSET Int,
         Gathers(list, q, S), q # <<>>
  PROVE  \E m \in S :
           /\ \A k \in S : m <= k
           /\ Head(q) = list[m]
           /\ Tail(q) \in Seq(A) /\ Gathers(list, Tail(q), S \ {m})
<1> DEFINE n == Len(q)
           t == Tail(q)
<1>1. PICK f \in [1 .. n -> S] :
        /\ \A a, b \in 1 .. n : a < b => f[a] < f[b]
        /\ \A k \in S : \E a \in 1 .. n : f[a] = k
        /\ \A a \in 1 .. n : q[a] = list[f[a]]
  BY DEF Gathers
<1>2. n \in Nat /\ n > 0 /\ Head(q) = q[1]
  BY EmptySeq
<1>3. t \in Seq(A) /\ Len(t) = n - 1 /\ \A a \in 1 .. n - 1 : t[a] = q[a + 1]
  BY HeadTailProperties
<1> HIDE DEF n, t
<1>4. 1 \in 1 .. n /\ \A a \in 1 .. n - 1 : a + 1 \in 1 .. n /\ 1 < a + 1
  BY <1>2
<1>5. \A a \in 1 .. n : a # 1 => a - 1 \in 1 .. n - 1 /\ (a - 1) + 1 = a /\ 1 < a
  BY <1>2
<1> DEFINE m == f[1]
           g == [a \in 1 .. n - 1 |-> f[a + 1]]
<1>6. m \in S /\ Head(q) = list[m]
  BY <1>1, <1>2, <1>4
<1>7. ASSUME NEW k \in S
      PROVE  m <= k
  <2>1. PICK a \in 1 .. n : f[a] = k
    BY <1>1
  <2>2. a # 1 => m < k
    BY <2>1, <1>1, <1>4, <1>5
  <2>3. m \in Int /\ k \in Int
    BY <1>6
  <2> QED
    BY <2>1, <2>2, <2>3
<1>8. g \in [1 .. n - 1 -> S \ {m}]
  <2>1. \A a \in 1 .. n - 1 : f[a + 1] \in S /\ f[1] < f[a + 1]
    BY <1>1, <1>4
  <2>2. \A a \in 1 .. n - 1 : f[a + 1] # m
    <3> TAKE a \in 1 .. n - 1
    <3>1. m < f[a + 1] /\ m \in Int
      BY <2>1, <1>6
    <3> QED
      BY <3>1
  <2> QED
    BY <2>1, <2>2
<1>9. ASSUME NEW a \in 1 .. n - 1, NEW b \in 1 .. n - 1, a < b
      PROVE  g[a] < g[b]
  <2>1. a + 1 \in 1 .. n /\ b + 1 \in 1 .. n /\ a + 1 < b + 1
    BY <1>2, <1>9
  <2> QED
    BY <2>1, <1>1
<1>10. ASSUME NEW k \in S \ {m}
       PROVE  \E a \in 1 .. n - 1 : g[a] = k
  <2>1. PICK a \in 1 .. n : f[a] = k
    BY <1>1
  <2>2. a - 1 \in 1 .. n - 1 /\ (a - 1) + 1 = a
    BY <2>1, <1>5
  <2>3. g[a - 1] = k
    BY <2>1, <2>2
  <2> QED
    BY <2>2, <2>3
<1>11. \A a \in 1 .. n - 1 : t[a] = list[g[a]]
  BY <1>1, <1>3, <1>4
<1>12. m \in S /\ (\A k \in S : m <= k) /\ Head(q) = list[m]
  BY <1>6, <1>7
<1> HIDE DEF m, g
<1>13. Gathers(list, t, S \ {m})
  <2>1. 1 .. Len(t) = 1 .. n - 1
    BY <1>3
  <2>2. g \in [1 .. Len(t) -> S \ {m}]
    BY <2>1, <1>8
  <2>3. \A a, b \in 1 .. Len(t) : a < b => g[a] < g[b]
    BY <2>1, <1>9
  <2>4. \A k \in S \ {m} : \E a \in 1 .. Len(t) : g[a] = k
    BY <2>1, <1>10
  <2>5. \A a \in 1 .. Len(t) : t[a] = list[g[a]]
    BY <2>1, <1>11
  <2> QED
    BY <2>2, <2>3, <2>4, <2>5, Zenon DEF Gathers
<1> QED
  BY <1>3, <1>12, <1>13 DEF t

(* As many are gathered as there are positions.                            *)
LEMMA GathersCount ==
  ASSUME NEW A, NEW list, NEW q \in Seq(A), NEW S \in SUBSET Int, Gathers(list, q, S)
  PROVE  /\ Len(q) = Cardinality(S)
         /\ \A m \in DOMAIN q : \E k \in S : q[m] = list[k]
<1> DEFINE n == Len(q)
<1>1. PICK f \in [1 .. n -> S] :
        /\ \A a, b \in 1 .. n : a < b => f[a] < f[b]
        /\ \A k \in S : \E a \in 1 .. n : f[a] = k
        /\ \A a \in 1 .. n : q[a] = list[f[a]]
  BY DEF Gathers
<1>2. n \in Nat /\ DOMAIN q = 1 .. n
  BY LenProperties
<1> HIDE DEF n
<1>3. ASSUME NEW a \in 1 .. n, NEW b \in 1 .. n, f[a] = f[b]
      PROVE  a = b
  <2>1. f[a] \in Int /\ f[b] \in Int
    OBVIOUS
  <2>2. ~(f[a] < f[b]) /\ ~(f[b] < f[a])
    BY <2>1, <1>3
  <2>3. ~(a < b) /\ ~(b < a)
    BY <2>2, <1>1
  <2> QED
    BY <2>3
<1>4. f \in Bijection(1 .. n, S)
  BY <1>1, <1>3 DEF Bijection, Injection, Surjection, IsInjective
<1>5. ExistsBijection(1 .. n, S)
  BY <1>4 DEF ExistsBijection
<1>6. Cardinality(S) = n
  BY <1>2, <1>5, FS_CountingElements
<1> QED
  BY <1>1, <1>2, <1>6 DEF n

------------------------------------------------------------------------------
(* The reading from left to right.                                         *)

(* What Role says of one position, given what it says of the one before.   *)
RoleOf(R, k) ==
  IF k = 0 THEN "none"
  ELSE IF R[k - 1] \in {"end", "rest"} THEN "rest"
  ELSE IF R[k - 1] = "flag" /\ TakesNext(args[k - 1]) THEN "value"
  ELSE ByItself(args[k])

(* Every list can be read: of the prefixes that could not there would be a *)
(* shortest, and the reading of the one before it can be continued.        *)
LEMMA ReadingExists ==
  ASSUME NEW len \in Nat
  PROVE  \E R : R = [k \in 0 .. len |-> RoleOf(R, k)]
<1> DEFINE Readable(n) == \E R : R = [k \in 0 .. n |-> RoleOf(R, k)]
           S == {n \in Nat : ~Readable(n)}
<1>1. SUFFICES ASSUME S # {} PROVE FALSE
  OBVIOUS
<1>2. PICK n \in S : \A m \in S : n <= m
  <2>1. S \in SUBSET Nat
    OBVIOUS
  <2> HIDE DEF S
  <2> QED
    BY <1>1, <2>1, LeastOf
<1>3. n \in Nat /\ ~Readable(n)
  OBVIOUS
<1>4. CASE n = 0
  <2> DEFINE R == [k \in 0 .. 0 |-> "none"]
  <2>1. R = [k \in 0 .. 0 |-> RoleOf(R, k)]
    BY DEF RoleOf
  <2> QED
    BY <1>3, <1>4, <2>1
<1>5. CASE n # 0
  <2>1. n - 1 \in Nat /\ ~(n <= n - 1)
    BY <1>3, <1>5
  <2>2. Readable(n - 1)
    BY <1>2, <2>1
  <2>3. PICK R : R = [k \in 0 .. n - 1 |-> RoleOf(R, k)]
    BY <2>2
  <2> DEFINE Q == [k \in 0 .. n |-> IF k < n THEN R[k] ELSE RoleOf(R, k)]
  <2>4. ASSUME NEW k \in 0 .. n
        PROVE  Q[k] = RoleOf(Q, k)
    <3>1. k # 0 => k - 1 \in 0 .. n /\ k - 1 < n
      BY <1>3
    <3>2. k # 0 => Q[k - 1] = R[k - 1]
      BY <3>1
    <3>3. RoleOf(Q, k) = RoleOf(R, k)
      BY <3>2 DEF RoleOf
    <3>4. k < n => k \in 0 .. n - 1
      BY <1>3
    <3>5. k < n => R[k] = RoleOf(R, k)
      BY <3>4, <2>3
    <3> QED
      BY <3>3, <3>5
  <2>5. Q = [k \in 0 .. n |-> RoleOf(Q, k)]
    BY <2>4
  <2> QED
    BY <1>3, <2>5
<1> QED
  BY <1>4, <1>5

(* What the reading says of a position follows from what it says of the    *)
(* one before.                                                             *)
LEMMA RoleFacts ==
  ASSUME args \in Seq(Argument), NEW k \in 1 .. Len(args)
  PROVE  Role[k] = RoleOf(Role, k) /\ Role[0] = "none"
<1>1. Len(args) \in Nat
  OBVIOUS
<1>2. PICK R : R = [n \in 0 .. Len(args) |-> RoleOf(R, n)]
  BY <1>1, ReadingExists
<1>3. Role = [n \in 0 .. Len(args) |-> RoleOf(Role, n)]
  BY <1>2 DEF Role, RoleOf
<1>4. k \in 0 .. Len(args) /\ 0 \in 0 .. Len(args)
  BY <1>1
<1> HIDE DEF Role
<1>5. Role[0] = RoleOf(Role, 0) /\ Role[k] = RoleOf(Role, k)
  BY <1>3, <1>4
<1> QED
  BY <1>5 DEF RoleOf

(* A value follows the flag that takes it, and a flag looks like one.      *)
LEMMA RoleMeans ==
  ASSUME args \in Seq(Argument), NEW k \in 1 .. Len(args)
  PROVE  /\ Role[k] \in {"word", "flag", "value", "end", "rest"}
         /\ Role[k] = "value" <=>
              k - 1 \in 1 .. Len(args) /\ Role[k - 1] = "flag" /\ TakesNext(args[k - 1])
         /\ Role[k] = "rest" <=> k - 1 \in 1 .. Len(args) /\ Role[k - 1] \in {"end", "rest"}
         /\ Role[k] \notin {"value", "rest"} => Role[k] = ByItself(args[k])
         /\ Role[k] = "flag" => Looks(args[k])
<1>1. Role[k] = RoleOf(Role, k) /\ Role[0] = "none"
  BY RoleFacts
<1>2. k # 0 /\ Len(args) \in Nat /\ (k - 1 = 0 \/ k - 1 \in 1 .. Len(args))
  OBVIOUS
<1>3. ByItself(args[k]) \in {"word", "flag", "end"}
  BY DEF ByItself
<1>4. ByItself(args[k]) = "flag" => Looks(args[k])
  BY DEF ByItself
<1>5. k - 1 \notin 1 .. Len(args) => Role[k] = ByItself(args[k])
  BY <1>1, <1>2 DEF RoleOf
<1>6. k - 1 \in 1 .. Len(args) =>
        Role[k] = IF Role[k - 1] \in {"end", "rest"} THEN "rest"
                  ELSE IF Role[k - 1] = "flag" /\ TakesNext(args[k - 1]) THEN "value"
                  ELSE ByItself(args[k])
  BY <1>1, <1>2 DEF RoleOf
<1> QED
  BY <1>3, <1>4, <1>5, <1>6

(* Everything after the terminator is positional.                          *)
LEMMA RestAfterEnd ==
  ASSUME args \in Seq(Argument), NEW e \in 1 .. Len(args), Role[e] = "end"
  PROVE  \A k \in e + 1 .. Len(args) : Role[k] = "rest"
<1> DEFINE S == {k \in e + 1 .. Len(args) : Role[k] # "rest"}
<1>1. SUFFICES ASSUME S # {} PROVE FALSE
  OBVIOUS
<1>2. S \in SUBSET Nat
  OBVIOUS
<1>3. PICK k \in S : \A n \in S : k <= n
  <2> HIDE DEF S
  <2> QED
    BY <1>1, <1>2, LeastOf
<1>4. k \in 1 .. Len(args) /\ k - 1 \in e .. Len(args) /\ ~(k <= k - 1) /\ k - 1 \in 1 .. Len(args)
  OBVIOUS
<1>5. Role[k - 1] \in {"end", "rest"}
  BY <1>3, <1>4
<1>6. Role[k] = "rest"
  BY <1>4, <1>5, RoleMeans
<1> QED
  BY <1>6

(* The same list is read in the same way.                                  *)
LEMMA SameReading ==
  ASSUME UNCHANGED args
  PROVE  /\ Role' = Role
         /\ \A roles : Having(roles)' = Having(roles)
         /\ \A name, j : Said(name, j)' = Said(name, j)
         /\ \A name, j : AskedBefore(name, j)' = AskedBefore(name, j)
         /\ \A name : Asked(name)' = Asked(name)
<1>1. Role' = Role
  BY DEF Role, ByItself, TakesNext, Terminator, Looks
<1> HIDE DEF Role
<1>2. \A roles : Having(roles)' = Having(roles)
  BY <1>1 DEF Having
<1>3. \A name, j : Said(name, j)' = Said(name, j)
  BY <1>2 DEF Said
<1>4. \A name, j : AskedBefore(name, j)' = AskedBefore(name, j)
  BY <1>3 DEF AskedBefore
<1>5. \A name : Asked(name)' = Asked(name)
  BY <1>2 DEF Asked
<1> QED
  BY <1>1, <1>2, <1>3, <1>4, <1>5

------------------------------------------------------------------------------
(* Types.                                                                  *)

(* The parts of an argument are texts.                                     *)
LEMMA ArgumentText ==
  ASSUME NEW a \in Argument
  PROVE  a.name \in Text /\ a.value \in Text /\ TextOf(a) \in Text
  BY DEF Argument, Text, TextOf, Texts

(* The loop begins at the first argument with nothing told apart.          *)
LEMMA InitType == Init => TypeInv
<1> SUFFICES ASSUME Init PROVE TypeInv
  OBVIOUS
<1>1. PICK n \in 0 .. MaxArgs : args \in [1 .. n -> Arguments]
  BY DEF Init
<1>2. args \in Seq(Argument)
  BY <1>1, ArgumentsAssumption, SeqDef
<1>3. <<>> \in Seq(Argument) /\ <<>> \in Seq(Text) /\ Len(args) \in Nat
  BY <1>2
<1>4. cfg \in Config
  <2>1. cfg = [json |-> FALSE, pretty |-> FALSE, version |-> FALSE, timeout |-> "10",
               header |-> <<>>, bearer |-> "", basic |-> "", target |-> ""]
    BY DEF Init, Unset
  <2> QED
    BY <2>1, <1>3 DEF Config, Text, Texts
<1> QED
  BY <1>2, <1>3, <1>4 DEF Init, TypeInv

(* What is not malformed has a value if it needs one.                      *)
LEMMA ValuesAreTexts ==
  ASSUME TypeInv, AtFlag, ~Malformed(Head(flagArgs), Tail(flagArgs)), Head(flagArgs).name \in ValueFlags
  PROVE  /\ Head(flagArgs).value = NoValue => Tail(flagArgs) # <<>>
         /\ ValueOf(Head(flagArgs), Tail(flagArgs)) \in Text
<1>1. flagArgs # <<>> /\ Head(flagArgs) \in Argument /\ Tail(flagArgs) \in Seq(Argument)
  BY HeadTailProperties DEF TypeInv, AtFlag
<1>2. Head(flagArgs).value = NoValue => Tail(flagArgs) # <<>>
  BY DEF Malformed
<1>3. Head(flagArgs).value = NoValue => Head(Tail(flagArgs)) \in Argument
  BY <1>1, <1>2, HeadTailProperties
<1> QED
  BY <1>1, <1>2, <1>3, ArgumentText DEF ValueOf

(* Every step keeps the types; a value is taken only where there is one.   *)
LEMMA NextType == TypeInv /\ [Next]_vars => TypeInv'
<1> SUFFICES ASSUME TypeInv, [Next]_vars PROVE TypeInv'
  OBVIOUS
<1> USE DEF TypeInv
<1>1. CASE SplitFlag
  <2> DEFINE n == IF NeedsValue(args[i]) /\ i < Len(args) THEN 2 ELSE 1
  <2>1. i \in 1 .. Len(args) + 1 /\ i + n - 1 \in i - 1 .. Len(args) /\ i + n \in 1 .. Len(args) + 1
    BY <1>1 DEF SplitFlag
  <2>2. SubSeq(args, i, i + n - 1) \in Seq(Argument)
    BY <2>1, GathersStretch
  <2>3. flagArgs' \in Seq(Argument)
    BY <1>1, <2>2, ConcatProperties DEF SplitFlag
  <2> QED
    BY <1>1, <2>1, <2>3 DEF SplitFlag
<1>2. CASE SplitPositional
  <2>1. /\ i + 1 \in 1 .. Len(args) + 1 /\ Len(args) \in (i + 1) - 1 .. Len(args)
        /\ Len(args) + 1 \in 1 .. Len(args) + 1 /\ args[i] \in Argument
    BY <1>2 DEF SplitPositional
  <2>2. SubSeq(args, i + 1, Len(args)) \in Seq(Argument)
    BY <2>1, GathersStretch
  <2>3. positional \o SubSeq(args, i + 1, Len(args)) \in Seq(Argument)
    BY <2>2, ConcatProperties
  <2>4. Append(positional, args[i]) \in Seq(Argument)
    BY <2>1
  <2> QED
    BY <1>2, <2>1, <2>3, <2>4 DEF SplitPositional
<1>3. CASE Separated
  BY <1>3 DEF Separated
<1>4. CASE FlagError \/ HelpRequested
  BY <1>4 DEF FlagError, HelpRequested, Ends
<1>5. CASE BoolFlag
  <2>1. Tail(flagArgs) \in Seq(Argument)
    BY <1>5, HeadTailProperties DEF BoolFlag, AtFlag
  <2>2. Head(flagArgs).name \in BoolFlags /\ (Head(flagArgs).value # "false") \in BOOLEAN
    BY <1>5 DEF BoolFlag
  <2>3. \A on \in BOOLEAN, name \in BoolFlags : SetBool(name, on) \in Config
    BY DEF SetBool, BoolFlags, Config
  <2>4. cfg' \in Config
    BY <1>5, <2>2, <2>3 DEF BoolFlag
  <2> QED
    BY <1>5, <2>1, <2>4 DEF BoolFlag
<1>6. CASE ValueFlag
  <2>1. Tail(flagArgs) \in Seq(Argument)
    BY <1>6, HeadTailProperties DEF ValueFlag, AtFlag
  <2>2. /\ Head(flagArgs).value = NoValue => Tail(flagArgs) # <<>>
        /\ ValueOf(Head(flagArgs), Tail(flagArgs)) \in Text
    BY <1>6, ValuesAreTexts DEF ValueFlag
  <2>3. Head(flagArgs).value = NoValue => Tail(Tail(flagArgs)) \in Seq(Argument)
    BY <2>1, <2>2, HeadTailProperties
  <2>4. \A text \in Text, name \in ValueFlags : SetText(name, text) \in Config
    <3> TAKE text \in Text, name \in ValueFlags
    <3>1. cfg.header \in Seq(Text)
      BY DEF Config
    <3>2. Append(cfg.header, text) \in Seq(Text)
      BY <3>1
    <3> QED
      BY <3>2 DEF SetText, ValueFlags, Config
  <2>5. cfg' \in Config
    BY <1>6, <2>2, <2>4 DEF ValueFlag
  <2> QED
    BY <1>6, <2>1, <2>3, <2>5 DEF ValueFlag
<1>7. CASE FlagsParsed
  <2>1. cfg' \in Config
    BY <1>7 DEF FlagsParsed, Config
  <2> QED
    BY <1>7, <2>1 DEF FlagsParsed
<1>8. CASE Validate
  <2>1. CASE Invalid
    BY <1>8, <2>1 DEF Validate, Ends
  <2>2. CASE ~Invalid
    <3>1. positional[1] \in Argument
      BY <2>2 DEF Invalid
    <3>2. cfg' \in Config
      BY <1>8, <2>2, <3>1, ArgumentText DEF Validate, Config
    <3> QED
      BY <1>8, <2>2, <3>2 DEF Validate
  <2> QED
    BY <2>1, <2>2
<1>9. CASE ResolveAuth
  BY <1>9 DEF ResolveAuth, Ends
<1>10. CASE UNCHANGED vars
  BY <1>10 DEF vars
<1> QED
  BY <1>1, <1>2, <1>3, <1>4, <1>5, <1>6, <1>7, <1>8, <1>9, <1>10 DEF Next

------------------------------------------------------------------------------
(* The loop of ParseArgs.                                                  *)

(* A flag is told apart together with the value it takes, and only with    *)
(* it.                                                                     *)
LEMMA SplitFlagReads ==
  ASSUME TypeInv, SplitInv, SplitFlag
  PROVE  SplitInv'
<1> DEFINE n == IF NeedsValue(args[i]) /\ i < Len(args) THEN 2 ELSE 1
           Before(roles, j) == {k \in Having(roles) : k < j}
<1>1. /\ args \in Seq(Argument) /\ Len(args) \in Nat /\ i \in 1 .. Len(args)
      /\ flagArgs \in Seq(Argument) /\ pc = "split" /\ pc' = "split"
      /\ UNCHANGED <<args, positional, cfg>> /\ i' = i + n
      /\ flagArgs' = flagArgs \o SubSeq(args, i, i + n - 1)
  BY DEF TypeInv, SplitFlag
<1>2. Role[i] = "flag"
  <2>1. Looks(args[i]) /\ Role[i] = ByItself(args[i])
    BY <1>1 DEF SplitFlag, SplitInv
  <2> QED
    BY <2>1 DEF ByItself, Looks, Terminator
<1>3. NeedsValue(args[i]) <=> TakesNext(args[i])
  BY DEF NeedsValue, TakesNext
<1>4. CASE NeedsValue(args[i]) /\ i < Len(args)
  <2>1. n = 2 /\ i + 1 \in 1 .. Len(args) /\ (i + 1) - 1 = i
    BY <1>4, <1>1
  <2>2. Role[i + 1] = "value"
    BY <1>1, <1>2, <1>3, <1>4, <2>1, RoleMeans
  <2>3. i + 2 <= Len(args) => Role[i + 2] = ByItself(args[i + 2])
    <3>1. i + 2 <= Len(args) => i + 2 \in 1 .. Len(args) /\ (i + 2) - 1 = i + 1
      BY <1>1
    <3> QED
      BY <3>1, <1>1, <2>2, RoleMeans
  <2>4. \A k \in Int : (k < i + 2 <=> k < i \/ k = i \/ k = i + 1) /\ (k \in i .. i + 1 <=> k = i \/ k = i + 1)
    BY <1>1
  <2>5. /\ Before({"flag", "value"}, i + 2) = Before({"flag", "value"}, i) \cup (i .. i + 1)
        /\ Before({"word", "rest"}, i + 2) = Before({"word", "rest"}, i)
    <3>1. DOMAIN args \in SUBSET Int /\ i \in DOMAIN args /\ i + 1 \in DOMAIN args
      BY <1>1, <2>1
    <3>2. \A k : k \in Before({"flag", "value"}, i + 2)
                   <=> k \in Before({"flag", "value"}, i) \/ k \in i .. i + 1
      BY <3>1, <1>2, <2>2, <2>4 DEF Having
    <3>3. \A k : k \in Before({"word", "rest"}, i + 2) <=> k \in Before({"word", "rest"}, i)
      BY <3>1, <1>2, <2>2, <2>4 DEF Having
    <3> HIDE DEF Before
    <3> QED
      BY <3>2, <3>3
  <2>6. i' = i + 2 /\ flagArgs' = flagArgs \o SubSeq(args, i, i + 1) /\ i + 1 \in i - 1 .. Len(args)
    BY <1>1, <2>1
  <2>7. Gathers(args, flagArgs', Before({"flag", "value"}, i + 2))
    <3>1. Before({"flag", "value"}, i) \in SUBSET (1 .. i - 1) /\ i \in 1 .. Len(args) + 1
      BY <1>1 DEF Having
    <3>2. Gathers(args, flagArgs, Before({"flag", "value"}, i))
      BY <1>1 DEF SplitInv
    <3> HIDE DEF Before
    <3>3. Gathers(args, flagArgs \o SubSeq(args, i, i + 1), Before({"flag", "value"}, i) \cup (i .. i + 1))
      BY <1>1, <2>6, <3>1, <3>2, GathersOn
    <3> QED
      BY <2>5, <2>6, <3>3
  <2> QED
    BY <1>1, <2>3, <2>5, <2>6, <2>7, SameReading DEF SplitInv, ByItself, Looks, Terminator
<1>5. CASE ~(NeedsValue(args[i]) /\ i < Len(args))
  <2>1. n = 1
    BY <1>5
  <2>2. i + 1 <= Len(args) => Role[i + 1] = ByItself(args[i + 1])
    <3>1. i + 1 <= Len(args) => i + 1 \in 1 .. Len(args) /\ (i + 1) - 1 = i /\ ~TakesNext(args[i])
      BY <1>1, <1>3, <1>5
    <3> QED
      BY <3>1, <1>1, <1>2, RoleMeans
  <2>3. \A k \in Int : (k < i + 1 <=> k < i \/ k = i) /\ (k \in i .. i <=> k = i)
    BY <1>1
  <2>4. /\ Before({"flag", "value"}, i + 1) = Before({"flag", "value"}, i) \cup (i .. i)
        /\ Before({"word", "rest"}, i + 1) = Before({"word", "rest"}, i)
    BY <1>1, <1>2, <2>3 DEF Having
  <2>5. i' = i + 1 /\ flagArgs' = flagArgs \o SubSeq(args, i, i) /\ i \in i - 1 .. Len(args)
    BY <1>1, <2>1
  <2>6. Gathers(args, flagArgs', Before({"flag", "value"}, i + 1))
    <3>1. Before({"flag", "value"}, i) \in SUBSET (1 .. i - 1) /\ i \in 1 .. Len(args) + 1
      BY <1>1 DEF Having
    <3>2. Gathers(args, flagArgs, Before({"flag", "value"}, i))
      BY <1>1 DEF SplitInv
    <3> HIDE DEF Before
    <3>3. Gathers(args, flagArgs \o SubSeq(args, i, i), Before({"flag", "value"}, i) \cup (i .. i))
      BY <1>1, <2>5, <3>1, <3>2, GathersOn
    <3> QED
      BY <2>4, <2>5, <3>3
  <2> QED
    BY <1>1, <2>2, <2>4, <2>5, <2>6, SameReading DEF SplitInv, ByItself, Looks, Terminator
<1> QED
  BY <1>4, <1>5

(* A word is positional, and so is everything after the terminator.        *)
LEMMA SplitPositionalReads ==
  ASSUME TypeInv, SplitInv, SplitPositional
  PROVE  SplitInv'
<1> DEFINE Before(roles, j) == {k \in Having(roles) : k < j}
<1>1. /\ args \in Seq(Argument) /\ Len(args) \in Nat /\ i \in 1 .. Len(args)
      /\ positional \in Seq(Argument) /\ pc = "split" /\ pc' = "split"
      /\ UNCHANGED <<args, flagArgs, cfg>> /\ ~Looks(args[i])
  BY DEF TypeInv, SplitPositional
<1>2. Role[i] = ByItself(args[i]) /\ Gathers(args, positional, Before({"word", "rest"}, i))
  BY <1>1 DEF SplitInv
<1>3. CASE Terminator(args[i])
  <2>1. Role[i] = "end"
    BY <1>2, <1>3 DEF ByItself, Looks, Terminator
  <2>2. \A k \in i + 1 .. Len(args) : Role[k] = "rest"
    BY <1>1, <2>1, RestAfterEnd
  <2>3. i' = Len(args) + 1 /\ positional' = positional \o SubSeq(args, i + 1, Len(args))
    BY <1>3 DEF SplitPositional
  <2>7. /\ i + 1 \in 1 .. Len(args) + 1 /\ Len(args) \in (i + 1) - 1 .. Len(args)
        /\ ~(Len(args) + 1 <= Len(args))
    BY <1>1
  <2>4. Before({"flag", "value"}, Len(args) + 1) = Before({"flag", "value"}, i)
    BY <1>1, <2>1, <2>2 DEF Having
  <2>5. Before({"word", "rest"}, Len(args) + 1) = Before({"word", "rest"}, i) \cup (i + 1 .. Len(args))
    BY <1>1, <2>1, <2>2 DEF Having
  <2>6. Gathers(args, positional', Before({"word", "rest"}, Len(args) + 1))
    <3>1. Before({"word", "rest"}, i) \in SUBSET (1 .. (i + 1) - 1)
      BY <1>1 DEF Having
    <3> HIDE DEF Before
    <3>2. Gathers(args, positional \o SubSeq(args, i + 1, Len(args)),
                  Before({"word", "rest"}, i) \cup (i + 1 .. Len(args)))
      BY <1>1, <1>2, <2>7, <3>1, GathersOn
    <3> QED
      BY <2>3, <2>5, <3>2
  <2> QED
    BY <1>1, <2>3, <2>4, <2>6, <2>7, SameReading DEF SplitInv
<1>4. CASE ~Terminator(args[i])
  <2>1. Role[i] = "word"
    BY <1>1, <1>2, <1>4 DEF ByItself
  <2>2. i' = i + 1 /\ positional' = Append(positional, args[i]) /\ i \in i - 1 .. Len(args)
    BY <1>1, <1>4 DEF SplitPositional
  <2>3. i + 1 <= Len(args) => Role[i + 1] = ByItself(args[i + 1])
    <3>1. i + 1 <= Len(args) => i + 1 \in 1 .. Len(args) /\ (i + 1) - 1 = i
      BY <1>1
    <3> QED
      BY <3>1, <1>1, <2>1, RoleMeans
  <2>4. \A k \in Int : (k < i + 1 <=> k < i \/ k = i) /\ (k \in i .. i <=> k = i)
    BY <1>1
  <2>5. /\ Before({"flag", "value"}, i + 1) = Before({"flag", "value"}, i)
        /\ Before({"word", "rest"}, i + 1) = Before({"word", "rest"}, i) \cup (i .. i)
    BY <1>1, <2>1, <2>4 DEF Having
  <2>6. Gathers(args, positional', Before({"word", "rest"}, i + 1))
    <3>1. Before({"word", "rest"}, i) \in SUBSET (1 .. i - 1) /\ i \in 1 .. Len(args) + 1
      BY <1>1 DEF Having
    <3>2. Append(positional, args[i]) = positional \o SubSeq(args, i, i)
      <4>1. SubSeq(args, i, i) = <<args[i]>>
        <5>1. SubSeq(args, i, i) = <<args[i]>> \o SubSeq(args, i + 1, i)
          BY <1>1, SubSeqRecursiveFirst
        <5>2. SubSeq(args, i + 1, i) = <<>> /\ <<args[i]>> \in Seq(Argument)
          BY <1>1, SubSeqEmpty
        <5> QED
          BY <5>1, <5>2, ConcatEmptySeq
      <4> QED
        BY <4>1, <1>1
    <3> HIDE DEF Before
    <3>3. Gathers(args, positional \o SubSeq(args, i, i), Before({"word", "rest"}, i) \cup (i .. i))
      BY <1>1, <1>2, <2>2, <3>1, GathersOn
    <3> QED
      BY <2>2, <2>5, <3>2, <3>3
  <2> QED
    BY <1>1, <2>2, <2>3, <2>5, <2>6, SameReading DEF SplitInv, ByItself, Looks, Terminator
<1> QED
  BY <1>3, <1>4

(* Before the first position no flag has been read.                        *)
LEMMA SeparatedReads ==
  ASSUME TypeInv, SplitInv, Separated
  PROVE  SplitInv' /\ FlagsInv'
<1>1. /\ args \in Seq(Argument) /\ Len(args) \in Nat /\ i = Len(args) + 1
      /\ pc = "split" /\ pc' = "flags" /\ UNCHANGED <<args, flagArgs, positional, cfg>>
  BY DEF TypeInv, Separated
<1>2. \A roles : {k \in Having(roles) : k < i} = Having(roles)
  BY <1>1 DEF Having
<1>3. \A roles : {k \in Having(roles) : k >= 1} = Having(roles) /\ {k \in Having(roles) : k < 1} = {}
  BY <1>1 DEF Having
<1>4. \A name : ~AskedBefore(name, 1)
  BY <1>3 DEF AskedBefore, Said
<1>5. 1 <= Len(args) => Role[1] # "value"
  BY <1>1, RoleMeans
<1>6. ReadTo(1)'
  <2>1. Gathers(args, flagArgs, {k \in Having({"flag", "value"}) : k >= 1})
    BY <1>1, <1>2, <1>3 DEF SplitInv
  <2>2. \A k \in Having({"flag"}) : ~(k < 1)
    BY <1>3
  <2>3. (cfg.json <=> AskedBefore("json", 1)) /\ (cfg.pretty <=> AskedBefore("json-pretty", 1))
    BY <1>1, <1>4 DEF SplitInv
  <2>4. ReadTo(1)
    BY <1>5, <2>1, <2>2, <2>3 DEF ReadTo
  <2> QED
    BY <1>1, <2>4, SameReading DEF ReadTo
<1>7. 1 \in (1 .. Len(args) + 1)'
  BY <1>1
<1>8. FlagsInv'
  BY <1>6, <1>7 DEF FlagsInv
<1>9. SplitInv'
  BY <1>1, <1>2, SameReading DEF SplitInv
<1> QED
  BY <1>8, <1>9

------------------------------------------------------------------------------
(* The flag package.                                                       *)

(* From j to n one flag is read, the one at m.                             *)
Advances(j, m, n) ==
  /\ m \in Having({"flag"})
  /\ \A k \in Having({"flag"}) : (k < n <=> k < j \/ k = m) /\ (k < j => k < m)

(* A flag that comes after those read so far decides for its name.         *)
LEMMA AskedAdvances ==
  ASSUME args \in Seq(Argument), NEW j, NEW n, NEW m, Advances(j, m, n), NEW name
  PROVE  AskedBefore(name, n) <=> IF args[m].name = name THEN args[m].value # "false"
                                  ELSE AskedBefore(name, j)
<1>1. Having({"flag"}) \subseteq 1 .. Len(args) /\ Len(args) \in Nat
  BY DEF Having
<1>2. CASE args[m].name = name
  <2>1. Said(name, n) = Said(name, j) \cup {m}
    BY <1>2 DEF Said, Advances
  <2>2. /\ Said(name, j) \in SUBSET (1 .. Len(args)) /\ m \in 1 .. Len(args)
        /\ \A k \in Said(name, j) : k < m
    BY <1>1 DEF Said, Advances
  <2>3. Max(Said(name, n)) = m
    BY <1>1, <2>1, <2>2, MaxAdded
  <2> QED
    BY <1>2, <2>1, <2>3 DEF AskedBefore
<1>3. CASE args[m].name # name
  <2>1. Said(name, n) = Said(name, j)
    BY <1>3 DEF Said, Advances
  <2> QED
    BY <1>3, <2>1 DEF AskedBefore
<1> QED
  BY <1>2, <1>3

(* What is left of the flags begins with the next flag of the list; what   *)
(* follows it is read from the position after it or after its value.       *)
LEMMA NextFlag ==
  ASSUME TypeInv, NEW j \in 1 .. Len(args) + 1, ReadTo(j), flagArgs # <<>>
  PROVE  \E m \in Having({"flag"}) :
           /\ m >= j /\ m + 1 \in 1 .. Len(args) + 1
           /\ Head(flagArgs) = args[m]
           /\ \A k \in Having({"flag"}) : k < m => k < j
           /\ ~TakesNext(args[m]) =>
                /\ m + 1 <= Len(args) => Role[m + 1] # "value"
                /\ Gathers(args, Tail(flagArgs), {k \in Having({"flag", "value"}) : k >= m + 1})
           /\ TakesNext(args[m]) /\ Tail(flagArgs) # <<>> =>
                /\ m + 2 \in 1 .. Len(args) + 1
                /\ m + 1 \notin Having({"flag"})
                /\ m + 2 <= Len(args) => Role[m + 2] # "value"
                /\ Gathers(args, Tail(Tail(flagArgs)), {k \in Having({"flag", "value"}) : k >= m + 2})
<1> DEFINE From(n) == {k \in Having({"flag", "value"}) : k >= n}
<1>1. /\ args \in Seq(Argument) /\ Len(args) \in Nat /\ flagArgs \in Seq(Argument)
      /\ Gathers(args, flagArgs, From(j))
      /\ j <= Len(args) => Role[j] # "value"
  BY DEF TypeInv, ReadTo
<1>2. \A n : From(n) \in SUBSET Int /\ From(n) \in SUBSET (1 .. Len(args))
  BY <1>1 DEF Having
<1>3. \A n : \A k : k \in From(n) <=> k \in 1 .. Len(args) /\ Role[k] \in {"flag", "value"} /\ k >= n
  BY <1>1 DEF Having
<1>4. \A k : k \in Having({"flag"}) <=> k \in 1 .. Len(args) /\ Role[k] = "flag"
  BY <1>1 DEF Having
<1> HIDE DEF From
<1>5. PICK m \in From(j) :
        /\ \A k \in From(j) : m <= k
        /\ Head(flagArgs) = args[m]
        /\ Tail(flagArgs) \in Seq(Argument) /\ Gathers(args, Tail(flagArgs), From(j) \ {m})
  BY <1>1, <1>2, GathersFirst
<1>6. m \in 1 .. Len(args) /\ m >= j /\ Role[m] \in {"flag", "value"}
  BY <1>3, <1>5
<1>7. Role[m] = "flag"
  <2>1. SUFFICES ASSUME Role[m] = "value" PROVE FALSE
    BY <1>6
  <2>2. m - 1 \in 1 .. Len(args) /\ Role[m - 1] = "flag"
    BY <1>1, <1>6, <2>1, RoleMeans
  <2>3. m # j
    BY <1>1, <1>6, <2>1
  <2>4. m - 1 >= j /\ ~(m <= m - 1)
    BY <1>6, <2>3
  <2>5. m - 1 \in From(j)
    BY <1>3, <2>2, <2>4
  <2> QED
    BY <1>5, <2>4, <2>5
<1>8. m \in Having({"flag"}) /\ m + 1 \in 1 .. Len(args) + 1
  BY <1>1, <1>4, <1>6, <1>7
<1>9. ASSUME NEW k \in Having({"flag"}), k < m
      PROVE  k < j
  <2>1. k \in 1 .. Len(args) /\ Role[k] = "flag" /\ ~(m <= k)
    BY <1>4, <1>6, <1>9
  <2>2. k \notin From(j)
    BY <1>5, <2>1
  <2>3. ~(k >= j)
    BY <1>3, <2>1, <2>2
  <2> QED
    BY <2>1, <2>3
<1>10. From(j) \ {m} = From(m + 1)
  <2>1. \A k \in 1 .. Len(args) : k >= m + 1 <=> k >= m /\ k # m
    BY <1>6
  <2>2. \A k : k \in From(j) \ {m} <=> k \in From(m + 1)
    BY <1>3, <1>5, <1>6, <2>1
  <2> QED
    BY <2>2
<1>11. Gathers(args, Tail(flagArgs), From(m + 1))
  BY <1>5, <1>10
<1>12. m + 1 <= Len(args) => m + 1 \in 1 .. Len(args) /\ (m + 1) - 1 = m
  BY <1>6
<1>13. ~TakesNext(args[m]) /\ m + 1 <= Len(args) => Role[m + 1] # "value"
  BY <1>1, <1>7, <1>12, RoleMeans
<1>14. ASSUME TakesNext(args[m]), Tail(flagArgs) # <<>>
       PROVE  /\ m + 2 \in 1 .. Len(args) + 1
              /\ m + 1 \notin Having({"flag"})
              /\ m + 2 <= Len(args) => Role[m + 2] # "value"
              /\ Gathers(args, Tail(Tail(flagArgs)), From(m + 2))
  <2>1. PICK n \in From(m + 1) :
          /\ \A k \in From(m + 1) : n <= k
          /\ Gathers(args, Tail(Tail(flagArgs)), From(m + 1) \ {n})
    BY <1>2, <1>5, <1>11, <1>14, GathersFirst
  <2>2. n \in 1 .. Len(args) /\ n >= m + 1
    BY <1>3, <2>1
  <2>3. m + 1 <= Len(args) /\ m + 1 \in 1 .. Len(args)
    BY <1>6, <2>2
  <2>4. Role[m + 1] = "value"
    BY <1>1, <1>6, <1>7, <1>12, <1>14, <2>3, RoleMeans
  <2>5. m + 1 \in From(m + 1) /\ m + 1 >= m + 1
    BY <1>3, <2>3, <2>4
  <2>6. n = m + 1
    BY <2>1, <2>2, <2>3, <2>5
  <2>7. From(m + 1) \ {n} = From(m + 2)
    <3>1. \A k \in 1 .. Len(args) : k >= m + 2 <=> k >= m + 1 /\ k # n
      BY <1>6, <2>6
    <3>2. \A k : k \in From(m + 1) \ {n} <=> k \in From(m + 2)
      BY <1>3, <3>1
    <3> QED
      BY <3>2
  <2>8. m + 2 \in 1 .. Len(args) + 1 /\ (m + 2 <= Len(args) => m + 2 \in 1 .. Len(args) /\ (m + 2) - 1 = m + 1)
    BY <1>6, <2>3
  <2>9. m + 2 <= Len(args) => Role[m + 2] # "value"
    BY <1>1, <2>4, <2>8, RoleMeans
  <2> QED
    BY <1>4, <2>1, <2>4, <2>7, <2>8, <2>9
<1> QED
  BY <1>5, <1>6, <1>8, <1>9, <1>11, <1>13, <1>14 DEF From

(* A boolean flag is consumed alone and decides for its name.              *)
LEMMA BoolFlagReads ==
  ASSUME TypeInv, FlagsInv, BoolFlag
  PROVE  FlagsInv'
<1> DEFINE a == Head(flagArgs)
<1>1. /\ args \in Seq(Argument) /\ Len(args) \in Nat /\ pc = "flags" /\ pc' = "flags"
      /\ UNCHANGED args /\ flagArgs # <<>> /\ flagArgs' = Tail(flagArgs)
      /\ cfg \in Config /\ cfg' = SetBool(a.name, a.value # "false")
      /\ ~Malformed(a, Tail(flagArgs)) /\ a.name \in BoolFlags
  BY DEF TypeInv, BoolFlag, AtFlag
<1>2. PICK j \in 1 .. Len(args) + 1 : ReadTo(j)
  BY <1>1 DEF FlagsInv
<1> HIDE DEF a
<1>3. PICK m \in Having({"flag"}) :
        /\ m >= j /\ m + 1 \in 1 .. Len(args) + 1
        /\ a = args[m]
        /\ \A k \in Having({"flag"}) : k < m => k < j
        /\ ~TakesNext(args[m]) =>
             /\ m + 1 <= Len(args) => Role[m + 1] # "value"
             /\ Gathers(args, Tail(flagArgs), {k \in Having({"flag", "value"}) : k >= m + 1})
  BY <1>1, <1>2, NextFlag DEF a
<1>4. ~TakesNext(args[m])
  BY <1>1, <1>3 DEF TakesNext, BoolFlags, ValueFlags
<1>5. Having({"flag"}) \subseteq Int /\ m \in Int /\ j \in Int /\ m + 1 \in Int
  BY <1>1, <1>2 DEF Having
<1>6. ASSUME NEW k \in Having({"flag"})
      PROVE  (k < m + 1 <=> k < j \/ k = m) /\ (k < j => k < m)
  <2>1. k < m => k < j
    BY <1>3
  <2>2. k \in Int /\ m \in Int /\ j \in Int /\ m >= j
    BY <1>3, <1>5
  <2> QED
    BY <2>1, <2>2
<1>7. \A name : AskedBefore(name, m + 1) <=> IF a.name = name THEN a.value # "false"
                                             ELSE AskedBefore(name, j)
  <2> TAKE name
  <2>1. Advances(j, m, m + 1)
    BY <1>6 DEF Advances
  <2>2. AskedBefore(name, m + 1) <=> IF args[m].name = name THEN args[m].value # "false"
                                  ELSE AskedBefore(name, j)
    BY <1>1, <2>1, AskedAdvances
  <2> QED
    BY <1>3, <2>2
<1>8. ASSUME NEW k \in Having({"flag"}), k < m + 1, args[k].name \in BoolFlags
      PROVE  args[k].value \in {NoValue, "true", "false"}
  <2>1. CASE k = m
    BY <1>1, <1>3, <2>1 DEF Malformed
  <2>2. CASE k # m
    BY <1>2, <1>6, <1>8, <2>2 DEF ReadTo
  <2> QED
    BY <2>1, <2>2
<1>9. /\ cfg'.json <=> IF a.name = "json" THEN a.value # "false" ELSE cfg.json
      /\ cfg'.pretty <=> IF a.name = "json-pretty" THEN a.value # "false" ELSE cfg.pretty
  BY <1>1 DEF SetBool, Config, BoolFlags
<1>10. (cfg.json <=> AskedBefore("json", j)) /\ (cfg.pretty <=> AskedBefore("json-pretty", j))
  BY <1>2 DEF ReadTo
<1>11. /\ cfg'.json <=> AskedBefore("json", m + 1)
       /\ cfg'.pretty <=> AskedBefore("json-pretty", m + 1)
  BY <1>7, <1>9, <1>10
<1>12. ReadTo(m + 1)'
  BY <1>1, <1>3, <1>4, <1>8, <1>11, SameReading DEF ReadTo
<1>13. m + 1 \in (1 .. Len(args) + 1)'
  BY <1>1, <1>3
<1> QED
  BY <1>12, <1>13 DEF FlagsInv

(* A flag with a value is consumed with it, and is no --json.              *)
LEMMA ValueFlagReads ==
  ASSUME TypeInv, FlagsInv, ValueFlag
  PROVE  FlagsInv'
<1> DEFINE a == Head(flagArgs)
<1>1. /\ args \in Seq(Argument) /\ Len(args) \in Nat /\ pc = "flags" /\ pc' = "flags"
      /\ UNCHANGED args /\ flagArgs # <<>>
      /\ flagArgs' = IF a.value # NoValue THEN Tail(flagArgs) ELSE Tail(Tail(flagArgs))
      /\ cfg \in Config /\ cfg' = SetText(a.name, ValueOf(a, Tail(flagArgs)))
      /\ a.name \in ValueFlags
      /\ a.value = NoValue => Tail(flagArgs) # <<>>
  BY ValuesAreTexts DEF TypeInv, ValueFlag, AtFlag
<1>2. PICK j \in 1 .. Len(args) + 1 : ReadTo(j)
  BY <1>1 DEF FlagsInv
<1> HIDE DEF a
<1>3. PICK m \in Having({"flag"}) :
        /\ m >= j /\ m + 1 \in 1 .. Len(args) + 1
        /\ a = args[m]
        /\ \A k \in Having({"flag"}) : k < m => k < j
        /\ ~TakesNext(args[m]) =>
             /\ m + 1 <= Len(args) => Role[m + 1] # "value"
             /\ Gathers(args, Tail(flagArgs), {k \in Having({"flag", "value"}) : k >= m + 1})
        /\ TakesNext(args[m]) /\ Tail(flagArgs) # <<>> =>
             /\ m + 2 \in 1 .. Len(args) + 1
             /\ m + 1 \notin Having({"flag"})
             /\ m + 2 <= Len(args) => Role[m + 2] # "value"
             /\ Gathers(args, Tail(Tail(flagArgs)), {k \in Having({"flag", "value"}) : k >= m + 2})
  BY <1>1, <1>2, NextFlag DEF a
<1>4. PICK n \in 1 .. Len(args) + 1 :
        /\ n <= Len(args) => Role[n] # "value"
        /\ Gathers(args, flagArgs', {k \in Having({"flag", "value"}) : k >= n})
        /\ n = m + 2 => m + 1 \notin Having({"flag"})
        /\ n = m + 1 \/ n = m + 2
  <2>1. TakesNext(args[m]) <=> a.value = NoValue
    BY <1>1, <1>3 DEF TakesNext
  <2>2. CASE a.value # NoValue
    <3>1. flagArgs' = Tail(flagArgs) /\ m + 1 # m + 2
      BY <1>1, <1>3, <2>2 DEF Having
    <3> QED
      BY <1>3, <2>1, <2>2, <3>1
  <2>3. CASE a.value = NoValue
    <3>1. flagArgs' = Tail(Tail(flagArgs)) /\ Tail(flagArgs) # <<>>
      BY <1>1, <2>3
    <3> QED
      BY <1>3, <2>1, <2>3, <3>1
  <2> QED
    BY <2>2, <2>3
<1>5. Having({"flag"}) \subseteq Int /\ m \in Int /\ j \in Int /\ n \in Int
  BY <1>1, <1>2, <1>4 DEF Having
<1>6. ASSUME NEW k \in Having({"flag"})
      PROVE  (k < n <=> k < j \/ k = m) /\ (k < j => k < m)
  <2>1. k < m => k < j
    BY <1>3
  <2>2. k \in Int /\ m \in Int /\ j \in Int /\ m >= j
    BY <1>3, <1>5
  <2>3. n = m + 1 \/ (n = m + 2 /\ k # m + 1)
    BY <1>4
  <2> QED
    BY <2>1, <2>2, <2>3
<1>7. \A name : AskedBefore(name, n) <=> IF a.name = name THEN a.value # "false"
                                         ELSE AskedBefore(name, j)
  <2> TAKE name
  <2>1. Advances(j, m, n)
    BY <1>6 DEF Advances
  <2>2. AskedBefore(name, n) <=> IF args[m].name = name THEN args[m].value # "false"
                                  ELSE AskedBefore(name, j)
    BY <1>1, <2>1, AskedAdvances
  <2> QED
    BY <1>3, <2>2
<1>8. ASSUME NEW k \in Having({"flag"}), k < n, args[k].name \in BoolFlags
      PROVE  args[k].value \in {NoValue, "true", "false"}
  <2>1. k # m
    BY <1>1, <1>3, <1>8 DEF BoolFlags, ValueFlags
  <2> QED
    BY <1>2, <1>6, <1>8, <2>1 DEF ReadTo
<1>9. a.name # "json" /\ a.name # "json-pretty" /\ cfg'.json = cfg.json /\ cfg'.pretty = cfg.pretty
  BY <1>1 DEF SetText, Config, ValueFlags
<1>10. (cfg.json <=> AskedBefore("json", j)) /\ (cfg.pretty <=> AskedBefore("json-pretty", j))
  BY <1>2 DEF ReadTo
<1>11. /\ cfg'.json <=> AskedBefore("json", n)
       /\ cfg'.pretty <=> AskedBefore("json-pretty", n)
  BY <1>7, <1>9, <1>10
<1>12. ReadTo(n)'
  BY <1>1, <1>4, <1>8, <1>11, SameReading DEF ReadTo
<1>13. n \in (1 .. Len(args) + 1)'
  BY <1>1, <1>4
<1> QED
  BY <1>12, <1>13 DEF FlagsInv

(* When the flag package stops, nothing is left: it would have stopped     *)
(* before only at an argument that is no flag, and it was handed none.     *)
LEMMA FlagsParsedReads ==
  ASSUME TypeInv, FlagsInv, FlagsParsed
  PROVE  ParsedInv'
<1>1. /\ args \in Seq(Argument) /\ Len(args) \in Nat /\ pc = "flags" /\ ~AtFlag
      /\ UNCHANGED <<args, flagArgs>> /\ cfg \in Config
      /\ cfg' = [cfg EXCEPT !.json = @ \/ cfg.pretty]
  BY DEF TypeInv, FlagsParsed
<1>2. PICK j \in 1 .. Len(args) + 1 : ReadTo(j)
  BY <1>1 DEF FlagsInv
<1>3. flagArgs = <<>>
  <2>1. SUFFICES ASSUME flagArgs # <<>> PROVE FALSE
    OBVIOUS
  <2>2. PICK m \in Having({"flag"}) : Head(flagArgs) = args[m]
    BY <1>2, <2>1, NextFlag
  <2>3. m \in 1 .. Len(args) /\ Role[m] = "flag"
    BY <1>1 DEF Having
  <2>4. Looks(args[m])
    BY <1>1, <2>3, RoleMeans
  <2> QED
    BY <1>1, <2>1, <2>2, <2>4 DEF AtFlag
<1>4. {k \in Having({"flag", "value"}) : k >= j} = {}
  BY <1>2, <1>3, GathersNothing DEF ReadTo
<1>5. ASSUME NEW k \in Having({"flag"}) PROVE k < j
  <2>1. k \in Int /\ j \in Int /\ k \in Having({"flag", "value"})
    BY <1>1 DEF Having
  <2>2. ~(k >= j)
    BY <1>4, <2>1
  <2> QED
    BY <2>1, <2>2
<1>6. \A name : AskedBefore(name, j) <=> Asked(name)
  <2> TAKE name
  <2>1. Said(name, j) = {k \in Having({"flag"}) : args[k].name = name}
    BY <1>5 DEF Said
  <2> QED
    BY <2>1 DEF AskedBefore, Asked
<1>7. \A k \in Having({"flag"}) :
        args[k].name \in BoolFlags => args[k].value \in {NoValue, "true", "false"}
  BY <1>2, <1>5 DEF ReadTo
<1>8. (cfg.json <=> Asked("json")) /\ (cfg.pretty <=> Asked("json-pretty"))
  BY <1>2, <1>6 DEF ReadTo
<1>9. cfg'.json = (cfg.json \/ cfg.pretty) /\ cfg'.pretty = cfg.pretty
  BY <1>1 DEF Config
<1>10. (cfg'.json <=> Asked("json") \/ Asked("json-pretty")) /\ (cfg'.pretty <=> Asked("json-pretty"))
  BY <1>8, <1>9
<1> QED
  BY <1>1, <1>3, <1>7, <1>10, SameReading DEF ParsedInv

(* No step but these moves between the readings or changes what they read. *)
LEMMA NextReads ==
  ASSUME TypeInv, SplitInv, FlagsInv, ParsedInv, [Next]_vars
  PROVE  SplitInv' /\ FlagsInv' /\ ParsedInv'
<1>1. CASE SplitFlag
  <2>1. pc' = "split"
    BY <1>1 DEF SplitFlag
  <2> QED
    BY <1>1, <2>1, SplitFlagReads DEF FlagsInv, ParsedInv
<1>2. CASE SplitPositional
  <2>1. pc' = "split"
    BY <1>2 DEF SplitPositional
  <2> QED
    BY <1>2, <2>1, SplitPositionalReads DEF FlagsInv, ParsedInv
<1>3. CASE Separated
  <2>1. pc' = "flags"
    BY <1>3 DEF Separated
  <2> QED
    BY <1>3, <2>1, SeparatedReads DEF ParsedInv
<1>4. CASE pc' = "done"
  BY <1>4 DEF SplitInv, FlagsInv, ParsedInv
<1>5. CASE BoolFlag
  <2>1. pc = "flags" /\ pc' = "flags" /\ UNCHANGED <<args, positional>>
    BY <1>5 DEF BoolFlag
  <2>2. SplitInv' /\ ParsedInv'
    BY <2>1, SameReading DEF SplitInv, ParsedInv
  <2> QED
    BY <1>5, <2>2, BoolFlagReads
<1>6. CASE ValueFlag
  <2>1. pc = "flags" /\ pc' = "flags" /\ UNCHANGED <<args, positional>>
    BY <1>6 DEF ValueFlag
  <2>2. SplitInv' /\ ParsedInv'
    BY <2>1, SameReading DEF SplitInv, ParsedInv
  <2> QED
    BY <1>6, <2>2, ValueFlagReads
<1>7. CASE FlagsParsed
  <2>1. pc = "flags" /\ pc' \in {"done", "validate"} /\ UNCHANGED <<args, positional>>
    BY <1>7 DEF FlagsParsed
  <2>2. SplitInv' /\ FlagsInv'
    BY <2>1, SameReading DEF SplitInv, FlagsInv
  <2> QED
    BY <1>7, <2>2, FlagsParsedReads
<1>8. CASE Validate /\ pc' # "done"
  <2>1. /\ pc = "validate" /\ pc' = "auth" /\ UNCHANGED <<args, flagArgs, positional>>
        /\ cfg' = [cfg EXCEPT !.target = TextOf(positional[1])]
    BY <1>8 DEF Validate, Ends
  <2>2. cfg'.json = cfg.json /\ cfg'.pretty = cfg.pretty
    BY <2>1 DEF TypeInv, Config
  <2> QED
    BY <2>1, <2>2, SameReading DEF SplitInv, FlagsInv, ParsedInv
<1>9. CASE UNCHANGED vars
  <2>1. UNCHANGED <<args, pc, i, flagArgs, positional, cfg>>
    BY <1>9 DEF vars
  <2>2. SplitInv'
    BY <2>1, SameReading DEF SplitInv, ByItself, Looks, Terminator
  <2>3. \A j : ReadTo(j)' <=> ReadTo(j)
    BY <2>1, SameReading DEF ReadTo
  <2>4. FlagsInv'
    BY <2>1, <2>3 DEF FlagsInv
  <2>5. ParsedInv'
    BY <2>1, SameReading DEF ParsedInv
  <2> QED
    BY <2>2, <2>4, <2>5
<1> QED
  BY <1>1, <1>2, <1>3, <1>4, <1>5, <1>6, <1>7, <1>8, <1>9
  DEF Next, FlagError, HelpRequested, ResolveAuth, Validate, Ends

(* Before the loop nothing has been read.                                  *)
LEMMA InitReads == Init => SplitInv /\ FlagsInv /\ ParsedInv
<1> SUFFICES ASSUME Init PROVE SplitInv /\ FlagsInv /\ ParsedInv
  OBVIOUS
<1>1. /\ args \in Seq(Argument) /\ Len(args) \in Nat
      /\ pc = "split" /\ i = 1 /\ flagArgs = <<>> /\ positional = <<>> /\ ~cfg.json /\ ~cfg.pretty
  BY InitType DEF Init, TypeInv
<1>2. \A roles : {k \in Having(roles) : k < i} = {}
  BY <1>1 DEF Having
<1>3. i <= Len(args) => Role[i] = ByItself(args[i])
  BY <1>1, RoleMeans
<1>4. SplitInv
  BY <1>1, <1>2, <1>3, GathersNothing DEF SplitInv
<1> QED
  BY <1>1, <1>4 DEF FlagsInv, ParsedInv

------------------------------------------------------------------------------
(* The Authorization header.                                               *)

(* At first there is no outcome.                                           *)
LEMMA InitAuth == Init => AuthInv
  BY DEF Init, AuthInv, AuthorizationIsUnambiguous

(* What passes the validation and takes its Authorization from the         *)
(* environment has no header that was given at all.                        *)
LEMMA ValidateKeepsAuth ==
  ASSUME TypeInv, Validate, AuthInv
  PROVE  AuthInv'
<1>1. CASE Invalid
  BY <1>1 DEF Validate, Ends, AuthInv, AuthorizationIsUnambiguous
<1>2. CASE ~Invalid
  <2>1. /\ pc' = "auth" /\ outcome' = outcome /\ outcome # "config" /\ cfg \in Config
        /\ headers' = [h \in {HeaderKey(cfg.header[k]) : k \in DOMAIN cfg.header} |-> "given"]
        /\ cfg' = [cfg EXCEPT !.target = TextOf(positional[1])]
    BY <1>2 DEF Validate, AuthInv, TypeInv
  <2>2. cfg'.bearer = cfg.bearer /\ cfg'.basic = cfg.basic
    BY <2>1 DEF Config
  <2>3. {cfg.bearer, cfg.basic} # {Unset} => DOMAIN cfg.header = {}
    BY <1>2 DEF Invalid, AuthConflict
  <2>4. {cfg'.bearer, cfg'.basic} # {Unset} => DOMAIN headers' = {}
    BY <2>1, <2>2, <2>3
  <2> QED
    BY <2>1, <2>4 DEF AuthInv, AuthorizationIsUnambiguous
<1> QED
  BY <1>1, <1>2

(* ResolveAuth puts the only Authorization there is.                       *)
LEMMA ResolveAuthKeepsAuth ==
  ASSUME ResolveAuth, AuthInv
  PROVE  AuthInv'
<1>1. /\ pc = "auth" /\ pc' = "done" /\ UNCHANGED cfg
      /\ \/ outcome' = "error"
         \/ headers' = IF {cfg.bearer, cfg.basic} = {Unset} THEN headers
                       ELSE [h \in DOMAIN headers \cup {"Authorization"} |->
                               IF h = "Authorization" THEN "env" ELSE headers[h]]
  BY DEF ResolveAuth, Ends
<1>2. CASE {cfg.bearer, cfg.basic} = {Unset}
  BY <1>1, <1>2 DEF AuthInv, AuthorizationIsUnambiguous
<1>3. CASE {cfg.bearer, cfg.basic} # {Unset}
  <2>1. DOMAIN headers = {}
    BY <1>1, <1>3 DEF AuthInv
  <2>2. outcome' = "config" => DOMAIN headers' = {"Authorization"} /\ headers'["Authorization"] = "env"
    BY <1>1, <1>3, <2>1
  <2> QED
    BY <1>1, <2>2 DEF AuthInv, AuthorizationIsUnambiguous
<1> QED
  BY <1>2, <1>3

(* The other steps neither give headers nor accept a configuration.        *)
LEMMA NextAuth ==
  ASSUME TypeInv, AuthInv, [Next]_vars
  PROVE  AuthInv'
<1>1. CASE Validate
  BY <1>1, ValidateKeepsAuth
<1>2. CASE ResolveAuth
  BY <1>2, ResolveAuthKeepsAuth
<1>3. CASE UNCHANGED vars
  BY <1>3 DEF vars, AuthInv, AuthorizationIsUnambiguous
<1>4. CASE SplitFlag \/ SplitPositional \/ Separated \/ FlagError \/ HelpRequested
             \/ BoolFlag \/ ValueFlag \/ FlagsParsed
  <2>1. pc # "done" /\ pc' # "auth" /\ outcome' # "config"
    BY <1>4 DEF AuthInv, SplitFlag, SplitPositional, Separated, FlagError, HelpRequested,
                BoolFlag, ValueFlag, FlagsParsed, Ends
  <2> QED
    BY <2>1 DEF AuthInv, AuthorizationIsUnambiguous
<1> QED
  BY <1>1, <1>2, <1>3, <1>4 DEF Next

(* The three readings and the headers, at every step.                      *)
LEMMA Invariance == Spec => []CliInv
<1>1. CliInv /\ [Next]_vars => CliInv'
  BY NextType, NextReads, NextAuth DEF CliInv
<1> QED
  BY <1>1, InitType, InitReads, InitAuth, PTL DEF Spec, CliInv

------------------------------------------------------------------------------
(* The results.                                                            *)

(* cli.go, ParseArgs: splitting an argument list of any length and parsing *)
(* its flags apart from it comes to the same as reading it once.           *)
THEOREM ReadOnce == Spec => []ReadAsOneList
<1>1. CliInv => ReadAsOneList
  <2> SUFFICES ASSUME CliInv, pc \in {"validate", "auth"}
               PROVE  /\ flagArgs = <<>>
                      /\ Len(positional) = Cardinality(Having({"word", "rest"}))
                      /\ \A k \in DOMAIN positional : \E n \in Having({"word", "rest"}) : positional[k] = args[n]
                      /\ cfg.json <=> Asked("json") \/ Asked("json-pretty")
                      /\ cfg.pretty <=> Asked("json-pretty")
    BY DEF ReadAsOneList
  <2>1. /\ positional \in Seq(Argument) /\ args \in Seq(Argument)
        /\ Gathers(args, positional, Having({"word", "rest"}))
    BY DEF CliInv, TypeInv, SplitInv
  <2>2. Having({"word", "rest"}) \in SUBSET Int
    BY <2>1 DEF Having
  <2>3. /\ Len(positional) = Cardinality(Having({"word", "rest"}))
        /\ \A k \in DOMAIN positional : \E n \in Having({"word", "rest"}) : positional[k] = args[n]
    BY <2>1, <2>2, GathersCount
  <2> QED
    BY <2>3 DEF CliInv, ParsedInv
<1> QED
  BY <1>1, Invariance, PTL

(* helpers.go, HasJSONFlag and HasJSONPrettyFlag: where no value looks     *)
(* like a --json flag, the scan of a list of any length sees the form      *)
(* ParseArgs has understood.                                               *)
THEOREM ScanSees == Spec => []ScanAgrees
<1>1. CliInv => ScanAgrees
  <2> SUFFICES ASSUME CliInv, pc \in {"validate", "auth"},
                      \A k \in {k \in DOMAIN args : args[k].name \in {"json", "json-pretty"}} :
                        Role[k] = "flag" /\ args[k].dashes = 2
               PROVE  ScannedForm = ConfiguredForm
    BY DEF ScanAgrees
  <2>1. ASSUME NEW name \in {"json", "json-pretty"}
        PROVE  Scan(name) <=> Asked(name)
    <3>1. Mentions(name) = {k \in Having({"flag"}) : args[k].name = name}
      BY DEF Mentions, Having
    <3>2. CASE Mentions(name) = {}
      BY <3>1, <3>2 DEF Scan, Asked
    <3>3. CASE Mentions(name) # {}
      <4>1. Len(args) \in Nat /\ Mentions(name) \in SUBSET (1 .. Len(args))
        BY DEF CliInv, TypeInv, Mentions
      <4>2. Max(Mentions(name)) \in Mentions(name)
        BY <3>3, <4>1, MaxOf
      <4>3. args[Max(Mentions(name))].value \in {NoValue, "true", "false"}
        BY <3>1, <4>2 DEF CliInv, ParsedInv, BoolFlags
      <4> QED
        BY <3>1, <3>3, <4>3 DEF Scan, Asked, Truthy, NoValue
    <3> QED
      BY <3>2, <3>3
  <2>2. (HasJSONPrettyFlag <=> cfg.pretty) /\ (HasJSONFlag <=> cfg.json)
    BY <2>1 DEF HasJSONPrettyFlag, HasJSONFlag, CliInv, ParsedInv
  <2> QED
    BY <2>2 DEF ScannedForm, ConfiguredForm
<1> QED
  BY <1>1, Invariance, PTL

(* cli.go, ParseArgs and ResolveAuth: whatever headers are given in        *)
(* whatever order, an Authorization from the environment is the only one.  *)
THEOREM AuthorizationSent == Spec => []AuthorizationIsUnambiguous
<1>1. CliInv => AuthorizationIsUnambiguous
  BY DEF CliInv, AuthInv
<1> QED
  BY <1>1, Invariance, PTL

(* How many steps the reading of the list can still take.  Splitting takes *)
(* an argument's two steps off and puts one back for each that is handed   *)
(* to the flag package.                                                    *)
StepsLeft ==
  IF pc = "split" THEN 2 * (Len(args) + 1 - i) + Len(flagArgs) + 4
  ELSE IF pc = "flags" THEN Len(flagArgs) + 3
  ELSE IF pc = "validate" THEN 2
  ELSE IF pc = "auth" THEN 1 ELSE 0

(* The count is one of steps.                                              *)
LEMMA StepsLeftType == TypeInv => StepsLeft \in Nat
<1> SUFFICES ASSUME TypeInv PROVE StepsLeft \in Nat
  OBVIOUS
<1>1. Len(args) \in Nat /\ Len(flagArgs) \in Nat /\ i \in 1 .. Len(args) + 1 BY DEF TypeInv
<1>2. 2 * (Len(args) + 1 - i) \in Nat BY <1>1
<1>3. QED BY <1>1, <1>2 DEF StepsLeft

(* Every step takes from it.                                               *)
LEMMA StepsLeftFalls ==
  ASSUME TypeInv, TypeInv', Next
  PROVE  StepsLeft' < StepsLeft
<1>1. /\ args \in Seq(Argument) /\ flagArgs \in Seq(Argument)
      /\ Len(args) \in Nat /\ Len(flagArgs) \in Nat /\ i \in 1 .. Len(args) + 1
  BY DEF TypeInv
<1>2. args' = args
  BY DEF Next, SplitFlag, SplitPositional, Separated, FlagError, HelpRequested, BoolFlag,
         ValueFlag, FlagsParsed, Validate, ResolveAuth
<1>3. CASE SplitFlag
  <2>1. PICK n \in 1 .. 2 :
          /\ i + n <= Len(args) + 1
          /\ flagArgs' = flagArgs \o SubSeq(args, i, i + n - 1) /\ i' = i + n
    <3>1. i <= Len(args) BY <1>3 DEF SplitFlag
    <3>2. CASE NeedsValue(args[i]) /\ i < Len(args)
      <4>1. flagArgs' = flagArgs \o SubSeq(args, i, i + 2 - 1) /\ i' = i + 2
        BY <1>3, <3>2 DEF SplitFlag
      <4>2. i + 2 <= Len(args) + 1 BY <1>1, <3>2
      <4>3. QED BY <4>1, <4>2
    <3>3. CASE ~(NeedsValue(args[i]) /\ i < Len(args))
      <4>1. flagArgs' = flagArgs \o SubSeq(args, i, i + 1 - 1) /\ i' = i + 1
        BY <1>3, <3>3 DEF SplitFlag
      <4>2. i + 1 <= Len(args) + 1 BY <1>1, <3>1
      <4>3. QED BY <4>1, <4>2
    <3>4. QED BY <3>2, <3>3
  <2>2. Len(SubSeq(args, i, i + n - 1)) = n /\ SubSeq(args, i, i + n - 1) \in Seq(Argument)
    BY <1>1, <2>1, SubSeqProperties
  <2>3. Len(flagArgs') = Len(flagArgs) + n BY <1>1, <2>1, <2>2, ConcatProperties
  <2>4. pc = "split" /\ pc' = "split" BY <1>3 DEF SplitFlag
  <2> DEFINE m == Len(args)
             f == Len(flagArgs)
  <2>5. StepsLeft = 2 * (m + 1 - i) + f + 4 /\ StepsLeft' = 2 * (m + 1 - (i + n)) + (f + n) + 4
    BY <1>2, <2>1, <2>3, <2>4 DEF StepsLeft
  <2> HIDE DEF m, f
  <2>6. m \in Nat /\ f \in Nat /\ i \in Nat /\ n \in 1 .. 2 BY <1>1 DEF m, f
  <2>7. QED BY <2>5, <2>6
<1>4. CASE SplitPositional
  <2>1. pc = "split" /\ pc' = "split" /\ flagArgs' = flagArgs /\ i <= Len(args)
    BY <1>4 DEF SplitPositional
  <2>2. PICK j \in Nat : i' = j /\ i < j
    BY <1>1, <1>4, <2>1 DEF SplitPositional
  <2> DEFINE m == Len(args)
             f == Len(flagArgs)
  <2>3. StepsLeft = 2 * (m + 1 - i) + f + 4 /\ StepsLeft' = 2 * (m + 1 - j) + f + 4
    BY <1>2, <2>1, <2>2 DEF StepsLeft
  <2> HIDE DEF m, f
  <2>4. m \in Nat /\ f \in Nat /\ i \in Nat BY <1>1 DEF m, f
  <2>5. QED BY <2>2, <2>3, <2>4
<1>5. CASE Separated
  <2>1. pc = "split" /\ pc' = "flags" /\ flagArgs' = flagArgs /\ i' = i BY <1>5 DEF Separated
  <2>2. 2 * (Len(args) + 1 - i) \in Nat BY <1>1
  <2>3. QED BY <1>1, <2>1, <2>2 DEF StepsLeft
<1>6. CASE BoolFlag \/ ValueFlag
  <2>1. pc = "flags" /\ pc' = "flags" /\ flagArgs # <<>>
    BY <1>6 DEF BoolFlag, ValueFlag, AtFlag
  <2>2. Len(flagArgs) > 0 /\ Tail(flagArgs) \in Seq(Argument)
        /\ Len(Tail(flagArgs)) = Len(flagArgs) - 1
    BY <1>1, <2>1, EmptySeq, HeadTailProperties
  <2>3. CASE flagArgs' = Tail(flagArgs)
    BY <1>1, <2>1, <2>2, <2>3 DEF StepsLeft
  <2>4. CASE flagArgs' = Tail(Tail(flagArgs)) /\ Tail(flagArgs) # <<>>
    <3>1. Len(Tail(Tail(flagArgs))) = Len(flagArgs) - 2
      BY <1>1, <2>2, <2>4, HeadTailProperties
    <3>2. QED BY <1>1, <2>1, <2>4, <3>1 DEF StepsLeft
  <2>5. BoolFlag => flagArgs' = Tail(flagArgs) BY DEF BoolFlag
  <2>6. ValueFlag => \/ flagArgs' = Tail(flagArgs)
                     \/ flagArgs' = Tail(Tail(flagArgs)) /\ Tail(flagArgs) # <<>>
    BY DEF ValueFlag, Malformed
  <2>7. QED BY <1>6, <2>3, <2>4, <2>5, <2>6
<1>7. CASE FlagError \/ HelpRequested \/ FlagsParsed
  <2>1. pc = "flags" /\ pc' \in {"done", "validate"}
    BY <1>7 DEF FlagError, HelpRequested, FlagsParsed, Ends
  <2>2. QED BY <1>1, <2>1 DEF StepsLeft
<1>8. CASE Validate
  BY <1>8 DEF Validate, Ends, StepsLeft
<1>9. CASE ResolveAuth
  BY <1>9 DEF ResolveAuth, Ends, StepsLeft
<1>10. QED BY <1>3, <1>4, <1>5, <1>6, <1>7, <1>8, <1>9 DEF Next

(* cli.go, ParseArgs and the flag package: both loops come to the end of   *)
(* any list, which takes two steps for an argument at most and four more.  *)
THEOREM ReadingIsBounded ==
  Spec => /\ StepsLeft = 2 * Len(args) + 4
          /\ [](StepsLeft \in Nat)
          /\ [][StepsLeft' < StepsLeft]_vars
<1>1. Init => StepsLeft = 2 * Len(args) + 4
  <2> SUFFICES ASSUME Init PROVE StepsLeft = 2 * Len(args) + 4
    OBVIOUS
  <2>1. pc = "split" /\ i = 1 /\ Len(flagArgs) = 0 BY DEF Init
  <2>2. Len(args) \in Nat BY InitType DEF TypeInv
  <2>3. QED BY <2>1, <2>2 DEF StepsLeft
<1>2. CliInv => TypeInv BY DEF CliInv
<1>3. TypeInv /\ TypeInv' /\ [Next]_vars => [StepsLeft' < StepsLeft]_vars BY StepsLeftFalls
<1>4. QED BY <1>1, <1>2, <1>3, StepsLeftType, Invariance, PTL DEF Spec

==============================================================================
