------------------------- MODULE RedactStreamProofs -------------------------
(***************************************************************************)
(* Theorems about RedactStream, for any alphabet, escapes and secrets, for *)
(* output of any length and for any way to cut it into reads.              *)
(***************************************************************************)
EXTENDS RedactStream, FiniteSetTheorems, SequenceTheorems, TLAPS

-----------------------------------------------------------------------------
(* Induction, with a set in the place of a predicate.                      *)

LEMMA LeastNat ==
  ASSUME NEW T \in SUBSET Nat, T # {}
  PROVE  \E m \in T : \A n \in T : m <= n
<1>1. PICK m \in T : \A n \in T : <<n, m>> \notin OpToRel(<, Nat)
  BY WFMin, NatLessThanWellFounded
<1>2. \A n \in T : ~ (n < m)
  BY <1>1 DEF OpToRel
<1> QED
  BY <1>2

LEMMA UpwardsInduction ==
  ASSUME NEW n \in Nat, NEW S,
         \A k \in 0 .. n : (\A j \in 0 .. n : j < k => j \in S) => k \in S
  PROVE  \A k \in 0 .. n : k \in S
<1> DEFINE T == {k \in 0 .. n : k \notin S}
<1> SUFFICES ASSUME T # {} PROVE FALSE
  OBVIOUS
<1>1. T \in SUBSET Nat
  OBVIOUS
<1>2. PICK m \in T : \A j \in T : m <= j
  BY <1>1, LeastNat
<1>3. \A j \in 0 .. n : j < m => j \in S
  BY <1>2
<1> QED
  BY <1>2, <1>3

LEMMA GreatestExists ==
  ASSUME NEW n \in Nat, NEW S \in SUBSET (0 .. n), S # {}
  PROVE  \E m \in S : \A k \in S : k <= m
<1> DEFINE T == {n - k : k \in S}
<1>1. T \in SUBSET Nat /\ T # {}
  <2>1. \A k \in S : n - k \in Nat
    OBVIOUS
  <2>2. PICK k \in S : TRUE
    OBVIOUS
  <2>3. n - k \in T
    OBVIOUS
  <2> QED
    BY <2>1, <2>3
<1>2. PICK l \in T : \A j \in T : l <= j
  BY <1>1, LeastNat
<1>3. PICK m \in S : l = n - m
  BY <1>2
<1>4. ASSUME NEW k \in S PROVE k <= m
  <2>1. n - k \in T
    OBVIOUS
  <2>2. l <= n - k
    BY <1>2, <2>1
  <2> QED
    BY <1>3, <2>2
<1> QED
  BY <1>4

LEMMA MaxOfBounded ==
  ASSUME NEW n \in Nat, NEW S \in SUBSET (0 .. n), S # {}
  PROVE  MaxOf(S) \in S /\ \A k \in S : k <= MaxOf(S)
  BY GreatestExists DEF MaxOf

\* A function on a finite set of values in Nat has a bound.
LEMMA BoundExists ==
  ASSUME NEW D, IsFiniteSet(D), NEW f \in [D -> Nat]
  PROVE  \E b \in Nat : \A d \in D : f[d] <= b
<1> DEFINE Bounded(E) == \E b \in Nat : \A d \in E : f[d] <= b
           T == {Cardinality(E) : E \in {E \in SUBSET D : ~ Bounded(E)}}
<1> SUFFICES ASSUME ~ Bounded(D) PROVE FALSE
  OBVIOUS
<1>1. T \in SUBSET Nat
  BY FS_Subset, FS_CardinalityType
<1>2. T # {}
  OBVIOUS
<1>3. PICK m \in T : \A j \in T : m <= j
  BY <1>1, <1>2, LeastNat
<1>4. PICK E \in SUBSET D : ~ Bounded(E) /\ m = Cardinality(E)
  BY <1>3
<1>5. PICK x \in E : TRUE
  <2>1. Bounded({})
    OBVIOUS
  <2> QED
    BY <1>4, <2>1
<1>6. IsFiniteSet(E) /\ Cardinality(E) \in Nat
  BY FS_Subset, FS_CardinalityType
<1>7. Cardinality(E \ {x}) = Cardinality(E) - 1
  BY <1>5, <1>6, FS_RemoveElement
<1>8. Bounded(E \ {x})
  <2>1. ~ (m <= Cardinality(E \ {x}))
    BY <1>4, <1>6, <1>7
  <2>2. Cardinality(E \ {x}) \notin T
    BY <1>3, <2>1
  <2>3. E \ {x} \in SUBSET D
    OBVIOUS
  <2> QED
    BY <2>2, <2>3
<1>9. PICK b \in Nat : \A d \in E \ {x} : f[d] <= b
  BY <1>8
<1>10. f[x] \in Nat
  BY <1>5
<1>11. CASE f[x] <= b
  BY <1>4, <1>9, <1>11
<1>12. CASE ~ (f[x] <= b)
  <2>1. \A d \in E : f[d] <= f[x]
    BY <1>9, <1>10, <1>12
  <2> QED
    BY <1>4, <1>10, <2>1
<1> QED
  BY <1>11, <1>12

LEMMA Associative ==
  \A X : \A a, b, c \in Seq(X) : (a \o b) \o c = a \o (b \o c)
BY ConcatAssociative

LEMMA Prepended ==
  ASSUME NEW X, NEW x \in X, NEW rest \in Seq(X)
  PROVE  /\ Len(rest) \in Nat /\ Len(<<x>> \o rest) = 1 + Len(rest)
         /\ (<<x>> \o rest)[1] = x
         /\ \A j \in 2 .. 1 + Len(rest) : (<<x>> \o rest)[j] = rest[j - 1]
<1> DEFINE first == <<x>>
<1>1. first \in Seq(X) /\ Len(first) = 1 /\ first[1] = x
  OBVIOUS
<1> HIDE DEF first
<1>2. Len(rest) \in Nat
  BY LenProperties
<1>3. /\ Len(first \o rest) = Len(first) + Len(rest)
      /\ \A j \in 1 .. Len(first) + Len(rest) :
            (first \o rest)[j] = IF j <= Len(first) THEN first[j] ELSE rest[j - Len(first)]
  BY <1>1, ConcatProperties
<1>4. Len(first \o rest) = 1 + Len(rest) /\ (first \o rest)[1] = x
  BY <1>1, <1>2, <1>3
<1>5. \A j \in 2 .. 1 + Len(rest) : (first \o rest)[j] = rest[j - 1]
  BY <1>1, <1>2, <1>3
<1> QED
  BY <1>2, <1>4, <1>5 DEF first

\* There is a function that is given by its value at 0 and, at k, by its value at
\* a smaller number.
Unfolds(g, n, base, prev, F) ==
    g[0] = base /\ \A k \in 1 .. n : g[k] = F[<<k, g[prev[k]]>>]

Falls(prev, n) == \A k \in 1 .. n : prev[k] < k

LEMMA Recursion ==
  ASSUME NEW n \in Nat, NEW V, NEW base \in V,
         NEW prev \in [1 .. n -> Nat], Falls(prev, n),
         NEW F \in [(1 .. n) \X V -> V]
  PROVE  \E g \in [0 .. n -> V] : Unfolds(g, n, base, prev, F)
<1> USE DEF Unfolds, Falls
<1> DEFINE Up(m, g) == Unfolds(g, m, base, prev, F)
           S == {m \in 0 .. n : \E g \in [0 .. m -> V] : Up(m, g)}
<1> HIDE DEF S
<1>1. ASSUME NEW m \in 0 .. n, \A j \in 0 .. n : j < m => j \in S
      PROVE  m \in S
  <2>1. CASE m = 0
    <3> DEFINE g == [k \in 0 .. 0 |-> base]
    <3>1. g \in [0 .. m -> V] /\ Up(m, g)
      BY <2>1
    <3> QED
      BY <3>1 DEF S
  <2>2. CASE m > 0
    <3>1. m - 1 \in S
      BY <1>1, <2>2
    <3>2. PICK h \in [0 .. m - 1 -> V] : Up(m - 1, h)
      BY <3>1 DEF S
    <3> DEFINE g == [k \in 0 .. m |-> IF k < m THEN h[k] ELSE F[<<m, h[prev[m]]>>]]
    <3>3. m \in 1 .. n /\ prev[m] \in 0 .. m - 1
      BY <2>2
    <3>4. h[prev[m]] \in V
      BY <3>3
    <3>5. g \in [0 .. m -> V]
      BY <3>3, <3>4
    <3>6. g[0] = base
      BY <2>2, <3>2
    <3>7. ASSUME NEW k \in 1 .. m
          PROVE  g[k] = F[<<k, g[prev[k]]>>]
      <4>1. prev[k] \in 0 .. m - 1
        BY <3>3
      <4>2. g[prev[k]] = h[prev[k]]
        BY <4>1
      <4>3. CASE k < m
        BY <3>2, <4>2, <4>3
      <4>4. CASE k = m
        <5>1. g[k] = F[<<m, h[prev[m]]>>]
          BY <4>4
        <5> QED
          BY <4>2, <4>4, <5>1
      <4> QED
        BY <4>3, <4>4
    <3> QED
      BY <3>5, <3>6, <3>7 DEF S
  <2> QED
    BY <2>1, <2>2
<1>2. \A k \in 0 .. n : k \in S
  BY <1>1, UpwardsInduction
<1>3. n \in S
  BY <1>2
<1> QED
  BY <1>3 DEF S

-----------------------------------------------------------------------------
(* The patterns of a Redactor.                                             *)

Symbol == Byte \cup Secret

LEMMA EncodeEquation ==
  ASSUME NEW v \in Seq(Byte)
  PROVE  \E U : /\ percent_encode(v) = U[Len(v)]
                /\ U = [i \in 0 .. Len(v) |-> IF i = 0 THEN <<>> ELSE U[i - 1] \o Escape[v[i]]]
<1> DEFINE n == Len(v)
           Encoded(U) == U = [i \in 0 .. Len(v) |->
                                IF i = 0 THEN <<>> ELSE U[i - 1] \o Escape[v[i]]]
           V == Seq(Byte)
           prev == [i \in 1 .. n |-> i - 1]
           F == [kv \in (1 .. n) \X V |-> kv[2] \o Escape[v[kv[1]]]]
<1>1. n \in Nat /\ <<>> \in V
  BY EmptySeq
<1>2. prev \in [1 .. n -> Nat] /\ Falls(prev, n)
  BY <1>1 DEF Falls
<1>3. F \in [(1 .. n) \X V -> V]
  <2>1. ASSUME NEW kv \in (1 .. n) \X V
        PROVE  kv[2] \o Escape[v[kv[1]]] \in V
    <3>1. kv[1] \in 1 .. n /\ kv[2] \in V
      OBVIOUS
    <3>2. v[kv[1]] \in Byte
      BY <3>1, ElementOfSeq
    <3>3. Escape[v[kv[1]]] \in V
      BY <3>2, RedactionAssumption
    <3> QED
      BY <3>1, <3>3, ConcatProperties
  <2> QED
    BY <2>1
<1> HIDE DEF V, prev, F, n
<1>4. PICK g \in [0 .. n -> V] : Unfolds(g, n, <<>>, prev, F)
  BY <1>1, <1>2, <1>3, Recursion, Zenon
<1>5. Encoded(g)
  <2>1. ASSUME NEW i \in 1 .. n
        PROVE  g[i] = g[i - 1] \o Escape[v[i]]
    <3>1. g[i] = F[<<i, g[i - 1]>>]
      BY <1>4 DEF prev, Unfolds
    <3>2. g[i - 1] \in V
      BY <1>1, <1>4
    <3> QED
      BY <3>1, <3>2 DEF F
  <2>2. g = [i \in 0 .. n |-> IF i = 0 THEN <<>> ELSE g[i - 1] \o Escape[v[i]]]
    BY <1>1, <1>4, <2>1 DEF Unfolds
  <2> QED
    BY <2>2 DEF n
<1>6. Encoded(CHOOSE U : Encoded(U))
  BY <1>5
<1>7. percent_encode(v) = (CHOOSE U : Encoded(U))[Len(v)]
  BY DEF percent_encode
<1> QED
  BY <1>6, <1>7

LEMMA ConcatNonempty ==
  ASSUME NEW X, NEW a \in Seq(X), NEW e \in Seq(X), e # <<>>
  PROVE  a \o e \in Seq(X) /\ Len(a \o e) > 0
<1>1. Len(a) \in Nat /\ Len(e) \in Nat \ {0}
  BY LenProperties, EmptySeq
<1>2. Len(a \o e) = Len(a) + Len(e) /\ a \o e \in Seq(X)
  BY ConcatProperties
<1> QED
  BY <1>1, <1>2

LEMMA EncodeType ==
  ASSUME NEW v \in Seq(Byte)
  PROVE  percent_encode(v) \in Seq(Byte) /\ (Len(v) > 0 => Len(percent_encode(v)) > 0)
<1>1. PICK U : /\ percent_encode(v) = U[Len(v)]
               /\ U = [i \in 0 .. Len(v) |-> IF i = 0 THEN <<>> ELSE U[i - 1] \o Escape[v[i]]]
  BY EncodeEquation
<1> DEFINE n == Len(v)
           S == {k \in 0 .. n : U[k] \in Seq(Byte) /\ (k > 0 => Len(U[k]) > 0)}
<1>2. n \in Nat
  OBVIOUS
<1>3. ASSUME NEW k \in 0 .. n, \A j \in 0 .. n : j < k => j \in S
      PROVE  k \in S
  <2>1. CASE k = 0
    BY <1>1, <2>1, EmptySeq
  <2>2. CASE k > 0
    <3>1. U[k - 1] \in Seq(Byte)
      BY <1>3, <2>2
    <3>2. v[k] \in Byte
      BY <2>2
    <3>3. Escape[v[k]] \in Seq(Byte) /\ Escape[v[k]] # <<>>
      BY <3>2, RedactionAssumption
    <3>4. U[k] = U[k - 1] \o Escape[v[k]]
      BY <1>1, <2>2
    <3>5. Len(U[k - 1] \o Escape[v[k]]) > 0 /\ U[k - 1] \o Escape[v[k]] \in Seq(Byte)
      BY <3>1, <3>3, ConcatNonempty
    <3> QED
      BY <3>4, <3>5
  <2> QED
    BY <2>1, <2>2
<1> HIDE DEF S
<1>4. \A k \in 0 .. n : k \in S
  BY <1>2, <1>3, UpwardsInduction
<1> QED
  BY <1>1, <1>2, <1>4 DEF S

\* Every pattern is a nonempty string of bytes and stands for a secret.
LEMMA PatternType ==
  ASSUME NEW p \in Patterns
  PROVE  p \in Seq(Byte) /\ Len(p) \in Nat /\ Len(p) > 0 /\ NameOf(p) \in Secret
<1>1. PICK n \in Redactable : p \in {ValueOf[n], percent_encode(ValueOf[n])}
  BY DEF Patterns
<1>2. NameOf(p) \in Redactable
  BY <1>1 DEF NameOf
<1>3. n \in Secret /\ ValueOf[n] \in Seq(Byte) /\ Len(ValueOf[n]) > 0
  BY <1>1, RedactionAssumption DEF Redactable
<1>4. p \in Seq(Byte) /\ Len(p) > 0
  BY <1>1, <1>3, EncodeType
<1> QED
  BY <1>2, <1>4 DEF Redactable

\* No pattern is longer than hold_back plus one.
LEMMA HoldBackBounds ==
  hold_back \in Nat /\ \A p \in Patterns : Len(p) <= hold_back + 1
<1>1. CASE Patterns = {}
  BY <1>1 DEF hold_back
<1>2. CASE Patterns # {}
  <2> DEFINE values == [n \in Redactable |-> Len(ValueOf[n])]
             encoded == [n \in Redactable |-> Len(percent_encode(ValueOf[n]))]
             L == {Len(p) : p \in Patterns}
  <2>1. IsFiniteSet(Redactable)
    BY RedactionAssumption, FS_Subset DEF Redactable
  <2>2. values \in [Redactable -> Nat] /\ encoded \in [Redactable -> Nat]
    <3>1. ASSUME NEW n \in Redactable
          PROVE  Len(ValueOf[n]) \in Nat /\ Len(percent_encode(ValueOf[n])) \in Nat
      <4>1. ValueOf[n] \in Patterns /\ percent_encode(ValueOf[n]) \in Patterns
        BY DEF Patterns
      <4> QED
        BY <4>1, PatternType
    <3> QED
      BY <3>1
  <2> HIDE DEF values, encoded
  <2>3. PICK b \in Nat : \A n \in Redactable : values[n] <= b
    BY <2>1, <2>2, BoundExists
  <2>4. PICK c \in Nat : \A n \in Redactable : encoded[n] <= c
    BY <2>1, <2>2, BoundExists
  <2>5. ASSUME NEW p \in Patterns
        PROVE  Len(p) \in 0 .. b + c
    <3>1. PICK n \in Redactable : p \in {ValueOf[n], percent_encode(ValueOf[n])}
      BY DEF Patterns
    <3>2. Len(p) <= b \/ Len(p) <= c
      BY <2>3, <2>4, <3>1 DEF values, encoded
    <3> QED
      BY <3>2, PatternType
  <2>6. L \in SUBSET (0 .. b + c) /\ L # {} /\ b + c \in Nat
    <3>1. PICK p \in Patterns : TRUE
      BY <1>2
    <3>2. Len(p) \in L
      OBVIOUS
    <3>3. L \in SUBSET (0 .. b + c)
      BY <2>5
    <3>4. b + c \in Nat
      OBVIOUS
    <3> QED
      BY <3>2, <3>3, <3>4
  <2>7. MaxOf(L) \in L /\ \A k \in L : k <= MaxOf(L)
    BY <2>6, MaxOfBounded
  <2>8. MaxOf(L) > 0 /\ MaxOf(L) \in Nat
    BY <2>7, PatternType
  <2>9. hold_back = MaxOf(L) - 1
    BY <1>2 DEF hold_back
  <2> HIDE DEF L
  <2>10. \A p \in Patterns : Len(p) <= MaxOf(L)
    BY <2>7 DEF L
  <2> QED
    BY <2>8, <2>9, <2>10, PatternType
<1> QED
  BY <1>1, <1>2

-----------------------------------------------------------------------------
(* Matches.  A text is a sequence of symbols: bytes, and in what is        *)
(* forwarded also placeholders.                                            *)

\* p stands in buf at place i.
StandsAt(p, buf, i) ==
    i + Len(p) - 1 <= Len(buf) /\ \A j \in 1 .. Len(p) : buf[i + j - 1] = p[j]

LEMMA PatternsAtPointwise ==
  ASSUME NEW buf \in Seq(Symbol), NEW i \in Nat \ {0}
  PROVE  PatternsAt(buf, i) = {p \in Patterns : StandsAt(p, buf, i)}
<1> SUFFICES ASSUME NEW p \in Patterns, i + Len(p) - 1 <= Len(buf)
             PROVE  (SubSeq(buf, i, i + Len(p) - 1) = p)
                       <=> \A j \in 1 .. Len(p) : buf[i + j - 1] = p[j]
  BY DEF PatternsAt, StandsAt
<1> DEFINE w == SubSeq(buf, i, i + Len(p) - 1)
<1>1. p \in Seq(Symbol) /\ Len(p) \in Nat /\ Len(p) > 0
  BY PatternType, SeqMonotonic DEF Symbol
<1>2. \A j \in i .. i + Len(p) - 1 : buf[j] \in Symbol
  BY <1>1, ElementOfSeq
<1>3. /\ w \in Seq(Symbol) /\ Len(w) = Len(p)
      /\ \A j \in 1 .. Len(p) : w[j] = buf[i + j - 1]
  <2>1. i \in Int /\ i + Len(p) - 1 \in Int /\ i <= i + Len(p) - 1
    BY <1>1
  <2>2. /\ w \in Seq(Symbol)
        /\ Len(w) = (i + Len(p) - 1) - i + 1
        /\ \A j \in 1 .. (i + Len(p) - 1) - i + 1 : w[j] = buf[i + j - 1]
    BY <1>2, <2>1, SubSeqProperties
  <2> QED
    BY <1>1, <2>2
<1> HIDE DEF w
<1>4. (w = p) <=> \A j \in 1 .. Len(p) : w[j] = p[j]
  BY <1>1, <1>3, SeqEqual
<1> QED
  BY <1>3, <1>4 DEF w

\* Of some patterns that stand at one place there is a longest.
LEMMA MatchAtType ==
  ASSUME NEW buf \in Seq(Symbol), NEW i \in 1 .. Len(buf), PatternsAt(buf, i) # {}
  PROVE  /\ MatchAt(buf, i) \in PatternsAt(buf, i)
         /\ MatchAt(buf, i) \in Patterns
         /\ Len(MatchAt(buf, i)) \in 1 .. Len(buf) - i + 1
<1> DEFINE S == PatternsAt(buf, i)
           L == {Len(p) : p \in S}
<1>1. Len(buf) \in Nat
  BY LenProperties
<1>2. \A p \in S : p \in Patterns /\ Len(p) \in 1 .. Len(buf) - i + 1
  BY <1>1, PatternType DEF PatternsAt
<1>3. L \in SUBSET (0 .. Len(buf)) /\ L # {}
  <2>1. PICK p \in S : TRUE
    OBVIOUS
  <2>2. Len(p) \in L
    OBVIOUS
  <2>3. \A q \in S : Len(q) \in 0 .. Len(buf)
    BY <1>1, <1>2
  <2> HIDE DEF S
  <2> QED
    BY <2>2, <2>3
<1> HIDE DEF S
<1>4. PICK m \in L : \A k \in L : k <= m
  BY <1>1, <1>3, GreatestExists
<1>5. \E p \in S : \A q \in S : Len(q) <= Len(p)
  BY <1>4
<1>6. Longest(S) \in S
  BY <1>5 DEF Longest
<1> QED
  BY <1>2, <1>6 DEF MatchAt, S

\* What the search makes of place i, and how far it goes on.
SymbolAt(buf, i) == IF PatternsAt(buf, i) = {} THEN buf[i] ELSE NameOf(MatchAt(buf, i))

Width(buf, i) == IF PatternsAt(buf, i) = {} THEN 1 ELSE Len(MatchAt(buf, i))

LEMMA PlaceType ==
  ASSUME NEW buf \in Seq(Byte), NEW i \in 1 .. Len(buf)
  PROVE  /\ SymbolAt(buf, i) \in Symbol
         /\ Width(buf, i) \in 1 .. Len(buf) - i + 1
         /\ Width(buf, i) <= hold_back + 1
<1>1. buf \in Seq(Symbol) /\ Len(buf) \in Nat /\ buf[i] \in Byte
  BY SeqMonotonic, LenProperties, ElementOfSeq DEF Symbol
<1>2. CASE PatternsAt(buf, i) = {}
  BY <1>1, <1>2, HoldBackBounds DEF SymbolAt, Width, Symbol
<1>3. CASE PatternsAt(buf, i) # {}
  BY <1>1, <1>3, MatchAtType, PatternType, HoldBackBounds DEF SymbolAt, Width, Symbol
<1> QED
  BY <1>2, <1>3

LEMMA StopsIsWidth ==
  ASSUME NEW buf \in Seq(Byte), NEW i \in 1 .. Len(buf), NEW safe \in Nat
  PROVE  Stops(buf, i, safe) <=> i + Width(buf, i) - 1 > safe
<1>1. Width(buf, i) \in Nat /\ Width(buf, i) > 0
  BY PlaceType
<1> QED
  BY <1>1 DEF Stops, Width

-----------------------------------------------------------------------------
(* The searches, which are recursive functions: they satisfy their         *)
(* equations, and what they return has a type.                             *)

RedactionsEquation(R, s) ==
    /\ R[0] = <<>>
    /\ \A k \in 1 .. Len(s) :
          LET i == Len(s) - k + 1 IN R[k] = <<SymbolAt(s, i)>> \o R[k - Width(s, i)]

LEMMA RedactionsRecursive ==
  ASSUME NEW s \in Seq(Byte)
  PROVE  RedactionsEquation(Redactions(s), s)
<1> DEFINE n == Len(s)
           Body(R, k) == LET i == Len(s) - k + 1 IN
                         IF k = 0 THEN <<>>
                         ELSE IF PatternsAt(s, i) = {} THEN <<s[i]>> \o R[k - 1]
                         ELSE <<NameOf(MatchAt(s, i))>> \o R[k - Len(MatchAt(s, i))]
           Solves(R) == R = [k \in 0 .. Len(s) |-> Body(R, k)]
           V == Seq(Symbol)
           prev == [k \in 1 .. n |-> k - Width(s, n - k + 1)]
           F == [kv \in (1 .. n) \X V |-> <<SymbolAt(s, n - kv[1] + 1)>> \o kv[2]]
<1>1. n \in Nat /\ <<>> \in V
  BY EmptySeq
<1>2. \A k \in 1 .. n : n - k + 1 \in 1 .. n
  BY <1>1
<1>3. prev \in [1 .. n -> Nat] /\ Falls(prev, n)
  <2>1. \A k \in 1 .. n : Width(s, n - k + 1) \in 1 .. n - (n - k + 1) + 1
    BY <1>2, PlaceType
  <2>2. \A k \in 1 .. n : k - Width(s, n - k + 1) \in Nat /\ k - Width(s, n - k + 1) < k
    BY <1>1, <2>1
  <2> QED
    BY <2>2 DEF Falls
<1>4. F \in [(1 .. n) \X V -> V]
  <2>1. ASSUME NEW kv \in (1 .. n) \X V
        PROVE  <<SymbolAt(s, n - kv[1] + 1)>> \o kv[2] \in V
    <3>1. kv[1] \in 1 .. n /\ kv[2] \in V
      OBVIOUS
    <3>2. SymbolAt(s, n - kv[1] + 1) \in Symbol
      BY <1>2, <3>1, PlaceType
    <3>3. <<SymbolAt(s, n - kv[1] + 1)>> \in V
      BY <3>2
    <3> QED
      BY <3>1, <3>3, ConcatProperties
  <2> QED
    BY <2>1
<1> HIDE DEF V, prev, F
<1>5. PICK g \in [0 .. n -> V] : Unfolds(g, n, <<>>, prev, F)
  BY <1>1, <1>3, <1>4, Recursion, Zenon
<1>6. ASSUME NEW R, NEW k \in 1 .. n
      PROVE  Body(R, k) = <<SymbolAt(s, n - k + 1)>> \o R[k - Width(s, n - k + 1)]
  BY <1>6 DEF SymbolAt, Width
<1>7. Solves(g)
  <2>1. ASSUME NEW k \in 1 .. n
        PROVE  g[k] = Body(g, k)
    <3>1. g[k] = F[<<k, g[k - Width(s, n - k + 1)]>>]
      BY <1>5 DEF prev, Unfolds
    <3>2. k - Width(s, n - k + 1) \in 0 .. n
      BY <1>1, <1>2, PlaceType
    <3>3. g[k - Width(s, n - k + 1)] \in V
      BY <3>2
    <3>4. g[k] = <<SymbolAt(s, n - k + 1)>> \o g[k - Width(s, n - k + 1)]
      BY <3>1, <3>3 DEF F
    <3> QED
      BY <1>6, <3>4
  <2>2. g[0] = Body(g, 0)
    BY <1>5 DEF Unfolds
  <2> HIDE DEF Body
  <2>3. \A k \in 0 .. n : g[k] = Body(g, k)
    BY <1>1, <2>1, <2>2
  <2> QED
    BY <2>3
<1>8. Solves(CHOOSE R : Solves(R))
  BY <1>7
<1>9. Redactions(s) = CHOOSE R : Solves(R)
  BY DEF Redactions
<1>10. Solves(Redactions(s))
  BY <1>8, <1>9
<1>11. \A k \in 0 .. n : Redactions(s)[k] = Body(Redactions(s), k)
  <2> HIDE DEF Body
  <2> QED
    BY <1>10
<1>12. Redactions(s)[0] = <<>>
  <2>1. \A R : Body(R, 0) = <<>>
    OBVIOUS
  <2>2. 0 \in 0 .. n
    BY <1>1
  <2> HIDE DEF Body
  <2> QED
    BY <1>11, <2>1, <2>2
<1>13. ASSUME NEW k \in 1 .. n
       PROVE  Redactions(s)[k] =
                 <<SymbolAt(s, n - k + 1)>> \o Redactions(s)[k - Width(s, n - k + 1)]
  <2> HIDE DEF Body
  <2> QED
    BY <1>1, <1>6, <1>11
<1> QED
  BY <1>12, <1>13 DEF RedactionsEquation

LEMMA RedactionsStep ==
  ASSUME NEW s \in Seq(Byte), NEW k \in 1 .. Len(s)
  PROVE  LET i == Len(s) - k + 1
         IN  /\ i \in 1 .. Len(s)
             /\ k - Width(s, i) \in 0 .. Len(s) /\ k - Width(s, i) < k
             /\ SymbolAt(s, i) \in Symbol
             /\ Redactions(s)[k] = <<SymbolAt(s, i)>> \o Redactions(s)[k - Width(s, i)]
<1> DEFINE i == Len(s) - k + 1
<1>1. i \in 1 .. Len(s) /\ Len(s) \in Nat
  BY LenProperties
<1>2. Width(s, i) \in 1 .. Len(s) - i + 1 /\ SymbolAt(s, i) \in Symbol
  BY <1>1, PlaceType
<1>3. Redactions(s)[k] = <<SymbolAt(s, i)>> \o Redactions(s)[k - Width(s, i)]
  BY RedactionsRecursive DEF RedactionsEquation
<1>4. k - Width(s, i) \in 0 .. Len(s) /\ k - Width(s, i) < k
  BY <1>1, <1>2
<1> QED
  BY <1>1, <1>2, <1>3, <1>4

LEMMA RedactionsType ==
  ASSUME NEW s \in Seq(Byte)
  PROVE  /\ Redactions(s)[0] = <<>>
         /\ \A k \in 0 .. Len(s) : Redactions(s)[k] \in Seq(Symbol)
         /\ Redacted(s) \in Seq(Symbol)
<1> DEFINE R == Redactions(s)
           S == {k \in 0 .. Len(s) : R[k] \in Seq(Symbol)}
<1>1. Len(s) \in Nat /\ R[0] = <<>>
  BY RedactionsRecursive, LenProperties DEF RedactionsEquation
<1>2. ASSUME NEW k \in 0 .. Len(s), \A j \in 0 .. Len(s) : j < k => j \in S
      PROVE  k \in S
  <2>1. CASE k = 0
    BY <1>1, <2>1, EmptySeq
  <2>2. CASE k > 0
    <3> DEFINE i == Len(s) - k + 1
               j == k - Width(s, i)
    <3>1. /\ j \in 0 .. Len(s) /\ j < k
          /\ SymbolAt(s, i) \in Symbol
          /\ R[k] = <<SymbolAt(s, i)>> \o R[j]
      BY <1>1, <2>2, RedactionsStep
    <3> HIDE DEF j, i
    <3>2. R[j] \in Seq(Symbol)
      BY <1>2, <3>1
    <3>3. <<SymbolAt(s, i)>> \in Seq(Symbol)
      BY <3>1
    <3>4. R[k] \in Seq(Symbol)
      BY <3>1, <3>2, <3>3, ConcatProperties
    <3> QED
      BY <3>4
  <2> QED
    BY <2>1, <2>2
<1> HIDE DEF S
<1>3. \A k \in 0 .. Len(s) : k \in S
  BY <1>1, <1>2, UpwardsInduction
<1>4. \A k \in 0 .. Len(s) : R[k] \in Seq(Symbol)
  BY <1>3 DEF S
<1> QED
  BY <1>1, <1>4 DEF Redacted

\* What the scan does at place i, when `rest` is what it makes of what follows.
On(buf, i, rest) == [out |-> <<SymbolAt(buf, i)>> \o rest.out, kept |-> rest.kept]

ScanEquation(R, buf, safe) ==
    \A k \in 0 .. Len(buf) :
       LET i == Len(buf) - k + 1 IN
       R[k] = IF k = 0 \/ Stops(buf, i, safe) THEN [out |-> <<>>, kept |-> k]
              ELSE On(buf, i, R[k - Width(buf, i)])

LEMMA ScanRecursive ==
  ASSUME NEW buf \in Seq(Byte), NEW safe \in Nat
  PROVE  ScanEquation(Scan(buf, safe), buf, safe)
<1> DEFINE n == Len(buf)
           Body(R, k) ==
             LET i == Len(buf) - k + 1
                 Ahead(symbol, rest) == [out |-> <<symbol>> \o rest.out, kept |-> rest.kept]
             IN  IF k = 0 \/ Stops(buf, i, safe) THEN [out |-> <<>>, kept |-> k]
                 ELSE IF PatternsAt(buf, i) = {} THEN Ahead(buf[i], R[k - 1])
                 ELSE Ahead(NameOf(MatchAt(buf, i)), R[k - Len(MatchAt(buf, i))])
           Solves(R) == R = [k \in 0 .. Len(buf) |-> Body(R, k)]
           Kept(k) == [out |-> <<>>, kept |-> k]
           V == [out : Seq(Symbol), kept : 0 .. n]
           prev == [k \in 1 .. n |-> k - Width(buf, n - k + 1)]
           F == [kv \in (1 .. n) \X V |->
                   IF Stops(buf, n - kv[1] + 1, safe) THEN Kept(kv[1])
                   ELSE On(buf, n - kv[1] + 1, kv[2])]
<1>1. n \in Nat /\ \A k \in 0 .. n : Kept(k) \in V
  BY EmptySeq
<1>2. \A k \in 1 .. n : n - k + 1 \in 1 .. n
  BY <1>1
<1>3. prev \in [1 .. n -> Nat] /\ Falls(prev, n)
  <2>1. \A k \in 1 .. n : Width(buf, n - k + 1) \in 1 .. n - (n - k + 1) + 1
    BY <1>2, PlaceType
  <2>2. \A k \in 1 .. n : k - Width(buf, n - k + 1) \in Nat /\ k - Width(buf, n - k + 1) < k
    BY <1>1, <2>1
  <2> QED
    BY <2>2 DEF Falls
<1>4. F \in [(1 .. n) \X V -> V]
  <2>1. ASSUME NEW k \in 1 .. n, NEW rest \in V
        PROVE  On(buf, n - k + 1, rest) \in V
    <3>1. SymbolAt(buf, n - k + 1) \in Symbol
      BY <1>2, PlaceType
    <3>2. <<SymbolAt(buf, n - k + 1)>> \in Seq(Symbol) /\ rest.out \in Seq(Symbol)
      BY <3>1
    <3>3. <<SymbolAt(buf, n - k + 1)>> \o rest.out \in Seq(Symbol)
      BY <3>2, ConcatProperties
    <3> QED
      BY <3>3 DEF On
  <2>2. \A k \in 1 .. n : Kept(k) \in V
    BY <1>1
  <2> HIDE DEF V, Kept
  <2>3. ASSUME NEW kv \in (1 .. n) \X V
        PROVE  kv[1] \in 1 .. n /\ kv[2] \in V
    OBVIOUS
  <2>4. ASSUME NEW kv \in (1 .. n) \X V
        PROVE  (IF Stops(buf, n - kv[1] + 1, safe) THEN Kept(kv[1])
                ELSE On(buf, n - kv[1] + 1, kv[2])) \in V
    BY <2>1, <2>2, <2>3
  <2> QED
    BY <2>4
<1> HIDE DEF V, prev, F
<1>5. PICK g \in [0 .. n -> V] : Unfolds(g, n, Kept(0), prev, F)
  <2>1. Kept(0) \in V
    BY <1>1
  <2> HIDE DEF Kept
  <2> QED
    BY <1>1, <1>3, <1>4, <2>1, Recursion, Zenon
<1>6. \A R : Body(R, 0) = Kept(0)
  OBVIOUS
<1>7. ASSUME NEW R, NEW k \in 1 .. n
      PROVE  Body(R, k) = IF Stops(buf, n - k + 1, safe) THEN Kept(k)
                          ELSE On(buf, n - k + 1, R[k - Width(buf, n - k + 1)])
  <2> DEFINE i == n - k + 1
  <2> HIDE DEF i
  <2>1. k # 0
    OBVIOUS
  <2>2. CASE Stops(buf, i, safe)
    BY <2>1, <2>2 DEF i
  <2>3. CASE ~ Stops(buf, i, safe) /\ PatternsAt(buf, i) = {}
    <3>1. Body(R, k) = [out |-> <<buf[i]>> \o R[k - 1].out, kept |-> R[k - 1].kept]
      BY <2>1, <2>3 DEF i
    <3> HIDE DEF Body
    <3> QED
      BY <2>3, <3>1 DEF SymbolAt, Width, On, i
  <2>4. CASE ~ Stops(buf, i, safe) /\ PatternsAt(buf, i) # {}
    <3> DEFINE j == k - Len(MatchAt(buf, i))
    <3>1. Body(R, k) = [out |-> <<NameOf(MatchAt(buf, i))>> \o R[j].out, kept |-> R[j].kept]
      BY <2>1, <2>4 DEF i
    <3> HIDE DEF Body
    <3> QED
      BY <2>4, <3>1 DEF SymbolAt, Width, On, i
  <2> QED
    BY <2>2, <2>3, <2>4
<1> HIDE DEF Kept
<1>8. Solves(g)
  <2>1. ASSUME NEW k \in 1 .. n
        PROVE  g[k] = Body(g, k)
    <3>1. g[k] = F[<<k, g[k - Width(buf, n - k + 1)]>>]
      BY <1>5 DEF prev, Unfolds
    <3>2. k - Width(buf, n - k + 1) \in 0 .. n
      BY <1>1, <1>2, PlaceType
    <3>3. g[k - Width(buf, n - k + 1)] \in V
      BY <3>2
    <3>4. g[k] = IF Stops(buf, n - k + 1, safe) THEN Kept(k)
                 ELSE On(buf, n - k + 1, g[k - Width(buf, n - k + 1)])
      BY <3>1, <3>3 DEF F
    <3> HIDE DEF Body
    <3> QED
      BY <1>7, <3>4
  <2>2. g[0] = Body(g, 0)
    BY <1>5, <1>6 DEF Unfolds
  <2> HIDE DEF Body
  <2>3. \A k \in 0 .. n : g[k] = Body(g, k)
    BY <1>1, <2>1, <2>2
  <2> QED
    BY <2>3
<1>9. Solves(CHOOSE R : Solves(R))
  BY <1>8
<1>10. Scan(buf, safe) = CHOOSE R : Solves(R)
  BY DEF Scan
<1>11. Solves(Scan(buf, safe))
  BY <1>9, <1>10
<1> DEFINE R == Scan(buf, safe)
<1> HIDE DEF Body, R
<1>12. \A k \in 0 .. n : R[k] = Body(R, k)
  BY <1>11 DEF R
<1>13. ASSUME NEW k \in 0 .. n
       PROVE  R[k] = IF k = 0 \/ Stops(buf, n - k + 1, safe) THEN Kept(k)
                     ELSE On(buf, n - k + 1, R[k - Width(buf, n - k + 1)])
  <2>1. CASE k = 0
    BY <1>6, <1>12, <2>1
  <2>2. CASE k # 0
    BY <1>1, <1>7, <1>12, <2>2
  <2> QED
    BY <2>1, <2>2
<1> QED
  BY <1>13 DEF ScanEquation, R, Kept

\* At a place that is not the end, the scan stops there or takes one step.
LEMMA ScanStep ==
  ASSUME NEW buf \in Seq(Byte), NEW safe \in Nat, NEW k \in 1 .. Len(buf)
  PROVE  LET i == Len(buf) - k + 1
             j == k - Width(buf, i)
         IN  /\ i \in 1 .. Len(buf)
             /\ j \in 0 .. Len(buf) /\ j < k
             /\ SymbolAt(buf, i) \in Symbol
             /\ \/ /\ i + Width(buf, i) - 1 > safe
                   /\ Scan(buf, safe)[k].out = <<>> /\ Scan(buf, safe)[k].kept = k
                \/ /\ i + Width(buf, i) - 1 <= safe
                   /\ Scan(buf, safe)[k].out = <<SymbolAt(buf, i)>> \o Scan(buf, safe)[j].out
                   /\ Scan(buf, safe)[k].kept = Scan(buf, safe)[j].kept
<1> DEFINE i == Len(buf) - k + 1
           j == k - Width(buf, i)
           R == Scan(buf, safe)
<1>1. i \in 1 .. Len(buf) /\ Len(buf) \in Nat
  BY LenProperties
<1>2. Width(buf, i) \in 1 .. Len(buf) - i + 1 /\ SymbolAt(buf, i) \in Symbol
  BY <1>1, PlaceType
<1>3. j \in 0 .. Len(buf) /\ j < k
  BY <1>1, <1>2
<1>4. Stops(buf, i, safe) <=> i + Width(buf, i) - 1 > safe
  BY <1>1, StopsIsWidth
<1>5. R[k] = IF Stops(buf, i, safe) THEN [out |-> <<>>, kept |-> k] ELSE On(buf, i, R[j])
  BY ScanRecursive DEF ScanEquation
<1> HIDE DEF i, j, R
<1>6. CASE Stops(buf, i, safe)
  <2>1. R[k].out = <<>> /\ R[k].kept = k
    BY <1>5, <1>6
  <2> QED
    BY <1>1, <1>2, <1>3, <1>4, <1>6, <2>1 DEF i, j, R
<1>7. CASE ~ Stops(buf, i, safe)
  <2>1. R[k].out = <<SymbolAt(buf, i)>> \o R[j].out /\ R[k].kept = R[j].kept
    BY <1>5, <1>7 DEF On
  <2>2. i + Width(buf, i) - 1 <= safe
    BY <1>1, <1>2, <1>4, <1>7
  <2> QED
    BY <1>1, <1>2, <1>3, <2>1, <2>2 DEF i, j, R
<1> QED
  BY <1>6, <1>7

\* The scan keeps nothing, or what begins with a place it may not pass.
LEMMA ScanType ==
  ASSUME NEW buf \in Seq(Byte), NEW safe \in Nat, NEW k \in 0 .. Len(buf)
  PROVE  LET scan == Scan(buf, safe)[k]
             i    == Len(buf) - scan.kept + 1
         IN  /\ scan.out \in Seq(Symbol) /\ scan.kept \in 0 .. k
             /\ scan.kept = 0 \/ i + Width(buf, i) - 1 > safe
<1> DEFINE n == Len(buf)
           R == Scan(buf, safe)
           Typed(l) == R[l].out \in Seq(Symbol) /\ R[l].kept \in 0 .. l
           Held(q) == q = 0 \/ (n - q + 1) + Width(buf, n - q + 1) - 1 > safe
           S == {l \in 0 .. n : Typed(l) /\ Held(R[l].kept)}
<1>1. n \in Nat
  BY LenProperties
<1>2. ASSUME NEW l \in 0 .. n, \A j \in 0 .. n : j < l => j \in S
      PROVE  l \in S
  <2>1. CASE l = 0
    <3>1. R[0] = [out |-> <<>>, kept |-> 0]
      BY <1>1, ScanRecursive DEF ScanEquation
    <3> HIDE DEF R
    <3>2. R[0].out = <<>> /\ R[0].kept = 0
      BY <3>1
    <3>3. Typed(0)
      BY <3>2, EmptySeq
    <3>4. Held(R[0].kept)
      BY <3>2
    <3> HIDE DEF Typed, Held
    <3> QED
      BY <2>1, <3>3, <3>4
  <2>2. CASE l > 0
    <3> DEFINE i == n - l + 1
               j == l - Width(buf, i)
    <3>1. /\ j \in 0 .. n /\ j < l /\ SymbolAt(buf, i) \in Symbol
          /\ \/ i + Width(buf, i) - 1 > safe /\ R[l].out = <<>> /\ R[l].kept = l
             \/ R[l].out = <<SymbolAt(buf, i)>> \o R[j].out /\ R[l].kept = R[j].kept
      BY <1>1, <2>2, ScanStep
    <3> HIDE DEF j, R
    <3>2. CASE i + Width(buf, i) - 1 > safe /\ R[l].out = <<>> /\ R[l].kept = l
      <4>1. Typed(l)
        BY <3>2, EmptySeq
      <4>2. Held(R[l].kept)
        BY <3>2
      <4> QED
        BY <4>1, <4>2
    <3>3. CASE R[l].out = <<SymbolAt(buf, i)>> \o R[j].out /\ R[l].kept = R[j].kept
      <4>1. Typed(j) /\ Held(R[j].kept)
        BY <1>2, <3>1
      <4>2. <<SymbolAt(buf, i)>> \in Seq(Symbol)
        BY <3>1
      <4>3. R[l].out \in Seq(Symbol)
        BY <3>3, <4>1, <4>2, ConcatProperties
      <4>4. R[l].kept \in 0 .. l
        BY <3>1, <3>3, <4>1
      <4>5. Held(R[l].kept)
        BY <3>3, <4>1
      <4> QED
        BY <4>3, <4>4, <4>5
    <3> QED
      BY <3>1, <3>2, <3>3
  <2> QED
    BY <2>1, <2>2
<1> HIDE DEF S
<1>3. \A l \in 0 .. n : l \in S
  BY <1>1, <1>2, UpwardsInduction
<1> QED
  BY <1>3 DEF S

-----------------------------------------------------------------------------
(* The redaction of a text is made of that of its parts.                   *)

\* What stands at a place depends on what follows only.
LEMMA SuffixPatterns ==
  ASSUME NEW u \in Seq(Byte), NEW w \in Seq(Byte), NEW i \in 1 .. Len(w)
  PROVE  PatternsAt(u \o w, Len(u) + i) = PatternsAt(w, i)
<1> DEFINE s == u \o w
<1>1. /\ Len(u) \in Nat /\ Len(w) \in Nat
      /\ s \in Seq(Byte) /\ Len(s) = Len(u) + Len(w)
      /\ \A j \in 1 .. Len(u) + Len(w) : s[j] = IF j <= Len(u) THEN u[j] ELSE w[j - Len(u)]
  BY LenProperties, ConcatProperties
<1>2. s \in Seq(Symbol) /\ w \in Seq(Symbol)
  BY <1>1, SeqMonotonic DEF Symbol
<1> HIDE DEF s
<1>3. ASSUME NEW p \in Patterns
      PROVE  StandsAt(p, s, Len(u) + i) <=> StandsAt(p, w, i)
  <2>1. Len(p) \in Nat
    BY PatternType
  <2>2. ASSUME NEW j \in 1 .. Len(p), i + Len(p) - 1 <= Len(w)
        PROVE  s[(Len(u) + i) + j - 1] = w[i + j - 1]
    <3> DEFINE l == (Len(u) + i) + j - 1
    <3>1. l \in 1 .. Len(u) + Len(w) /\ ~ (l <= Len(u)) /\ l - Len(u) = i + j - 1
      BY <1>1, <2>1, <2>2
    <3> HIDE DEF l
    <3>2. s[l] = w[l - Len(u)]
      BY <1>1, <3>1
    <3> QED
      BY <3>1, <3>2 DEF l
  <2>3. (Len(u) + i) + Len(p) - 1 <= Len(s) <=> i + Len(p) - 1 <= Len(w)
    BY <1>1, <2>1
  <2> QED
    BY <2>2, <2>3 DEF StandsAt
<1>4. PatternsAt(s, Len(u) + i) = {p \in Patterns : StandsAt(p, s, Len(u) + i)}
  BY <1>1, <1>2, PatternsAtPointwise
<1>5. PatternsAt(w, i) = {p \in Patterns : StandsAt(p, w, i)}
  BY <1>2, PatternsAtPointwise
<1> QED
  BY <1>3, <1>4, <1>5 DEF s

LEMMA SuffixRedactions ==
  ASSUME NEW u \in Seq(Byte), NEW w \in Seq(Byte)
  PROVE  \A k \in 0 .. Len(w) : Redactions(u \o w)[k] = Redactions(w)[k]
<1> DEFINE s == u \o w
           S == {k \in 0 .. Len(w) : Redactions(s)[k] = Redactions(w)[k]}
<1>1. /\ Len(u) \in Nat /\ Len(w) \in Nat
      /\ s \in Seq(Byte) /\ Len(s) = Len(u) + Len(w)
      /\ \A j \in 1 .. Len(u) + Len(w) : s[j] = IF j <= Len(u) THEN u[j] ELSE w[j - Len(u)]
  BY LenProperties, ConcatProperties
<1>2. ASSUME NEW i \in 1 .. Len(w)
      PROVE  SymbolAt(s, Len(u) + i) = SymbolAt(w, i) /\ Width(s, Len(u) + i) = Width(w, i)
  <2>1. PatternsAt(s, Len(u) + i) = PatternsAt(w, i)
    BY SuffixPatterns
  <2>2. s[Len(u) + i] = w[i]
    BY <1>1
  <2> QED
    BY <2>1, <2>2 DEF SymbolAt, Width, MatchAt
<1> HIDE DEF s
<1>3. ASSUME NEW k \in 0 .. Len(w), \A j \in 0 .. Len(w) : j < k => j \in S
      PROVE  k \in S
  <2>1. CASE k = 0
    BY <1>1, <2>1, RedactionsType
  <2>2. CASE k > 0
    <3> DEFINE i == Len(w) - k + 1
               j == k - Width(w, i)
    <3>1. /\ i \in 1 .. Len(w) /\ j \in 0 .. Len(w) /\ j < k
          /\ Redactions(w)[k] = <<SymbolAt(w, i)>> \o Redactions(w)[j]
      BY <1>1, <2>2, RedactionsStep
    <3>2. k \in 1 .. Len(s) /\ Len(s) - k + 1 = Len(u) + i
      BY <1>1, <2>2
    <3>3. Redactions(s)[k] =
             <<SymbolAt(s, Len(u) + i)>> \o Redactions(s)[k - Width(s, Len(u) + i)]
      BY <1>1, <3>2, RedactionsStep
    <3>4. Redactions(s)[k] = <<SymbolAt(w, i)>> \o Redactions(s)[j]
      BY <1>2, <3>1, <3>3
    <3>5. Redactions(s)[j] = Redactions(w)[j]
      BY <1>3, <3>1
    <3> HIDE DEF i, j
    <3> QED
      BY <3>1, <3>4, <3>5
  <2> QED
    BY <2>1, <2>2
<1> HIDE DEF S
<1>4. \A k \in 0 .. Len(w) : k \in S
  BY <1>1, <1>3, UpwardsInduction
<1> QED
  BY <1>4 DEF S, s

\* Where what follows a text changes nothing, up to place safe, the redaction of
\* both begins with what the scan forwards, and goes on with what it keeps.
LEMMA ScanSplits ==
  ASSUME NEW buf \in Seq(Byte), NEW z \in Seq(Byte), NEW safe \in Nat,
         \A i \in 1 .. Len(buf) : i <= safe => PatternsAt(buf \o z, i) = PatternsAt(buf, i)
  PROVE  \A k \in 0 .. Len(buf) :
            LET scan == Scan(buf, safe)[k]
            IN  Redactions(buf \o z)[k + Len(z)]
                   = scan.out \o Redactions(buf \o z)[scan.kept + Len(z)]
<1> DEFINE n == Len(buf)
           s == buf \o z
           T == Redactions(s)
           R == Scan(buf, safe)
           S == {k \in 0 .. n : T[k + Len(z)] = R[k].out \o T[R[k].kept + Len(z)]}
<1>1. /\ n \in Nat /\ Len(z) \in Nat
      /\ s \in Seq(Byte) /\ Len(s) = n + Len(z)
      /\ \A j \in 1 .. n : s[j] = buf[j]
  <2>1. n \in Nat /\ Len(z) \in Nat /\ s \in Seq(Byte) /\ Len(s) = n + Len(z)
    BY LenProperties, ConcatProperties
  <2>2. \A j \in 1 .. n + Len(z) : s[j] = IF j <= n THEN buf[j] ELSE z[j - n]
    BY ConcatProperties
  <2>3. \A j \in 1 .. n : s[j] = buf[j]
    <3> HIDE DEF s, n
    <3> QED
      BY <2>1, <2>2
  <2> QED
    BY <2>1, <2>3
<1>2. ASSUME NEW i \in 1 .. n, i <= safe
      PROVE  SymbolAt(s, i) = SymbolAt(buf, i) /\ Width(s, i) = Width(buf, i)
  <2>1. PatternsAt(s, i) = PatternsAt(buf, i)
    BY <1>2
  <2>2. s[i] = buf[i]
    BY <1>1
  <2> QED
    BY <2>1, <2>2 DEF SymbolAt, Width, MatchAt
<1>3. \A k \in 0 .. n : T[k + Len(z)] \in Seq(Symbol)
  <2>1. \A k \in 0 .. n : k + Len(z) \in 0 .. Len(s)
    BY <1>1
  <2> HIDE DEF s
  <2> QED
    BY <1>1, <2>1, RedactionsType
<1> HIDE DEF s
<1>4. ASSUME NEW k \in 0 .. n, \A j \in 0 .. n : j < k => j \in S
      PROVE  k \in S
  <2>1. ASSUME R[k].out = <<>>, R[k].kept = k
        PROVE  k \in S
    <3>1. <<>> \o T[k + Len(z)] = T[k + Len(z)]
      BY <1>3, ConcatEmptySeq
    <3> HIDE DEF T, R
    <3> QED
      BY <2>1, <3>1
  <2>2. CASE k = 0
    <3>1. R[0] = [out |-> <<>>, kept |-> 0]
      BY <1>1, ScanRecursive DEF ScanEquation
    <3> HIDE DEF R
    <3>2. R[0].out = <<>> /\ R[0].kept = 0
      BY <3>1
    <3> QED
      BY <2>1, <2>2, <3>2
  <2>3. CASE k > 0
    <3> DEFINE i == n - k + 1
               j == k - Width(buf, i)
    <3>1. /\ i \in 1 .. n /\ j \in 0 .. n /\ j < k /\ SymbolAt(buf, i) \in Symbol
          /\ \/ R[k].out = <<>> /\ R[k].kept = k
             \/ /\ i + Width(buf, i) - 1 <= safe
                /\ R[k].out = <<SymbolAt(buf, i)>> \o R[j].out /\ R[k].kept = R[j].kept
      BY <1>1, <2>3, ScanStep
    <3>2. CASE /\ i + Width(buf, i) - 1 <= safe
               /\ R[k].out = <<SymbolAt(buf, i)>> \o R[j].out /\ R[k].kept = R[j].kept
      <4> DEFINE width == Width(buf, i)
      <4>0. width \in 1 .. n - i + 1
        BY <3>1, PlaceType
      <4> HIDE DEF width
      <4>1. i <= safe
        <5>1. i + width - 1 <= safe
          BY <3>2 DEF width
        <5> QED
          BY <1>1, <3>1, <4>0, <5>1
      <4>2. k + Len(z) \in 1 .. Len(s) /\ Len(s) - (k + Len(z)) + 1 = i
        BY <1>1, <2>3
      <4>3. T[k + Len(z)] = <<SymbolAt(s, i)>> \o T[(k + Len(z)) - Width(s, i)]
        <5> DEFINE l == k + Len(z)
        <5> HIDE DEF l, i, T
        <5>1. l \in 1 .. Len(s) /\ Len(s) - l + 1 = i
          BY <4>2 DEF l
        <5>2. Redactions(s)[l] = <<SymbolAt(s, Len(s) - l + 1)>>
                                    \o Redactions(s)[l - Width(s, Len(s) - l + 1)]
          BY <1>1, <5>1, RedactionsStep
        <5> QED
          BY <5>1, <5>2 DEF l, T
      <4>4. (k + Len(z)) - Width(buf, i) = j + Len(z)
        <5>1. j = k - width
          BY DEF width
        <5> HIDE DEF j
        <5>2. (k + Len(z)) - width = j + Len(z)
          BY <1>1, <4>0, <5>1
        <5> QED
          BY <5>2 DEF width
      <4>5. T[k + Len(z)] = <<SymbolAt(buf, i)>> \o T[j + Len(z)]
        BY <1>2, <3>1, <4>1, <4>3, <4>4
      <4>6. R[j].out \in Seq(Symbol) /\ R[j].kept \in 0 .. n
        BY <1>1, <3>1, ScanType
      <4>7. <<SymbolAt(buf, i)>> \in Seq(Symbol) /\ T[R[j].kept + Len(z)] \in Seq(Symbol)
        BY <1>3, <3>1, <4>6
      <4>8. T[j + Len(z)] = R[j].out \o T[R[j].kept + Len(z)]
        BY <1>4, <3>1
      <4> DEFINE first == <<SymbolAt(buf, i)>>
                 rest  == T[R[j].kept + Len(z)]
      <4>9. first \in Seq(Symbol) /\ R[j].out \in Seq(Symbol) /\ rest \in Seq(Symbol)
        BY <4>6, <4>7
      <4>10. T[k + Len(z)] = first \o T[j + Len(z)] /\ R[k].out = first \o R[j].out
        BY <3>2, <4>5
      <4>11. rest = T[R[k].kept + Len(z)]
        BY <3>2
      <4>12. T[j + Len(z)] = R[j].out \o rest
        BY <4>8
      <4> HIDE DEF T, R, i, j, first, rest
      <4>13. T[k + Len(z)] = (first \o R[j].out) \o rest
        <5> DEFINE more == R[j].out
        <5>1. more \in Seq(Symbol)
          BY <4>9
        <5> HIDE DEF more
        <5>2. (first \o more) \o rest = first \o (more \o rest)
          BY <4>9, <5>1, ConcatAssociative
        <5>3. (first \o R[j].out) \o rest = first \o (R[j].out \o rest)
          BY <5>2 DEF more
        <5> QED
          BY <4>10, <4>12, <5>3, Zenon
      <4> QED
        BY <4>10, <4>11, <4>13
    <3>3. R[k].out = <<>> /\ R[k].kept = k => k \in S
      BY <2>1
    <3> HIDE DEF i, j, S, R
    <3> QED
      BY <3>1, <3>2, <3>3, Zenon
  <2>4. k = 0 \/ k > 0
    BY <1>1
  <2> HIDE DEF S
  <2> QED
    BY <2>2, <2>3, <2>4
<1> HIDE DEF S
<1>5. \A k \in 0 .. n : k \in S
  BY <1>1, <1>4, UpwardsInduction
<1> QED
  BY <1>5 DEF S, s

-----------------------------------------------------------------------------
(* One call of process.                                                    *)

Hold(last) == IF last THEN 0 ELSE hold_back

\* The safe length ends with a complete line, or leaves the hold-back.
LEMMA SafeLenBounds ==
  ASSUME NEW buf \in Seq(Byte), NEW last \in BOOLEAN
  PROVE  LET safe == SafeLen(buf, last)
         IN  /\ safe \in 0 .. Len(buf)
             /\ Len(buf) - safe <= Hold(last)
             /\ line_safe => \A i \in 1 .. Len(buf) : buf[i] = Newline => i <= safe
             /\ \/ safe = 0
                \/ line_safe /\ buf[safe] = Newline
                \/ safe = Len(buf) - Hold(last)
<1> DEFINE n == Len(buf)
           hold == Hold(last)
           lines == {i \in DOMAIN buf : line_safe /\ buf[i] = Newline}
           held == IF n > hold THEN {n - hold} ELSE {}
           S == {0} \cup lines \cup held
<1>1. n \in Nat /\ DOMAIN buf = 1 .. n /\ hold \in Nat
  BY LenProperties, HoldBackBounds DEF Hold
<1> HIDE DEF n, hold
<1>2. S \in SUBSET (0 .. n) /\ S # {}
  BY <1>1
<1>3. SafeLen(buf, last) = MaxOf(S)
  BY DEF SafeLen, Hold, hold, n
<1> HIDE DEF S
<1>4. MaxOf(S) \in S /\ \A i \in S : i <= MaxOf(S)
  BY <1>1, <1>2, MaxOfBounded
<1>5. MaxOf(S) \in 0 .. n
  BY <1>2, <1>4
<1>6. n - MaxOf(S) <= hold
  <2>1. CASE n > hold
    <3>1. n - hold \in S
      BY <2>1 DEF S
    <3>2. n - hold <= MaxOf(S)
      BY <1>4, <3>1
    <3> QED
      BY <1>1, <1>5, <3>2
  <2>2. CASE ~ (n > hold)
    BY <1>1, <1>5, <2>2
  <2> QED
    BY <2>1, <2>2
<1>7. line_safe => \A i \in 1 .. n : buf[i] = Newline => i <= MaxOf(S)
  BY <1>1, <1>4 DEF S
<1>8. MaxOf(S) = 0 \/ (line_safe /\ buf[MaxOf(S)] = Newline) \/ MaxOf(S) = n - hold
  BY <1>4 DEF S
<1> QED
  BY <1>3, <1>5, <1>6, <1>7, <1>8 DEF n, hold

\* Up to the safe length, what can match is known: whatever comes, no other
\* pattern will stand there.
LEMMA SafeIsDecided ==
  ASSUME NEW buf \in Seq(Byte), NEW z \in Seq(Byte),
         NEW i \in 1 .. Len(buf), i <= SafeLen(buf, FALSE)
  PROVE  PatternsAt(buf \o z, i) = PatternsAt(buf, i)
<1> DEFINE n == Len(buf)
           s == buf \o z
           safe == SafeLen(buf, FALSE)
<1>1. /\ n \in Nat /\ Len(z) \in Nat
      /\ s \in Seq(Byte) /\ Len(s) = n + Len(z)
      /\ \A j \in 1 .. n + Len(z) : s[j] = IF j <= n THEN buf[j] ELSE z[j - n]
  BY LenProperties, ConcatProperties
<1>2. s \in Seq(Symbol) /\ buf \in Seq(Symbol)
  BY <1>1, SeqMonotonic DEF Symbol
<1>3. /\ safe \in 0 .. n
      /\ \/ safe = 0
         \/ line_safe /\ buf[safe] = Newline
         \/ safe = n - hold_back
  BY SafeLenBounds DEF Hold
<1> HIDE DEF s, safe, n
<1>4. \A j \in 1 .. n : s[j] = buf[j]
  BY <1>1
<1>5. ASSUME NEW p \in Patterns, StandsAt(p, buf, i)
      PROVE  StandsAt(p, s, i)
  <2>1. Len(p) \in Nat
    BY PatternType
  <2>2. \A j \in 1 .. Len(p) : i + j - 1 \in 1 .. n
    BY <1>1, <1>5, <2>1 DEF StandsAt, n
  <2>3. i + Len(p) - 1 <= Len(s)
    BY <1>1, <1>5, <2>1 DEF StandsAt, n
  <2> QED
    BY <1>4, <1>5, <2>2, <2>3 DEF StandsAt
<1>6. ASSUME NEW p \in Patterns, StandsAt(p, s, i)
      PROVE  StandsAt(p, buf, i)
  <2>1. Len(p) \in Nat /\ Len(p) > 0 /\ Len(p) <= hold_back + 1 /\ hold_back \in Nat
    BY PatternType, HoldBackBounds
  <2>2. i \in 1 .. n /\ i <= safe
    BY DEF n, safe
  <2>3. i + Len(p) - 1 <= n
    <3>1. CASE safe = n - hold_back
      BY <1>1, <2>1, <2>2, <3>1
    <3>2. CASE line_safe /\ buf[safe] = Newline
      <4> SUFFICES ASSUME ~ (i + Len(p) - 1 <= n) PROVE FALSE
        OBVIOUS
      <4> DEFINE j == safe - i + 1
      <4>1. j \in 1 .. Len(p) /\ i + j - 1 = safe
        BY <1>1, <1>3, <2>1, <2>2
      <4> HIDE DEF j
      <4>2. p[j] = s[safe]
        BY <1>6, <4>1 DEF StandsAt
      <4>3. s[safe] = Newline
        BY <1>3, <1>4, <2>2, <3>2
      <4>4. p[j] # Newline
        <5>1. j \in DOMAIN p
          BY <4>1, PatternType, LenProperties
        <5> QED
          BY <3>2, <5>1 DEF line_safe
      <4> QED
        BY <4>2, <4>3, <4>4
    <3>3. CASE safe = 0
      BY <2>2, <3>3
    <3> QED
      BY <1>3, <3>1, <3>2, <3>3
  <2>4. \A j \in 1 .. Len(p) : i + j - 1 \in 1 .. n
    BY <1>1, <2>1, <2>2, <2>3
  <2> QED
    BY <1>4, <1>6, <2>3, <2>4 DEF StandsAt, n
<1>7. PatternsAt(s, i) = {p \in Patterns : StandsAt(p, s, i)}
  BY <1>2, PatternsAtPointwise
<1>8. PatternsAt(buf, i) = {p \in Patterns : StandsAt(p, buf, i)}
  BY <1>2, PatternsAtPointwise
<1> QED
  BY <1>5, <1>6, <1>7, <1>8 DEF s

\* The last k elements of a sequence, and what is before them.
LEMMA LastElements ==
  ASSUME NEW X, NEW buf \in Seq(X), NEW k \in 0 .. Len(buf)
  PROVE  LET u == SubSeq(buf, 1, Len(buf) - k)
             w == SubSeq(buf, Len(buf) - k + 1, Len(buf))
         IN  /\ u \in Seq(X) /\ w \in Seq(X)
             /\ Len(w) = k /\ buf = u \o w
             /\ \A j \in 1 .. k : w[j] = buf[Len(buf) - k + j]
<1> DEFINE n == Len(buf)
           m == n - k
           u == SubSeq(buf, 1, m)
           w == SubSeq(buf, m + 1, n)
<1>1. n \in Nat /\ m \in 0 .. n
  BY LenProperties
<1> HIDE DEF m
<1>2. \A j \in 1 .. n : buf[j] \in X
  BY ElementOfSeq
<1>3. u \in Seq(X)
  <2>1. \A j \in 1 .. m : buf[j] \in X
    BY <1>1, <1>2
  <2> QED
    BY <1>1, <2>1, SubSeqProperties
<1>4. /\ w \in Seq(X)
      /\ Len(w) = IF m + 1 <= n THEN n - (m + 1) + 1 ELSE 0
      /\ \A j \in 1 .. n - (m + 1) + 1 : w[j] = buf[(m + 1) + j - 1]
  <2>1. \A j \in m + 1 .. n : buf[j] \in X
    BY <1>1, <1>2
  <2>2. m + 1 \in Int /\ n \in Int
    BY <1>1
  <2> QED
    BY <2>1, <2>2, SubSeqProperties
<1>5. u \o w = buf
  <2>1. 1 \in 1 .. n + 1 /\ m \in 1 - 1 .. n /\ n \in m .. n
    BY <1>1
  <2>2. u \o w = SubSeq(buf, 1, n)
    BY <2>1, ConcatAdjacentSubSeq
  <2> QED
    BY <2>2, SubSeqFull
<1> HIDE DEF u, w
<1>6. Len(w) = k
  BY <1>1, <1>4 DEF m
<1>7. ASSUME NEW j \in 1 .. k
      PROVE  w[j] = buf[n - k + j]
  <2>1. j \in 1 .. n - (m + 1) + 1 /\ (m + 1) + j - 1 = n - k + j
    BY <1>1 DEF m
  <2> QED
    BY <1>4, <2>1
<1> QED
  BY <1>3, <1>4, <1>5, <1>6, <1>7 DEF u, w, m, n

\* What the next call has to go on with, and what it may have kept.
LittleWithheld(held) ==
    /\ line_safe => \A i \in DOMAIN held : held[i] # Newline
    /\ Len(held) <= 2 * hold_back

\* A call of process forwards the beginning of the redaction of all that is known
\* and all that may come, and keeps what the rest of it is made of.
LEMMA ProcessSplits ==
  ASSUME NEW held \in Seq(Byte), NEW chunk \in Seq(Byte), NEW last \in BOOLEAN
  PROVE  LET r == Process(held, chunk, last)
         IN  /\ r.out \in Seq(Symbol) /\ r.carry \in Seq(Byte)
             /\ \A z \in Seq(Byte) : (last => z = <<>>)
                   => Redacted((held \o chunk) \o z) = r.out \o Redacted(r.carry \o z)
<1> DEFINE buf == held \o chunk
           n == Len(buf)
           safe == SafeLen(buf, last)
           scan == Scan(buf, safe)[n]
           u == SubSeq(buf, 1, n - scan.kept)
           w == SubSeq(buf, n - scan.kept + 1, n)
<1>1. buf \in Seq(Byte) /\ n \in Nat
  BY ConcatProperties, LenProperties
<1>2. Process(held, chunk, last).out = scan.out /\ Process(held, chunk, last).carry = w
  BY DEF Process
<1> HIDE DEF buf
<1>3. safe \in 0 .. n
  BY <1>1, SafeLenBounds
<1> HIDE DEF safe
<1>4. scan.out \in Seq(Symbol) /\ scan.kept \in 0 .. n
  BY <1>1, <1>3, ScanType
<1> HIDE DEF scan
<1>5. u \in Seq(Byte) /\ w \in Seq(Byte) /\ Len(w) = scan.kept /\ buf = u \o w
  BY <1>1, <1>4, LastElements
<1> HIDE DEF u, w
<1>6. ASSUME NEW z \in Seq(Byte), last => z = <<>>
      PROVE  Redacted(buf \o z) = scan.out \o Redacted(w \o z)
  <2>1. \A i \in 1 .. Len(buf) : i <= safe => PatternsAt(buf \o z, i) = PatternsAt(buf, i)
    <3>1. CASE last
      <4>1. buf \o z = buf
        BY <1>1, <1>6, <3>1, ConcatEmptySeq
      <4> QED
        BY <4>1
    <3>2. CASE ~ last
      BY <1>1, <3>2, SafeIsDecided DEF safe
    <3> QED
      BY <3>1, <3>2
  <2>2. Redactions(buf \o z)[n + Len(z)]
           = scan.out \o Redactions(buf \o z)[scan.kept + Len(z)]
    <3>1. n \in 0 .. Len(buf) /\ safe \in Nat
      BY <1>1, <1>3
    <3>2. \A k \in 0 .. Len(buf) :
            LET sc == Scan(buf, safe)[k]
            IN  Redactions(buf \o z)[k + Len(z)]
                   = sc.out \o Redactions(buf \o z)[sc.kept + Len(z)]
      BY <1>1, <2>1, <3>1, ScanSplits
    <3> QED
      BY <3>1, <3>2 DEF scan
  <2>3. Len(buf \o z) = n + Len(z) /\ Len(z) \in Nat
    BY <1>1, ConcatProperties, LenProperties
  <2>4. buf \o z = u \o (w \o z)
    <3>1. u \in Seq(Byte) /\ w \in Seq(Byte)
      BY <1>5
    <3>2. (u \o w) \o z = u \o (w \o z)
      BY <3>1, Associative
    <3> QED
      BY <1>5, <3>2, Zenon
  <2>5. w \o z \in Seq(Byte) /\ Len(w \o z) = scan.kept + Len(z)
    BY <1>5, ConcatProperties
  <2>6. Redactions(buf \o z)[scan.kept + Len(z)] = Redacted(w \o z)
    <3> DEFINE v == w \o z
    <3>1. Len(v) \in 0 .. Len(v) /\ v \in Seq(Byte) /\ Len(v) = scan.kept + Len(z)
      BY <1>4, <2>3, <2>5
    <3> HIDE DEF v
    <3>2. Redactions(u \o v)[Len(v)] = Redactions(v)[Len(v)]
      BY <1>5, <3>1, SuffixRedactions
    <3>3. Redactions(buf \o z)[scan.kept + Len(z)] = Redacted(v)
      BY <2>4, <3>1, <3>2 DEF Redacted, v
    <3> QED
      BY <3>3 DEF v
  <2>7. Redactions(buf \o z)[n + Len(z)] = Redacted(buf \o z)
    BY <2>3 DEF Redacted
  <2> QED
    BY <2>2, <2>6, <2>7
<1> QED
  BY <1>2, <1>4, <1>5, <1>6 DEF buf

\* The last call keeps nothing; another one no complete line, and not more than
\* two patterns less a byte each.
LEMMA ProcessKeepsLittle ==
  ASSUME NEW held \in Seq(Byte), NEW chunk \in Seq(Byte), NEW last \in BOOLEAN
  PROVE  LET r == Process(held, chunk, last)
         IN  (last => r.carry = <<>>) /\ LittleWithheld(r.carry)
<1> DEFINE buf == held \o chunk
           n == Len(buf)
           safe == SafeLen(buf, last)
           kept == Scan(buf, safe)[n].kept
           i == n - kept + 1
           w == SubSeq(buf, i, n)
<1>1. buf \in Seq(Byte) /\ n \in Nat /\ hold_back \in Nat
  BY ConcatProperties, LenProperties, HoldBackBounds
<1>2. Process(held, chunk, last).carry = w
  BY DEF Process
<1> HIDE DEF buf
<1>3. /\ safe \in 0 .. n /\ n - safe <= Hold(last)
      /\ line_safe => \A j \in 1 .. n : buf[j] = Newline => j <= safe
  BY <1>1, SafeLenBounds
<1> HIDE DEF safe
<1>4. kept \in 0 .. n /\ (kept = 0 \/ i + Width(buf, i) - 1 > safe)
  BY <1>1, <1>3, ScanType
<1> HIDE DEF kept
<1>5. w \in Seq(Byte) /\ Len(w) = kept /\ \A j \in 1 .. kept : w[j] = buf[n - kept + j]
  BY <1>1, <1>4, LastElements
<1> HIDE DEF w
<1>6. CASE kept = 0
  <2>1. w = <<>>
    BY <1>5, <1>6, EmptySeq
  <2> QED
    BY <1>1, <1>2, <2>1 DEF LittleWithheld
<1>7. CASE kept # 0
  <2>1. i \in 1 .. n
    BY <1>1, <1>4, <1>7
  <2> DEFINE width == Width(buf, i)
  <2>2. width \in 1 .. n - i + 1 /\ width <= hold_back + 1
    BY <1>1, <2>1, PlaceType
  <2>3. i + width - 1 > safe
    BY <1>4, <1>7
  <2> HIDE DEF width
  <2>4. kept <= Hold(last) + hold_back /\ Hold(last) > 0
    BY <1>1, <1>3, <1>4, <2>1, <2>2, <2>3, HoldBackBounds DEF Hold
  <2>5. ~ last /\ Len(w) <= 2 * hold_back
    BY <1>1, <1>4, <1>5, <2>4 DEF Hold
  <2>6. ASSUME line_safe, NEW j \in 1 .. kept, w[j] = Newline
        PROVE  FALSE
    <3> DEFINE l == n - kept + j
    <3>1. l \in 1 .. n /\ l >= i
      BY <1>1, <1>4
    <3>2. buf[l] = Newline
      BY <1>5, <2>6
    <3> HIDE DEF l, i
    <3>3. l <= safe
      BY <1>3, <2>6, <3>1, <3>2
    <3>4. width > 1 /\ l <= i + width - 1
      BY <1>1, <1>3, <2>1, <2>2, <2>3, <3>1, <3>3
    <3>5. PatternsAt(buf, i) # {} /\ width = Len(MatchAt(buf, i))
      BY <3>4 DEF Width, width
    <3>6. buf \in Seq(Symbol)
      BY <1>1, SeqMonotonic DEF Symbol
    <3> DEFINE p == MatchAt(buf, i)
    <3>7. p \in PatternsAt(buf, i) /\ p \in Patterns
      BY <2>1, <3>5, <3>6, MatchAtType
    <3>8. StandsAt(p, buf, i)
      BY <2>1, <3>6, <3>7, PatternsAtPointwise
    <3> HIDE DEF p
    <3> DEFINE q == l - i + 1
    <3>9. q \in 1 .. Len(p) /\ i + q - 1 = l
      <4>1. Len(p) = width
        BY <3>5 DEF p
      <4> QED
        BY <2>1, <2>2, <3>1, <3>4, <4>1
    <3> HIDE DEF q
    <3>10. p[q] = Newline
      BY <3>2, <3>8, <3>9 DEF StandsAt
    <3>11. q \in DOMAIN p
      BY <3>7, <3>9, PatternType, LenProperties
    <3> QED
      BY <2>6, <3>7, <3>10, <3>11 DEF line_safe
  <2>7. DOMAIN w = 1 .. kept
    BY <1>5, LenProperties
  <2> QED
    BY <1>2, <2>5, <2>6, <2>7 DEF LittleWithheld
<1> QED
  BY <1>6, <1>7

-----------------------------------------------------------------------------
(* No pattern stands in what is redacted.                                  *)

\* The bytes that a redaction begins with are the bytes of the text.
LEMMA BytesAreInput ==
  ASSUME NEW s \in Seq(Byte)
  PROVE  \A k \in 0 .. Len(s) : \A m \in 0 .. Len(Redactions(s)[k]) :
            (\A j \in 1 .. m : Redactions(s)[k][j] \in Byte)
               => /\ m <= k
                  /\ \A j \in 1 .. m : Redactions(s)[k][j] = s[Len(s) - k + j]
<1> DEFINE n == Len(s)
           R == Redactions(s)
           Same(k, m) == m <= k /\ \A j \in 1 .. m : R[k][j] = s[n - k + j]
           S == {k \in 0 .. n : \A m \in 0 .. Len(R[k]) :
                                   (\A j \in 1 .. m : R[k][j] \in Byte) => Same(k, m)}
<1>1. n \in Nat
  BY LenProperties
<1>2. ASSUME NEW k \in 0 .. n, \A j \in 0 .. n : j < k => j \in S
      PROVE  k \in S
  <2> SUFFICES ASSUME NEW m \in 0 .. Len(R[k]), \A j \in 1 .. m : R[k][j] \in Byte
               PROVE  Same(k, m)
    OBVIOUS
  <2>1. CASE m = 0
    BY <1>1, <2>1
  <2>2. CASE k = 0
    <3>1. R[0] = <<>>
      BY RedactionsType
    <3>2. m = 0
      BY <2>2, <3>1
    <3> QED
      BY <2>1, <3>2
  <2>3. CASE k > 0 /\ m > 0
    <3> DEFINE i == n - k + 1
               l == k - Width(s, i)
    <3>1. /\ i \in 1 .. n /\ l \in 0 .. n /\ l < k
          /\ SymbolAt(s, i) \in Symbol
          /\ R[k] = <<SymbolAt(s, i)>> \o R[l]
      BY <1>1, <2>3, RedactionsStep
    <3>2. R[l] \in Seq(Symbol) /\ R[k] \in Seq(Symbol)
      BY <3>1, RedactionsType
    <3> HIDE DEF R, l
    <3>3. /\ Len(R[l]) \in Nat /\ Len(R[k]) = 1 + Len(R[l])
          /\ R[k][1] = SymbolAt(s, i)
          /\ \A j \in 2 .. 1 + Len(R[l]) : R[k][j] = R[l][j - 1]
      <4> DEFINE x == SymbolAt(s, i)
      <4>1. x \in Symbol /\ R[k] = <<x>> \o R[l]
        BY <3>1
      <4> HIDE DEF x
      <4>2. /\ Len(R[l]) \in Nat /\ Len(R[k]) = 1 + Len(R[l])
            /\ R[k][1] = x
            /\ \A j \in 2 .. 1 + Len(R[l]) : R[k][j] = R[l][j - 1]
        BY <3>2, <4>1, Prepended
      <4> QED
        BY <4>2 DEF x
    <3>4. PatternsAt(s, i) = {}
      <4> SUFFICES ASSUME PatternsAt(s, i) # {} PROVE FALSE
        OBVIOUS
      <4>1. R[k][1] = NameOf(MatchAt(s, i))
        BY <3>3 DEF SymbolAt
      <4>2. R[k][1] \in Byte
        BY <2>3
      <4>3. s \in Seq(Symbol)
        BY SeqMonotonic DEF Symbol
      <4>4. NameOf(MatchAt(s, i)) \in Secret
        BY <3>1, <4>3, MatchAtType, PatternType
      <4> QED
        BY <4>1, <4>2, <4>4, RedactionAssumption
    <3>5. SymbolAt(s, i) = s[i] /\ l = k - 1
      BY <3>4 DEF SymbolAt, Width, l
    <3>6. m - 1 \in 0 .. Len(R[l]) /\ \A j \in 1 .. m - 1 : R[l][j] \in Byte
      <4>1. m - 1 \in 0 .. Len(R[l])
        BY <2>3, <3>3
      <4>2. ASSUME NEW j \in 1 .. m - 1
            PROVE  R[l][j] \in Byte
        <5>1. j + 1 \in 2 .. 1 + Len(R[l]) /\ j + 1 \in 1 .. m /\ (j + 1) - 1 = j
          BY <2>3, <3>3, <4>1
        <5>2. R[k][j + 1] = R[l][(j + 1) - 1]
          BY <3>3, <5>1
        <5> QED
          BY <5>1, <5>2
      <4> QED
        BY <4>1, <4>2
    <3>7. Same(l, m - 1)
      BY <1>2, <3>1, <3>6
    <3>8. ASSUME NEW j \in 1 .. m
          PROVE  R[k][j] = s[n - k + j]
      <4>1. CASE j = 1
        BY <3>3, <3>5, <4>1
      <4>2. CASE j > 1
        <5>1. /\ j \in 2 .. 1 + Len(R[l]) /\ j - 1 \in 1 .. m - 1
              /\ n - l + (j - 1) = n - k + j
          BY <1>1, <3>3, <3>5, <4>2
        <5>2. R[k][j] = R[l][j - 1]
          BY <3>3, <5>1
        <5>3. R[l][j - 1] = s[n - l + (j - 1)]
          BY <3>7, <5>1
        <5> QED
          BY <5>1, <5>2, <5>3
      <4> QED
        BY <4>1, <4>2
    <3>9. m <= k
      BY <1>1, <2>3, <3>5, <3>7
    <3> QED
      BY <3>8, <3>9
  <2>4. k \in Nat /\ m \in Nat
    BY <1>1
  <2> HIDE DEF Same
  <2> QED
    BY <2>1, <2>2, <2>3, <2>4
<1> HIDE DEF S
<1>3. \A k \in 0 .. n : k \in S
  BY <1>1, <1>2, UpwardsInduction
<1> QED
  BY <1>3 DEF S

Clean(text) == \A i \in DOMAIN text : PatternsAt(text, i) = {}

\* A pattern that stands in the redaction of the last k bytes stands where they
\* begin, where it would have been replaced, or further on.
LEMMA RedactionsClean ==
  ASSUME NEW s \in Seq(Byte)
  PROVE  \A k \in 0 .. Len(s) : Clean(Redactions(s)[k])
<1> DEFINE n == Len(s)
           R == Redactions(s)
           S == {k \in 0 .. n : Clean(R[k])}
<1>1. n \in Nat /\ s \in Seq(Symbol)
  BY LenProperties, SeqMonotonic DEF Symbol
<1>2. ASSUME NEW k \in 0 .. n, \A j \in 0 .. n : j < k => j \in S
      PROVE  k \in S
  <2> SUFFICES ASSUME NEW q \in DOMAIN R[k], NEW p \in PatternsAt(R[k], q)
               PROVE  FALSE
    BY DEF Clean
  <2>1. R[k] \in Seq(Symbol) /\ R[0] = <<>>
    BY RedactionsType
  <2>2. q \in 1 .. Len(R[k]) /\ Len(R[k]) \in Nat
    BY <2>1, LenProperties
  <2>3. p \in Patterns /\ StandsAt(p, R[k], q)
    BY <2>1, <2>2, PatternsAtPointwise
  <2>4. p \in Seq(Byte) /\ Len(p) \in Nat /\ Len(p) > 0 /\ \A j \in 1 .. Len(p) : p[j] \in Byte
    BY <2>3, PatternType, ElementOfSeq
  <2>5. k > 0
    BY <2>1, <2>2
  <2> DEFINE i == n - k + 1
             l == k - Width(s, i)
  <2>6. /\ i \in 1 .. n /\ l \in 0 .. n /\ l < k
        /\ SymbolAt(s, i) \in Symbol
        /\ R[k] = <<SymbolAt(s, i)>> \o R[l]
    BY <1>1, <2>5, RedactionsStep
  <2>7. R[l] \in Seq(Symbol)
    BY <2>6, RedactionsType
  <2>8. /\ Len(R[l]) \in Nat /\ Len(R[k]) = 1 + Len(R[l])
        /\ R[k][1] = SymbolAt(s, i)
        /\ \A j \in 2 .. 1 + Len(R[l]) : R[k][j] = R[l][j - 1]
    <3> DEFINE x == SymbolAt(s, i)
    <3>1. x \in Symbol /\ R[k] = <<x>> \o R[l]
      BY <2>6
    <3> HIDE DEF x, l, R
    <3>2. /\ Len(R[l]) \in Nat /\ Len(R[k]) = 1 + Len(R[l])
          /\ R[k][1] = x
          /\ \A j \in 2 .. 1 + Len(R[l]) : R[k][j] = R[l][j - 1]
      BY <2>7, <3>1, Prepended
    <3> QED
      BY <3>2 DEF x
  <2>9. CASE q = 1
    <3>1. Len(p) \in 0 .. Len(R[k]) /\ \A j \in 1 .. Len(p) : R[k][j] = p[j]
      BY <2>2, <2>3, <2>4, <2>9 DEF StandsAt
    <3>2. Len(p) <= k /\ \A j \in 1 .. Len(p) : R[k][j] = s[n - k + j]
      BY <2>4, <3>1, BytesAreInput
    <3> HIDE DEF R
    <3>3. ASSUME NEW j \in 1 .. Len(p)
          PROVE  s[i + j - 1] = p[j]
      <4>1. i + j - 1 = n - k + j
        BY <1>1, <2>4
      <4>2. s[n - k + j] = p[j]
        BY <3>1, <3>2
      <4> QED
        BY <4>1, <4>2
    <3>4. i + Len(p) - 1 <= n
      BY <1>1, <2>4, <3>2
    <3>5. StandsAt(p, s, i)
      BY <3>3, <3>4 DEF StandsAt
    <3>6. p \in PatternsAt(s, i)
      BY <1>1, <2>3, <2>6, <3>5, PatternsAtPointwise
    <3>7. SymbolAt(s, i) \in Secret
      BY <1>1, <2>6, <3>6, MatchAtType, PatternType DEF SymbolAt
    <3>8. R[k][1] \in Byte
      BY <2>4, <3>1
    <3> QED
      BY <2>8, <3>7, <3>8, RedactionAssumption
  <2>10. CASE q > 1
    <3> HIDE DEF i, l, R
    <3> DEFINE r == q - 1
    <3>1. r \in 1 .. Len(R[l])
      BY <2>2, <2>8, <2>10
    <3>2. StandsAt(p, R[l], r)
      <4>1. r + Len(p) - 1 <= Len(R[l])
        BY <2>2, <2>3, <2>4, <2>8 DEF StandsAt
      <4>2. ASSUME NEW j \in 1 .. Len(p)
            PROVE  R[l][r + j - 1] = p[j]
        <5>1. q + j - 1 \in 2 .. 1 + Len(R[l]) /\ (q + j - 1) - 1 = r + j - 1
          <6>1. q \in Nat /\ Len(p) \in Nat /\ Len(R[l]) \in Nat
            BY <2>2, <2>4, <2>8
          <6> QED
            BY <2>10, <4>1, <6>1
        <5>2. R[k][q + j - 1] = R[l][(q + j - 1) - 1]
          BY <2>8, <5>1
        <5>3. R[k][q + j - 1] = p[j]
          BY <2>3 DEF StandsAt
        <5> QED
          BY <5>1, <5>2, <5>3
      <4> QED
        BY <4>1, <4>2 DEF StandsAt
    <3> HIDE DEF r
    <3>3. p \in PatternsAt(R[l], r)
      BY <2>3, <2>7, <3>1, <3>2, PatternsAtPointwise
    <3>4. r \in DOMAIN R[l]
      BY <2>7, <3>1, LenProperties
    <3>5. Clean(R[l])
      BY <1>2, <2>6
    <3> QED
      BY <3>3, <3>4, <3>5 DEF Clean
  <2> QED
    BY <2>2, <2>9, <2>10
<1> HIDE DEF S
<1>3. \A k \in 0 .. n : k \in S
  BY <1>1, <1>2, UpwardsInduction
<1> QED
  BY <1>3 DEF S

\* What is a part, from the beginning, of what is clean is clean.
LEMMA PrefixClean ==
  ASSUME NEW text \in Seq(Symbol), NEW more \in Seq(Symbol), Clean(text \o more)
  PROVE  Clean(text)
<1> SUFFICES ASSUME NEW i \in DOMAIN text, NEW p \in PatternsAt(text, i)
             PROVE  FALSE
  BY DEF Clean
<1>1. i \in 1 .. Len(text) /\ Len(text) \in Nat /\ Len(more) \in Nat
  BY LenProperties
<1>2. p \in Patterns /\ StandsAt(p, text, i)
  BY <1>1, PatternsAtPointwise
<1>3. Len(p) \in Nat
  BY <1>2, PatternType
<1> DEFINE s == text \o more
<1>4. /\ s \in Seq(Symbol) /\ Len(s) = Len(text) + Len(more)
      /\ \A j \in 1 .. Len(text) + Len(more) :
            s[j] = IF j <= Len(text) THEN text[j] ELSE more[j - Len(text)]
  BY ConcatProperties
<1> HIDE DEF s
<1>5. \A j \in 1 .. Len(text) : s[j] = text[j]
  BY <1>1, <1>4
<1>6. \A j \in 1 .. Len(p) : i + j - 1 \in 1 .. Len(text)
  BY <1>1, <1>2, <1>3 DEF StandsAt
<1>7. StandsAt(p, s, i)
  <2>1. i + Len(p) - 1 <= Len(s)
    BY <1>1, <1>2, <1>3, <1>4 DEF StandsAt
  <2>2. \A j \in 1 .. Len(p) : s[i + j - 1] = p[j]
    BY <1>2, <1>5, <1>6 DEF StandsAt
  <2> QED
    BY <2>1, <2>2 DEF StandsAt
<1>8. p \in PatternsAt(s, i) /\ i \in DOMAIN s
  BY <1>1, <1>2, <1>4, <1>7, PatternsAtPointwise, LenProperties
<1> QED
  BY <1>8 DEF Clean, s

-----------------------------------------------------------------------------
(* The streams.                                                            *)

\* What is proved of each stream in every reachable state.  Whatever comes, what
\* has been forwarded and the redaction of what is withheld and what comes are the
\* redaction of the whole: with StreamsAsAWhole alone, which says it when nothing
\* comes, a call could keep what goes on otherwise than the input does.
StreamInv(s) ==
    /\ input[s] \in Seq(Byte) /\ carry[s] \in Seq(Byte)
    /\ out[s] \in Seq(Symbol) /\ eof[s] \in BOOLEAN
    /\ LittleWithheld(carry[s])
    /\ IF eof[s] THEN carry[s] = <<>> /\ out[s] = Redacted(input[s])
       ELSE \A z \in Seq(Byte) : Redacted(input[s] \o z) = out[s] \o Redacted(carry[s] \o z)

StreamsInv ==
    /\ \A v \in {input, carry, out, eof} : v = [s \in Stream |-> v[s]]
    /\ \A s \in Stream : StreamInv(s)

LEMMA RedactedEmpty == Redacted(<<>>) = <<>>
  BY RedactionsType, EmptySeq DEF Redacted

LEMMA StreamsInvInit == StreamInit => StreamsInv
<1> SUFFICES ASSUME StreamInit PROVE StreamsInv
  OBVIOUS
<1>1. ASSUME NEW s \in Stream
      PROVE  StreamInv(s)
  <2>1. input[s] = <<>> /\ carry[s] = <<>> /\ out[s] = <<>> /\ eof[s] = FALSE
    BY DEF StreamInit
  <2>2. \A z \in Seq(Byte) : Redacted(<<>> \o z) = <<>> \o Redacted(<<>> \o z)
    <3> SUFFICES ASSUME NEW z \in Seq(Byte)
                 PROVE  Redacted(<<>> \o z) = <<>> \o Redacted(<<>> \o z)
      OBVIOUS
    <3>1. <<>> \o z = z /\ Redacted(z) \in Seq(Symbol)
      BY ConcatEmptySeq, RedactionsType
    <3>2. <<>> \o Redacted(z) = Redacted(z)
      BY <3>1, ConcatEmptySeq
    <3> QED
      BY <3>1, <3>2
  <2>3. LittleWithheld(<<>>)
    BY HoldBackBounds DEF LittleWithheld
  <2> QED
    BY <2>1, <2>2, <2>3, EmptySeq DEF StreamInv
<1>2. \A v \in {input, carry, out, eof} : v = [s \in Stream |-> v[s]]
  BY DEF StreamInit
<1> QED
  BY <1>1, <1>2 DEF StreamsInv

\* A call keeps it.
LEMMA StreamsInvFeed ==
  ASSUME StreamsInv, NEW s \in Stream, NEW chunk \in Seq(Byte), NEW last \in BOOLEAN,
         last => chunk = <<>>, Feed(s, chunk, last)
  PROVE  StreamsInv' /\ out'[s] = out[s] \o Process(carry[s], chunk, last).out
<1> DEFINE r == Process(carry[s], chunk, last)
<1>1. /\ ~ eof[s]
      /\ input' = [input EXCEPT ![s] = @ \o chunk]
      /\ out' = [out EXCEPT ![s] = @ \o r.out]
      /\ carry' = [carry EXCEPT ![s] = r.carry]
      /\ eof' = [eof EXCEPT ![s] = last]
  BY DEF Feed
<1>2. /\ \A v \in {input, carry, out, eof} : v = [t \in Stream |-> v[t]]
      /\ \A t \in Stream : StreamInv(t)
  BY DEF StreamsInv
<1>3. StreamInv(s)
  BY <1>2
<1>4. /\ r.out \in Seq(Symbol) /\ r.carry \in Seq(Byte)
      /\ \A z \in Seq(Byte) : (last => z = <<>>)
            => Redacted((carry[s] \o chunk) \o z) = r.out \o Redacted(r.carry \o z)
      /\ last => r.carry = <<>>
      /\ LittleWithheld(r.carry)
  <2>1. carry[s] \in Seq(Byte)
    BY <1>3 DEF StreamInv
  <2>2. /\ r.out \in Seq(Symbol) /\ r.carry \in Seq(Byte)
        /\ \A z \in Seq(Byte) : (last => z = <<>>)
              => Redacted((carry[s] \o chunk) \o z) = r.out \o Redacted(r.carry \o z)
    BY <2>1, ProcessSplits
  <2>3. (last => r.carry = <<>>) /\ LittleWithheld(r.carry)
    BY <2>1, ProcessKeepsLittle
  <2> QED
    BY <2>2, <2>3
<1> HIDE DEF r
<1>5. /\ DOMAIN input = Stream /\ DOMAIN carry = Stream
      /\ DOMAIN out = Stream /\ DOMAIN eof = Stream
  BY <1>2
<1>6. /\ input'[s] = input[s] \o chunk /\ carry'[s] = r.carry
      /\ out'[s] = out[s] \o r.out /\ eof'[s] = last
  BY <1>1, <1>5
<1>7. ASSUME NEW z \in Seq(Byte), last => z = <<>>
      PROVE  Redacted((input[s] \o chunk) \o z) = (out[s] \o r.out) \o Redacted(r.carry \o z)
  <2> DEFINE fed  == input[s]
             held == carry[s]
             gone == out[s]
             now  == r.out
             rest == Redacted(r.carry \o z)
  <2>1. /\ fed \in Seq(Byte) /\ held \in Seq(Byte) /\ gone \in Seq(Symbol)
        /\ \A y \in Seq(Byte) : Redacted(fed \o y) = gone \o Redacted(held \o y)
    BY <1>1, <1>3 DEF StreamInv
  <2>2. now \in Seq(Symbol) /\ rest \in Seq(Symbol)
    BY <1>4, ConcatProperties, RedactionsType
  <2>3. Redacted((held \o chunk) \o z) = now \o rest
    BY <1>4, <1>7
  <2> HIDE DEF fed, held, gone, now, rest
  <2>4. chunk \o z \in Seq(Byte)
    BY ConcatProperties
  <2>5. Redacted(fed \o (chunk \o z)) = gone \o Redacted(held \o (chunk \o z))
    BY <2>1, <2>4
  <2>6. fed \in Seq(Byte) /\ held \in Seq(Byte) /\ gone \in Seq(Symbol)
    BY <2>1
  <2>7. /\ (fed \o chunk) \o z = fed \o (chunk \o z)
        /\ (held \o chunk) \o z = held \o (chunk \o z)
        /\ gone \o (now \o rest) = (gone \o now) \o rest
    <3>1. (fed \o chunk) \o z = fed \o (chunk \o z)
      BY <2>6, Associative
    <3>2. (held \o chunk) \o z = held \o (chunk \o z)
      BY <2>6, Associative
    <3>3. (gone \o now) \o rest = gone \o (now \o rest)
      <4>1. gone \in Seq(Symbol) /\ now \in Seq(Symbol) /\ rest \in Seq(Symbol)
        BY <2>2, <2>6
      <4> QED
        BY <4>1, Associative
    <3> QED
      BY <3>1, <3>2, <3>3
  <2>8. Redacted((fed \o chunk) \o z) = (gone \o now) \o rest
    BY <2>3, <2>5, <2>7
  <2> QED
    BY <2>8 DEF fed, gone, now, rest
<1>8. StreamInv(s)'
  <2>1. input[s] \o chunk \in Seq(Byte) /\ out[s] \o r.out \in Seq(Symbol)
    BY <1>3, <1>4, ConcatProperties DEF StreamInv
  <2>2. CASE ~ last
    <3>1. \A z \in Seq(Byte) :
             Redacted(input'[s] \o z) = out'[s] \o Redacted(carry'[s] \o z)
      BY <1>6, <1>7, <2>2
    <3> QED
      BY <1>4, <1>6, <2>1, <2>2, <3>1 DEF StreamInv, LittleWithheld
  <2>3. CASE last
    <3>1. r.carry = <<>> /\ <<>> \in Seq(Byte)
      BY <1>4, <2>3
    <3>2. Redacted((input[s] \o chunk) \o <<>>) = (out[s] \o r.out) \o Redacted(<<>> \o <<>>)
      BY <1>7, <3>1
    <3>3. (input[s] \o chunk) \o <<>> = input[s] \o chunk /\ <<>> \o <<>> = <<>>
      BY <2>1, <3>1, ConcatEmptySeq
    <3>4. (out[s] \o r.out) \o <<>> = out[s] \o r.out
      BY <2>1, ConcatEmptySeq
    <3>5. Redacted(input'[s]) = out'[s] /\ carry'[s] = <<>>
      BY <1>6, <3>1, <3>2, <3>3, <3>4, RedactedEmpty
    <3> QED
      BY <1>4, <1>6, <2>1, <2>3, <3>5 DEF StreamInv, LittleWithheld
  <2> QED
    BY <2>2, <2>3
<1>9. ASSUME NEW t \in Stream, t # s
      PROVE  StreamInv(t)'
  <2>1. /\ input'[t] = input[t] /\ carry'[t] = carry[t]
        /\ out'[t] = out[t] /\ eof'[t] = eof[t]
    BY <1>1, <1>5, <1>9
  <2> QED
    BY <1>2, <2>1 DEF StreamInv, LittleWithheld
<1>10. \A v \in {input', carry', out', eof'} : v = [t \in Stream |-> v[t]]
  BY <1>1, <1>2
<1>11. \A t \in Stream : StreamInv(t)'
  BY <1>8, <1>9
<1> QED
  BY <1>6, <1>10, <1>11 DEF StreamsInv, r

\* In any state the invariant says what the properties say.
LEMMA StreamsInvImplies ==
  StreamsInv => StreamsAsAWhole /\ NothingLeaks /\ WithholdsLittle
<1> SUFFICES ASSUME StreamsInv, NEW s \in Stream
             PROVE  /\ out[s] \o Redacted(carry[s]) = Redacted(input[s])
                    /\ eof[s] => carry[s] = <<>>
                    /\ Clean(out[s])
                    /\ LittleWithheld(carry[s])
  BY DEF StreamsAsAWhole, NothingLeaks, WithholdsLittle, Clean, LittleWithheld
<1>1. StreamInv(s)
  BY DEF StreamsInv
<1>2. /\ input[s] \in Seq(Byte) /\ carry[s] \in Seq(Byte) /\ out[s] \in Seq(Symbol)
      /\ LittleWithheld(carry[s]) /\ (eof[s] => carry[s] = <<>>)
  BY <1>1 DEF StreamInv
<1>3. out[s] \o Redacted(carry[s]) = Redacted(input[s])
  <2>1. CASE eof[s]
    <3>1. out[s] \o <<>> = out[s]
      BY <1>2, ConcatEmptySeq
    <3> QED
      BY <1>1, <2>1, <3>1, RedactedEmpty DEF StreamInv
  <2>2. CASE ~ eof[s]
    <3>1. \A z \in Seq(Byte) : Redacted(input[s] \o z) = out[s] \o Redacted(carry[s] \o z)
      BY <1>1, <2>2 DEF StreamInv
    <3>2. Redacted(input[s] \o <<>>) = out[s] \o Redacted(carry[s] \o <<>>)
      BY <3>1, EmptySeq
    <3>3. input[s] \o <<>> = input[s] /\ carry[s] \o <<>> = carry[s]
      BY <1>2, ConcatEmptySeq
    <3> QED
      BY <3>2, <3>3
  <2> QED
    BY <2>1, <2>2
<1>4. Clean(out[s] \o Redacted(carry[s]))
  <2>1. Len(input[s]) \in 0 .. Len(input[s])
    BY <1>2, LenProperties
  <2>2. Clean(Redacted(input[s]))
    BY <1>2, <2>1, RedactionsClean DEF Redacted
  <2> QED
    BY <1>3, <2>2
<1>5. Clean(out[s])
  BY <1>2, <1>4, PrefixClean, RedactionsType
<1> QED
  BY <1>2, <1>3, <1>5

LEMMA StreamsInvNext ==
  ASSUME StreamsInv, [StreamNext]_streamVars
  PROVE  StreamsInv'
<1>1. CASE UNCHANGED streamVars
  BY <1>1 DEF streamVars, StreamsInv, StreamInv, LittleWithheld
<1>2. ASSUME NEW s \in Stream, NEW n \in 1 .. MaxBytes - Len(input[s]),
             NEW chunk \in Chunk(n), Feed(s, chunk, FALSE)
      PROVE  StreamsInv'
  <2>1. Len(input[s]) \in Nat
    BY LenProperties DEF StreamsInv, StreamInv
  <2>2. n \in Nat
    BY <2>1, StreamAssumption
  <2>3. chunk \in Seq(Byte)
    BY <2>2, SeqDef DEF Chunk
  <2> QED
    BY <1>2, <2>3, StreamsInvFeed
<1>3. ASSUME NEW s \in Stream, Feed(s, <<>>, TRUE)
      PROVE  StreamsInv'
  <2>1. <<>> \in Seq(Byte)
    BY EmptySeq
  <2> QED
    BY <1>3, <2>1, StreamsInvFeed
<1> QED
  BY <1>1, <1>2, <1>3 DEF StreamNext

LEMMA StreamsInvariant == StreamSpec => []StreamsInv
  BY StreamsInvInit, StreamsInvNext, PTL DEF StreamSpec

\* However the output of a child is cut into reads, what process has returned and
\* the redaction of what it withholds are the redaction of the whole output.
THEOREM StreamedAsAWhole == StreamSpec => []StreamsAsAWhole
  BY StreamsInvariant, StreamsInvImplies, PTL

\* No pattern stands in what process has returned, also not across two calls.
THEOREM NothingIsLeaked == StreamSpec => []NothingLeaks
  BY StreamsInvariant, StreamsInvImplies, PTL

\* process withholds no complete line, unless a secret spans lines, and never more
\* than twice its hold-back.
THEOREM LittleIsWithheld == StreamSpec => []WithholdsLittle
  BY StreamsInvariant, StreamsInvImplies, PTL
=============================================================================
