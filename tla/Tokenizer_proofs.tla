-------------------------- MODULE Tokenizer_proofs --------------------------
(***************************************************************************)
(* Proofs about Tokenizer for every vocabulary, merge table and text: the  *)
(* tokens are tokens of the vocabulary, without a fallback they cover the  *)
(* text piece by piece, the merge rules have nothing left to do, a         *)
(* vocabulary with all characters of the text needs no fallback, plain     *)
(* text is shown again as it was, and every step brings encode nearer to   *)
(* its end.                                                                *)
(***************************************************************************)
EXTENDS Tokenizer, SequenceTheorems, FiniteSetTheorems, WellFoundedInduction, TLAPS

(* Least and greatest elements: the CHOOSE operators of the tables rest on  *)
(* these two.                                                              *)

LEMMA MinExists ==
    ASSUME NEW S \in SUBSET Nat, S # {}
    PROVE  \E x \in S : \A y \in S : x <= y
<1>1. PICK x \in S : \A y \in S : ~ (<<y, x>> \in OpToRel(<, Nat))
  BY NatLessThanWellFounded, WFMin
<1>2. \A y \in S : ~ (y < x)
  BY <1>1 DEF OpToRel
<1>3. \A y \in S : x \in Nat /\ y \in Nat  OBVIOUS
<1> QED  BY <1>2, <1>3

\* Induction over the naturals, on a set.
LEMMA SetInduction ==
    ASSUME NEW S, 0 \in S, \A n \in Nat : n \in S => n + 1 \in S
    PROVE  \A n \in Nat : n \in S
<1> DEFINE B == Nat \ S
<1> SUFFICES ASSUME B # {} PROVE FALSE
  OBVIOUS
<1>1. PICK b \in B : \A c \in B : b <= c
  BY MinExists
<1>2. b \in Nat /\ b # 0 /\ b - 1 \in Nat /\ ~ (b <= b - 1) /\ (b - 1) + 1 = b
  OBVIOUS
<1>3. b - 1 \notin B
  BY <1>1, <1>2
<1> QED
  BY <1>2, <1>3

LEMMA MaxExists ==
    ASSUME NEW n \in Nat, NEW S \in SUBSET (0 .. n), S # {}
    PROVE  \E x \in S : \A y \in S : y <= x
<1> DEFINE M == {n - x : x \in S}
<1>1. \A x \in S : x \in 0 .. n /\ n - x \in Nat  OBVIOUS
<1>2. M \in SUBSET Nat  BY <1>1
<1>3. PICK m \in M : \A y \in M : m <= y
  <2>1. M # {}  OBVIOUS
  <2> QED  BY <1>2, <2>1, MinExists
<1>4. PICK x \in S : m = n - x  BY <1>3
<1>5. ASSUME NEW y \in S  PROVE y <= x
  <2>1. n - y \in M  OBVIOUS
  <2>2. m <= n - y  BY <1>3, <2>1
  <2> QED  BY <1>1, <1>4, <2>2
<1> QED  BY <1>5
-----------------------------------------------------------------------------
(* The tables                                                              *)

\* The id of a text that a token has is the id of a token with that text.
LEMMA IdOfToken ==
    ASSUME NEW t \in Tokenizers, NEW s, HasToken(t, s)
    PROVE  IdOf(t, s) \in Ids(t) /\ Text(t, IdOf(t, s)) = s
<1> DEFINE S == {id \in Ids(t) : Text(t, id) = s}
<1>1. Len(t.vocab) - 1 \in Nat  BY TokenizersAssumption
<1>2. S # {} /\ S \in SUBSET (0 .. Len(t.vocab) - 1)  BY DEF HasToken, Ids
<1>3. \E x \in S : \A y \in S : y <= x  BY <1>1, <1>2, MaxExists
<1> QED  BY <1>3 DEF IdOf

LEMMA ByteTokenIsId ==
    ASSUME NEW t \in Tokenizers, NEW b
    PROVE  ByteToken(t, b) \in Ids(t)
<1> DEFINE S == ByteTokens(t, b)
<1>1. Len(t.vocab) - 1 \in Nat  BY TokenizersAssumption
<1>2. CASE S = {}
  BY <1>1, <1>2 DEF ByteToken, Ids
<1>3. CASE S # {}
  <2>1. S \in SUBSET (0 .. Len(t.vocab) - 1)  BY DEF ByteTokens, Ids
  <2>2. \E x \in S : \A y \in S : y <= x  BY <1>1, <1>3, <2>1, MaxExists
  <2> QED  BY <1>3, <2>2, <2>1 DEF ByteToken, Ids
<1> QED  BY <1>2, <1>3

LEMMA RankIsNat ==
    ASSUME NEW t \in Tokenizers, NEW l, NEW r, Ranked(t, l, r)
    PROVE  Rank(t, l, r) \in Nat
<1> DEFINE S == RulesFor(t, l, r)
<1>1. Len(t.merges) \in Nat /\ DOMAIN t.merges = 1 .. Len(t.merges)
  BY TokenizersAssumption
<1>2. S # {} /\ S \in SUBSET (0 .. Len(t.merges))
  BY <1>1 DEF Ranked, RulesFor
<1>3. \E x \in S : \A y \in S : y <= x  BY <1>1, <1>2, MaxExists
<1> QED  BY <1>2, <1>3 DEF Rank

\* If any pair is ranked, the best pair is one of them.
LEMMA BestPairIsPair ==
    ASSUME NEW t \in Tokenizers, NEW w \in Seq(Ids(t)), Pairs(t, w) # {}
    PROVE  BestPair(t, w) \in Pairs(t, w)
<1> DEFINE P == Pairs(t, w)
           R == {RankAt(t, w, i) : i \in P}
<1>1. P \in SUBSET Nat /\ P # {}  BY DEF Pairs
<1>2. \A i \in P : RankAt(t, w, i) \in Nat  BY RankIsNat DEF Pairs, RankAt
<1> HIDE DEF P
<1>3. R \in SUBSET Nat /\ R # {}  BY <1>1, <1>2
<1>4. PICK r \in R : \A q \in R : r <= q  BY <1>3, MinExists
<1> DEFINE B == {i \in P : RankAt(t, w, i) = r}
<1>5. B \in SUBSET Nat /\ B # {}  BY <1>1, <1>4
<1>6. PICK i \in B : \A j \in B : i <= j  BY <1>5, MinExists
<1>7. \A j \in P : \/ RankAt(t, w, i) < RankAt(t, w, j)
                   \/ RankAt(t, w, i) = RankAt(t, w, j) /\ i <= j
  <2> TAKE j \in P
  <2>1. r <= RankAt(t, w, j) /\ RankAt(t, w, i) = r  BY <1>4, <1>6
  <2>2. RankAt(t, w, j) = r => i <= j  BY <1>6
  <2>3. RankAt(t, w, j) \in Nat /\ r \in Nat  BY <1>2, <1>3, <1>4
  <2> QED  BY <2>1, <2>2, <2>3
<1>8. i \in P  BY <1>6
<1> QED  BY <1>7, <1>8 DEF BestPair, P

LEMMA BestPairInside ==
    ASSUME NEW t \in Tokenizers, NEW w \in Seq(Ids(t)), Pairs(t, w) # {}
    PROVE  BestPair(t, w) \in 1 .. Len(w) - 1
BY BestPairIsPair DEF Pairs
-----------------------------------------------------------------------------
(* Types                                                                   *)

\* A joined sequence is one shorter and has the elements it should.
LEMMA JoinedSeq ==
    ASSUME NEW S, NEW s \in Seq(S), NEW i \in 1 .. Len(s) - 1, NEW x \in S
    PROVE  /\ Joined(s, i, x) \in Seq(S)
           /\ Len(Joined(s, i, x)) = Len(s) - 1
           /\ \A k \in 1 .. Len(s) - 1 :
                  Joined(s, i, x)[k] = IF k < i THEN s[k] ELSE IF k = i THEN x ELSE s[k + 1]
<1>1. Len(s) - 1 \in Nat  OBVIOUS
<1>2. \A k \in 1 .. Len(s) - 1 :
          (IF k < i THEN s[k] ELSE IF k = i THEN x ELSE s[k + 1]) \in S
  OBVIOUS
<1> QED  BY <1>1, <1>2 DEF Joined
-----------------------------------------------------------------------------
(* GPT-2's encoding of a text: every character is one ASCII byte, or a     *)
(* leading byte and one that continues it.                                 *)

Continues(b) == 128 <= b /\ b < 192

Character(c) ==
    \/ c \in Seq(Byte) /\ Len(c) = 1 /\ c[1] < 128
    \/ c \in Seq(Byte) /\ Len(c) = 2 /\ c[1] >= 192 /\ Continues(c[2])

\* The character c stands at p, counted from 1, in b.
StandsAt(b, p, c) ==
    p + Len(c) - 1 <= Len(b) /\ \A i \in 1 .. Len(c) : b[p + i - 1] = c[i]

\* b is made of the characters of s.
MadeOf(s, b) ==
    /\ b \in Seq(Byte)
    /\ \A p \in 1 .. Len(b) :
           /\ Continues(b[p]) => p > 1 /\ b[p - 1] >= 192
           /\ ~Continues(b[p]) =>
                  \E k \in DOMAIN s : StandsAt(b, p, UTF8(CodePoint(s[k])))

LEMMA CodePointSmall ==
    ASSUME NEW b \in Byte
    PROVE  CodePoint(b) \in 0 .. 511
<1>1. CASE Printable(b)
  BY <1>1 DEF CodePoint, Byte
<1>2. CASE ~Printable(b)
  <2> DEFINE C == {c \in 0 .. b - 1 : ~Printable(c)}
  <2>1. b \in Nat /\ b <= 255 /\ 0 .. b - 1 \in SUBSET Nat
    BY DEF Byte
  <2>2. IsFiniteSet(0 .. b - 1) /\ Cardinality(0 .. b - 1) = b
    <3>1. 0 \in Int /\ b - 1 \in Int /\ (b - 1) - 0 + 1 = b /\ (0 > b - 1 => b = 0)
      BY <2>1
    <3> QED
      BY <3>1, FS_Interval
  <2>3. C \in SUBSET (0 .. b - 1)
    OBVIOUS
  <2>4. Cardinality(C) <= Cardinality(0 .. b - 1) /\ IsFiniteSet(C)
    BY <2>2, <2>3, FS_Subset
  <2>5. Cardinality(C) \in Nat
    BY <2>4, FS_CardinalityType
  <2>6. CodePoint(b) = 256 + Cardinality(C)
    BY <1>2 DEF CodePoint
  <2> HIDE DEF C
  <2>7. PICK n \in Nat : n = Cardinality(C)
    BY <2>5
  <2>8. n <= 255 /\ CodePoint(b) = 256 + n
    BY <2>1, <2>2, <2>4, <2>6, <2>7
  <2> QED
    BY <2>8
<1> QED
  BY <1>1, <1>2

LEMMA UTF8Character ==
    ASSUME NEW b \in Byte
    PROVE  Character(UTF8(CodePoint(b)))
<1>1. PICK cp \in 0 .. 511 : cp = CodePoint(b)
  BY CodePointSmall
<1>2. CASE cp < 128
  <2>1. UTF8(cp) = <<cp>> /\ cp \in Byte
    BY <1>2 DEF UTF8, Byte
  <2> QED
    BY <1>1, <1>2, <2>1 DEF Character
<1>3. CASE ~ (cp < 128)
  <2>1. PICK q \in Int : q = cp \div 64
    OBVIOUS
  <2>2. PICK r \in Int : r = cp % 64
    OBVIOUS
  <2>3. q >= 2 /\ q <= 7 /\ r >= 0 /\ r < 64
    BY <1>3, <2>1, <2>2
  <2>4. UTF8(cp) = <<192 + q, 128 + r>>
    BY <1>3, <2>1, <2>2 DEF UTF8
  <2>5. 192 + q \in Byte /\ 128 + r \in Byte
    BY <2>3 DEF Byte
  <2> QED
    BY <1>1, <2>3, <2>4, <2>5 DEF Character, Continues
<1> QED
  BY <1>2, <1>3

\* One character more.
LEMMA MadeOfMore ==
    ASSUME NEW s, NEW b, MadeOf(s, b), NEW k \in DOMAIN s, NEW c,
           c = UTF8(CodePoint(s[k])), Character(c)
    PROVE  MadeOf(s, b \o c)
<1> DEFINE d == b \o c
<1>1. /\ b \in Seq(Byte) /\ c \in Seq(Byte) /\ Len(b) \in Nat /\ Len(c) \in {1, 2}
      /\ d \in Seq(Byte) /\ Len(d) = Len(b) + Len(c)
  BY DEF MadeOf, Character
<1>2. \A p \in 1 .. Len(b) : d[p] = b[p]
  BY <1>1
<1>3. \A i \in 1 .. Len(c) : d[Len(b) + i] = c[i]
  <2> TAKE i \in 1 .. Len(c)
  <2>1. Len(b) + i \in 1 .. Len(b) + Len(c) /\ ~ (Len(b) + i <= Len(b)) /\ (Len(b) + i) - Len(b) = i
    BY <1>1
  <2> QED
    BY <2>1, <1>1
<1> HIDE DEF d
<1>4. ASSUME NEW p \in 1 .. Len(b)
      PROVE  /\ Continues(d[p]) => p > 1 /\ d[p - 1] >= 192
             /\ ~Continues(d[p]) => \E j \in DOMAIN s : StandsAt(d, p, UTF8(CodePoint(s[j])))
  <2>1. d[p] = b[p] /\ (p > 1 => d[p - 1] = b[p - 1])
    <3>1. p > 1 => p - 1 \in 1 .. Len(b)
      BY <1>1
    <3> QED
      BY <3>1, <1>2
  <2>2. Continues(d[p]) => p > 1 /\ d[p - 1] >= 192
    BY <2>1 DEF MadeOf
  <2>3. ASSUME ~Continues(d[p])
        PROVE  \E j \in DOMAIN s : StandsAt(d, p, UTF8(CodePoint(s[j])))
    <3>1. PICK j \in DOMAIN s : StandsAt(b, p, UTF8(CodePoint(s[j])))
      BY <2>1, <2>3 DEF MadeOf
    <3>2. ASSUME NEW e, StandsAt(b, p, e), Len(e) \in Nat
          PROVE  StandsAt(d, p, e)
      <4>1. p + Len(e) - 1 <= Len(d)
        BY <1>1, <3>2 DEF StandsAt
      <4>2. ASSUME NEW i \in 1 .. Len(e) PROVE d[p + i - 1] = e[i]
        <5>1. p + i - 1 \in 1 .. Len(b)
          BY <1>1, <3>2 DEF StandsAt
        <5> QED
          BY <5>1, <1>2, <3>2 DEF StandsAt
      <4> QED
        BY <4>1, <4>2 DEF StandsAt
    <3>3. Len(UTF8(CodePoint(s[j]))) \in Nat
      <4>1. UTF8(CodePoint(s[j])) = <<CodePoint(s[j])>> \/
            UTF8(CodePoint(s[j])) = <<192 + (CodePoint(s[j]) \div 64), 128 + (CodePoint(s[j]) % 64)>>
        BY DEF UTF8
      <4>2. \A x, y : Len(<<x>>) \in Nat /\ Len(<<x, y>>) \in Nat
        OBVIOUS
      <4> QED
        BY <4>1, <4>2, Zenon
    <3> QED
      BY <3>1, <3>2, <3>3
  <2> QED
    BY <2>2, <2>3
<1>5. ASSUME NEW p \in Nat, p = Len(b) + 1
      PROVE  ~Continues(d[p]) /\ StandsAt(d, p, c)
  <2>1. d[p] = c[1] /\ c[1] \in Nat
    <3>1. 1 \in 1 .. Len(c)
      <4>1. PICK n \in {1, 2} : n = Len(c)
        BY <1>1
      <4>2. 1 \in 1 .. n
        OBVIOUS
      <4> QED
        BY ONLY <4>1, <4>2
    <3>2. c[1] \in Byte
      BY <3>1, <1>1, ElementOfSeq
    <3>3. d[Len(b) + 1] = c[1]
      BY <3>1, <1>3
    <3>4. d[p] = d[Len(b) + 1]
      BY <1>5
    <3>5. \A x \in Byte : x \in Nat
      BY DEF Byte
    <3> QED
      BY ONLY <3>2, <3>3, <3>4, <3>5
  <2>2. ~Continues(c[1])
    BY <2>1 DEF Character, Continues
  <2>3. StandsAt(d, p, c)
    <3>1. p + Len(c) - 1 <= Len(d)
      BY <1>1, <1>5
    <3>2. \A i \in 1 .. Len(c) : p + i - 1 = Len(b) + i
      BY <1>1, <1>5
    <3> QED
      BY <3>1, <3>2, <1>3 DEF StandsAt
  <2> QED
    BY <2>1, <2>2, <2>3
<1>6. ASSUME NEW p \in Nat, p = Len(b) + 2, Len(c) = 2
      PROVE  Continues(d[p]) /\ p > 1 /\ d[p - 1] >= 192
  <2>1. d[p] = c[2] /\ d[p - 1] = c[1] /\ p > 1
    <3>1. p - 1 = Len(b) + 1 /\ p > 1 /\ 1 \in 1 .. Len(c) /\ 2 \in 1 .. Len(c)
      BY <1>1, <1>6
    <3> QED
      BY <3>1, <1>3, <1>6
  <2> QED
    BY <2>1, <1>6 DEF Character
<1>7. ASSUME NEW p \in 1 .. Len(d)
      PROVE  \/ p \in 1 .. Len(b)
             \/ p \in Nat /\ p = Len(b) + 1
             \/ p \in Nat /\ p = Len(b) + 2 /\ Len(c) = 2
  <2>1. PICK m \in Nat, n \in {1, 2} : m = Len(b) /\ n = Len(c) /\ Len(d) = m + n
    BY <1>1
  <2>2. p \in 1 .. m + n
    BY <2>1
  <2>3. p \in 1 .. m \/ p = m + 1 \/ (p = m + 2 /\ n = 2)
    BY <2>2
  <2> QED
    BY <2>1, <2>2, <2>3
<1>8. ASSUME NEW p \in 1 .. Len(d)
      PROVE  /\ Continues(d[p]) => p > 1 /\ d[p - 1] >= 192
             /\ ~Continues(d[p]) => \E j \in DOMAIN s : StandsAt(d, p, UTF8(CodePoint(s[j])))
  BY <1>4, <1>5, <1>6, <1>7
<1>9. MadeOf(s, d)
  BY <1>1, <1>8 DEF MadeOf
<1> QED
  BY <1>9 DEF d

\* The prefixes FlattenSeq builds.
Flattening(f, n, g) ==
    g = [i \in 1 .. n |-> IF i = 1 THEN f[i] ELSE g[i - 1] \o f[i]]

LEMMA FlatteningExists ==
    ASSUME NEW f, NEW n \in Nat
    PROVE  \E g : Flattening(f, n, g)
<1> DEFINE S == {m \in Nat : \E g : Flattening(f, m, g)}
<1>1. 0 \in S
  <2> DEFINE g == [i \in 1 .. 0 |-> f[i]]
  <2>1. Flattening(f, 0, g)
    BY DEF Flattening
  <2> QED
    BY <2>1
<1>2. ASSUME NEW m \in Nat, m \in S PROVE m + 1 \in S
  <2>1. PICK g : Flattening(f, m, g)
    BY <1>2
  <2> DEFINE h == [i \in 1 .. m + 1 |-> IF i = 1 THEN f[i] ELSE g[i - 1] \o f[i]]
  <2>2. ASSUME NEW i \in 1 .. m PROVE h[i] = g[i]
    <3>1. i \in 1 .. m + 1
      OBVIOUS
    <3>2. h[i] = IF i = 1 THEN f[i] ELSE g[i - 1] \o f[i]
      BY <3>1
    <3>3. g[i] = IF i = 1 THEN f[i] ELSE g[i - 1] \o f[i]
      <4> HIDE DEF h
      <4> QED
        BY <2>1, Zenon DEF Flattening
    <3> QED
      BY <3>2, <3>3
  <2>3. \A i \in 1 .. m + 1 : i # 1 => i - 1 \in 1 .. m
    OBVIOUS
  <2>4. Flattening(f, m + 1, h)
    <3>1. \A i \in 1 .. m + 1 : (IF i = 1 THEN f[i] ELSE g[i - 1] \o f[i])
                                    = (IF i = 1 THEN f[i] ELSE h[i - 1] \o f[i])
      BY <2>2, <2>3
    <3>2. h = [i \in 1 .. m + 1 |-> IF i = 1 THEN f[i] ELSE h[i - 1] \o f[i]]
      BY <3>1
    <3> QED
      BY <3>2 DEF Flattening
  <2> QED
    BY <2>4
<1>3. \A m \in Nat : m \in S
  <2> HIDE DEF S
  <2> QED
    BY <1>1, <1>2, SetInduction
<1> QED
  BY <1>3

\* g[i] is what the first i sequences of f make.
BuiltUp(f, g) == g[0] = <<>> /\ \A i \in 1 .. Len(f) : g[i] = g[i - 1] \o f[i]

LEMMA BuiltUpTyped ==
    ASSUME NEW S, NEW f \in Seq(Seq(S)), NEW g, BuiltUp(f, g)
    PROVE  \A i \in 0 .. Len(f) : g[i] \in Seq(S)
<1> DEFINE N == Len(f)
           P == {i \in Nat : i <= N => g[i] \in Seq(S)}
<1>1. N \in Nat /\ \A i \in 1 .. N : f[i] \in Seq(S)
  OBVIOUS
<1>2. 0 \in P
  <2>1. g[0] = <<>> /\ <<>> \in Seq(S)
    BY DEF BuiltUp
  <2> QED
    BY <2>1
<1>3. ASSUME NEW i \in Nat, i \in P PROVE i + 1 \in P
  <2> SUFFICES ASSUME i + 1 <= N PROVE g[i + 1] \in Seq(S)
    OBVIOUS
  <2>1. i <= N /\ i + 1 \in 1 .. N /\ (i + 1) - 1 = i
    BY <1>1
  <2>2. g[i] \in Seq(S) /\ f[i + 1] \in Seq(S)
    BY <2>1, <1>1, <1>3
  <2>3. g[i + 1] = g[i] \o f[i + 1]
    BY <2>1 DEF BuiltUp
  <2> QED
    BY <2>2, <2>3, ConcatProperties
<1>4. \A i \in Nat : i \in P
  <2> HIDE DEF P
  <2> QED
    BY <1>2, <1>3, SetInduction
<1> QED
  BY <1>1, <1>4

LEMMA BuiltUpUnique ==
    ASSUME NEW S, NEW f \in Seq(Seq(S)), NEW g, NEW h, BuiltUp(f, g), BuiltUp(f, h)
    PROVE  g[Len(f)] = h[Len(f)]
<1> DEFINE N == Len(f)
           P == {i \in Nat : i <= N => g[i] = h[i]}
<1>1. N \in Nat
  OBVIOUS
<1>2. 0 \in P
  BY DEF BuiltUp
<1>3. ASSUME NEW i \in Nat, i \in P PROVE i + 1 \in P
  <2> SUFFICES ASSUME i + 1 <= N PROVE g[i + 1] = h[i + 1]
    OBVIOUS
  <2>1. i <= N /\ i + 1 \in 1 .. N /\ (i + 1) - 1 = i
    BY <1>1
  <2>2. g[i] = h[i]
    BY <2>1, <1>3
  <2>3. g[i + 1] = g[i] \o f[i + 1] /\ h[i + 1] = h[i] \o f[i + 1]
    BY <2>1 DEF BuiltUp
  <2> QED
    BY <2>2, <2>3
<1>4. \A i \in Nat : i \in P
  <2> HIDE DEF P
  <2> QED
    BY <1>2, <1>3, SetInduction
<1> QED
  BY <1>1, <1>4

LEMMA FlattenBuilds ==
    ASSUME NEW S, NEW f \in Seq(Seq(S))
    PROVE  \E g : BuiltUp(f, g) /\ FlattenSeq(f) = g[Len(f)]
<1> DEFINE N == Len(f)
<1>1. N \in Nat /\ DOMAIN f = 1 .. N /\ \A i \in 1 .. N : f[i] \in Seq(S)
  OBVIOUS
<1>2. CASE N = 0
  <2> DEFINE g == [i \in {0} |-> <<>>]
  <2>1. f = <<>> /\ FlattenSeq(f) = <<>>
    BY <1>2, EmptySeq DEF FlattenSeq
  <2>2. BuiltUp(f, g) /\ g[N] = <<>>
    BY <1>2 DEF BuiltUp
  <2> QED
    BY <2>1, <2>2
<1>3. CASE N # 0
  <2> DEFINE h == CHOOSE x : Flattening(f, Len(f), x)
             g == [i \in 0 .. N |-> IF i = 0 THEN <<>> ELSE h[i]]
  <2>1. Flattening(f, Len(f), h)
    BY <1>1, FlatteningExists
  <2>2. FlattenSeq(f) = h[Len(f)]
    BY <1>1, <1>3, Zenon DEF FlattenSeq, Flattening
  <2> HIDE DEF h
  <2>3. \A i \in 1 .. N : h[i] = IF i = 1 THEN f[i] ELSE h[i - 1] \o f[i]
    BY <2>1 DEF Flattening
  <2>4. ASSUME NEW i \in 1 .. N PROVE g[i] = g[i - 1] \o f[i]
    <3>1. i \in 0 .. N /\ i - 1 \in 0 .. N /\ i # 0 /\ (i - 1 = 0 <=> i = 1)
      BY <1>1
    <3>2. g[i] = h[i] /\ (g[i - 1] = IF i = 1 THEN <<>> ELSE h[i - 1])
      BY <3>1
    <3>3. <<>> \o f[i] = f[i]
      BY <1>1, ConcatEmptySeq
    <3> QED
      BY <3>2, <3>3, <2>3
  <2>5. g[0] = <<>> /\ g[N] = h[N]
    BY <1>1, <1>3
  <2> HIDE DEF g
  <2>6. BuiltUp(f, g)
    BY <2>4, <2>5 DEF BuiltUp
  <2> QED
    BY <2>2, <2>5, <2>6
<1> QED
  BY <1>2, <1>3

LEMMA FlattenIs ==
    ASSUME NEW S, NEW f \in Seq(Seq(S)), NEW g, BuiltUp(f, g)
    PROVE  FlattenSeq(f) = g[Len(f)] /\ FlattenSeq(f) \in Seq(S)
<1>1. PICK h : BuiltUp(f, h) /\ FlattenSeq(f) = h[Len(f)]
  BY FlattenBuilds
<1>2. g[Len(f)] = h[Len(f)]
  BY <1>1, BuiltUpUnique
<1>3. Len(f) \in 0 .. Len(f)
  OBVIOUS
<1>4. g[Len(f)] \in Seq(S)
  BY <1>3, BuiltUpTyped
<1> QED
  BY <1>1, <1>2, <1>4

LEMMA FlattenSmall ==
    ASSUME NEW S, NEW f \in Seq(Seq(S))
    PROVE  /\ Len(f) = 0 => FlattenSeq(f) = <<>>
           /\ Len(f) = 1 => FlattenSeq(f) = f[1]
           /\ Len(f) = 2 => FlattenSeq(f) = f[1] \o f[2]
<1>1. PICK g : BuiltUp(f, g) /\ FlattenSeq(f) = g[Len(f)]
  BY FlattenBuilds
<1>2. g[0] = <<>>
  BY <1>1 DEF BuiltUp
<1>3. ASSUME Len(f) \in {1, 2} PROVE g[1] = f[1]
  <2>1. 1 \in 1 .. Len(f) /\ 1 - 1 = 0
    BY <1>3
  <2>2. g[1] = <<>> \o f[1]
    BY <1>1, <1>2, <2>1 DEF BuiltUp
  <2>3. f[1] \in Seq(S)
    BY <2>1
  <2> QED
    BY <2>2, <2>3, ConcatEmptySeq
<1>4. ASSUME Len(f) = 2 PROVE g[2] = f[1] \o f[2]
  <2>1. 2 \in 1 .. Len(f) /\ 2 - 1 = 1
    BY <1>4
  <2>2. g[2] = g[1] \o f[2]
    BY <1>1, <2>1 DEF BuiltUp
  <2> QED
    BY <1>3, <1>4, <2>2
<1> QED
  BY <1>1, <1>2, <1>3, <1>4

\* Concatenation, kept closed where the provers need not look inside.
Cat(a, b) == a \o b

LEMMA CatThree ==
    ASSUME NEW S, NEW a \in Seq(S), NEW b \in Seq(S), NEW c \in Seq(S)
    PROVE  Cat(Cat(a, b), c) = Cat(a, Cat(b, c))
BY DEF Cat

LEMMA FlattenConcat ==
    ASSUME NEW S, NEW f \in Seq(Seq(S)), NEW h \in Seq(Seq(S))
    PROVE  FlattenSeq(f \o h) = FlattenSeq(f) \o FlattenSeq(h)
<1> DEFINE m == Len(f)
           n == Len(h)
<1>1. m \in Nat /\ n \in Nat
  OBVIOUS
<1>2. PICK u : BuiltUp(f, u) /\ FlattenSeq(f) = u[m]
  BY FlattenBuilds
<1>3. PICK v : BuiltUp(h, v) /\ FlattenSeq(h) = v[n]
  BY FlattenBuilds
<1>4. \A i \in 0 .. m : u[i] \in Seq(S)
  BY <1>2, BuiltUpTyped
<1>5. \A i \in 0 .. n : v[i] \in Seq(S)
  BY <1>3, BuiltUpTyped
<1>6. /\ f \o h \in Seq(Seq(S)) /\ Len(f \o h) = m + n
      /\ \A i \in 1 .. m + n : (f \o h)[i] = IF i <= m THEN f[i] ELSE h[i - m]
  BY ConcatProperties
<1> DEFINE g == [i \in 0 .. m + n |-> IF i <= m THEN u[i] ELSE u[m] \o v[i - m]]
<1>7. v[0] = <<>> /\ u[0] = <<>> /\ u[m] \in Seq(S) /\ u[m] \o <<>> = u[m]
  <2>1. m \in 0 .. m
    BY <1>1
  <2>2. u[m] \in Seq(S)
    BY <2>1, <1>4
  <2> QED
    BY <1>2, <1>3, <2>2, ConcatEmptySeq DEF BuiltUp
<1>8. /\ \A i \in 0 .. m : g[i] = u[i]
      /\ \A i \in 0 .. n : g[m + i] = u[m] \o v[i]
  <2>1. \A i \in 0 .. m : g[i] = u[i]
    BY <1>1
  <2>2. ASSUME NEW i \in 0 .. n PROVE g[m + i] = u[m] \o v[i]
    <3>1. CASE i = 0
      <4>1. m + i = m /\ m \in 0 .. m
        BY <1>1, <3>1
      <4>2. g[m] = u[m]
        BY <4>1, <2>1
      <4> HIDE DEF g, m
      <4> QED
        BY <3>1, <4>1, <4>2, <1>7
    <3>2. CASE i # 0
      <4>1. m + i \in 0 .. m + n /\ ~ (m + i <= m) /\ (m + i) - m = i
        BY <1>1, <3>2
      <4> HIDE DEF m, n
      <4> QED
        BY <4>1
    <3> QED
      BY <3>1, <3>2
  <2> QED
    BY <2>1, <2>2
<1> HIDE DEF g, m, n
<1>9. ASSUME NEW i \in 1 .. m + n PROVE g[i] = g[i - 1] \o (f \o h)[i]
  <2>1. CASE i <= m
    <3>1. i \in 1 .. m /\ i \in 0 .. m /\ i - 1 \in 0 .. m
      BY <1>1, <2>1
    <3>2. g[i] = u[i] /\ g[i - 1] = u[i - 1] /\ (f \o h)[i] = f[i]
      BY <3>1, <1>6, <1>8, <2>1
    <3>3. u[i] = u[i - 1] \o f[i]
      BY <3>1, <1>2 DEF BuiltUp, m
    <3> QED
      BY <3>2, <3>3
  <2>2. CASE ~ (i <= m)
    <3>1. PICK j \in 1 .. n : i = m + j /\ i - 1 = m + (j - 1) /\ i - m = j
      <4>1. i - m \in 1 .. n /\ i = m + (i - m) /\ i - 1 = m + ((i - m) - 1)
        BY <1>1, <2>2
      <4> QED
        BY <4>1
    <3>2. j \in 0 .. n /\ j - 1 \in 0 .. n
      BY <1>1
    <3>3. g[i] = u[m] \o v[j] /\ g[i - 1] = u[m] \o v[j - 1] /\ (f \o h)[i] = h[j]
      BY <3>1, <3>2, <1>6, <1>8, <2>2
    <3>4. v[j] = v[j - 1] \o h[j]
      BY <1>3 DEF BuiltUp, n
    <3>5. h[j] \in Seq(S) /\ v[j - 1] \in Seq(S)
      BY <3>2, <1>5, ElementOfSeq DEF n
    <3>6. Cat(Cat(u[m], v[j - 1]), h[j]) = Cat(u[m], Cat(v[j - 1], h[j]))
      <4>1. u[m] \in Seq(S)
        BY <1>7
      <4> QED
        BY ONLY <3>5, <4>1, CatThree
    <3> QED
      BY <3>3, <3>4, <3>6 DEF Cat
  <2> QED
    BY <2>1, <2>2
<1>10. g[0] = <<>>
  <2>1. 0 \in 0 .. m
    BY <1>1
  <2> QED
    BY <2>1, <1>7, <1>8
<1>11. BuiltUp(f \o h, g)
  BY <1>6, <1>9, <1>10 DEF BuiltUp
<1>12. FlattenSeq(f \o h) = g[m + n]
  BY <1>6, <1>11, FlattenIs
<1>13. n \in 0 .. n
  BY <1>1
<1> QED
  BY <1>2, <1>3, <1>8, <1>12, <1>13

\* What bytes_to_gpt2_unicode returns: bytes, character by character.
LEMMA EncodedMadeOf ==
    ASSUME NEW s \in Seq(Byte)
    PROVE  MadeOf(s, Encoded(s))
<1> DEFINE f == [k \in DOMAIN s |-> UTF8(CodePoint(s[k]))]
           N == Len(s)
<1>1. N \in Nat /\ DOMAIN s = 1 .. N /\ \A k \in 1 .. N : s[k] \in Byte
  OBVIOUS
<1>2. ASSUME NEW k \in 1 .. N
      PROVE  f[k] = UTF8(CodePoint(s[k])) /\ Character(f[k])
  BY <1>1, UTF8Character
<1>3. DOMAIN f = 1 .. N /\ \A k \in 1 .. N : f[k] \in Seq(Byte)
  BY <1>1, <1>2 DEF Character
<1>4. f \in Seq(Seq(Byte)) /\ Len(f) = N
  BY <1>1, <1>3
<1>5. Encoded(s) = FlattenSeq(f)
  BY DEF Encoded
<1> HIDE DEF f
<1>6. PICK g : BuiltUp(f, g) /\ FlattenSeq(f) = g[N]
  BY <1>4, FlattenBuilds
<1> DEFINE P == {i \in Nat : i <= N => MadeOf(s, g[i])}
<1>7. 0 \in P
  <2>1. MadeOf(s, <<>>)
    BY DEF MadeOf
  <2> QED
    BY <1>6, <2>1 DEF BuiltUp
<1>8. ASSUME NEW i \in Nat, i \in P PROVE i + 1 \in P
  <2> SUFFICES ASSUME i + 1 <= N PROVE MadeOf(s, g[i + 1])
    OBVIOUS
  <2>1. i <= N /\ i + 1 \in 1 .. N /\ (i + 1) - 1 = i
    BY <1>1
  <2>2. MadeOf(s, g[i])
    BY <2>1, <1>8
  <2>3. g[i + 1] = g[i] \o f[i + 1]
    BY <2>1, <1>4, <1>6 DEF BuiltUp
  <2> QED
    BY <2>1, <2>2, <2>3, <1>1, <1>2, MadeOfMore
<1>9. \A i \in Nat : i \in P
  <2> HIDE DEF P
  <2> QED
    BY <1>7, <1>8, SetInduction
<1>10. MadeOf(s, g[N])
  BY <1>1, <1>9
<1> QED
  BY <1>5, <1>6, <1>10

TypeInv == TypeOK /\ bytes \in Seq(Byte)

LEMMA LongestMatches ==
    ASSUME TypeInv, Matches # {}
    PROVE  /\ Longest \in Matches
           /\ \A len \in Matches : len <= Longest
<1>1. Matches \in SUBSET (0 .. MaxMatch)  BY MaxMatchAssumption DEF Matches
<1>2. \E x \in Matches : \A y \in Matches : y <= x
  BY <1>1, MaxMatchAssumption, MaxExists
<1> QED  BY <1>2 DEF Longest

\* The two tokens of the best pair make one token.
LEMMA MergeTypes ==
    ASSUME TypeInv, Mergeable(tok, work)
    PROVE  /\ BestPair(tok, work) \in 1 .. Len(work) - 1
           /\ IdOf(tok, MergedText(tok, work, BestPair(tok, work))) \in Ids(tok)
           /\ Text(tok, IdOf(tok, MergedText(tok, work, BestPair(tok, work))))
                  = MergedText(tok, work, BestPair(tok, work))
<1>1. tok \in Tokenizers /\ work \in Seq(Ids(tok))  BY DEF TypeInv, TypeOK
<1>2. Pairs(tok, work) # {} /\ HasToken(tok, MergedText(tok, work, BestPair(tok, work)))
  BY DEF Mergeable
<1>3. BestPair(tok, work) \in 1 .. Len(work) - 1  BY <1>1, <1>2, BestPairInside
<1> QED  BY <1>1, <1>2, <1>3, IdOfToken

LEMMA InitTypes == Init => TypeInv
<1> SUFFICES ASSUME Init PROVE TypeInv  OBVIOUS
<1>1. bytes \in Seq(Byte)
  BY EncodedMadeOf, TextsAssumption DEF Init, MadeOf
<1>2. work \in Seq(Ids(tok)) /\ ids \in Seq(Ids(tok) \cup {BOS})
  <2>1. \A S : <<>> \in Seq(S)  OBVIOUS
  <2> QED  BY <2>1 DEF Init
<1>3. ends \in Seq(Nat) /\ Len(ends) = Len(work)  BY DEF Init
<1> QED  BY <1>1, <1>2, <1>3 DEF Init, TypeInv, TypeOK

LEMMA NextTypes == TypeInv /\ [Next]_vars => TypeInv'
<1> SUFFICES ASSUME TypeInv, [Next]_vars PROVE TypeInv'  OBVIOUS
<1> USE DEF TypeInv, TypeOK
<1>1. CASE Match
  <2>1. Longest \in 1 .. MaxMatch /\ HasToken(tok, Piece(Longest))
    BY <1>1, LongestMatches DEF Match, Matches
  <2>2. IdOf(tok, Piece(Longest)) \in Ids(tok)  BY <2>1, IdOfToken
  <2>3. pos' \in Nat  BY <1>1, <2>1, MaxMatchAssumption DEF Match
  <2>4. work' \in Seq(Ids(tok)) /\ Len(work') = Len(work) + 1  BY <1>1, <2>2 DEF Match
  <2>5. ends' \in Seq(Nat) /\ Len(ends') = Len(ends) + 1  BY <1>1, <2>3 DEF Match
  <2> QED  BY <1>1, <2>3, <2>4, <2>5 DEF Match, input
<1>2. CASE Fallback
  <2>1. ByteToken(tok, OrigByteAt(text, bytes, pos)) \in Ids(tok)  BY ByteTokenIsId
  <2>2. CharLen(bytes[pos + 1]) \in Nat  BY DEF CharLen
  <2>3. pos' \in Nat  BY <1>2, <2>2 DEF Fallback
  <2>4. work' \in Seq(Ids(tok)) /\ Len(work') = Len(work) + 1  BY <1>2, <2>1 DEF Fallback
  <2>5. ends' \in Seq(Nat) /\ Len(ends') = Len(ends) + 1  BY <1>2, <2>3 DEF Fallback
  <2> QED  BY <1>2, <2>3, <2>4, <2>5 DEF Fallback, input
<1>3. CASE FallbackPanics
  BY <1>3 DEF FallbackPanics, input
<1>4. CASE CutDone
  BY <1>4 DEF CutDone, input
<1>5. CASE Merge
  <2> DEFINE i == BestPair(tok, work)
             id == IdOf(tok, MergedText(tok, work, i))
  <2>1. i \in 1 .. Len(work) - 1 /\ id \in Ids(tok)  BY <1>5, MergeTypes DEF Merge
  <2>2. ends[i + 1] \in Nat  BY <2>1
  <2>3. work' = Joined(work, i, id) /\ ends' = Joined(ends, i, ends[i + 1])
    BY <1>5 DEF Merge, MergeOnce
  <2> HIDE DEF i, id
  <2>4. work' \in Seq(Ids(tok)) /\ Len(work') = Len(work) - 1
    <3>1. work \in Seq(Ids(tok)) /\ i \in 1 .. Len(work) - 1 /\ id \in Ids(tok)  BY <2>1
    <3>2. /\ Joined(work, i, id) \in Seq(Ids(tok))
          /\ Len(Joined(work, i, id)) = Len(work) - 1
      BY ONLY <3>1, JoinedSeq
    <3> QED  BY <2>3, <3>2
  <2>5. ends' \in Seq(Nat) /\ Len(ends') = Len(ends) - 1
    <3>1. ends \in Seq(Nat) /\ i \in 1 .. Len(ends) - 1  BY <2>1
    <3>2. /\ Joined(ends, i, ends[i + 1]) \in Seq(Nat)
          /\ Len(Joined(ends, i, ends[i + 1])) = Len(ends) - 1
      BY ONLY <2>2, <3>1, JoinedSeq
    <3> QED  BY <2>3, <3>2
  <2> QED  BY <1>5, <2>4, <2>5 DEF Merge, input
<1>6. CASE MergeDone
  <2>1. work \in Seq(Ids(tok) \cup {BOS})  OBVIOUS
  <2>2. (IF addBos THEN <<BOS>> ELSE <<>>) \in Seq(Ids(tok) \cup {BOS})
    <3>1. \A S, x : x \in S => <<x>> \in Seq(S) /\ <<>> \in Seq(S)  OBVIOUS
    <3>2. BOS \in Ids(tok) \cup {BOS}  OBVIOUS
    <3> QED  BY <3>1, <3>2
  <2>3. ids' \in Seq(Ids(tok) \cup {BOS})  BY <1>6, <2>1, <2>2 DEF MergeDone
  <2> QED  BY <1>6, <2>3 DEF MergeDone, input
<1>7. CASE UNCHANGED vars
  BY <1>7 DEF vars
<1> QED  BY <1>1, <1>2, <1>3, <1>4, <1>5, <1>6, <1>7 DEF Next, Encode, Returned

\* Every id encode produces is one of the vocabulary, or the BOS in front: the
\* greedy cut, the byte table and the merges index nothing else.
THEOREM TokenizerTypes == Spec => []TypeOK
<1>1. TypeInv => TypeOK  BY DEF TypeInv
<1> QED  BY <1>1, InitTypes, NextTypes, PTL DEF Spec
-----------------------------------------------------------------------------
(* The tokens cover the text                                               *)

LEMMA CoverInit == Init => TokensCoverText
BY DEF Init, TokensCoverText

\* What the two state, with the number of tokens named.
LEMMA CoverPieces ==
    ASSUME TypeInv, TokensCoverText, ~fell
    PROVE  /\ tok \in Tokenizers /\ work \in Seq(Ids(tok)) /\ ends \in Seq(Nat)
           /\ bytes \in Seq(Byte) /\ Len(bytes) \in Nat /\ pos \in Nat
           /\ Len(work) \in Nat /\ Len(ends) = Len(work)
           /\ DOMAIN work = 1 .. Len(work)
           /\ \A k \in 1 .. Len(work) :
                  /\ ends[k] \in Nat /\ Start(ends, k) \in Nat
                  /\ Start(ends, k) < ends[k] /\ ends[k] <= Len(bytes)
                  /\ Text(tok, work[k]) = SubSeq(bytes, Start(ends, k) + 1, ends[k])
           /\ pos = IF Len(work) = 0 THEN 0 ELSE ends[Len(work)]
<1>1. /\ tok \in Tokenizers /\ work \in Seq(Ids(tok)) /\ ends \in Seq(Nat)
      /\ bytes \in Seq(Byte) /\ pos \in Nat /\ Len(ends) = Len(work)
  BY DEF TypeInv, TypeOK
<1>2. Len(work) \in Nat /\ DOMAIN work = 1 .. Len(work) /\ Len(bytes) \in Nat  BY <1>1
<1>3. \A k \in 1 .. Len(work) : ends[k] \in Nat  BY <1>1, <1>2
<1>4. \A k \in 1 .. Len(work) : Start(ends, k) \in Nat
  <2> TAKE k \in 1 .. Len(work)
  <2>1. k = 1 \/ k - 1 \in 1 .. Len(work)  BY <1>2
  <2> QED  BY <1>3, <2>1 DEF Start
<1>5. work = <<>> <=> Len(work) = 0  BY <1>1, EmptySeq
<1>6. \A k \in 1 .. Len(work) :
          /\ Start(ends, k) < ends[k] /\ ends[k] <= Len(bytes)
          /\ Text(tok, work[k]) = SubSeq(bytes, Start(ends, k) + 1, ends[k])
  BY <1>2 DEF TokensCoverText
<1>7. pos = IF Len(work) = 0 THEN 0 ELSE ends[Len(work)]  BY <1>5 DEF TokensCoverText
<1> QED  BY <1>1, <1>2, <1>3, <1>4, <1>6, <1>7

\* What Match appends.
LEMMA MatchAppends ==
    ASSUME TypeInv, TokensCoverText, ~fell, Match
    PROVE  /\ Longest \in 1 .. MaxMatch /\ HasToken(tok, Piece(Longest))
           /\ \A len \in Matches : len <= Longest
           /\ pos' = pos + Longest /\ pos' \in Nat /\ pos' <= Len(bytes)
           /\ Len(work') = Len(work) + 1 /\ DOMAIN work' = 1 .. Len(work) + 1
           /\ work'[Len(work) + 1] = IdOf(tok, Piece(Longest))
           /\ ends'[Len(work) + 1] = pos'
           /\ \A k \in 1 .. Len(work) : work'[k] = work[k] /\ ends'[k] = ends[k]
           /\ \A k \in 1 .. Len(work) : Start(ends', k) = Start(ends, k)
           /\ Start(ends', Len(work) + 1) = pos
<1> DEFINE n == Len(work)
           id == IdOf(tok, Piece(Longest))
<1>1. /\ Longest \in 1 .. MaxMatch /\ pos + Longest <= Len(bytes)
      /\ HasToken(tok, Piece(Longest))
      /\ \A len \in Matches : len <= Longest
  BY LongestMatches DEF Match, Matches
<1>2. id \in Ids(tok)  BY <1>1, CoverPieces, IdOfToken
<1>3. Longest \in Nat \ {0} /\ pos' \in Nat /\ pos' = pos + Longest
  BY <1>1, CoverPieces, MaxMatchAssumption DEF Match
<1>4. work' = Append(work, id) /\ ends' = Append(ends, pos')  BY DEF Match
<1>5. work \in Seq(Ids(tok)) /\ ends \in Seq(Nat) /\ n \in Nat /\ Len(ends) = n
  BY CoverPieces
<1>6. pos = IF n = 0 THEN 0 ELSE ends[n]  BY CoverPieces
<1> HIDE DEF id, n
<1>7. /\ Len(work') = n + 1 /\ DOMAIN work' = 1 .. n + 1 /\ work'[n + 1] = id
      /\ \A k \in 1 .. n : work'[k] = work[k]
  BY <1>2, <1>4, <1>5 DEF n
<1>8. /\ ends'[n + 1] = pos'
      /\ \A k \in 1 .. n : ends'[k] = ends[k]
  BY <1>3, <1>4, <1>5
<1>9. \A k \in 1 .. n : Start(ends', k) = Start(ends, k)
  <2> TAKE k \in 1 .. n
  <2>1. k = 1 \/ k - 1 \in 1 .. n  BY <1>5
  <2> QED  BY <1>8, <2>1 DEF Start
<1>10. Start(ends', n + 1) = pos
  <2>1. CASE n = 0  BY <2>1, <1>6 DEF Start
  <2>2. CASE n > 0
    <3>1. n \in 1 .. n /\ n + 1 # 1 /\ n + 1 - 1 = n  BY <1>5, <2>2
    <3>2. Start(ends', n + 1) = ends'[n]  BY <3>1 DEF Start
    <3> QED  BY <1>6, <1>8, <2>2, <3>1, <3>2
  <2> QED  BY <1>5, <2>1, <2>2
<1> QED  BY <1>1, <1>3, <1>7, <1>8, <1>9, <1>10 DEF n, id

LEMMA CoverMatch == TypeInv /\ TokensCoverText /\ Match => TokensCoverText'
<1> SUFFICES ASSUME TypeInv, TokensCoverText, Match, ~fell'  PROVE TokensCoverText'
  BY DEF TokensCoverText
<1> DEFINE n == Len(work)
           id == IdOf(tok, Piece(Longest))
<1>1. UNCHANGED <<tok, bytes, fell>> /\ stage' = "cut" /\ ~fell  BY DEF Match, input
<1>2. n \in Nat /\ tok \in Tokenizers  BY <1>1, CoverPieces
<1>3. /\ Longest \in 1 .. MaxMatch /\ HasToken(tok, Piece(Longest))
      /\ pos' = pos + Longest /\ pos' <= Len(bytes)
      /\ Len(work') = n + 1 /\ DOMAIN work' = 1 .. n + 1
      /\ work'[n + 1] = id /\ ends'[n + 1] = pos'
      /\ \A k \in 1 .. n : work'[k] = work[k] /\ ends'[k] = ends[k] /\ Start(ends', k) = Start(ends, k)
      /\ Start(ends', n + 1) = pos
  BY <1>1, MatchAppends
<1>4. Text(tok, id) = SubSeq(bytes, pos + 1, pos + Longest)
  BY <1>2, <1>3, IdOfToken DEF Piece
<1>5. pos < pos'  BY <1>1, <1>3, CoverPieces, MaxMatchAssumption
<1>6. \A k \in 1 .. n :
          /\ Start(ends, k) < ends[k] /\ ends[k] <= Len(bytes)
          /\ Text(tok, work[k]) = SubSeq(bytes, Start(ends, k) + 1, ends[k])
  BY <1>1, CoverPieces
<1> HIDE DEF n, id
<1>7. ASSUME NEW k \in 1 .. n + 1
      PROVE  /\ Start(ends', k) < ends'[k] /\ ends'[k] <= Len(bytes')
             /\ Text(tok', work'[k]) = SubSeq(bytes', Start(ends', k) + 1, ends'[k])
  <2>1. CASE k \in 1 .. n
    BY <2>1, <1>1, <1>3, <1>6
  <2>2. CASE k = n + 1
    BY <2>2, <1>1, <1>3, <1>4, <1>5
  <2> QED  BY <1>2, <2>1, <2>2
<1>8. work' # <<>> /\ pos' = ends'[Len(work')]
  <2>1. Len(work') # 0  BY <1>2, <1>3
  <2> QED  BY <1>3, <2>1
<1>9. \A k \in DOMAIN work' :
          /\ Start(ends', k) < ends'[k] /\ ends'[k] <= Len(bytes')
          /\ Text(tok, work[k])' = SubSeq(bytes', Start(ends', k) + 1, ends'[k])
  BY <1>3, <1>7 DEF Text
<1> QED  BY <1>1, <1>8, <1>9 DEF TokensCoverText

\* Two adjacent pieces are one.
LEMMA PiecesJoin ==
    ASSUME TypeInv, TokensCoverText, ~fell, NEW i \in 1 .. Len(work) - 1
    PROVE  /\ Start(ends, i) < ends[i + 1] /\ ends[i] < ends[i + 1] /\ ends[i + 1] <= Len(bytes)
           /\ Text(tok, work[i]) \o Text(tok, work[i + 1])
                  = SubSeq(bytes, Start(ends, i) + 1, ends[i + 1])
<1>1. /\ Len(work) \in Nat /\ bytes \in Seq(Byte) /\ Len(bytes) \in Nat
      /\ \A k \in 1 .. Len(work) :
             /\ ends[k] \in Nat /\ Start(ends, k) \in Nat
             /\ Start(ends, k) < ends[k] /\ ends[k] <= Len(bytes)
             /\ Text(tok, work[k]) = SubSeq(bytes, Start(ends, k) + 1, ends[k])
  BY CoverPieces
<1>2. i \in 1 .. Len(work) /\ i + 1 \in 1 .. Len(work) /\ i + 1 # 1 /\ i + 1 - 1 = i  BY <1>1
<1>3. Start(ends, i + 1) = ends[i]  BY <1>2 DEF Start
<1> DEFINE a == Start(ends, i) + 1
           b == ends[i]
           c == ends[i + 1]
<1>4. a \in Nat \ {0} /\ b \in Nat /\ c \in Nat /\ a - 1 < b /\ b < c /\ c <= Len(bytes)
  <2>1. Start(ends, i) \in Nat /\ ends[i] \in Nat /\ Start(ends, i) < ends[i]  BY <1>1, <1>2
  <2>2. ends[i + 1] \in Nat /\ ends[i] < ends[i + 1] /\ ends[i + 1] <= Len(bytes)
    BY <1>1, <1>2, <1>3
  <2> QED  BY <2>1, <2>2
<1>5. /\ Text(tok, work[i]) = SubSeq(bytes, a, b)
      /\ Text(tok, work[i + 1]) = SubSeq(bytes, b + 1, c)
  BY <1>1, <1>2, <1>3
<1> HIDE DEF a, b, c
<1>6. a \in 1 .. Len(bytes) + 1 /\ b \in a - 1 .. Len(bytes) /\ c \in b .. Len(bytes)
  BY <1>1, <1>4
<1>7. SubSeq(bytes, a, b) \o SubSeq(bytes, b + 1, c) = SubSeq(bytes, a, c)
  BY <1>1, <1>6, ConcatAdjacentSubSeq
<1>8. Start(ends, i) < c /\ b < c  BY <1>1, <1>2, <1>4 DEF a
<1> QED  BY <1>4, <1>5, <1>7, <1>8 DEF a, b, c

LEMMA CoverMerge == TypeInv /\ TokensCoverText /\ Merge => TokensCoverText'
<1> SUFFICES ASSUME TypeInv, TokensCoverText, Merge, ~fell'  PROVE TokensCoverText'
  BY DEF TokensCoverText
<1> DEFINE n == Len(work)
           i == BestPair(tok, work)
           id == IdOf(tok, MergedText(tok, work, i))
<1>1. UNCHANGED <<tok, bytes, fell, pos, stage>> /\ ~fell  BY DEF Merge, input
<1>2. i \in 1 .. n - 1 /\ id \in Ids(tok) /\ Text(tok, id) = MergedText(tok, work, i)
  BY MergeTypes DEF Merge
<1>3. work' = Joined(work, i, id) /\ ends' = Joined(ends, i, ends[i + 1])
  BY DEF Merge, MergeOnce
<1>4. Text(tok, id) = SubSeq(bytes, Start(ends, i) + 1, ends[i + 1]) /\ Start(ends, i) < ends[i + 1]
  BY <1>1, <1>2, PiecesJoin DEF MergedText
<1>5. /\ work \in Seq(Ids(tok)) /\ ends \in Seq(Nat) /\ n \in Nat /\ Len(ends) = n
      /\ \A k \in 1 .. n :
             /\ ends[k] \in Nat /\ Start(ends, k) \in Nat
             /\ Start(ends, k) < ends[k] /\ ends[k] <= Len(bytes)
             /\ Text(tok, work[k]) = SubSeq(bytes, Start(ends, k) + 1, ends[k])
      /\ pos = IF n = 0 THEN 0 ELSE ends[n]
  BY <1>1, CoverPieces
<1>6. stage \in {"merge", "done"} => pos = Len(bytes)  BY <1>1 DEF TokensCoverText
<1>7. /\ Joined(work, i, id) \in Seq(Ids(tok))
      /\ Len(Joined(work, i, id)) = n - 1
      /\ \A k \in 1 .. n - 1 :
             Joined(work, i, id)[k] = IF k < i THEN work[k] ELSE IF k = i THEN id ELSE work[k + 1]
  <2>1. work \in Seq(Ids(tok)) /\ i \in 1 .. Len(work) - 1 /\ id \in Ids(tok)  BY <1>2, <1>5
  <2> HIDE DEF i, id
  <2>2. Joined(work, i, id) \in Seq(Ids(tok)) /\ Len(Joined(work, i, id)) = Len(work) - 1
    BY ONLY <2>1, JoinedSeq
  <2>3. \A k \in 1 .. Len(work) - 1 :
            Joined(work, i, id)[k] = IF k < i THEN work[k] ELSE IF k = i THEN id ELSE work[k + 1]
    BY ONLY DEF Joined
  <2> QED  BY <2>2, <2>3
<1>8. \A k \in 1 .. n - 1 :
          Joined(ends, i, ends[i + 1])[k]
              = IF k < i THEN ends[k] ELSE IF k = i THEN ends[i + 1] ELSE ends[k + 1]
  BY <1>5 DEF Joined
<1> HIDE DEF n, i, id
<1>9. DOMAIN work' = 1 .. n - 1 /\ Len(work') = n - 1 /\ n - 1 \in Nat \ {0}
  <2>1. n - 1 \in Nat \ {0}  BY <1>2, <1>5
  <2>2. work' \in Seq(Ids(tok)) /\ Len(work') = n - 1  BY <1>3, <1>7
  <2> QED  BY <2>1, <2>2
<1>10. \A k \in 1 .. n - 1 : ends'[k] = IF k < i THEN ends[k] ELSE ends[k + 1]
  BY <1>2, <1>3, <1>8
<1>11. \A k \in 1 .. n - 1 :
           work'[k] = IF k < i THEN work[k] ELSE IF k = i THEN id ELSE work[k + 1]
  BY <1>3, <1>7
<1>12. \A k \in 1 .. n - 1 : Start(ends', k) = IF k <= i THEN Start(ends, k) ELSE Start(ends, k + 1)
  <2> TAKE k \in 1 .. n - 1
  <2>1. k = 1 \/ k - 1 \in 1 .. n - 1  BY <1>9
  <2>2. CASE k = 1
    BY <2>2, <1>2 DEF Start
  <2>3. CASE k # 1
    <3>1. Start(ends', k) = ends'[k - 1] /\ Start(ends, k) = ends[k - 1]  BY <2>3 DEF Start
    <3>2. k + 1 # 1 /\ k + 1 - 1 = k  BY <2>3
    <3>3. Start(ends, k + 1) = ends[k]  BY <3>2 DEF Start
    <3>4. ends'[k - 1] = IF k - 1 < i THEN ends[k - 1] ELSE ends[k]
      <4>1. k - 1 \in 1 .. n - 1 /\ k - 1 + 1 = k  BY <2>1, <2>3
      <4> QED  BY <1>10, <4>1
    <3>5. k - 1 < i <=> k <= i  BY <1>2
    <3> QED  BY <3>1, <3>3, <3>4, <3>5
  <2> QED  BY <2>2, <2>3
<1>13. ASSUME NEW k \in 1 .. n - 1
       PROVE  /\ Start(ends', k) < ends'[k] /\ ends'[k] <= Len(bytes')
              /\ Text(tok', work'[k]) = SubSeq(bytes', Start(ends', k) + 1, ends'[k])
  <2>1. CASE k < i
    <3>1. k \in 1 .. n /\ k <= i  BY <2>1, <1>2, <1>5
    <3>2. ends'[k] = ends[k] /\ work'[k] = work[k]  BY <2>1, <1>10, <1>11
    <3>3. Start(ends', k) = Start(ends, k)  BY <3>1, <1>12
    <3> QED  BY <3>1, <3>2, <3>3, <1>1, <1>5
  <2>2. CASE k = i
    <3>1. ends'[k] = ends[k + 1] /\ Start(ends', k) = Start(ends, i) /\ work'[k] = id
      BY <2>2, <1>2, <1>10, <1>11, <1>12
    <3>2. ends[k + 1] <= Len(bytes)  BY <1>5, <1>9
    <3> QED  BY <2>2, <3>1, <3>2, <1>1, <1>4
  <2>3. CASE k > i
    <3>1. k + 1 \in 1 .. n /\ ~(k < i) /\ ~(k <= i) /\ k # i  BY <2>3, <1>2, <1>5
    <3>2. ends'[k] = ends[k + 1] /\ work'[k] = work[k + 1]  BY <3>1, <1>10, <1>11
    <3>3. Start(ends', k) = Start(ends, k + 1)  BY <3>1, <1>12
    <3> QED  BY <3>1, <3>2, <3>3, <1>1, <1>5
  <2> QED  BY <1>2, <2>1, <2>2, <2>3
<1>14. work' # <<>> /\ pos' = ends'[Len(work')]
  <2>1. Len(work') # 0  BY <1>9
  <2>2. ends'[n - 1] = ends[n]
    <3>1. n - 1 \in 1 .. n - 1 /\ n - 1 + 1 = n /\ ~(n - 1 < i)  BY <1>2, <1>9, <1>5
    <3> QED  BY <3>1, <1>10
  <2>3. pos = ends[n]  BY <1>5, <1>9
  <2>4. work' # <<>>  BY <2>1
  <2> QED  BY <1>1, <1>9, <2>2, <2>3, <2>4
<1>15. \A k \in DOMAIN work' :
           /\ Start(ends', k) < ends'[k] /\ ends'[k] <= Len(bytes')
           /\ Text(tok, work[k])' = SubSeq(bytes', Start(ends', k) + 1, ends'[k])
  BY <1>9, <1>13 DEF Text
<1> QED  BY <1>1, <1>6, <1>14, <1>15 DEF TokensCoverText

LEMMA CoverRest ==
    /\ TypeInv /\ TokensCoverText
    /\ Fallback \/ FallbackPanics \/ CutDone \/ MergeDone \/ UNCHANGED vars
    => TokensCoverText'
<1> SUFFICES ASSUME TypeInv, TokensCoverText, ~fell',
                    Fallback \/ FallbackPanics \/ CutDone \/ MergeDone \/ UNCHANGED vars
             PROVE  TokensCoverText'
  BY DEF TokensCoverText
<1>1. UNCHANGED <<tok, bytes, pos, work, ends, fell>>
  BY DEF Fallback, FallbackPanics, CutDone, MergeDone, vars, input
<1>2. \A k \in DOMAIN work : Start(ends', k) = Start(ends, k)  BY <1>1 DEF Start
<1>3. stage' \in {"merge", "done"} => pos = Len(bytes)
  <2>1. CASE CutDone
    <3>1. pos >= Len(bytes) /\ pos \in Nat /\ Len(bytes) \in Nat
      BY <2>1 DEF CutDone, TypeInv, TypeOK
    <3>2. pos <= Len(bytes)
      <4>1. CASE work = <<>>
        BY <4>1, <1>1, <3>1 DEF TokensCoverText
      <4>2. CASE work # <<>>
        <5>1. Len(work) \in DOMAIN work  BY <4>2 DEF TypeInv, TypeOK
        <5> QED  BY <4>2, <5>1, <1>1 DEF TokensCoverText
      <4> QED  BY <4>1, <4>2
    <3> QED  BY <3>1, <3>2
  <2>2. CASE Fallback \/ FallbackPanics \/ MergeDone \/ UNCHANGED vars
    BY <2>2, <1>1 DEF Fallback, FallbackPanics, MergeDone, vars, TokensCoverText
  <2> QED  BY <2>1, <2>2
<1> QED  BY <1>1, <1>2, <1>3 DEF TokensCoverText, Text

\* Nothing of the text is lost, doubled or moved, through cut and merges, for
\* every vocabulary, merge table and text.
THEOREM TokensCoverTextHolds == Spec => []TokensCoverText
<1>1. TypeInv /\ TokensCoverText /\ [Next]_vars => TokensCoverText'
  BY CoverMatch, CoverMerge, CoverRest DEF Next, Encode, Returned
<1> QED  BY <1>1, InitTypes, NextTypes, CoverInit, PTL DEF Spec
-----------------------------------------------------------------------------
(* The merges have nothing to do                                           *)

\* What the longest match leaves behind: no token of work could be longer.
NothingLonger ==
    /\ stage \in {"cut", "merge"} /\ ~fell
    /\ \A id \in Ids(tok) : Len(Text(tok, id)) <= MaxMatch
    => \A k \in DOMAIN work : \A e \in Nat :
           ends[k] < e /\ e <= Len(bytes) => ~HasToken(tok, SubSeq(bytes, Start(ends, k) + 1, e))

\* The merged text of two neighbours is a longer piece from the same start.
LEMMA NothingToMerge ==
    TypeInv /\ TokensCoverText /\ NothingLonger => MergesAddNothing
<1> SUFFICES ASSUME TypeInv, TokensCoverText, NothingLonger, stage = "merge", ~fell,
                    \A id \in Ids(tok) : Len(Text(tok, id)) <= MaxMatch,
                    Mergeable(tok, work)
             PROVE  FALSE
  BY DEF MergesAddNothing
<1> DEFINE i == BestPair(tok, work)
<1>1. i \in 1 .. Len(work) - 1  BY MergeTypes
<1>2. HasToken(tok, Text(tok, work[i]) \o Text(tok, work[i + 1]))
  BY DEF Mergeable, MergedText
<1> HIDE DEF i
<1>3. /\ ends[i] < ends[i + 1] /\ ends[i + 1] <= Len(bytes)
      /\ Text(tok, work[i]) \o Text(tok, work[i + 1]) = SubSeq(bytes, Start(ends, i) + 1, ends[i + 1])
  BY <1>1, PiecesJoin
<1>4. i \in DOMAIN work /\ ends[i + 1] \in Nat
  <2>1. i \in 1 .. Len(work) /\ i + 1 \in 1 .. Len(work)  BY <1>1, CoverPieces
  <2> QED  BY <2>1, CoverPieces
<1> QED  BY <1>2, <1>3, <1>4 DEF NothingLonger

LEMMA NothingLongerMatch ==
    TypeInv /\ TokensCoverText /\ NothingLonger /\ Match => NothingLonger'
<1> SUFFICES ASSUME TypeInv, TokensCoverText, NothingLonger, Match, ~fell', tok' = tok,
                    \A id \in Ids(tok) : Len(Text(tok, id)) <= MaxMatch
             PROVE  \A k \in DOMAIN work' : \A e \in Nat :
                        ends'[k] < e /\ e <= Len(bytes')
                            => ~HasToken(tok', SubSeq(bytes', Start(ends', k) + 1, e))
  <2>1. Match => tok' = tok  BY DEF Match, input
  <2> QED  BY <2>1 DEF NothingLonger, Ids, Text, HasToken
<1> DEFINE n == Len(work)
<1>1. UNCHANGED <<bytes, fell>> /\ stage = "cut" /\ ~fell  BY DEF Match, input
<1>2. /\ Longest \in 1 .. MaxMatch /\ pos' = pos + Longest
      /\ \A len \in Matches : len <= Longest
      /\ DOMAIN work' = 1 .. n + 1 /\ ends'[n + 1] = pos'
      /\ \A k \in 1 .. n : ends'[k] = ends[k] /\ Start(ends', k) = Start(ends, k)
      /\ Start(ends', n + 1) = pos
  BY <1>1, MatchAppends
<1>3. pos \in Nat /\ n \in Nat /\ DOMAIN work = 1 .. n /\ bytes \in Seq(Byte) /\ Len(bytes) \in Nat
  BY <1>1, CoverPieces
<1>4. \A k \in 1 .. n : \A e \in Nat :
          ends[k] < e /\ e <= Len(bytes) => ~HasToken(tok, SubSeq(bytes, Start(ends, k) + 1, e))
  BY <1>1, <1>3 DEF NothingLonger
<1> HIDE DEF n
<1>5. ASSUME NEW e \in Nat, pos' < e, e <= Len(bytes), HasToken(tok, SubSeq(bytes, pos + 1, e))
      PROVE  FALSE
  <2> DEFINE len == e - pos
  <2>1. len \in Nat /\ len > Longest /\ len >= 1 /\ pos + len = e
    BY <1>2, <1>3, <1>5, MaxMatchAssumption
  <2>2. Len(SubSeq(bytes, pos + 1, e)) = len
    <3>1. pos + 1 \in 1 .. Len(bytes) + 1 /\ e \in pos .. Len(bytes)  BY <1>3, <1>5, <2>1
    <3> QED  BY <1>3, <3>1
  <2> HIDE DEF len
  <2>3. HasToken(tok, Piece(len))  BY <1>5, <2>1 DEF Piece
  <2>4. PICK other \in Ids(tok) : Text(tok, other) = SubSeq(bytes, pos + 1, e)
    BY <1>5 DEF HasToken
  <2>5. len <= MaxMatch  BY <2>2, <2>4
  <2>6. len \in Matches  BY <1>5, <2>1, <2>3, <2>5, MaxMatchAssumption DEF Matches
  <2>7. len <= Longest  BY <1>2, <2>6
  <2> QED  BY <1>2, <2>1, <2>7, MaxMatchAssumption
<1>6. ASSUME NEW k \in 1 .. n + 1, NEW e \in Nat, ends'[k] < e, e <= Len(bytes)
      PROVE  ~HasToken(tok, SubSeq(bytes, Start(ends', k) + 1, e))
  <2>1. CASE k \in 1 .. n
    BY <2>1, <1>2, <1>4, <1>6
  <2>2. CASE k = n + 1
    <3>1. pos' < e /\ Start(ends', k) = pos  BY <2>2, <1>2, <1>6
    <3> QED  BY <3>1, <1>5, <1>6
  <2> QED  BY <1>3, <2>1, <2>2
<1> QED  BY <1>1, <1>2, <1>6

\* Where every token can be matched whole and no fallback came in between, no
\* merge rule applies to what the longest match has cut: bpe_merge returns its
\* argument, for every vocabulary and every table of merges.
THEOREM MergesAddNothingHolds == Spec => []MergesAddNothing
<1>1. Init => NothingLonger  BY DEF Init, NothingLonger
<1>2. TypeInv /\ TokensCoverText /\ NothingLonger /\ [Next]_vars => NothingLonger'
  <2> SUFFICES ASSUME TypeInv, TokensCoverText, NothingLonger, [Next]_vars
               PROVE  NothingLonger'
    OBVIOUS
  <2>1. CASE Match  BY <2>1, NothingLongerMatch
  <2>2. CASE Merge
    <3>1. MergesAddNothing  BY NothingToMerge
    <3> QED  BY <2>2, <3>1 DEF Merge, MergesAddNothing, NothingLonger, input, Ids, Text
  <2>3. CASE Fallback  BY <2>3 DEF Fallback, NothingLonger
  <2>4. CASE FallbackPanics \/ MergeDone
    BY <2>4 DEF FallbackPanics, MergeDone, NothingLonger
  <2>5. CASE CutDone \/ UNCHANGED vars
    <3>1. UNCHANGED <<tok, bytes, work, ends, fell>> /\ (stage' \in {"cut", "merge"} => stage \in {"cut", "merge"})
      BY <2>5 DEF CutDone, vars, input
    <3> QED  BY <3>1 DEF NothingLonger, Ids, Text, HasToken, Start
  <2> QED  BY <2>1, <2>2, <2>3, <2>4, <2>5 DEF Next, Encode, Returned
<1>3. TypeInv /\ TokensCoverText /\ [Next]_vars => TokensCoverText'
  BY CoverMatch, CoverMerge, CoverRest DEF Next, Encode, Returned
<1> QED
  BY <1>1, <1>2, <1>3, InitTypes, NextTypes, CoverInit, NothingToMerge, PTL DEF Spec
-----------------------------------------------------------------------------
(* With a token for every character no fallback is taken                   *)

\* The cut stands between two characters.
AtCharacter == pos <= Len(bytes) /\ (pos < Len(bytes) => ~Continues(bytes[pos + 1]))

CutInv ==
    /\ bytes = Encoded(text)
    /\ Complete => ~fell /\ stage # "panicked" /\ AtCharacter

\* Where a character begins a token matches: the character's.
LEMMA CharacterMatches ==
    ASSUME TypeInv, CutInv, Complete, pos < Len(bytes)
    PROVE  \E c : /\ Character(c) /\ c[1] = bytes[pos + 1]
                  /\ Len(c) \in Matches
<1>1. /\ tok \in Tokenizers /\ text \in Seq(Byte) /\ bytes \in Seq(Byte)
      /\ pos \in Nat /\ Len(bytes) \in Nat
  BY TextsAssumption DEF TypeInv, TypeOK
<1>2. pos + 1 \in 1 .. Len(bytes) /\ ~Continues(bytes[pos + 1])
  BY <1>1 DEF CutInv, AtCharacter
<1>3. MadeOf(text, bytes)
  BY <1>1, EncodedMadeOf DEF CutInv
<1>4. PICK k \in DOMAIN text : StandsAt(bytes, pos + 1, UTF8(CodePoint(text[k])))
  BY <1>2, <1>3 DEF MadeOf
<1>5. PICK c : c = UTF8(CodePoint(text[k])) /\ Character(c) /\ HasToken(tok, c)
  <2>1. text[k] \in Byte
    BY <1>1
  <2> QED
    BY <2>1, UTF8Character DEF Complete
<1>6. StandsAt(bytes, pos + 1, c)
  BY <1>4, <1>5
<1>7. PICK n \in {1, 2} : n = Len(c) /\ c \in Seq(Byte)
  BY <1>5 DEF Character
<1>8. /\ pos + n <= Len(bytes)
      /\ \A i \in 1 .. n : bytes[pos + i] = c[i]
  <2>1. (pos + 1) + n - 1 <= Len(bytes) /\ \A i \in 1 .. n : bytes[(pos + 1) + i - 1] = c[i]
    BY <1>6, <1>7 DEF StandsAt
  <2>2. (pos + 1) + n - 1 = pos + n /\ \A i \in 1 .. n : (pos + 1) + i - 1 = pos + i
    BY <1>1
  <2> QED
    BY <2>1, <2>2
<1>9. Piece(n) = c
  <2>1. /\ pos + 1 \in Nat /\ pos + n \in Nat
        /\ \A i \in (pos + 1) .. (pos + n) : i \in 1 .. Len(bytes)
    BY <1>1, <1>8
  <2>2. \A i \in (pos + 1) .. (pos + n) : bytes[i] \in Byte
    BY <2>1, <1>1, ElementOfSeq
  <2>3. SubSeq(bytes, pos + 1, pos + n) \in Seq(Byte) /\ Len(SubSeq(bytes, pos + 1, pos + n)) = n
    BY <2>1, <2>2, <1>1, SubSeqProperties
  <2>4. \A i \in 1 .. n : SubSeq(bytes, pos + 1, pos + n)[i] = bytes[pos + i]
    BY <2>1, <1>1, SubSeqProperties
  <2>5. Piece(n) = SubSeq(bytes, pos + 1, pos + n)
    BY DEF Piece
  <2>6. \A i \in 1 .. n : Piece(n)[i] = c[i]
    BY <2>4, <2>5, <1>8
  <2> QED
    BY <2>3, <2>5, <2>6, <1>7, SeqEqual
<1>10. n \in Matches
  BY <1>5, <1>7, <1>8, <1>9, MaxMatchAssumption DEF Matches
<1>11. c[1] = bytes[pos + 1]
  BY <1>7, <1>8
<1> QED
  BY <1>5, <1>7, <1>10, <1>11

\* The last byte of the longest match.
LEMMA MatchEndsLow ==
    ASSUME TypeInv, CutInv, Complete, Match, pos' \in 1 .. Len(bytes)
    PROVE  bytes[pos'] < 192
<1>1. /\ tok \in Tokenizers /\ text \in Seq(Byte) /\ bytes \in Seq(Byte)
      /\ pos \in Nat /\ Len(bytes) \in Nat /\ pos < Len(bytes)
  BY TextsAssumption DEF TypeInv, TypeOK, Match
<1>2. PICK c : Character(c) /\ c[1] = bytes[pos + 1] /\ Len(c) \in Matches
  BY <1>1, CharacterMatches
<1>3. PICK L \in 1 .. MaxMatch :
          L = Longest /\ pos + L <= Len(bytes) /\ HasToken(tok, Piece(L)) /\ Len(c) <= L
  BY <1>2, LongestMatches DEF Matches
<1>4. pos' = pos + L
  BY <1>3 DEF Match
<1>5. L \in Nat \ {0} /\ pos + L \in 1 .. Len(bytes)
  BY <1>1, <1>3, MaxMatchAssumption
<1>6. CASE L = 1
  <2>1. Len(c) = 1 /\ c[1] < 128
    BY <1>2, <1>3, <1>6 DEF Character
  <2>2. bytes[pos + L] \in Byte
    BY <1>1, <1>5, ElementOfSeq
  <2>3. \A b \in Byte : b < 128 => b < 192
    BY DEF Byte
  <2> QED
    BY <2>1, <2>2, <2>3, <1>2, <1>4, <1>6
<1>7. CASE L # 1
  <2>1. PICK id \in Ids(tok) : Text(tok, id) = Piece(L)
    BY <1>3 DEF HasToken
  <2>2. /\ pos + 1 \in Nat /\ pos + L \in Nat
        /\ \A i \in (pos + 1) .. (pos + L) : i \in 1 .. Len(bytes)
    BY <1>1, <1>5
  <2>3. Len(SubSeq(bytes, pos + 1, pos + L)) = L
    BY <2>2, <1>1, <1>5, SubSeqProperties
  <2>4. SubSeq(bytes, pos + 1, pos + L)[L] = bytes[pos + L]
    BY <2>2, <1>1, <1>5, SubSeqProperties
  <2>5. Len(Text(tok, id)) = L /\ Text(tok, id)[L] = bytes[pos + L]
    BY <2>1, <2>3, <2>4 DEF Piece
  <2>6. id + 1 \in DOMAIN tok.vocab
    BY <1>1, TokenizersAssumption DEF Ids
  <2>7. L > 1 => Text(tok, id)[L] < 192
    BY <2>5, <2>6, <1>1, TokenizersAssumption DEF Text
  <2>8. L > 1
    BY <1>5, <1>7
  <2> QED
    BY <2>5, <2>7, <2>8, <1>4
<1> QED
  BY <1>6, <1>7

\* The longest match ends where a character does.
LEMMA MatchEndsCharacter ==
    ASSUME TypeInv, CutInv, Complete, Match
    PROVE  AtCharacter'
<1>1. /\ text \in Seq(Byte) /\ bytes \in Seq(Byte) /\ bytes' = bytes
      /\ pos \in Nat /\ Len(bytes) \in Nat
  BY TextsAssumption DEF TypeInv, TypeOK, Match, input
<1>2. Longest \in 1 .. MaxMatch /\ pos' = pos + Longest /\ pos + Longest <= Len(bytes)
  BY LongestMatches DEF Match, Matches
<1>3. PICK q \in Nat : q = pos' /\ q \in 1 .. Len(bytes)
  BY <1>1, <1>2, MaxMatchAssumption
<1>4. bytes[q] < 192 /\ bytes[q] \in Nat
  <2>1. bytes[q] \in Byte
    BY <1>1, <1>3, ElementOfSeq
  <2>2. \A x \in Byte : x \in Nat
    BY DEF Byte
  <2> QED
    BY <1>3, <2>1, <2>2, MatchEndsLow
<1>5. ASSUME q < Len(bytes), Continues(bytes[q + 1]) PROVE FALSE
  <2>1. MadeOf(text, bytes)
    BY <1>1, EncodedMadeOf DEF CutInv
  <2>2. q + 1 \in 1 .. Len(bytes) /\ (q + 1) - 1 = q
    BY <1>1, <1>5
  <2>3. bytes[q] >= 192
    BY <1>5, <2>1, <2>2 DEF MadeOf
  <2> QED
    BY <1>4, <2>3
<1> QED
  BY <1>1, <1>3, <1>5 DEF AtCharacter

LEMMA CutInit == Init => CutInv
<1> SUFFICES ASSUME Init PROVE CutInv
  OBVIOUS
<1>1. text \in Seq(Byte) /\ bytes = Encoded(text) /\ pos = 0 /\ ~fell /\ stage = "cut"
  BY TextsAssumption DEF Init
<1>2. MadeOf(text, bytes)
  BY <1>1, EncodedMadeOf
<1>3. AtCharacter
  <2>1. Len(bytes) \in Nat
    BY <1>2 DEF MadeOf
  <2>2. ASSUME 0 < Len(bytes) PROVE ~Continues(bytes[1])
    <3>1. 1 \in 1 .. Len(bytes) /\ ~ (1 > 1)
      BY <2>1, <2>2
    <3> QED
      BY <3>1, <1>2 DEF MadeOf
  <2> QED
    BY <1>1, <2>1, <2>2 DEF AtCharacter
<1> QED
  BY <1>1, <1>3 DEF CutInv

LEMMA CutNext == TypeInv /\ CutInv /\ [Next]_vars => CutInv'
<1> SUFFICES ASSUME TypeInv, CutInv, [Next]_vars PROVE CutInv'
  OBVIOUS
<1>1. UNCHANGED input
  BY DEF Next, Encode, Returned, Match, Fallback, FallbackPanics, CutDone, Merge,
     MergeDone, vars, input
<1>2. bytes' = Encoded(text') /\ (Complete' <=> Complete)
  BY <1>1 DEF input, CutInv, Complete
<1> SUFFICES ASSUME Complete PROVE ~fell' /\ stage' # "panicked" /\ AtCharacter'
  BY <1>2 DEF CutInv
<1>3. ~fell /\ stage # "panicked" /\ AtCharacter
  BY DEF CutInv
<1>4. CASE Match
  BY <1>3, <1>4, MatchEndsCharacter DEF Match
<1>5. CASE Fallback \/ FallbackPanics
  <2>1. pos < Len(bytes) /\ Matches = {}
    BY <1>5 DEF Fallback, FallbackPanics
  <2> QED
    BY <2>1, CharacterMatches
<1>6. CASE CutDone \/ Merge \/ MergeDone \/ UNCHANGED vars
  BY <1>3, <1>6 DEF CutDone, Merge, MergeDone, vars, input, AtCharacter
<1> QED
  BY <1>4, <1>5, <1>6 DEF Next, Encode, Returned

\* With a token for every character encode never falls back and never
\* panics, whatever other tokens, longer or single bytes, a file brings: the
\* longest match cannot stop inside a character.
THEOREM CompleteNeedsNoFallbackHolds == Spec => []CompleteNeedsNoFallback
<1>1. CutInv => CompleteNeedsNoFallback
  BY DEF CutInv, CompleteNeedsNoFallback
<1> QED
  BY <1>1, InitTypes, NextTypes, CutInit, CutNext, PTL DEF Spec
-----------------------------------------------------------------------------
(* Replacing characters                                                    *)

Occurs(s, old, p) == p \in 1 .. Len(s) - 1 /\ s[p] = old[1] /\ s[p + 1] = old[2]

\* f is what becomes of each byte of s.
Becomes(s, old, new, f) ==
    /\ f \in Seq(Seq(Byte)) /\ Len(f) = Len(s)
    /\ \A p \in 1 .. Len(s) : f[p] = IF Occurs(s, old, p) THEN <<>>
                                     ELSE IF Occurs(s, old, p - 1) THEN new ELSE <<s[p]>>

LEMMA ReplacedFlattens ==
    ASSUME NEW s \in Seq(Byte), NEW old, NEW new \in Seq(Byte)
    PROVE  \E f : Becomes(s, old, new, f) /\ Replaced(s, old, new) = FlattenSeq(f)
<1> DEFINE f == [p \in DOMAIN s |-> IF Occurs(s, old, p) THEN <<>>
                                    ELSE IF Occurs(s, old, p - 1) THEN new ELSE <<s[p]>>]
<1>1. Replaced(s, old, new) = FlattenSeq(f)
  BY DEF Replaced, Occurs
<1>2. DOMAIN s = 1 .. Len(s) /\ Len(s) \in Nat
  OBVIOUS
<1>3. /\ DOMAIN f = DOMAIN s
      /\ \A p \in DOMAIN s : f[p] = IF Occurs(s, old, p) THEN <<>>
                                    ELSE IF Occurs(s, old, p - 1) THEN new ELSE <<s[p]>>
  BY Zenon
<1>4. f = [p \in 1 .. Len(s) |-> f[p]]
  BY <1>2, <1>3, Zenon
<1> HIDE DEF f
<1>5. ASSUME NEW p \in 1 .. Len(s) PROVE f[p] \in Seq(Byte)
  <2>1. <<>> \in Seq(Byte) /\ s[p] \in Byte /\ <<s[p]>> \in Seq(Byte)
    OBVIOUS
  <2>2. f[p] = <<>> \/ f[p] = new \/ f[p] = <<s[p]>>
    BY <1>2, <1>3
  <2> QED
    BY <2>1, <2>2
<1>6. f \in Seq(Seq(Byte)) /\ Len(f) = Len(s)
  BY ONLY <1>2, <1>4, <1>5
<1>7. Becomes(s, old, new, f)
  BY <1>2, <1>3, <1>6 DEF Becomes
<1> QED
  BY <1>1, <1>7

LEMMA ReplacedTyped ==
    ASSUME NEW s \in Seq(Byte), NEW old, NEW new \in Seq(Byte)
    PROVE  Replaced(s, old, new) \in Seq(Byte)
<1>1. PICK f : Becomes(s, old, new, f) /\ Replaced(s, old, new) = FlattenSeq(f)
  BY ReplacedFlattens
<1>2. f \in Seq(Seq(Byte))
  BY <1>1 DEF Becomes
<1>3. PICK g : BuiltUp(f, g) /\ FlattenSeq(f) = g[Len(f)]
  BY <1>2, FlattenBuilds
<1> QED
  BY <1>1, <1>2, <1>3, FlattenIs

\* Nothing that is replaced lies across the end of x.
LEMMA ReplacedConcat ==
    ASSUME NEW x \in Seq(Byte), NEW y \in Seq(Byte), NEW old, NEW new \in Seq(Byte),
           Len(x) > 0 => x[Len(x)] # old[1]
    PROVE  Replaced(x \o y, old, new) = Replaced(x, old, new) \o Replaced(y, old, new)
<1> DEFINE m == Len(x)
           n == Len(y)
           z == x \o y
<1>1. m \in Nat /\ n \in Nat /\ (m > 0 => x[m] # old[1])
  OBVIOUS
<1>2. /\ z \in Seq(Byte) /\ Len(z) = m + n
      /\ \A p \in 1 .. m + n : z[p] = IF p <= m THEN x[p] ELSE y[p - m]
  BY ConcatProperties
<1> HIDE DEF z
<1>3. PICK X : Becomes(x, old, new, X) /\ Replaced(x, old, new) = FlattenSeq(X)
  BY ONLY x \in Seq(Byte), new \in Seq(Byte), ReplacedFlattens
<1>4. PICK Y : Becomes(y, old, new, Y) /\ Replaced(y, old, new) = FlattenSeq(Y)
  BY ONLY y \in Seq(Byte), new \in Seq(Byte), ReplacedFlattens
<1>5. PICK Z : Becomes(z, old, new, Z) /\ Replaced(z, old, new) = FlattenSeq(Z)
  BY <1>2, ReplacedFlattens
<1> HIDE DEF m, n
<1>6. ASSUME NEW p \in Int, p <= m PROVE Occurs(z, old, p) <=> Occurs(x, old, p)
  <2>1. p < 1 \/ (p \in 1 .. m - 1) \/ (p = m /\ m > 0)
    BY <1>1, <1>6
  <2>2. CASE p < 1
    BY <2>2, <1>1, <1>2 DEF Occurs, m
  <2>3. CASE p \in 1 .. m - 1
    <3>1. p \in 1 .. m + n /\ p + 1 \in 1 .. m + n /\ p <= m /\ p + 1 <= m /\ p \in 1 .. (m + n) - 1
      BY <2>3, <1>1
    <3>2. z[p] = x[p] /\ z[p + 1] = x[p + 1]
      BY <3>1, <1>2
    <3> QED
      BY <2>3, <3>1, <3>2, <1>2 DEF Occurs, m
  <2>4. CASE p = m /\ m > 0
    <3>1. p \in 1 .. m + n /\ p <= m /\ p \notin 1 .. m - 1
      BY <2>4, <1>1
    <3>2. z[p] = x[p] /\ x[p] # old[1]
      BY <3>1, <2>4, <1>1, <1>2
    <3> QED
      BY <3>1, <3>2 DEF Occurs, m
  <2> QED
    BY <2>1, <2>2, <2>3, <2>4
<1>7. ASSUME NEW p \in Nat, p <= n PROVE Occurs(z, old, m + p) <=> Occurs(y, old, p)
  <2>1. p = 0 \/ (p \in 1 .. n - 1) \/ (p = n /\ p > 0)
    BY <1>1, <1>7
  <2>2. CASE p = 0
    <3>1. m + p = m /\ m \in Int /\ m <= m /\ ~Occurs(y, old, p)
      BY <2>2, <1>1 DEF Occurs
    <3>2. ~Occurs(x, old, m)
      BY <1>1 DEF Occurs, m
    <3> QED
      BY <3>1, <3>2, <1>6
  <2>3. CASE p \in 1 .. n - 1
    <3>1. /\ m + p \in 1 .. m + n /\ (m + p) + 1 \in 1 .. m + n /\ m + p \in 1 .. (m + n) - 1
          /\ ~ (m + p <= m) /\ ~ ((m + p) + 1 <= m)
          /\ (m + p) - m = p /\ ((m + p) + 1) - m = p + 1
      BY <2>3, <1>1
    <3>2. z[m + p] = y[p] /\ z[(m + p) + 1] = y[p + 1]
      BY <3>1, <1>2
    <3> QED
      BY <2>3, <3>1, <3>2, <1>2 DEF Occurs, n
  <2>4. CASE p = n /\ p > 0
    <3>1. m + p \notin 1 .. (m + n) - 1 /\ p \notin 1 .. n - 1
      BY <2>4, <1>1
    <3> QED
      BY <3>1, <1>2 DEF Occurs, n
  <2> QED
    BY <2>1, <2>2, <2>3, <2>4
<1>8. ASSUME NEW p \in 1 .. m + n PROVE Z[p] = IF p <= m THEN X[p] ELSE Y[p - m]
  <2>1. CASE p <= m
    <3>1. p \in Int /\ p - 1 \in Int /\ p - 1 <= m /\ p \in 1 .. m
      BY <2>1, <1>1
    <3>2. (Occurs(z, old, p) <=> Occurs(x, old, p)) /\ (Occurs(z, old, p - 1) <=> Occurs(x, old, p - 1))
      BY <2>1, <3>1, <1>6
    <3>3. z[p] = x[p]
      BY <2>1, <1>2
    <3> QED
      BY <2>1, <3>1, <3>2, <3>3, <1>2, <1>3, <1>5 DEF Becomes, m
  <2>2. CASE ~ (p <= m)
    <3>1. PICK q \in 1 .. n : p = m + q /\ p - m = q /\ p - 1 = m + (q - 1)
      <4>1. p - m \in 1 .. n /\ p = m + (p - m) /\ p - 1 = m + ((p - m) - 1)
        BY <2>2, <1>1
      <4> QED
        BY <4>1
    <3>2. q \in Nat /\ q <= n /\ q - 1 \in Nat /\ q - 1 <= n
      BY <1>1
    <3>3. (Occurs(z, old, p) <=> Occurs(y, old, q)) /\ (Occurs(z, old, p - 1) <=> Occurs(y, old, q - 1))
      BY <3>1, <3>2, <1>7
    <3>4. z[p] = y[q]
      BY <2>2, <3>1, <1>2
    <3>5. Z[p] = Y[q]
      BY <3>3, <3>4, <1>2, <1>4, <1>5 DEF Becomes, n
    <3> QED
      BY <2>2, <3>1, <3>5
  <2> QED
    BY <2>1, <2>2
<1>9. Z = X \o Y
  <2>1. PICK T : T = Seq(Byte)
    OBVIOUS
  <2>2. /\ X \in Seq(T) /\ Y \in Seq(T) /\ Z \in Seq(T)
        /\ Len(X) = m /\ Len(Y) = n /\ Len(Z) = m + n
    BY <2>1, <1>2, <1>3, <1>4, <1>5 DEF Becomes, m, n
  <2>3. PICK W : W = X \o Y
    OBVIOUS
  <2>4. /\ W \in Seq(T) /\ Len(W) = m + n
        /\ \A p \in 1 .. m + n : W[p] = IF p <= m THEN X[p] ELSE Y[p - m]
    BY ONLY <2>2, <2>3, ConcatProperties
  <2>5. Len(Z) = Len(W) /\ \A p \in 1 .. Len(Z) : Z[p] = W[p]
    BY <2>2, <2>4, <1>8
  <2>6. Z = W
    BY ONLY <2>2, <2>4, <2>5, SeqEqual
  <2> QED
    BY <2>3, <2>6
<1>10. FlattenSeq(X \o Y) = FlattenSeq(X) \o FlattenSeq(Y)
  <2>1. X \in Seq(Seq(Byte)) /\ Y \in Seq(Seq(Byte))
    BY <1>3, <1>4 DEF Becomes
  <2> QED
    BY ONLY <2>1, FlattenConcat
<1> QED
  BY <1>3, <1>4, <1>5, <1>9, <1>10 DEF z

\* The last byte of a text is never dropped.
LEMMA ReplacedEnds ==
    ASSUME NEW x \in Seq(Byte), NEW old, NEW c \in Byte,
           Len(Replaced(x, old, <<c>>)) > 0
    PROVE  /\ Len(x) > 0
           /\ Replaced(x, old, <<c>>)[Len(Replaced(x, old, <<c>>))] \in {c, x[Len(x)]}
<1> DEFINE n == Len(x)
<1>1. PICK new : new = <<c>> /\ new \in Seq(Byte) /\ Len(new) = 1 /\ new[1] = c
  OBVIOUS
<1>2. PICK r : r = Replaced(x, old, new)
  OBVIOUS
<1>3. PICK f : Becomes(x, old, new, f) /\ Replaced(x, old, new) = FlattenSeq(f)
  <2>1. new \in Seq(Byte)
    BY <1>1
  <2> QED
    BY <2>1, ReplacedFlattens
<1>4. /\ f \in Seq(Seq(Byte)) /\ Len(f) = n
      /\ \A p \in 1 .. n : f[p] = IF Occurs(x, old, p) THEN <<>>
                                  ELSE IF Occurs(x, old, p - 1) THEN new ELSE <<x[p]>>
  BY <1>3 DEF Becomes
<1>5. n \in Nat /\ (n > 0 => x[n] \in Byte)
  OBVIOUS
<1>6. PICK g : BuiltUp(f, g) /\ r = g[n]
  BY <1>2, <1>3, <1>4, FlattenBuilds
<1>7. Len(r) > 0
  BY <1>1, <1>2
<1>8. n > 0
  <2>1. n = 0 => r = <<>>
    BY <1>6 DEF BuiltUp
  <2> QED
    BY <2>1, <1>5, <1>7
<1>9. PICK s \in Seq(Byte) : s = g[n - 1]
  <2>1. n - 1 \in 0 .. Len(f)
    BY <1>4, <1>5, <1>8
  <2> QED
    BY <2>1, <1>4, <1>6, BuiltUpTyped
<1>10. PICK l \in Byte : f[n] = <<l>> /\ l \in {c, x[n]}
  <2>1. ~Occurs(x, old, n) /\ n \in 1 .. n
    BY <1>5, <1>8 DEF Occurs
  <2>2. f[n] = new \/ f[n] = <<x[n]>>
    BY <2>1, <1>4
  <2> QED
    BY <2>2, <1>1, <1>5, <1>8
<1>11. r = s \o <<l>>
  <2>1. n \in 1 .. Len(f)
    BY <1>4, <1>5, <1>8
  <2>2. g[n] = g[n - 1] \o f[n]
    BY <2>1, <1>6 DEF BuiltUp
  <2> QED
    BY <2>2, <1>6, <1>9, <1>10
<1>12. Len(r) = Len(s) + 1 /\ r[Len(s) + 1] = l
  BY ONLY s \in Seq(Byte), l \in Byte, <1>11
<1> QED
  BY <1>1, <1>2, <1>8, <1>10, <1>12

\* Bytes that do not stop inside a character.
Whole(x) == x \in Seq(Byte) /\ (Len(x) > 0 => x[Len(x)] < 192)

\* The two characters that Shown replaces, and what by.
SpaceCode   == UTF8(288)
NewlineCode == UTF8(266)
Space       == <<32>>
Newline     == <<10>>

LEMMA SpaceAndNewline ==
    /\ SpaceCode = <<196, 160>> /\ SpaceCode[1] = 196
    /\ NewlineCode = <<196, 138>> /\ NewlineCode[1] = 196
    /\ Space \in Seq(Byte) /\ Newline \in Seq(Byte)
<1>1. 288 \div 64 = 4 /\ 288 % 64 = 32 /\ 266 \div 64 = 4 /\ 266 % 64 = 10
  OBVIOUS
<1>2. SpaceCode = <<196, 160>> /\ NewlineCode = <<196, 138>>
  BY <1>1 DEF SpaceCode, NewlineCode, UTF8
<1> QED
  BY <1>2 DEF Space, Newline, Byte

LEMMA ShownIs ==
    ASSUME NEW s
    PROVE  Shown(s) = Replaced(Replaced(s, SpaceCode, Space), NewlineCode, Newline)
BY DEF Shown, SpaceCode, NewlineCode, Space, Newline

LEMMA ReplacedCat ==
    ASSUME NEW x, Whole(x), NEW y \in Seq(Byte), NEW old, old[1] = 196, NEW new \in Seq(Byte)
    PROVE  Replaced(Cat(x, y), old, new) = Cat(Replaced(x, old, new), Replaced(y, old, new))
<1>1. x \in Seq(Byte) /\ (Len(x) > 0 => x[Len(x)] # old[1])
  BY DEF Whole
<1> QED
  BY <1>1, ReplacedConcat DEF Cat

LEMMA ReplacedWhole ==
    ASSUME NEW x, Whole(x), NEW old, NEW c \in 0 .. 127
    PROVE  Whole(Replaced(x, old, <<c>>))
<1>1. PICK r : r = Replaced(x, old, <<c>>)
  OBVIOUS
<1>2. c \in Byte /\ x \in Seq(Byte) /\ <<c>> \in Seq(Byte)
  BY DEF Whole, Byte
<1>3. r \in Seq(Byte)
  BY <1>1, <1>2, ReplacedTyped
<1>4. Len(r) > 0 => Len(x) > 0 /\ r[Len(r)] \in {c, x[Len(x)]}
  BY <1>1, <1>2, ReplacedEnds
<1>5. Len(x) > 0 => x[Len(x)] < 192
  BY DEF Whole
<1>6. Whole(r)
  BY <1>3, <1>4, <1>5 DEF Whole
<1> QED
  BY <1>1, <1>6

LEMMA ShownConcat ==
    ASSUME NEW x, Whole(x), NEW y \in Seq(Byte)
    PROVE  Shown(x \o y) = Shown(x) \o Shown(y)
<1>1. PICK a : a = Replaced(x, SpaceCode, Space)
  OBVIOUS
<1>2. PICK b : b = Replaced(y, SpaceCode, Space)
  OBVIOUS
<1>3. Replaced(Cat(x, y), SpaceCode, Space) = Cat(a, b)
  BY ONLY Whole(x), y \in Seq(Byte), <1>1, <1>2, SpaceAndNewline, ReplacedCat
<1>4. Whole(a)
  <2>1. 32 \in 0 .. 127
    OBVIOUS
  <2> QED
    BY ONLY Whole(x), <1>1, <2>1, ReplacedWhole DEF Space
<1>5. b \in Seq(Byte)
  BY ONLY y \in Seq(Byte), <1>2, SpaceAndNewline, ReplacedTyped
<1>6. Replaced(Cat(a, b), NewlineCode, Newline)
          = Cat(Replaced(a, NewlineCode, Newline), Replaced(b, NewlineCode, Newline))
  BY ONLY <1>4, <1>5, SpaceAndNewline, ReplacedCat
<1>7. Shown(Cat(x, y)) = Cat(Shown(x), Shown(y))
  BY ONLY <1>1, <1>2, <1>3, <1>6, ShownIs
<1> QED
  BY <1>7 DEF Cat

LEMMA ShownTyped ==
    ASSUME NEW s \in Seq(Byte)
    PROVE  Shown(s) \in Seq(Byte)
<1>1. PICK a : a = Replaced(s, SpaceCode, Space)
  OBVIOUS
<1>2. a \in Seq(Byte)
  BY ONLY s \in Seq(Byte), <1>1, SpaceAndNewline, ReplacedTyped
<1>3. Replaced(a, NewlineCode, Newline) \in Seq(Byte)
  BY ONLY <1>2, SpaceAndNewline, ReplacedTyped
<1> QED
  BY ONLY <1>1, <1>3, ShownIs

LEMMA ReplacedNone ==
    ASSUME NEW old, NEW new \in Seq(Byte)
    PROVE  Replaced(<<>>, old, new) = <<>>
<1>1. PICK s : s = <<>> /\ s \in Seq(Byte) /\ Len(s) = 0
  <2>1. <<>> \in Seq(Byte) /\ Len(<<>>) = 0
    OBVIOUS
  <2> QED
    BY <2>1
<1>2. PICK f : Becomes(s, old, new, f) /\ Replaced(s, old, new) = FlattenSeq(f)
  BY <1>1, ReplacedFlattens
<1>3. f \in Seq(Seq(Byte)) /\ Len(f) = 0
  BY <1>1, <1>2 DEF Becomes
<1>4. FlattenSeq(f) = <<>>
  BY <1>3, FlattenSmall
<1> QED
  BY <1>1, <1>2, <1>4

LEMMA ShownNone == Shown(<<>>) = <<>>
<1>1. Replaced(<<>>, SpaceCode, Space) = <<>> /\ Replaced(<<>>, NewlineCode, Newline) = <<>>
  BY ONLY ReplacedNone, SpaceAndNewline
<1> QED
  BY ONLY <1>1, ShownIs

\* A single byte is no character of two.
LEMMA ReplacedOne ==
    ASSUME NEW a \in Byte, NEW old, NEW new \in Seq(Byte)
    PROVE  Replaced(<<a>>, old, new) = <<a>>
<1>1. PICK s \in Seq(Byte) : s = <<a>> /\ Len(s) = 1 /\ s[1] = a
  <2>1. <<a>> \in Seq(Byte) /\ Len(<<a>>) = 1 /\ <<a>>[1] = a
    OBVIOUS
  <2> QED
    BY <2>1
<1>2. PICK f : Becomes(s, old, new, f) /\ Replaced(s, old, new) = FlattenSeq(f)
  BY ReplacedFlattens
<1>3. /\ f \in Seq(Seq(Byte)) /\ Len(f) = 1
      /\ \A p \in 1 .. 1 : f[p] = IF Occurs(s, old, p) THEN <<>>
                                  ELSE IF Occurs(s, old, p - 1) THEN new ELSE <<s[p]>>
  BY <1>1, <1>2 DEF Becomes
<1>4. ~Occurs(s, old, 1) /\ ~Occurs(s, old, 1 - 1) /\ 1 \in 1 .. 1
  BY <1>1 DEF Occurs
<1>5. f[1] = <<s[1]>>
  BY <1>3, <1>4
<1>6. FlattenSeq(f) = f[1]
  BY <1>3, FlattenSmall
<1> QED
  BY <1>1, <1>2, <1>5, <1>6

LEMMA OneAndOne ==
    ASSUME NEW a \in Byte, NEW b \in Byte
    PROVE  <<a>> \o <<b>> = <<a, b>>
<1>1. <<a>> \in Seq(Byte) /\ <<b>> \in Seq(Byte) /\ <<a, b>> \in Seq(Byte)
  OBVIOUS
<1>2. PICK w : w = <<a>> \o <<b>>
  OBVIOUS
<1>3. w \in Seq(Byte) /\ Len(w) = 2 /\ w[1] = a /\ w[2] = b
  BY <1>2
<1>4. w = <<a, b>>
  BY <1>1, <1>3, SeqEqual
<1> QED
  BY <1>2, <1>4

LEMMA ReplacedTwo ==
    ASSUME NEW a \in Byte, NEW b \in Byte, NEW d \in Byte, a # b, NEW new \in Seq(Byte)
    PROVE  Replaced(<<a, b>>, <<a, d>>, new) = IF b = d THEN new ELSE <<a, b>>
<1>1. PICK s \in Seq(Byte) : s = <<a, b>> /\ Len(s) = 2 /\ s[1] = a /\ s[2] = b
  <2>1. <<a, b>> \in Seq(Byte) /\ Len(<<a, b>>) = 2 /\ <<a, b>>[1] = a /\ <<a, b>>[2] = b
    OBVIOUS
  <2> QED
    BY <2>1
<1>2. PICK old : old = <<a, d>> /\ old[1] = a /\ old[2] = d
  <2>1. <<a, d>>[1] = a /\ <<a, d>>[2] = d
    OBVIOUS
  <2> QED
    BY <2>1
<1>3. PICK f : Becomes(s, old, new, f) /\ Replaced(s, old, new) = FlattenSeq(f)
  BY ReplacedFlattens
<1>4. /\ f \in Seq(Seq(Byte)) /\ Len(f) = 2
      /\ \A p \in 1 .. 2 : f[p] = IF Occurs(s, old, p) THEN <<>>
                                  ELSE IF Occurs(s, old, p - 1) THEN new ELSE <<s[p]>>
  BY <1>1, <1>3 DEF Becomes
<1>5. ~Occurs(s, old, 0) /\ ~Occurs(s, old, 2) /\ (Occurs(s, old, 1) <=> b = d)
  BY <1>1, <1>2 DEF Occurs
<1>6. 1 \in 1 .. 2 /\ 2 \in 1 .. 2 /\ 1 - 1 = 0 /\ 2 - 1 = 1
  OBVIOUS
<1>7. (f[1] = IF b = d THEN <<>> ELSE <<a>>) /\ (f[2] = IF b = d THEN new ELSE <<b>>)
  BY <1>1, <1>4, <1>5, <1>6
<1>8. FlattenSeq(f) = f[1] \o f[2]
  BY <1>4, FlattenSmall
<1>9. CASE b = d
  <2>1. f[1] \o f[2] = <<>> \o new
    BY <1>7, <1>9
  <2>2. <<>> \o new = new
    BY ConcatEmptySeq
  <2> QED
    BY <1>1, <1>2, <1>3, <1>8, <1>9, <2>1, <2>2
<1>10. CASE b # d
  <2>1. f[1] \o f[2] = <<a>> \o <<b>>
    BY <1>7, <1>10
  <2>2. <<a>> \o <<b>> = <<a, b>>
    BY OneAndOne
  <2> QED
    BY <1>1, <1>2, <1>3, <1>8, <1>10, <2>1, <2>2
<1> QED
  BY <1>9, <1>10

\* The space is the 33rd byte without a character of its own, the newline the
\* 11th.
LEMMA ControlCodes == CodePoint(32) = 288 /\ CodePoint(10) = 266
<1>1. \A b \in 0 .. 32 : ~Printable(b)
  BY DEF Printable
<1>2. ASSUME NEW b \in {10, 32} PROVE {c \in 0 .. b - 1 : ~Printable(c)} = 0 .. b - 1
  BY <1>1
<1>3. Cardinality(0 .. 10 - 1) = 10 /\ Cardinality(0 .. 32 - 1) = 32
  <2>1. 0 \in Int /\ 10 - 1 \in Int /\ 32 - 1 \in Int /\ ~ (0 > 10 - 1) /\ ~ (0 > 32 - 1)
    OBVIOUS
  <2>2. (10 - 1) - 0 + 1 = 10 /\ (32 - 1) - 0 + 1 = 32
    OBVIOUS
  <2> QED
    BY ONLY <2>1, <2>2, FS_Interval
<1>4. {c \in 0 .. 10 - 1 : ~Printable(c)} = 0 .. 10 - 1 /\ {c \in 0 .. 32 - 1 : ~Printable(c)} = 0 .. 32 - 1
  BY <1>2
<1>5. ~Printable(10) /\ ~Printable(32)
  BY <1>1
<1>6. CodePoint(10) = 256 + 10 /\ CodePoint(32) = 256 + 32
  BY <1>3, <1>4, <1>5 DEF CodePoint
<1> QED
  BY <1>6

\* A plain byte is shown as it was.
LEMMA ShownPlain ==
    ASSUME NEW c \in (32 .. 126) \cup {10}
    PROVE  Shown(UTF8(CodePoint(c))) = <<c>> /\ Whole(UTF8(CodePoint(c)))
<1>1. 196 \in Byte /\ 160 \in Byte /\ 138 \in Byte /\ 196 # 160 /\ 196 # 138 /\ 138 # 160
  BY DEF Byte
<1>2. PICK sc, nc, sp, nl : sc = SpaceCode /\ nc = NewlineCode /\ sp = Space /\ nl = Newline
  OBVIOUS
<1>3. sc = <<196, 160>> /\ nc = <<196, 138>>
  BY ONLY <1>2, SpaceAndNewline
<1>4. sp \in Seq(Byte) /\ nl \in Seq(Byte)
  BY ONLY <1>2, SpaceAndNewline
<1>5. CASE c = 32
  <2>1. UTF8(CodePoint(c)) = sc
    BY <1>2, <1>5, ControlCodes DEF SpaceCode
  <2>2. Replaced(sc, sc, sp) = sp
    <3>1. Replaced(<<196, 160>>, <<196, 160>>, sp) = IF 160 = 160 THEN sp ELSE <<196, 160>>
      BY ONLY <1>1, <1>4, ReplacedTwo
    <3> QED
      BY ONLY <1>3, <3>1
  <2>3. Replaced(sp, nc, nl) = sp
    <3>1. 32 \in Byte
      BY DEF Byte
    <3>2. Replaced(<<32>>, nc, nl) = <<32>>
      BY ONLY <3>1, <1>4, ReplacedOne
    <3> QED
      BY ONLY <3>2, <1>2 DEF Space
  <2>4. Shown(sc) = sp
    BY ONLY <1>2, <2>2, <2>3, ShownIs
  <2>5. sp = <<c>>
    BY ONLY <1>2, <1>5 DEF Space
  <2>6. Whole(sc)
    BY ONLY <1>1, <1>3 DEF Whole
  <2> QED
    BY ONLY <2>1, <2>4, <2>5, <2>6
<1>6. CASE c = 10
  <2>1. UTF8(CodePoint(c)) = nc
    BY <1>2, <1>6, ControlCodes DEF NewlineCode
  <2>2. Replaced(nc, sc, sp) = nc
    <3>1. Replaced(<<196, 138>>, <<196, 160>>, sp) = IF 138 = 160 THEN sp ELSE <<196, 138>>
      BY ONLY <1>1, <1>4, ReplacedTwo
    <3> QED
      BY ONLY <1>1, <1>3, <3>1
  <2>3. Replaced(nc, nc, nl) = nl
    <3>1. Replaced(<<196, 138>>, <<196, 138>>, nl) = IF 138 = 138 THEN nl ELSE <<196, 138>>
      BY ONLY <1>1, <1>4, ReplacedTwo
    <3> QED
      BY ONLY <1>3, <3>1
  <2>4. Shown(nc) = nl
    BY ONLY <1>2, <2>2, <2>3, ShownIs
  <2>5. nl = <<c>>
    BY ONLY <1>2, <1>6 DEF Newline
  <2>6. Whole(nc)
    BY ONLY <1>1, <1>3 DEF Whole
  <2> QED
    BY ONLY <2>1, <2>4, <2>5, <2>6
<1>7. CASE c \in 33 .. 126
  <2>1. UTF8(CodePoint(c)) = <<c>> /\ c \in Byte
    BY <1>7 DEF UTF8, CodePoint, Printable, Byte
  <2>2. Replaced(<<c>>, sc, sp) = <<c>> /\ Replaced(<<c>>, nc, nl) = <<c>>
    BY ONLY <2>1, <1>4, ReplacedOne
  <2>3. Shown(<<c>>) = <<c>>
    BY ONLY <1>2, <2>2, ShownIs
  <2>4. Whole(<<c>>)
    BY <2>1, <1>7 DEF Whole
  <2> QED
    BY ONLY <2>1, <2>3, <2>4
<1> QED
  BY <1>5, <1>6, <1>7

LEMMA WholeConcat ==
    ASSUME NEW x, NEW y, Whole(x), Whole(y)
    PROVE  Whole(x \o y)
BY DEF Whole

\* Plain text is shown as it was.
LEMMA ShownEncoded ==
    ASSUME NEW s \in Seq(Byte), \A k \in DOMAIN s : s[k] \in (32 .. 126) \cup {10}
    PROVE  Shown(Encoded(s)) = s
<1> DEFINE f == [k \in DOMAIN s |-> UTF8(CodePoint(s[k]))]
           N == Len(s)
<1>1. N \in Nat /\ DOMAIN s = 1 .. N /\ \A k \in 1 .. N : s[k] \in Byte
  OBVIOUS
<1>2. ASSUME NEW k \in 1 .. N
      PROVE  f[k] \in Seq(Byte) /\ Whole(f[k]) /\ Shown(f[k]) = <<s[k]>>
  <2>1. s[k] \in (32 .. 126) \cup {10}
    BY <1>1
  <2>2. f[k] = UTF8(CodePoint(s[k]))
    BY <1>1
  <2>3. Shown(UTF8(CodePoint(s[k]))) = <<s[k]>> /\ Whole(UTF8(CodePoint(s[k])))
    BY ONLY <2>1, ShownPlain
  <2> QED
    BY <2>2, <2>3 DEF Whole
<1>3. f \in Seq(Seq(Byte)) /\ Len(f) = N
  BY <1>1, <1>2
<1>4. Encoded(s) = FlattenSeq(f)
  BY DEF Encoded
<1> HIDE DEF f
<1>5. PICK g : BuiltUp(f, g) /\ FlattenSeq(f) = g[N]
  BY <1>3, FlattenBuilds
<1> DEFINE P == {i \in Nat : i <= N => Whole(g[i]) /\ Shown(g[i]) = SubSeq(s, 1, i)}
<1>6. 0 \in P
  <2>1. g[0] = <<>> /\ Whole(<<>>) /\ Shown(<<>>) = <<>>
    BY <1>5, ShownNone DEF BuiltUp, Whole
  <2>2. SubSeq(s, 1, 0) = <<>>
    BY SubSeqEmpty
  <2> QED
    BY <2>1, <2>2
<1>7. ASSUME NEW i \in Nat, i \in P PROVE i + 1 \in P
  <2> SUFFICES ASSUME i + 1 <= N PROVE Whole(g[i + 1]) /\ Shown(g[i + 1]) = SubSeq(s, 1, i + 1)
    OBVIOUS
  <2>1. i <= N /\ i + 1 \in 1 .. N /\ (i + 1) - 1 = i
    BY <1>1
  <2>2. Whole(g[i]) /\ Shown(g[i]) = SubSeq(s, 1, i)
    BY <2>1, <1>7
  <2>3. g[i + 1] = g[i] \o f[i + 1]
    BY <2>1, <1>3, <1>5 DEF BuiltUp
  <2>4. f[i + 1] \in Seq(Byte) /\ Whole(f[i + 1]) /\ Shown(f[i + 1]) = <<s[i + 1]>>
    BY <2>1, <1>2
  <2>5. Shown(g[i] \o f[i + 1]) = SubSeq(s, 1, i) \o <<s[i + 1]>>
    BY ONLY <2>2, <2>4, ShownConcat
  <2>6. Whole(g[i] \o f[i + 1])
    BY ONLY <2>2, <2>4, WholeConcat
  <2>7. SubSeq(s, 1, i + 1) = SubSeq(s, 1, i) \o <<s[i + 1]>>
    <3>1. 1 \in 1 .. N /\ i + 1 \in 1 .. N
      BY <2>1, <1>1
    <3> QED
      BY ONLY <2>1, <3>1, s \in Seq(Byte), SubSeqRecursiveSecond
  <2> QED
    BY <2>3, <2>5, <2>6, <2>7
<1>8. \A i \in Nat : i \in P
  <2> HIDE DEF P
  <2> QED
    BY <1>6, <1>7, SetInduction
<1>9. Shown(g[N]) = SubSeq(s, 1, N)
  BY <1>1, <1>8
<1>10. SubSeq(s, 1, N) = s
  BY SubSeqFull
<1> QED
  BY <1>4, <1>5, <1>9, <1>10
-----------------------------------------------------------------------------
(* Plain text comes back                                                   *)

\* No token ends with the first byte of a character of two, so that what is
\* shown of the tokens one by one is what is shown of them together.
EndsWhole ==
    /\ Complete => \A k \in DOMAIN ends : ends[k] \in 1 .. Len(bytes) => bytes[ends[k]] < 192
    /\ stage = "done" => ids = (IF addBos THEN <<BOS>> ELSE <<>>) \o work

LEMMA EndsWholeNext == TypeInv /\ CutInv /\ EndsWhole /\ [Next]_vars => EndsWhole'
<1> SUFFICES ASSUME TypeInv, CutInv, EndsWhole, [Next]_vars PROVE EndsWhole'
  OBVIOUS
<1>1. UNCHANGED input
  BY DEF Next, Encode, Returned, Match, Fallback, FallbackPanics, CutDone, Merge,
     MergeDone, vars, input
<1>2. bytes' = bytes /\ addBos' = addBos /\ (Complete' <=> Complete)
  BY <1>1 DEF input, Complete
<1>3. stage' = "done" => ids' = (IF addBos' THEN <<BOS>> ELSE <<>>) \o work'
  BY <1>2 DEF Next, Encode, Returned, Match, Fallback, FallbackPanics, CutDone, Merge,
     MergeDone, vars, input, EndsWhole
<1>4. ends \in Seq(Nat) /\ pos \in Nat /\ Len(bytes) \in Nat
  BY DEF TypeInv, TypeOK
<1> SUFFICES ASSUME Complete
             PROVE  \A k \in DOMAIN ends' : ends'[k] \in 1 .. Len(bytes) => bytes[ends'[k]] < 192
  BY <1>2, <1>3 DEF EndsWhole
<1>5. \A k \in DOMAIN ends : ends[k] \in 1 .. Len(bytes) => bytes[ends[k]] < 192
  BY DEF EndsWhole
<1>6. CASE Match
  <2>1. ends' = Append(ends, pos')
    BY <1>6 DEF Match
  <2>2. pos' \in 1 .. Len(bytes) => bytes[pos'] < 192
    BY <1>6, MatchEndsLow
  <2>3. PICK q : q = pos'
    OBVIOUS
  <2>4. ASSUME NEW k \in DOMAIN ends' PROVE (k \in DOMAIN ends /\ ends'[k] = ends[k]) \/ ends'[k] = q
    <3>1. PICK e : e = ends' /\ e = Append(ends, q)
      BY <2>1, <2>3
    <3>2. k \in DOMAIN e
      BY <3>1
    <3>3. (k \in DOMAIN ends /\ e[k] = ends[k]) \/ e[k] = q
      BY ONLY <3>1, <3>2, <1>4
    <3> QED
      BY <3>1, <3>3
  <2> QED
    BY <1>5, <2>2, <2>3, <2>4
<1>7. CASE Fallback \/ FallbackPanics
  <2>1. pos < Len(bytes) /\ Matches = {}
    BY <1>7 DEF Fallback, FallbackPanics
  <2> QED
    BY <2>1, CharacterMatches
<1>8. CASE Merge
  <2>1. PICK i \in 1 .. Len(ends) - 1 : ends' = Joined(ends, i, ends[i + 1])
    <3>1. BestPair(tok, work) \in 1 .. Len(work) - 1
      BY <1>8, MergeTypes DEF Merge
    <3>2. Len(ends) = Len(work)
      BY DEF TypeInv, TypeOK
    <3> QED
      BY <1>8, <3>1, <3>2 DEF Merge
  <2>2. PICK x \in Nat : x = ends[i + 1] /\ i + 1 \in DOMAIN ends
    BY <1>4, ElementOfSeq
  <2>3. PICK e : e = Joined(ends, i, x)
    OBVIOUS
  <2>4. e \in Seq(Nat) /\ Len(e) = Len(ends) - 1
    <3>1. Joined(ends, i, x) \in Seq(Nat) /\ Len(Joined(ends, i, x)) = Len(ends) - 1
      BY ONLY <1>4, i \in 1 .. Len(ends) - 1, x \in Nat, JoinedSeq
    <3> QED
      BY ONLY <2>3, <3>1
  <2>5. \A k \in 1 .. Len(ends) - 1 : e[k] = IF k < i THEN ends[k] ELSE IF k = i THEN x ELSE ends[k + 1]
    BY ONLY <2>3 DEF Joined
  <2>6. \A k \in DOMAIN e : k \in 1 .. Len(ends) - 1 /\ k \in DOMAIN ends /\ k + 1 \in DOMAIN ends
    <3>1. DOMAIN e = 1 .. Len(ends) - 1 /\ DOMAIN ends = 1 .. Len(ends) /\ Len(ends) \in Nat
      BY ONLY <2>4, <1>4, LenProperties
    <3> QED
      BY ONLY <3>1
  <2>7. \A k \in DOMAIN e : \E j \in DOMAIN ends : e[k] = ends[j]
    BY <2>2, <2>5, <2>6
  <2>8. ends' = e
    BY <2>1, <2>2, <2>3
  <2> QED
    BY <1>5, <2>7, <2>8
<1>9. CASE CutDone \/ MergeDone \/ UNCHANGED vars
  BY <1>5, <1>9 DEF CutDone, MergeDone, vars
<1> QED
  BY <1>6, <1>7, <1>8, <1>9 DEF Next, Encode, Returned

LEMMA TextIsBytes ==
    ASSUME NEW t \in Tokenizers, NEW id \in Ids(t)
    PROVE  Text(t, id) \in Seq(Byte)
<1>1. t.vocab \in Seq(Entry) /\ id + 1 \in 1 .. Len(t.vocab)
  BY TokenizersAssumption DEF Ids
<1>2. t.vocab[id + 1] \in Entry
  BY <1>1
<1> QED
  BY <1>2 DEF Text, Entry

\* The tokens of the text, shown one by one.
LEMMA StreamedIsShown ==
    ASSUME TypeInv, CutInv, Complete, TokensCoverText, EndsWhole, stage = "done",
           \A k \in DOMAIN work : work[k] \notin {BOS, EOS, EOT, PAD} /\ ~Control(tok, work[k])
    PROVE  Streamed(tok, work) = Shown(bytes)
<1> DEFINE n == Len(work)
           e(k) == IF k = 0 THEN 0 ELSE ends[k]
           f == [k \in DOMAIN work |-> DecodeOne(tok, work[k])]
<1>1. ~fell
  BY DEF CutInv
<1>2. /\ tok \in Tokenizers /\ work \in Seq(Ids(tok)) /\ ends \in Seq(Nat)
      /\ bytes \in Seq(Byte) /\ Len(bytes) \in Nat
      /\ n \in Nat /\ Len(ends) = n /\ DOMAIN work = 1 .. n
      /\ pos = IF n = 0 THEN 0 ELSE ends[n]
  BY <1>1, CoverPieces
<1>3. \A k \in 1 .. n :
          /\ ends[k] \in Nat /\ Start(ends, k) \in Nat
          /\ Start(ends, k) < ends[k] /\ ends[k] <= Len(bytes)
          /\ Text(tok, work[k]) = SubSeq(bytes, Start(ends, k) + 1, ends[k])
  BY <1>1, CoverPieces
<1>4. pos = Len(bytes)
  BY <1>1 DEF TokensCoverText
<1>5. ASSUME NEW k \in 1 .. n
      PROVE  Text(tok, work[k]) \in Seq(Byte) /\ f[k] = Shown(Text(tok, work[k])) /\ f[k] \in Seq(Byte)
  <2>1. work[k] \in Ids(tok)
    BY <1>2, ElementOfSeq
  <2>2. f[k] = Shown(Text(tok, work[k]))
    BY <2>1, <1>2 DEF DecodeOne
  <2>3. Text(tok, work[k]) \in Seq(Byte)
    BY <2>1, <1>2, TextIsBytes
  <2>4. Shown(Text(tok, work[k])) \in Seq(Byte)
    BY ONLY <2>3, ShownTyped
  <2> QED
    BY <2>2, <2>3, <2>4
<1>6. f \in Seq(Seq(Byte)) /\ Len(f) = n
  BY <1>2, <1>5
<1>7. Streamed(tok, work) = FlattenSeq(f)
  BY DEF Streamed
<1>8. \A k \in 1 .. n : bytes[ends[k]] < 192
  <2>1. \A k \in 1 .. n : k \in DOMAIN ends /\ ends[k] \in 1 .. Len(bytes)
    BY <1>2, <1>3
  <2> QED
    BY <2>1 DEF EndsWhole
<1> HIDE DEF f, n
<1>9. PICK g : BuiltUp(f, g) /\ FlattenSeq(f) = g[n]
  BY <1>6, FlattenBuilds
<1>10. ASSUME NEW k \in 0 .. n PROVE e(k) \in 0 .. Len(bytes)
  <2>1. k = 0 \/ k \in 1 .. n
    BY <1>2
  <2>2. PICK l \in Nat : l = Len(bytes)
    BY <1>2
  <2>3. k \in 1 .. n => e(k) \in Nat /\ e(k) <= l
    BY <2>2, <1>3
  <2>4. k = 0 => e(k) = 0
    OBVIOUS
  <2> HIDE DEF e
  <2> QED
    BY <2>1, <2>2, <2>3, <2>4
<1>11. ASSUME NEW k \in 1 .. n PROVE Start(ends, k) = e(k - 1)
  BY <1>2 DEF Start
<1>12. ASSUME NEW k \in 0 .. n PROVE Whole(SubSeq(bytes, 1, e(k)))
  <2>1. PICK q \in 0 .. Len(bytes) : q = e(k)
    BY <1>10
  <2>2. q > 0 => bytes[q] < 192
    <3>1. q > 0 => k \in 1 .. n /\ q = ends[k]
      BY <1>2, <2>1
    <3> QED
      BY <3>1, <1>8
  <2>3. \A i \in 1 .. q : bytes[i] \in Byte
    BY <1>2, ElementOfSeq
  <2>4. PICK s : s = SubSeq(bytes, 1, q)
    OBVIOUS
  <2>5. s \in Seq(Byte) /\ (Len(s) = IF 1 <= q THEN q - 1 + 1 ELSE 0)
        /\ \A i \in 1 .. q - 1 + 1 : s[i] = bytes[1 + i - 1]
    <3>1. 1 \in Int /\ q \in Int
      OBVIOUS
    <3> QED
      BY ONLY <2>3, <2>4, <3>1, SubSeqProperties
  <2>6. Len(s) = q /\ (q > 0 => q \in 1 .. q - 1 + 1 /\ 1 + q - 1 = q)
    BY <2>5
  <2>7. q > 0 => s[q] = bytes[q]
    BY <2>5, <2>6
  <2>8. Whole(s)
    BY <2>2, <2>5, <2>6, <2>7 DEF Whole
  <2> QED
    BY <2>1, <2>4, <2>8
<1>13. SubSeq(bytes, 1, e(0)) = <<>>
  BY SubSeqEmpty
<1>14. ASSUME NEW k \in 1 .. n
       PROVE  SubSeq(bytes, 1, e(k)) = SubSeq(bytes, 1, e(k - 1)) \o Text(tok, work[k])
  <2>1. PICK a \in 0 .. Len(bytes) : a = e(k - 1) /\ a = Start(ends, k)
    <3>1. k - 1 \in 0 .. n
      BY <1>2
    <3> QED
      BY <3>1, <1>10, <1>11
  <2>2. PICK b \in 0 .. Len(bytes) : b = e(k) /\ b = ends[k] /\ a < b
    <3>1. k \in 0 .. n /\ k # 0
      BY <1>2
    <3> QED
      BY <3>1, <2>1, <1>3, <1>10
  <2>3. Text(tok, work[k]) = SubSeq(bytes, a + 1, b)
    BY <2>1, <2>2, <1>3
  <2>4. 1 \in 1 .. Len(bytes) + 1 /\ a \in 1 - 1 .. Len(bytes) /\ b \in a .. Len(bytes)
    BY <2>1, <2>2, <1>2
  <2>5. SubSeq(bytes, 1, a) \o SubSeq(bytes, a + 1, b) = SubSeq(bytes, 1, b)
    BY <2>4, <1>2, ConcatAdjacentSubSeq
  <2> QED
    BY <2>1, <2>2, <2>3, <2>5
<1>15. e(n) = Len(bytes)
  BY <1>2, <1>4
<1> HIDE DEF e
<1> DEFINE P == {k \in Nat : k <= n => g[k] = Shown(SubSeq(bytes, 1, e(k)))}
<1>16. 0 \in P
  <2>1. g[0] = <<>> /\ Shown(<<>>) = <<>>
    BY <1>9, ShownNone DEF BuiltUp
  <2> QED
    BY <2>1, <1>13
<1>17. ASSUME NEW k \in Nat, k \in P PROVE k + 1 \in P
  <2> SUFFICES ASSUME k + 1 <= n PROVE g[k + 1] = Shown(SubSeq(bytes, 1, e(k + 1)))
    OBVIOUS
  <2>1. k <= n /\ k \in 0 .. n /\ k + 1 \in 1 .. n /\ (k + 1) - 1 = k
    BY <1>2
  <2>2. g[k] = Shown(SubSeq(bytes, 1, e(k)))
    BY <2>1, <1>17
  <2>3. g[k + 1] = g[k] \o f[k + 1]
    BY <2>1, <1>6, <1>9 DEF BuiltUp
  <2>4. PICK t \in Seq(Byte) : t = Text(tok, work[k + 1]) /\ f[k + 1] = Shown(t)
    BY <2>1, <1>5
  <2>5. PICK s : s = SubSeq(bytes, 1, e(k)) /\ Whole(s)
    BY <2>1, <1>12
  <2>6. SubSeq(bytes, 1, e(k + 1)) = s \o t
    BY <2>1, <2>4, <2>5, <1>14
  <2>7. Shown(s \o t) = Shown(s) \o Shown(t)
    BY ONLY t \in Seq(Byte), <2>5, ShownConcat
  <2> QED
    BY <2>2, <2>3, <2>4, <2>5, <2>6, <2>7
<1>18. \A k \in Nat : k \in P
  <2> HIDE DEF P
  <2> QED
    BY <1>16, <1>17, SetInduction
<1>19. g[n] = Shown(SubSeq(bytes, 1, Len(bytes)))
  BY <1>2, <1>15, <1>18
<1>20. SubSeq(bytes, 1, Len(bytes)) = bytes
  BY <1>2, SubSeqFull
<1> QED
  BY <1>7, <1>9, <1>19, <1>20

\* BOS is not shown.
LEMMA BosNotShown ==
    ASSUME NEW t \in Tokenizers, NEW w \in Seq(Ids(t))
    PROVE  Streamed(t, <<BOS>> \o w) = Streamed(t, w)
<1> DEFINE v == <<BOS>> \o w
           f == [k \in DOMAIN w |-> DecodeOne(t, w[k])]
           h == [k \in DOMAIN v |-> DecodeOne(t, v[k])]
           n == Len(w)
<1>1. n \in Nat /\ DOMAIN w = 1 .. n
  OBVIOUS
<1>2. /\ v \in Seq(Ids(t) \cup {BOS}) /\ Len(v) = n + 1 /\ DOMAIN v = 1 .. n + 1
      /\ v[1] = BOS /\ \A k \in 1 .. n : v[k + 1] = w[k]
  <2>1. PICK S : S = Ids(t) \cup {BOS}
    OBVIOUS
  <2>2. w \in Seq(S) /\ <<BOS>> \in Seq(S) /\ Len(<<BOS>>) = 1 /\ <<BOS>>[1] = BOS
    BY <2>1
  <2>3. PICK u : u = <<BOS>> \o w
    OBVIOUS
  <2>4. /\ u \in Seq(S) /\ Len(u) = 1 + n
        /\ \A k \in 1 .. 1 + n : u[k] = IF k <= 1 THEN <<BOS>>[k] ELSE w[k - 1]
    BY ONLY <2>2, <2>3, ConcatProperties
  <2>5. Len(u) = n + 1 /\ DOMAIN u = 1 .. n + 1 /\ u[1] = BOS
    BY ONLY <2>2, <2>4, <1>1
  <2>6. \A k \in 1 .. n : k + 1 \in 1 .. 1 + n /\ ~ (k + 1 <= 1) /\ (k + 1) - 1 = k
    BY <1>1
  <2>7. \A k \in 1 .. n : u[k + 1] = w[k]
    BY ONLY <2>4, <2>6
  <2> QED
    BY <2>1, <2>3, <2>4, <2>5, <2>7
<1>3. ASSUME NEW id \in Ids(t) PROVE DecodeOne(t, id) \in Seq(Byte)
  <2>1. Text(t, id) \in Seq(Byte)
    BY TextIsBytes
  <2>2. Shown(Text(t, id)) \in Seq(Byte)
    BY ONLY <2>1, ShownTyped
  <2>3. <<>> \in Seq(Byte)
    OBVIOUS
  <2> QED
    BY <2>2, <2>3 DEF DecodeOne
<1>4. DecodeOne(t, BOS) = <<>>
  BY DEF DecodeOne
<1>5. \A k \in 1 .. n : f[k] = DecodeOne(t, w[k]) /\ f[k] \in Seq(Byte)
  BY <1>1, <1>3, ElementOfSeq
<1>6. f \in Seq(Seq(Byte)) /\ Len(f) = n
  BY <1>1, <1>5
<1> HIDE DEF v
<1>7. DOMAIN h = 1 .. n + 1 /\ h[1] = <<>> /\ \A k \in 1 .. n : h[k + 1] = f[k]
  <2>1. 1 \in 1 .. n + 1 /\ \A k \in 1 .. n : k + 1 \in 1 .. n + 1
    BY <1>1
  <2>2. DOMAIN h = 1 .. n + 1 /\ \A k \in 1 .. n + 1 : h[k] = DecodeOne(t, v[k])
    BY <1>2
  <2> HIDE DEF f, h, n
  <2> QED
    BY <2>1, <2>2, <1>2, <1>4, <1>5
<1>8. Streamed(t, w) = FlattenSeq(f) /\ Streamed(t, v) = FlattenSeq(h)
  BY DEF Streamed
<1>9. h = [k \in 1 .. n + 1 |-> h[k]]
  BY <1>2, Zenon
<1> HIDE DEF f, h, n
<1>10. PICK T : T = Seq(Byte)
  OBVIOUS
<1>11. f \in Seq(T) /\ Len(f) = n /\ <<>> \in T
  BY <1>6, <1>10
<1>12. PICK b : b = << <<>> >> /\ b \in Seq(T) /\ Len(b) = 1 /\ b[1] = <<>>
  <2>1. << <<>> >> \in Seq(T) /\ Len(<< <<>> >>) = 1 /\ << <<>> >>[1] = <<>>
    BY ONLY <1>11
  <2> QED
    BY <2>1
<1>13. h \in Seq(T) /\ Len(h) = n + 1
  <2>1. \A k \in 1 .. n + 1 : h[k] \in T
    <3> TAKE k \in 1 .. n + 1
    <3>1. k = 1 \/ (k - 1 \in 1 .. n /\ (k - 1) + 1 = k)
      BY <1>1
    <3>2. \A j \in 1 .. n : f[j] \in T
      BY ONLY <1>11, ElementOfSeq
    <3> QED
      BY <3>1, <3>2, <1>7, <1>11
  <2> QED
    BY ONLY <2>1, <1>1, <1>9
<1>14. h = b \o f
  <2>1. PICK c : c = b \o f
    OBVIOUS
  <2>2. /\ c \in Seq(T) /\ Len(c) = 1 + n
        /\ \A k \in 1 .. 1 + n : c[k] = IF k <= 1 THEN b[k] ELSE f[k - 1]
    BY ONLY <1>11, <1>12, <2>1, ConcatProperties
  <2>3. ASSUME NEW k \in 1 .. n + 1 PROVE h[k] = c[k]
    <3>1. k \in 1 .. 1 + n /\ (k = 1 \/ (k - 1 \in 1 .. n /\ (k - 1) + 1 = k /\ ~ (k <= 1)))
      BY <1>1
    <3>2. CASE k = 1
      BY <3>1, <3>2, <2>2, <1>7, <1>12
    <3>3. CASE k - 1 \in 1 .. n /\ (k - 1) + 1 = k /\ ~ (k <= 1)
      BY <3>1, <3>3, <2>2, <1>7
    <3> QED
      BY <3>1, <3>2, <3>3
  <2>4. 1 + n = n + 1
    BY <1>1
  <2>5. h = c
    BY ONLY <1>13, <2>2, <2>3, <2>4, SeqEqual
  <2> QED
    BY <2>1, <2>5
<1>15. FlattenSeq(b \o f) = FlattenSeq(b) \o FlattenSeq(f)
  <2>1. b \in Seq(Seq(Byte)) /\ f \in Seq(Seq(Byte))
    BY <1>10, <1>11, <1>12
  <2> QED
    BY ONLY <2>1, FlattenConcat
<1>16. FlattenSeq(b) = <<>>
  <2>1. b \in Seq(Seq(Byte))
    BY <1>10, <1>12
  <2> QED
    BY <2>1, <1>12, FlattenSmall
<1>17. FlattenSeq(f) \in Seq(Byte)
  <2>1. PICK g : BuiltUp(f, g) /\ FlattenSeq(f) = g[Len(f)]
    BY <1>6, FlattenBuilds
  <2> QED
    BY <1>6, <2>1, FlattenIs
<1>18. <<>> \o FlattenSeq(f) = FlattenSeq(f)
  BY ONLY <1>17, ConcatEmptySeq
<1> QED
  BY ONLY <1>8, <1>14, <1>15, <1>16, <1>18 DEF v

\* Printable ASCII, spaces and newlines come back token by token as they
\* were, whatever tokens the longest matches cut: no token ends inside the
\* two bytes that stand for a space or a newline, so that decode_one, which
\* sees one token at a time, replaces what it would have replaced in the
\* whole text.
THEOREM PlainRoundTripHolds == Spec => []PlainRoundTrip
<1>1. Init => EndsWhole
  BY DEF Init, EndsWhole
<1>2. TypeInv /\ TokensCoverText /\ [Next]_vars => TokensCoverText'
  BY CoverMatch, CoverMerge, CoverRest DEF Next, Encode, Returned
<1>3. TypeInv /\ CutInv /\ TokensCoverText /\ EndsWhole => PlainRoundTrip
  <2> SUFFICES ASSUME TypeInv, CutInv, TokensCoverText, EndsWhole, stage = "done", Complete,
                      \A k \in DOMAIN work :
                          work[k] \notin {BOS, EOS, EOT, PAD} /\ ~Control(tok, work[k]),
                      \A k \in DOMAIN text : text[k] \in (32 .. 126) \cup {10}
               PROVE  Streamed(tok, ids) = text
    BY DEF PlainRoundTrip
  <2>1. tok \in Tokenizers /\ work \in Seq(Ids(tok)) /\ text \in Seq(Byte)
    BY TextsAssumption DEF TypeInv, TypeOK
  <2>2. Streamed(tok, work) = Shown(bytes)
    BY StreamedIsShown
  <2>3. Shown(bytes) = text
    BY <2>1, ShownEncoded DEF CutInv
  <2>4. ids = <<BOS>> \o work \/ ids = <<>> \o work
    BY DEF EndsWhole
  <2>5. <<>> \o work = work
    BY <2>1, ConcatEmptySeq
  <2>6. Streamed(tok, <<BOS>> \o work) = Streamed(tok, work)
    BY <2>1, BosNotShown
  <2> QED
    BY ONLY <2>2, <2>3, <2>4, <2>5, <2>6
<1> QED
  BY <1>1, <1>2, <1>3, InitTypes, NextTypes, CoverInit, CutInit, CutNext, EndsWholeNext, PTL DEF Spec
-----------------------------------------------------------------------------
(* encode comes nearer to its end with every step                          *)

Behind(b, p) == IF p < Len(b) THEN Len(b) - p ELSE 0

\* A bound on the steps that are left: each byte behind the position is at
\* most one token to cut and one to merge away.
Left ==
    IF stage = "cut" THEN 2 * Behind(bytes, pos) + Len(work) + 2
    ELSE IF stage = "merge" THEN Len(work) + 1 ELSE 0

LEMMA BehindNat ==
    ASSUME NEW b \in Seq(Byte), NEW p \in Nat
    PROVE  Behind(b, p) \in Nat
<1>1. Len(b) \in Nat
  OBVIOUS
<1> QED
  BY <1>1 DEF Behind

LEMMA LeftNat == TypeInv => Left \in Nat
<1> SUFFICES ASSUME TypeInv PROVE Left \in Nat
  OBVIOUS
<1>1. bytes \in Seq(Byte) /\ pos \in Nat /\ Len(work) \in Nat
  BY DEF TypeInv, TypeOK
<1>2. PICK n \in Nat : n = Behind(bytes, pos)
  BY <1>1, BehindNat
<1> QED
  BY <1>1, <1>2 DEF Left

LEMMA StepLeaves ==
    ASSUME TypeInv, Encode
    PROVE  Left' < Left
<1>1. /\ tok \in Tokenizers /\ work \in Seq(Ids(tok)) /\ bytes \in Seq(Byte)
      /\ pos \in Nat /\ Len(work) \in Nat /\ Len(bytes) \in Nat
  BY DEF TypeInv, TypeOK
<1>2. PICK l \in Nat : l = Len(work)
  BY <1>1
<1>3. ASSUME stage = "cut", stage' = "cut", pos < Len(bytes), bytes' = bytes,
             NEW x \in Ids(tok), work' = Append(work, x),
             NEW d \in Nat \ {0}, pos' = pos + d
      PROVE  Left' < Left
  <2>1. PICK n \in Nat : n = Behind(bytes, pos)
    BY <1>1, BehindNat
  <2>2. PICK m \in Nat : m = Behind(bytes, pos + d)
    <3>1. pos + d \in Nat
      BY <1>1
    <3> QED
      BY <3>1, <1>1, BehindNat
  <2>3. m < n
    BY <1>1, <1>3, <2>1, <2>2 DEF Behind
  <2>4. Len(work') = l + 1
    <3>1. work \in Seq(Ids(tok))
      BY <1>1
    <3>2. Len(Append(work, x)) = Len(work) + 1
      BY ONLY <3>1, x \in Ids(tok), AppendProperties
    <3> QED
      BY <1>2, <1>3, <3>2
  <2>5. Left = 2 * n + l + 2
    BY <1>2, <1>3, <2>1 DEF Left
  <2>6. Left' = 2 * m + (l + 1) + 2
    BY <1>3, <2>2, <2>4 DEF Left
  <2> QED
    BY ONLY <2>3, <2>5, <2>6, l \in Nat, m \in Nat, n \in Nat
<1>4. CASE Match
  <2>1. Longest \in Matches
    BY <1>4, LongestMatches DEF Match
  <2>2. Longest \in Nat \ {0} /\ HasToken(tok, Piece(Longest))
    BY <2>1, MaxMatchAssumption DEF Matches
  <2>3. IdOf(tok, Piece(Longest)) \in Ids(tok)
    BY <2>2, <1>1, IdOfToken
  <2>4. /\ stage = "cut" /\ stage' = "cut" /\ pos < Len(bytes) /\ bytes' = bytes
        /\ work' = Append(work, IdOf(tok, Piece(Longest))) /\ pos' = pos + Longest
    BY <1>4 DEF Match, input
  <2> QED
    BY <2>2, <2>3, <2>4, <1>3
<1>5. CASE Fallback
  <2>1. PICK x \in Ids(tok) : x = ByteToken(tok, OrigByteAt(text, bytes, pos))
    BY <1>1, ByteTokenIsId
  <2>2. PICK d \in Nat \ {0} : d = CharLen(bytes[pos + 1])
    BY DEF CharLen
  <2>3. /\ stage = "cut" /\ stage' = "cut" /\ pos < Len(bytes) /\ bytes' = bytes
        /\ work' = Append(work, x) /\ pos' = pos + d
    BY <1>5, <2>1, <2>2 DEF Fallback, input
  <2> QED
    BY <2>3, <1>3
<1>6. CASE FallbackPanics \/ CutDone
  <2>1. PICK n \in Nat : n = Behind(bytes, pos)
    BY <1>1, BehindNat
  <2>2. Left = 2 * n + l + 2
    BY <1>2, <1>6, <2>1 DEF FallbackPanics, CutDone, Left
  <2>3. Left' = 0 \/ Left' = l + 1
    BY <1>2, <1>6 DEF FallbackPanics, CutDone, Left
  <2> QED
    BY ONLY <2>2, <2>3, l \in Nat, n \in Nat
<1>7. CASE Merge
  <2>1. PICK i \in 1 .. Len(work) - 1, id \in Nat :
            work' = Joined(work, i, id) /\ id \in Ids(tok)
    <3>1. /\ BestPair(tok, work) \in 1 .. Len(work) - 1
          /\ IdOf(tok, MergedText(tok, work, BestPair(tok, work))) \in Ids(tok)
      BY <1>7, MergeTypes DEF Merge
    <3>2. \A id \in Ids(tok) : id \in Nat
      BY <1>1, TokenizersAssumption DEF Ids
    <3> QED
      BY <1>7, <3>1, <3>2 DEF Merge, MergeOnce
  <2>2. Len(Joined(work, i, id)) = Len(work) - 1
    <3>1. work \in Seq(Ids(tok)) /\ id \in Ids(tok)
      BY <1>1, <2>1
    <3> QED
      BY ONLY <3>1, i \in 1 .. Len(work) - 1, JoinedSeq
  <2>3. stage = "merge" /\ stage' = "merge" /\ Len(work') = l - 1
    BY <1>2, <1>7, <2>1, <2>2 DEF Merge
  <2>4. Left = l + 1 /\ Left' = (l - 1) + 1
    BY <1>2, <2>3 DEF Left
  <2> QED
    BY ONLY <2>4, l \in Nat
<1>8. CASE MergeDone
  <2>1. Left = l + 1 /\ Left' = 0
    BY <1>2, <1>8 DEF MergeDone, Left
  <2> QED
    BY ONLY <2>1, l \in Nat
<1> QED
  BY <1>4, <1>5, <1>6, <1>7, <1>8 DEF Encode

\* Every round of initial_tokenise and of bpe_merge brings encode nearer to
\* its return.
EncodeAdvances == [][Left' < Left]_vars

\* Whatever tables a file has, encode takes at most 2 * Len(bytes) + 2 steps:
\* each one brings a natural number down. That it takes them at all is the
\* fairness EncodeReturns assumes.
THEOREM EncodeAdvancesHolds ==
    Spec => Left = 2 * Len(bytes) + 2 /\ [](Left \in Nat) /\ EncodeAdvances
<1>1. TypeInv /\ [Next]_vars => [Left' < Left]_vars
  BY StepLeaves DEF Next, Returned
<1>2. Init => Left = 2 * Len(bytes) + 2
  <2> SUFFICES ASSUME Init PROVE Left = 2 * Len(bytes) + 2
    OBVIOUS
  <2>1. stage = "cut" /\ pos = 0 /\ Len(work) = 0
    BY DEF Init
  <2>2. PICK n \in Nat : n = Len(bytes)
    BY InitTypes DEF TypeInv
  <2>3. Behind(bytes, pos) = n
    BY <2>1, <2>2 DEF Behind
  <2> QED
    BY <2>1, <2>2, <2>3 DEF Left
<1> QED
  BY <1>1, <1>2, LeftNat, InitTypes, NextTypes, PTL DEF Spec, EncodeAdvances
=============================================================================
