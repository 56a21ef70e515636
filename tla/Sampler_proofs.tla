--------------------------- MODULE Sampler_proofs ---------------------------
(***************************************************************************)
(* Proofs about Sampler for every vocabulary and configuration and a reply *)
(* of any length: ids are ids, the penalty promotes nothing, top-k and the *)
(* nucleus keep the likeliest and no more than needed, no token without    *)
(* weight is drawn, and the random state is never 0.                       *)
(***************************************************************************)
EXTENDS Sampler, SequenceTheorems, WellFoundedInduction, TLAPS

-----------------------------------------------------------------------------
(* The random word *)

LEMMA LeastBit ==
    ASSUME NEW S \in SUBSET Nat, S # {}
    PROVE  \E b \in S : \A c \in S : b <= c
<1>1. PICK b \in S : \A c \in S : ~ (<<c, b>> \in OpToRel(<, Nat))
  BY NatLessThanWellFounded, WFMin
<1>2. \A c \in S : ~ (c < b)  BY <1>1 DEF OpToRel
<1>3. \A c \in S : b \in Nat /\ c \in Nat  OBVIOUS
<1> QED  BY <1>2, <1>3

LEMMA GreatestBit ==
    ASSUME NEW x \in SUBSET Bits, x # {}
    PROVE  \E b \in x : \A c \in x : c <= b
<1> DEFINE M == {Width - b : b \in x}
<1>1. \A b \in x : b \in Nat /\ Width - b \in Nat  BY SamplerAssumption DEF Bits
<1>2. M \in SUBSET Nat /\ M # {}  BY <1>1
<1>3. PICK m \in M : \A k \in M : m <= k
  <2> HIDE DEF M
  <2> QED  BY <1>2, LeastBit
<1>4. PICK b \in x : m = Width - b  BY <1>3
<1>5. ASSUME NEW c \in x  PROVE c <= b
  <2>1. Width - c \in M  OBVIOUS
  <2>2. m <= Width - c  BY <1>3, <2>1
  <2> QED  BY <1>1, <1>4, <2>2, SamplerAssumption
<1> QED  BY <1>5

\* x ^= x << n keeps the lowest bit.
LEMMA XorShlNotZero ==
    ASSUME NEW x \in SUBSET Bits, x # {}, NEW n \in Nat \ {0}
    PROVE  Xor(x, Shl(x, n)) \in SUBSET Bits /\ Xor(x, Shl(x, n)) # {}
<1>1. x \in SUBSET Nat  BY SamplerAssumption DEF Bits
<1>2. PICK b \in x : \A c \in x : b <= c  BY <1>1, LeastBit
<1>3. b \notin Shl(x, n)  BY <1>1, <1>2 DEF Shl
<1> QED  BY <1>2, <1>3 DEF Xor, Shl

\* x ^= x >> n keeps the highest bit.
LEMMA XorShrNotZero ==
    ASSUME NEW x \in SUBSET Bits, x # {}, NEW n \in Nat \ {0}
    PROVE  Xor(x, Shr(x, n)) \in SUBSET Bits /\ Xor(x, Shr(x, n)) # {}
<1>1. x \in SUBSET Nat  BY SamplerAssumption DEF Bits
<1>2. PICK b \in x : \A c \in x : c <= b  BY GreatestBit
<1>3. b \notin Shr(x, n)  BY <1>1, <1>2 DEF Shr
<1> QED  BY <1>2, <1>3 DEF Xor, Shr

LEMMA XorshiftNotZero ==
    ASSUME NEW x \in SUBSET Bits, x # {}
    PROVE  Xorshift(x) \in SUBSET Bits /\ Xorshift(x) # {}
<1> DEFINE x1 == Xor(x, Shl(x, 13))
           x2 == Xor(x1, Shr(x1, 7))
<1>1. x1 \in SUBSET Bits /\ x1 # {}  BY XorShlNotZero
<1>2. x2 \in SUBSET Bits /\ x2 # {}
  <2> HIDE DEF x1
  <2> QED  BY <1>1, XorShrNotZero
<1>3. Xor(x2, Shl(x2, 17)) \in SUBSET Bits /\ Xor(x2, Shl(x2, 17)) # {}
  <2> HIDE DEF x2
  <2> QED  BY <1>2, XorShlNotZero
<1> QED  BY <1>3 DEF Xorshift
-----------------------------------------------------------------------------
(* Induction and arithmetic *)

\* Induction over the naturals, with the set of those that have the property.
LEMMA SetInduction ==
    ASSUME NEW S, 0 \in S, \A n \in Nat : n \in S => n + 1 \in S
    PROVE  \A n \in Nat : n \in S
<1> DEFINE B == Nat \ S
<1> SUFFICES ASSUME B # {} PROVE FALSE
  OBVIOUS
<1>1. PICK b \in B : \A c \in B : b <= c
  BY LeastBit
<1>2. b \in Nat /\ b # 0 /\ b - 1 \in Nat /\ ~ (b <= b - 1) /\ (b - 1) + 1 = b
  OBVIOUS
<1>3. b - 1 \notin B
  BY <1>1, <1>2
<1> QED
  BY <1>2, <1>3

LEMMA MinIsLeast ==
    ASSUME NEW S \in SUBSET Nat, S # {}
    PROVE  Min(S) \in S /\ \A c \in S : Min(S) <= c
<1>1. \E b \in S : \A c \in S : b <= c
  BY LeastBit
<1> QED
  BY <1>1 DEF Min

LEMMA DivBounds ==
    ASSUME NEW a \in Int, NEW d \in Nat \ {0}
    PROVE  /\ a \div d \in Int
           /\ d * (a \div d) <= a
           /\ a < d * (a \div d) + d
  OBVIOUS

LEMMA DivMonotone ==
    ASSUME NEW a \in Int, NEW b \in Int, NEW d \in Nat \ {0}, a <= b
    PROVE  a \div d <= b \div d
<1>1. PICK q \in Int : q = a \div d
  OBVIOUS
<1>2. PICK r \in Int : r = b \div d
  OBVIOUS
<1>3. d * q <= a /\ b < d * r + d
  BY <1>1, <1>2, DivBounds
<1>4. ASSUME r < q PROVE FALSE
  <2>1. PICK e \in Nat : q = r + 1 + e
    <3>1. q - r - 1 \in Nat /\ q = r + 1 + (q - r - 1)
      BY <1>4
    <3> QED
      BY <3>1
  <2>2. d * q = d * r + d + d * e
    BY <2>1
  <2>3. d * e \in Nat /\ d * r \in Int
    OBVIOUS
  <2> QED
    BY <2>2, <2>3, <1>3
<1> QED
  BY <1>1, <1>2, <1>4

\* The penalty reduces every logit, whatever its sign.
LEMMA LessenedLess ==
    ASSUME NEW x \in Int
    PROVE  Lessened(x) \in Int /\ Lessened(x) <= x
<1>0. PICK p \in Nat : Penalty = p + 1
  <2>1. Penalty - 1 \in Nat /\ Penalty = (Penalty - 1) + 1
    BY SamplerAssumption
  <2> QED
    BY <2>1
<1>1. CASE x > 0
  <2>1. PICK q \in Int : q = x \div Penalty
    BY <1>0
  <2>2. Penalty * q <= x
    <3>1. Penalty \in Nat \ {0}
      BY SamplerAssumption
    <3> QED
      BY <3>1, <2>1, DivBounds
  <2>3. q <= x
    <3>1. CASE q <= 0
      BY <3>1, <1>1
    <3>2. CASE q > 0
      <4>1. Penalty * q = p * q + q /\ p * q \in Nat
        BY <3>2, <1>0
      <4> QED
        BY <4>1, <2>2
    <3> QED
      BY <3>1, <3>2
  <2> QED
    BY <2>1, <2>3, <1>1 DEF Lessened
<1>2. CASE ~(x > 0)
  <2>1. PICK y \in Nat : x = -y
    <3>1. -x \in Nat /\ x = -(-x)
      BY <1>2
    <3> QED
      BY <3>1
  <2>2. y * p \in Nat /\ x * Penalty = x - y * p
    BY <2>1, <1>0
  <2> QED
    BY <2>2, <1>2 DEF Lessened
<1> QED
  BY <1>1, <1>2
-----------------------------------------------------------------------------
(* The penalty and the temperature *)

\* The recursive function in Penalised, up to n.
Steps(l, ids, n, g) ==
    g = [m \in 0 .. n |-> IF m = 0 THEN l
                          ELSE [g[m - 1] EXCEPT ![ids[m] + 1] = Lessened(@)]]

LEMMA StepsExist ==
    ASSUME NEW l, NEW ids, NEW n \in Nat
    PROVE  \E g : Steps(l, ids, n, g)
<1> DEFINE S == {m \in Nat : \E g : Steps(l, ids, m, g)}
<1>1. 0 \in S
  <2> DEFINE g == [i \in 0 .. 0 |-> l]
  <2>1. Steps(l, ids, 0, g)
    BY DEF Steps
  <2> QED
    BY <2>1
<1>2. ASSUME NEW m \in Nat, m \in S PROVE m + 1 \in S
  <2>1. PICK g : Steps(l, ids, m, g)
    BY <1>2
  <2> DEFINE h == [i \in 0 .. (m + 1) |->
                      IF i = 0 THEN l ELSE [g[i - 1] EXCEPT ![ids[i] + 1] = Lessened(@)]]
  <2>2. \A i \in 0 .. m : h[i] = g[i]
    <3>1. \A i \in 0 .. m : i \in 0 .. (m + 1)
      OBVIOUS
    <3> QED
      BY <2>1, <3>1 DEF Steps
  <2>3. \A i \in 0 .. (m + 1) : i # 0 => i - 1 \in 0 .. m
    OBVIOUS
  <2>4. Steps(l, ids, m + 1, h)
    BY <2>2, <2>3 DEF Steps
  <2> QED
    BY <2>4
<1>3. \A m \in Nat : m \in S
  <2> HIDE DEF S
  <2> QED
    BY <1>1, <1>2, SetInduction
<1> QED
  BY <1>3

\* However often a token was used, its logit only falls; the others stay.
LEMMA PenalisedFalls ==
    ASSUME NEW l \in Seq(Int), NEW ids \in Seq(Ids(l))
    PROVE  /\ Penalised(l, ids) \in [1 .. Len(l) -> Int]
           /\ \A i \in 1 .. Len(l) : Penalised(l, ids)[i] <= l[i]
           /\ \A i \in 1 .. Len(l) : i - 1 \notin Range(ids) => Penalised(l, ids)[i] = l[i]
<1> DEFINE f == CHOOSE g : Steps(l, ids, Len(ids), g)
           N == Len(l)
           K == Len(ids)
<1>1. /\ N \in Nat /\ K \in Nat /\ l \in [1 .. N -> Int]
      /\ DOMAIN ids = 1 .. K /\ \A m \in 1 .. K : ids[m] \in 0 .. N - 1
  BY LenProperties, ElementOfSeq DEF Ids
<1>2. Steps(l, ids, K, f)
  BY <1>1, StepsExist
<1>3. Penalised(l, ids) = f[K]
  BY Zenon DEF Penalised, Steps
<1> HIDE DEF f, N, K
<1> DEFINE S == {m \in Nat : m <= K =>
                     /\ f[m] \in [1 .. N -> Int]
                     /\ \A i \in 1 .. N : f[m][i] <= l[i]
                     /\ \A i \in 1 .. N : i - 1 \notin Range(ids) => f[m][i] = l[i]}
<1>4. 0 \in S
  <2>1. f[0] = l
    BY <1>1, <1>2 DEF Steps
  <2>2. \A i \in 1 .. N : l[i] <= l[i]
    BY <1>1
  <2> QED
    BY <2>1, <2>2, <1>1
<1>5. ASSUME NEW m \in Nat, m \in S PROVE m + 1 \in S
  <2> SUFFICES ASSUME m + 1 <= K
               PROVE  /\ f[m + 1] \in [1 .. N -> Int]
                      /\ \A i \in 1 .. N : f[m + 1][i] <= l[i]
                      /\ \A i \in 1 .. N : i - 1 \notin Range(ids) => f[m + 1][i] = l[i]
    BY <1>5
  <2>1. m \in 0 .. K /\ m + 1 \in 0 .. K /\ m + 1 # 0 /\ (m + 1) - 1 = m /\ m + 1 \in 1 .. K
    BY <1>1
  <2>2. /\ f[m] \in [1 .. N -> Int]
        /\ \A i \in 1 .. N : f[m][i] <= l[i]
        /\ \A i \in 1 .. N : i - 1 \notin Range(ids) => f[m][i] = l[i]
    BY <2>1, <1>1, <1>5
  <2>3. PICK j \in 1 .. N : j = ids[m + 1] + 1 /\ j - 1 \in Range(ids)
    <3>1. ids[m + 1] \in 0 .. N - 1 /\ ids[m + 1] \in Range(ids)
      BY <2>1, <1>1 DEF Range
    <3>2. ids[m + 1] + 1 \in 1 .. N /\ (ids[m + 1] + 1) - 1 = ids[m + 1]
      BY <3>1, <1>1
    <3> QED
      BY <3>1, <3>2
  <2>4. f[m + 1] = [f[m] EXCEPT ![j] = Lessened(f[m][j])]
    BY <2>1, <2>3, <1>2 DEF Steps
  <2>5. f[m][j] \in Int /\ Lessened(f[m][j]) \in Int /\ Lessened(f[m][j]) <= f[m][j]
    BY <2>2, <2>3, LessenedLess
  <2>6. /\ f[m + 1][j] = Lessened(f[m][j])
        /\ \A i \in 1 .. N : i # j => f[m + 1][i] = f[m][i]
        /\ f[m + 1] \in [1 .. N -> Int]
    BY <2>2, <2>3, <2>4, <2>5
  <2>7. ASSUME NEW i \in 1 .. N PROVE f[m + 1][i] <= l[i]
    <3>1. f[m][i] <= l[i] /\ f[m][i] \in Int /\ l[i] \in Int
      BY <2>2, <1>1
    <3>2. CASE i = j
      <4>1. f[m + 1][i] = Lessened(f[m][i]) /\ Lessened(f[m][i]) \in Int
            /\ Lessened(f[m][i]) <= f[m][i]
        BY <3>2, <2>5, <2>6
      <4> QED
        BY <4>1, <3>1
    <3>3. CASE i # j
      BY <3>1, <3>3, <2>6
    <3> QED
      BY <3>2, <3>3
  <2>8. ASSUME NEW i \in 1 .. N, i - 1 \notin Range(ids) PROVE f[m + 1][i] = l[i]
    BY <2>2, <2>3, <2>6, <2>8
  <2> QED
    BY <2>6, <2>7, <2>8
<1>6. \A m \in Nat : m \in S
  <2> HIDE DEF S
  <2> QED
    BY <1>4, <1>5, SetInduction
<1>7. /\ f[K] \in [1 .. N -> Int]
      /\ \A i \in 1 .. N : f[K][i] <= l[i]
      /\ \A i \in 1 .. N : i - 1 \notin Range(ids) => f[K][i] = l[i]
  BY <1>1, <1>6
<1> QED
  BY <1>3, <1>7 DEF N

\* The temperature keeps the order.
LEMMA HeatedKeepsOrder ==
    ASSUME NEW n \in Nat, NEW p \in [1 .. n -> Int], NEW t \in Nat \ {0}
    PROVE  /\ Heated(p, t) \in Seq(Int) /\ Len(Heated(p, t)) = n
           /\ \A i, j \in 1 .. n : p[i] <= p[j] => Heated(p, t)[i] <= Heated(p, t)[j]
<1>1. \A i \in 1 .. n : (2 * p[i]) \div t \in Int
  <2> TAKE i \in 1 .. n
  <2>1. 2 * p[i] \in Int
    OBVIOUS
  <2> QED
    BY <2>1, DivBounds
<1>2. Heated(p, t) = [i \in 1 .. n |-> (2 * p[i]) \div t]
  BY DEF Heated
<1>3. Heated(p, t) \in [1 .. n -> Int]
  BY <1>1, <1>2
<1>4. Heated(p, t) \in Seq(Int) /\ Len(Heated(p, t)) = n
  <2> HIDE DEF Heated
  <2>1. Heated(p, t) \in Seq(Int)
    BY <1>3, SeqDef
  <2>2. DOMAIN Heated(p, t) = 1 .. n
    BY <1>3
  <2> QED
    BY <2>1, <2>2, LenProperties
<1>5. ASSUME NEW i \in 1 .. n, NEW j \in 1 .. n, p[i] <= p[j]
      PROVE  Heated(p, t)[i] <= Heated(p, t)[j]
  <2>1. 2 * p[i] \in Int /\ 2 * p[j] \in Int /\ 2 * p[i] <= 2 * p[j]
    BY <1>5
  <2>2. (2 * p[i]) \div t <= (2 * p[j]) \div t
    BY <2>1, DivMonotone
  <2> QED
    BY <2>2, <1>2
<1> QED
  BY <1>4, <1>5
-----------------------------------------------------------------------------
(* Top-k *)

\* Indices in descending order of their logits, as top-k leaves them and as
\* the nucleus cuts them.
Descending(l, o) ==
    /\ o \in Seq(Ids(l)) /\ o # <<>>
    /\ \A i, j \in 1 .. Len(o) : i <= j => l[o[j] + 1] <= l[o[i] + 1]

LEMMA IdsAreIndices ==
    ASSUME NEW l \in Seq(Int), NEW o \in Seq(Ids(l))
    PROVE  /\ Len(o) \in Nat /\ DOMAIN o = 1 .. Len(o)
           /\ \A i \in 1 .. Len(o) : o[i] \in Ids(l) /\ l[o[i] + 1] \in Int
<1>1. Len(o) \in Nat /\ DOMAIN o = 1 .. Len(o) /\ Len(l) \in Nat
      /\ \A i \in 1 .. Len(o) : o[i] \in Ids(l)
  BY LenProperties, ElementOfSeq
<1>2. \A id \in Ids(l) : id + 1 \in 1 .. Len(l)
  BY <1>1 DEF Ids
<1>3. \A id \in Ids(l) : l[id + 1] \in Int
  BY <1>2, ElementOfSeq
<1> QED
  BY <1>1, <1>3

\* Neighbours in order are all in order.
LEMMA SortedDown ==
    ASSUME NEW k \in Nat, NEW v \in [1 .. k -> Int], \A i \in 1 .. k - 1 : v[i] >= v[i + 1]
    PROVE  \A i, j \in 1 .. k : i <= j => v[j] <= v[i]
<1> DEFINE S == {d \in Nat : \A i \in 1 .. k : i + d <= k => v[i + d] <= v[i]}
<1>1. 0 \in S
  <2> SUFFICES ASSUME NEW i \in 1 .. k PROVE v[i + 0] <= v[i]
    OBVIOUS
  <2>1. i + 0 = i /\ v[i] \in Int
    OBVIOUS
  <2> QED
    BY <2>1
<1>2. ASSUME NEW d \in Nat, d \in S PROVE d + 1 \in S
  <2> SUFFICES ASSUME NEW i \in 1 .. k, i + (d + 1) <= k PROVE v[i + (d + 1)] <= v[i]
    BY <1>2
  <2>1. /\ i + d <= k /\ i + d \in 1 .. k - 1 /\ i + d \in 1 .. k /\ i + (d + 1) \in 1 .. k
        /\ (i + d) + 1 = i + (d + 1)
    OBVIOUS
  <2>2. v[i + d] <= v[i] /\ v[i + d] >= v[i + (d + 1)]
    BY <2>1, <1>2
  <2>3. v[i] \in Int /\ v[i + d] \in Int /\ v[i + (d + 1)] \in Int
    BY <2>1
  <2> QED
    BY <2>2, <2>3
<1>3. \A d \in Nat : d \in S
  <2> HIDE DEF S
  <2> QED
    BY <1>1, <1>2, SetInduction
<1>4. ASSUME NEW i \in 1 .. k, NEW j \in 1 .. k, i <= j PROVE v[j] <= v[i]
  <2>1. j - i \in Nat /\ i + (j - i) = j /\ i + (j - i) <= k
    BY <1>4
  <2>2. v[i + (j - i)] <= v[i]
    BY <2>1, <1>3
  <2> QED
    BY <2>1, <2>2
<1> QED
  BY <1>4

\* What both sorts leave: at most TopK indices, none twice, in descending
\* order, and nothing greater left out.
LEMMA OrderFacts ==
    ASSUME NEW l \in Seq(Int), l # <<>>, NEW o \in Orders(l)
    PROVE  /\ Descending(l, o) /\ IsInjective(o) /\ Len(o) <= TopK
           /\ Len(o) \in Nat \ {0} /\ DOMAIN o = 1 .. Len(o)
           /\ \A out \in Ids(l) \ Range(o), i \in 1 .. Len(o) : l[out + 1] <= l[o[i] + 1]
<1>1. Len(l) \in Nat \ {0} /\ TopK \in Nat \ {0}
  BY LenProperties, EmptySeq, SamplerAssumption
<1>2. PICK k \in Nat \ {0} : k = Min({TopK, Len(l)}) /\ k <= TopK
  <2>1. {TopK, Len(l)} \in SUBSET Nat /\ {TopK, Len(l)} # {}
    BY <1>1
  <2>2. Min({TopK, Len(l)}) \in {TopK, Len(l)} /\ Min({TopK, Len(l)}) <= TopK
    BY <2>1, MinIsLeast
  <2> QED
    BY <2>2, <1>1
<1>3. /\ o \in [1 .. k -> Ids(l)] /\ IsInjective(o)
      /\ \A i \in 1 .. k - 1 : l[o[i] + 1] >= l[o[i + 1] + 1]
      /\ \A id \in Ids(l) \ Range(o) : l[id + 1] <= l[o[k] + 1]
  BY <1>2 DEF Orders, Ids
<1>4. o \in Seq(Ids(l)) /\ Len(o) = k
  <2>1. o \in Seq(Ids(l))
    <3>1. k \in Nat /\ o \in [1 .. k -> Ids(l)]
      BY <1>2, <1>3
    <3> QED
      BY <3>1, SeqDef
  <2>2. DOMAIN o = 1 .. k
    BY <1>3
  <2> QED
    BY <2>1, <2>2, LenProperties
<1>5. o # <<>>
  BY <1>2, <1>4, EmptySeq
<1>6. \A i \in 1 .. k : o[i] \in Ids(l) /\ l[o[i] + 1] \in Int
  BY <1>4, IdsAreIndices
<1>7. \A i, j \in 1 .. k : i <= j => l[o[j] + 1] <= l[o[i] + 1]
  <2> DEFINE v == [i \in 1 .. k |-> l[o[i] + 1]]
  <2>1. v \in [1 .. k -> Int]
    BY <1>6
  <2>2. \A i \in 1 .. k - 1 : v[i] >= v[i + 1]
    <3>1. \A i \in 1 .. k - 1 : i \in 1 .. k /\ i + 1 \in 1 .. k
      OBVIOUS
    <3> QED
      BY <3>1, <1>3
  <2>3. \A i, j \in 1 .. k : i <= j => v[j] <= v[i]
    <3> HIDE DEF v
    <3> QED
      BY <2>1, <2>2, SortedDown
  <2> QED
    BY <2>3
<1>8. \A out \in Ids(l) \ Range(o), i \in 1 .. k : l[out + 1] <= l[o[i] + 1]
  <2> TAKE out \in Ids(l) \ Range(o), i \in 1 .. k
  <2>0. k \in 1 .. k /\ i <= k
    OBVIOUS
  <2>1. l[out + 1] <= l[o[k] + 1] /\ l[o[k] + 1] <= l[o[i] + 1]
    BY <2>0, <1>3, <1>7
  <2>2. l[o[k] + 1] \in Int /\ l[o[i] + 1] \in Int
    BY <2>0, <1>6
  <2>3. l[out + 1] \in Int
    <3>1. out + 1 \in 1 .. Len(l)
      BY <1>1 DEF Ids
    <3> QED
      BY <3>1, ElementOfSeq
  <2> QED
    BY <2>1, <2>2, <2>3
<1> QED
  BY <1>2, <1>3, <1>4, <1>5, <1>7, <1>8 DEF Descending
-----------------------------------------------------------------------------
(* Weights and their sums *)

Powers(n, g) == g = [i \in 0 .. n |-> IF i = 0 THEN 1 ELSE 2 * g[i - 1]]

LEMMA PowersExist ==
    ASSUME NEW n \in Nat
    PROVE  \E g : Powers(n, g)
<1> DEFINE S == {m \in Nat : \E g : Powers(m, g)}
<1>1. 0 \in S
  <2> DEFINE g == [i \in 0 .. 0 |-> 1]
  <2>1. Powers(0, g)
    BY DEF Powers
  <2> QED
    BY <2>1
<1>2. ASSUME NEW m \in Nat, m \in S PROVE m + 1 \in S
  <2>1. PICK g : Powers(m, g)
    BY <1>2
  <2> DEFINE h == [i \in 0 .. (m + 1) |-> IF i = 0 THEN 1 ELSE 2 * g[i - 1]]
  <2>2. \A i \in 0 .. m : h[i] = g[i]
    <3>1. \A i \in 0 .. m : i \in 0 .. (m + 1)
      OBVIOUS
    <3> QED
      BY <2>1, <3>1 DEF Powers
  <2>3. \A i \in 0 .. (m + 1) : i # 0 => i - 1 \in 0 .. m
    OBVIOUS
  <2>4. Powers(m + 1, h)
    BY <2>2, <2>3 DEF Powers
  <2> QED
    BY <2>4
<1>3. \A m \in Nat : m \in S
  <2> HIDE DEF S
  <2> QED
    BY <1>1, <1>2, SetInduction
<1> QED
  BY <1>3

LEMMA PowerPositive == \A n \in 0 .. Underflow : Power[n] \in Nat /\ Power[n] > 0
<1>1. Underflow \in Nat
  BY SamplerAssumption
<1>2. Powers(Underflow, Power)
  <2>1. \E g : Powers(Underflow, g)
    BY <1>1, PowersExist
  <2> QED
    BY <2>1, Zenon DEF Power, Powers
<1> DEFINE S == {n \in Nat : n <= Underflow => Power[n] \in Nat /\ Power[n] > 0}
<1>3. 0 \in S
  BY <1>1, <1>2 DEF Powers
<1>4. ASSUME NEW n \in Nat, n \in S PROVE n + 1 \in S
  <2> SUFFICES ASSUME n + 1 <= Underflow PROVE Power[n + 1] \in Nat /\ Power[n + 1] > 0
    BY <1>4
  <2>1. n + 1 \in 0 .. Underflow /\ n + 1 # 0 /\ (n + 1) - 1 = n /\ n <= Underflow
    BY <1>1
  <2>2. Power[n + 1] = 2 * Power[n]
    BY <2>1, <1>2 DEF Powers
  <2>3. Power[n] \in Nat /\ Power[n] > 0
    BY <2>1, <1>4
  <2> QED
    BY <2>2, <2>3
<1>5. \A n \in Nat : n \in S
  <2> HIDE DEF S
  <2> QED
    BY <1>3, <1>4, SetInduction
<1> QED
  BY <1>1, <1>5

\* A weight is never negative, and that of the first index never zero.
LEMMA WeightNat ==
    ASSUME NEW l \in Seq(Int), NEW o, Descending(l, o)
    PROVE  /\ Len(o) \in Nat \ {0} /\ DOMAIN o = 1 .. Len(o)
           /\ \A i \in 1 .. Len(o) : Weight(l, o, i) \in Nat
           /\ Weight(l, o, 1) > 0
<1>1. /\ o \in Seq(Ids(l)) /\ o # <<>>
      /\ \A i, j \in 1 .. Len(o) : i <= j => l[o[j] + 1] <= l[o[i] + 1]
  BY DEF Descending
<1>2. /\ Len(o) \in Nat \ {0} /\ DOMAIN o = 1 .. Len(o)
      /\ \A i \in 1 .. Len(o) : l[o[i] + 1] \in Int
  BY <1>1, IdsAreIndices, EmptySeq
<1>3. 1 \in 1 .. Len(o) /\ l[o[1] + 1] \in Int /\ Underflow \in Nat \ {0}
  BY <1>2, SamplerAssumption
<1>4. ASSUME NEW i \in 1 .. Len(o) PROVE Weight(l, o, i) \in Nat
  <2>1. PICK d \in Nat : d = l[o[1] + 1] - l[o[i] + 1]
    <3>1. l[o[i] + 1] \in Int /\ l[o[i] + 1] <= l[o[1] + 1]
      BY <1>1, <1>2, <1>3
    <3>2. l[o[1] + 1] - l[o[i] + 1] \in Nat
      BY <3>1, <1>3
    <3> QED
      BY <3>2
  <2>2. CASE d < Underflow
    <3>1. Underflow - 1 - d \in 0 .. Underflow
      BY <2>2, <1>3
    <3>2. Power[Underflow - 1 - d] \in Nat
      BY <3>1, PowerPositive
    <3> QED
      BY <3>2, <2>1, <2>2 DEF Weight
  <2>3. CASE ~(d < Underflow)
    BY <2>1, <2>3 DEF Weight
  <2> QED
    BY <2>2, <2>3
<1>5. Weight(l, o, 1) > 0
  <2>1. l[o[1] + 1] - l[o[1] + 1] = 0 /\ 0 < Underflow /\ Underflow - 1 - 0 \in 0 .. Underflow
    BY <1>3
  <2>2. Power[Underflow - 1 - 0] > 0
    BY <2>1, PowerPositive
  <2> QED
    BY <2>1, <2>2 DEF Weight
<1> QED
  BY <1>2, <1>4, <1>5

Sums(l, o, n, g) ==
    g = [i \in 0 .. n |-> IF i = 0 THEN 0 ELSE g[i - 1] + Weight(l, o, i)]

LEMMA SumsExist ==
    ASSUME NEW l, NEW o, NEW n \in Nat
    PROVE  \E g : Sums(l, o, n, g)
<1> DEFINE S == {m \in Nat : \E g : Sums(l, o, m, g)}
<1>1. 0 \in S
  <2> DEFINE g == [i \in 0 .. 0 |-> 0]
  <2>1. Sums(l, o, 0, g)
    BY DEF Sums
  <2> QED
    BY <2>1
<1>2. ASSUME NEW m \in Nat, m \in S PROVE m + 1 \in S
  <2>1. PICK g : Sums(l, o, m, g)
    BY <1>2
  <2> DEFINE h == [i \in 0 .. (m + 1) |-> IF i = 0 THEN 0 ELSE g[i - 1] + Weight(l, o, i)]
  <2>2. \A i \in 0 .. m : h[i] = g[i]
    <3>1. \A i \in 0 .. m : i \in 0 .. (m + 1)
      OBVIOUS
    <3> QED
      BY <2>1, <3>1 DEF Sums
  <2>3. \A i \in 0 .. (m + 1) : i # 0 => i - 1 \in 0 .. m
    OBVIOUS
  <2>4. Sums(l, o, m + 1, h)
    BY <2>2, <2>3 DEF Sums
  <2> QED
    BY <2>4
<1>3. \A m \in Nat : m \in S
  <2> HIDE DEF S
  <2> QED
    BY <1>1, <1>2, SetInduction
<1> QED
  BY <1>3

LEMMA MassSteps ==
    ASSUME NEW l \in Seq(Int), NEW o, Descending(l, o)
    PROVE  /\ \A n \in 0 .. Len(o) : Mass(l, o)[n] \in Nat
           /\ Mass(l, o)[0] = 0
           /\ \A n \in 1 .. Len(o) : Mass(l, o)[n] = Mass(l, o)[n - 1] + Weight(l, o, n)
<1>1. Len(o) \in Nat /\ \A i \in 1 .. Len(o) : Weight(l, o, i) \in Nat
  BY WeightNat
<1>2. PICK g : Mass(l, o) = g /\ Sums(l, o, Len(o), g)
  <2> DEFINE f == CHOOSE g : Sums(l, o, Len(o), g)
  <2>1. Sums(l, o, Len(o), f)
    BY <1>1, SumsExist
  <2>2. Mass(l, o) = f
    BY Zenon DEF Mass, Sums
  <2> QED
    BY <2>1, <2>2
<1>3. g[0] = 0
  BY <1>1, <1>2 DEF Sums
<1>4. \A n \in 1 .. Len(o) : g[n] = g[n - 1] + Weight(l, o, n)
  <2>1. \A n \in 1 .. Len(o) : n \in 0 .. Len(o) /\ n # 0
    BY <1>1
  <2> QED
    BY <2>1, <1>2 DEF Sums
<1> DEFINE S == {n \in Nat : n <= Len(o) => g[n] \in Nat}
<1>5. 0 \in S
  BY <1>3
<1>6. ASSUME NEW n \in Nat, n \in S PROVE n + 1 \in S
  <2> SUFFICES ASSUME n + 1 <= Len(o) PROVE g[n + 1] \in Nat
    BY <1>6
  <2>1. n + 1 \in 1 .. Len(o) /\ (n + 1) - 1 = n /\ n <= Len(o)
    BY <1>1
  <2>2. g[n + 1] = g[n] + Weight(l, o, n + 1) /\ g[n] \in Nat /\ Weight(l, o, n + 1) \in Nat
    BY <2>1, <1>1, <1>4, <1>6
  <2> QED
    BY <2>2
<1>7. \A n \in Nat : n \in S
  <2> HIDE DEF S
  <2> QED
    BY <1>5, <1>6, SetInduction
<1>8. \A n \in 0 .. Len(o) : g[n] \in Nat
  BY <1>1, <1>7
<1> QED
  BY <1>2, <1>3, <1>4, <1>8
-----------------------------------------------------------------------------
(* The nucleus and the draw *)

\* The first n of the order hold top_p at most, or at least.
Within(l, o, t, n)  == 100 * Mass(l, o)[n] <= t * Mass(l, o)[Len(o)]
Reaches(l, o, t, n) == 100 * Mass(l, o)[n] >= t * Mass(l, o)[Len(o)]

\* The cut is the first place where top_p is reached, if it is.
LEMMA CutoffFacts ==
    ASSUME NEW l \in Seq(Int), NEW o, Descending(l, o), NEW t \in Int, NEW slack \in {0, 1}
    PROVE  \E c \in 1 .. Len(o) :
               /\ Cutoff(l, o, t, slack) = c
               /\ c > 1 => Within(l, o, t, c - 1)
               /\ c < Len(o) => Reaches(l, o, t, c)
<1>1. PICK M : /\ M = Mass(l, o)
               /\ \A n \in 0 .. Len(o) : M[n] \in Nat
  BY MassSteps
<1>2. Len(o) \in Nat \ {0} /\ DOMAIN o = 1 .. Len(o)
  BY WeightNat
<1>3. PICK T \in Int : T = t * M[Len(o)]
  <2>1. Len(o) \in 0 .. Len(o)
    BY <1>2
  <2>2. M[Len(o)] \in Nat
    BY <2>1, <1>1
  <2>3. t * M[Len(o)] \in Int
    BY <2>2
  <2> QED
    BY <2>3
<1> DEFINE reached == {n \in 1 .. Len(o) : 100 * M[n] - slack >= T}
<1>4. Cutoff(l, o, t, slack) = IF reached = {} THEN Len(o) ELSE Min(reached)
  BY <1>1, <1>2, <1>3 DEF Cutoff
<1> SUFFICES \E c \in 1 .. Len(o) :
                 /\ Cutoff(l, o, t, slack) = c
                 /\ c > 1 => 100 * M[c - 1] <= T
                 /\ c < Len(o) => 100 * M[c] >= T
  BY <1>1, <1>3 DEF Within, Reaches
<1>5. ASSUME NEW n \in 1 .. Len(o), n \notin reached PROVE 100 * M[n] <= T
  <2>1. n \in 0 .. Len(o)
    BY <1>2
  <2>2. M[n] \in Nat
    BY <2>1, <1>1
  <2>3. ~(100 * M[n] - slack >= T)
    BY <1>5
  <2> QED
    BY <2>2, <2>3
<1>6. CASE reached = {}
  <2>1. Len(o) \in 1 .. Len(o) /\ Cutoff(l, o, t, slack) = Len(o)
    BY <1>2, <1>4, <1>6
  <2>2. Len(o) > 1 => 100 * M[Len(o) - 1] <= T
    <3> SUFFICES ASSUME Len(o) > 1 PROVE 100 * M[Len(o) - 1] <= T
      OBVIOUS
    <3>1. Len(o) - 1 \in 1 .. Len(o)
      BY <1>2
    <3> QED
      BY <3>1, <1>5, <1>6
  <2>3. ~(Len(o) < Len(o))
    BY <1>2
  <2> QED
    BY <2>1, <2>2, <2>3
<1>7. CASE reached # {}
  <2>1. reached \in SUBSET Nat
    OBVIOUS
  <2>2. PICK c \in reached : c = Min(reached) /\ \A n \in reached : c <= n
    <3> HIDE DEF reached
    <3> QED
      BY <2>1, <1>7, MinIsLeast
  <2>3. c \in 1 .. Len(o) /\ Cutoff(l, o, t, slack) = c
    BY <2>2, <1>4, <1>7
  <2>4. c > 1 => 100 * M[c - 1] <= T
    <3> SUFFICES ASSUME c > 1 PROVE 100 * M[c - 1] <= T
      OBVIOUS
    <3>1. c - 1 \in 1 .. Len(o) /\ ~(c <= c - 1)
      BY <2>3, <1>2
    <3>2. c - 1 \notin reached
      BY <3>1, <2>2
    <3> QED
      BY <3>1, <3>2, <1>5
  <2>5. 100 * M[c] >= T
    <3>1. c \in 0 .. Len(o) /\ 100 * M[c] - slack >= T
      BY <2>2, <2>3, <1>2
    <3>2. M[c] \in Nat
      BY <3>1, <1>1
    <3> QED
      BY <3>1, <3>2
  <2> QED
    BY <2>3, <2>4, <2>5
<1> QED
  BY <1>6, <1>7

\* What is drawn made the cumulated sum grow, or is the first of all.
LEMMA DrawnHasWeight ==
    ASSUME NEW l \in Seq(Int), NEW o, Descending(l, o),
           NEW threshold \in Int, NEW slack \in {0, 1}
    PROVE  \E i \in 1 .. Len(o) : o[i] = Drawn(l, o, threshold, slack) /\ Weight(l, o, i) > 0
<1>1. PICK M : /\ M = Mass(l, o)
               /\ \A n \in 0 .. Len(o) : M[n] \in Nat
               /\ \A n \in 1 .. Len(o) : M[n] = M[n - 1] + Weight(l, o, n)
  BY MassSteps
<1>2. /\ Len(o) \in Nat \ {0} /\ DOMAIN o = 1 .. Len(o) /\ Weight(l, o, 1) > 0
      /\ \A i \in 1 .. Len(o) : Weight(l, o, i) \in Nat
  BY WeightNat
<1>3. 1 \in 1 .. Len(o)
  BY <1>2
<1>4. PICK T \in Int : T = threshold * M[Len(o)]
  <2>1. Len(o) \in 0 .. Len(o)
    BY <1>2
  <2>2. M[Len(o)] \in Nat
    BY <2>1, <1>1
  <2>3. threshold * M[Len(o)] \in Int
    BY <2>2
  <2> QED
    BY <2>3
<1> DEFINE reached == {n \in 1 .. Len(o) : T <= Grid * M[n] - slack}
<1>5. Drawn(l, o, threshold, slack) = IF reached = {} THEN o[1] ELSE o[Min(reached)]
  BY <1>1, <1>2, <1>4 DEF Drawn
<1>6. CASE reached = {}
  BY <1>2, <1>3, <1>5, <1>6
<1>7. CASE reached # {}
  <2>1. reached \in SUBSET Nat
    OBVIOUS
  <2>2. PICK c \in reached : c = Min(reached) /\ \A n \in reached : c <= n
    <3> HIDE DEF reached
    <3> QED
      BY <2>1, <1>7, MinIsLeast
  <2>3. c \in 1 .. Len(o) /\ T <= Grid * M[c] - slack /\ Drawn(l, o, threshold, slack) = o[c]
    BY <2>2, <1>5, <1>7
  <2>4. CASE c = 1
    BY <2>3, <2>4, <1>2
  <2>5. CASE c # 1
    <3>1. c - 1 \in 1 .. Len(o) /\ ~(c <= c - 1) /\ c \in 0 .. Len(o) /\ c - 1 \in 0 .. Len(o)
      BY <2>3, <2>5, <1>2
    <3>2. ~(T <= Grid * M[c - 1] - slack)
      BY <3>1, <2>2
    <3>3. M[c] \in Nat /\ M[c - 1] \in Nat
      BY <3>1, <1>1
    <3>4. M[c] > M[c - 1]
      BY <3>2, <3>3, <2>3 DEF Grid
    <3>5. M[c] = M[c - 1] + Weight(l, o, c) /\ Weight(l, o, c) \in Nat
      BY <2>3, <1>1, <1>2
    <3>6. Weight(l, o, c) > 0
      BY <3>3, <3>4, <3>5
    <3> QED
      BY <3>6, <2>3
  <2> QED
    BY <2>4, <2>5
<1> QED
  BY <1>6, <1>7

\* A cut-off order is in order.
LEMMA PrefixDescends ==
    ASSUME NEW l \in Seq(Int), NEW o, Descending(l, o), NEW c \in 1 .. Len(o)
    PROVE  /\ Descending(l, SubSeq(o, 1, c)) /\ Len(SubSeq(o, 1, c)) = c
           /\ \A i \in 1 .. c : SubSeq(o, 1, c)[i] = o[i]
           /\ IsPrefix(SubSeq(o, 1, c), o)
<1>1. /\ o \in Seq(Ids(l))
      /\ \A i, j \in 1 .. Len(o) : i <= j => l[o[j] + 1] <= l[o[i] + 1]
  BY DEF Descending
<1>2. Len(o) \in Nat \ {0} /\ c \in Nat \ {0} /\ c <= Len(o)
  BY WeightNat
<1> DEFINE s == SubSeq(o, 1, c)
<1>3. s \in Seq(Ids(l)) /\ Len(s) = c /\ \A i \in 1 .. c : s[i] = o[i]
  <2>1. \A i \in 1 .. c : i \in 1 .. Len(o)
    BY <1>2
  <2>2. s \in Seq(Ids(l))
    BY <2>1, <1>1, SubSeqProperties, ElementOfSeq
  <2>3. Len(s) = c
    BY <2>1, <1>1, <1>2, SubSeqProperties
  <2>4. \A i \in 1 .. c : s[i] = o[i]
    BY <2>1, <1>1, <1>2, SubSeqProperties
  <2> QED
    BY <2>2, <2>3, <2>4
<1>4. IsPrefix(s, o)
  <2>1. SubSeq(s, 1, c) = s
    BY <1>2, <1>3, SubSeqFull
  <2> QED
    BY <2>1, <1>2, <1>3 DEF IsPrefix
<1> HIDE DEF s
<1>5. s # <<>>
  BY <1>2, <1>3, EmptySeq
<1>6. \A i, j \in 1 .. c : i <= j => l[s[j] + 1] <= l[s[i] + 1]
  <2>1. \A i \in 1 .. c : i \in 1 .. Len(o)
    BY <1>2
  <2> QED
    BY <2>1, <1>1, <1>3
<1>7. Descending(l, s)
  BY <1>3, <1>5, <1>6 DEF Descending
<1> QED
  BY <1>3, <1>4, <1>7 DEF s
-----------------------------------------------------------------------------
(* One call of sample_token.                                               *)

\* The penalty and the temperature keep a used token behind a fresh one.
LEMMA CallPenalises ==
    ASSUME NEW l \in Seq(Int), NEW ids \in Seq(Ids(l)), NEW t \in Nat \ {0}
    PROVE  /\ Heated(Penalised(l, ids), t) \in Seq(Int)
           /\ Len(Heated(Penalised(l, ids), t)) = Len(l)
           /\ \A used \in Range(ids), fresh \in Ids(l) \ Range(ids) :
                  l[used + 1] <= l[fresh + 1] =>
                      Heated(Penalised(l, ids), t)[used + 1] <= Heated(Penalised(l, ids), t)[fresh + 1]
<1>1. PICK n \in Nat : n = Len(l)
  OBVIOUS
<1>2. PICK p \in [1 .. n -> Int] :
          /\ p = Penalised(l, ids)
          /\ \A i \in 1 .. n : p[i] <= l[i]
          /\ \A i \in 1 .. n : i - 1 \notin Range(ids) => p[i] = l[i]
  BY <1>1, PenalisedFalls
<1>3. PICK h : /\ h = Heated(p, t)
               /\ h \in Seq(Int) /\ Len(h) = n
               /\ \A i, j \in 1 .. n : p[i] <= p[j] => h[i] <= h[j]
  <2>1. /\ Heated(p, t) \in Seq(Int) /\ Len(Heated(p, t)) = n
        /\ \A i, j \in 1 .. n : p[i] <= p[j] => Heated(p, t)[i] <= Heated(p, t)[j]
    BY HeatedKeepsOrder
  <2> QED
    BY <2>1, Zenon
<1>4. ASSUME NEW used \in Range(ids), NEW fresh \in Ids(l) \ Range(ids),
             l[used + 1] <= l[fresh + 1]
      PROVE  h[used + 1] <= h[fresh + 1]
  <2>1. used \in Ids(l)
    BY DEF Range
  <2>2. /\ used + 1 \in 1 .. n /\ fresh + 1 \in 1 .. n
        /\ (fresh + 1) - 1 = fresh
    BY <2>1, <1>1 DEF Ids
  <2>3. p[used + 1] <= l[used + 1] /\ p[fresh + 1] = l[fresh + 1]
    BY <2>2, <1>2
  <2>4. p[used + 1] \in Int /\ p[fresh + 1] \in Int /\ l[used + 1] \in Int
    BY <2>2, <1>1
  <2>5. p[used + 1] <= p[fresh + 1]
    BY <2>3, <2>4, <1>4
  <2> QED
    BY <2>2, <2>5, <1>3
<1> QED
  BY <1>1, <1>2, <1>3, <1>4

\* The nucleus: what is kept, and why no shorter cut would do.
LEMMA CallKeeps ==
    ASSUME NEW h \in Seq(Int), h # <<>>, NEW o \in Orders(h), NEW t \in Int,
           NEW slack \in {0, 1}, NEW k, k = SubSeq(o, 1, Cutoff(h, o, t, slack))
    PROVE  /\ Descending(h, k) /\ IsInjective(k) /\ Len(k) <= TopK
           /\ \A out \in Ids(h) \ Range(k), in \in Range(k) : h[out + 1] <= h[in + 1]
           /\ IsPrefix(k, o)
           /\ Len(k) > 1 => Within(h, o, t, Len(k) - 1)
           /\ Len(k) < Len(o) => Reaches(h, o, t, Len(k))
<1>1. /\ Descending(h, o) /\ IsInjective(o) /\ Len(o) <= TopK
      /\ Len(o) \in Nat \ {0} /\ DOMAIN o = 1 .. Len(o)
      /\ \A out \in Ids(h) \ Range(o), i \in 1 .. Len(o) : h[out + 1] <= h[o[i] + 1]
  BY OrderFacts
<1>2. PICK c \in 1 .. Len(o) :
          /\ Cutoff(h, o, t, slack) = c
          /\ c > 1 => Within(h, o, t, c - 1)
          /\ c < Len(o) => Reaches(h, o, t, c)
  <2>1. Descending(h, o)
    BY <1>1
  <2> QED
    BY <2>1, CutoffFacts
<1>3. k = SubSeq(o, 1, c)
  BY <1>2
<1>4. /\ Descending(h, k) /\ Len(k) = c /\ \A i \in 1 .. c : k[i] = o[i]
      /\ IsPrefix(k, o)
  <2>1. Descending(h, o)
    BY <1>1
  <2> QED
    BY <2>1, <1>3, PrefixDescends
<1>5. DOMAIN k = 1 .. c
  BY <1>4, WeightNat
<1>6. c \in Nat \ {0} /\ c <= Len(o) /\ \A i \in 1 .. c : i \in 1 .. Len(o)
  BY <1>1
<1>7. IsInjective(k)
  <2> SUFFICES ASSUME NEW a \in 1 .. c, NEW b \in 1 .. c, k[a] = k[b] PROVE a = b
    BY <1>5 DEF IsInjective
  <2>1. o[a] = o[b] /\ a \in DOMAIN o /\ b \in DOMAIN o
    BY <1>1, <1>4, <1>6
  <2> QED
    BY <2>1, <1>1 DEF IsInjective
<1>8. Len(k) <= TopK
  <2>1. TopK \in Nat
    BY SamplerAssumption
  <2>2. c <= TopK
    BY <2>1, <1>1, <1>6
  <2> QED
    BY <2>2, <1>4
<1>9. ASSUME NEW out \in Ids(h) \ Range(k), NEW in \in Range(k)
      PROVE  h[out + 1] <= h[in + 1]
  <2>1. PICK i \in 1 .. c : in = o[i]
    BY <1>4, <1>5 DEF Range
  <2>2. CASE out \notin Range(o)
    BY <2>1, <2>2, <1>1, <1>6
  <2>3. CASE out \in Range(o)
    <3>1. PICK j \in 1 .. Len(o) : out = o[j]
      BY <2>3, <1>1 DEF Range
    <3>2. j \notin 1 .. c
      BY <3>1, <1>4, <1>5 DEF Range
    <3>3. i <= j /\ i \in 1 .. Len(o)
      BY <3>2, <1>6
    <3> QED
      BY <2>1, <3>1, <3>3, <1>1 DEF Descending
  <2> QED
    BY <2>2, <2>3
<1> QED
  BY <1>2, <1>4, <1>7, <1>8, <1>9

\* The penalty's window stays a window.
LEMMA RememberKeepsWindow ==
    ASSUME NEW S, NEW ids \in Seq(S), Len(ids) <= Window, NEW id \in S
    PROVE  Remember(ids, id) \in Seq(S) /\ Len(Remember(ids, id)) <= Window
<1>1. Window \in Nat \ {0} /\ Len(ids) \in Nat
  BY SamplerAssumption
<1>2. CASE Len(ids) < Window
  BY <1>1, <1>2 DEF Remember
<1>3. CASE ~ (Len(ids) < Window)
  <2>1. ids # <<>>
    BY <1>1, <1>3
  <2>2. Tail(ids) \in Seq(S) /\ Len(Tail(ids)) = Len(ids) - 1
    BY <2>1
  <2>3. Remember(ids, id) = Append(Tail(ids), id)
    BY <1>3 DEF Remember
  <2> QED
    BY <2>2, <2>3, <1>1
<1> QED
  BY <1>2, <1>3
-----------------------------------------------------------------------------
\* What holds between the calls of a reply. The recent tokens are ids of the
\* vocabulary, which is why apply_repeat_penalty may index with them; the
\* four properties hold of the last call and are established by each.
SamplerInv ==
    /\ TypeOK
    /\ logits \in Seq(Int)
    /\ recent \in Seq(Ids(given))
    /\ calls = 0 => recent = <<>>
    /\ PenaltyNeverPromotes /\ KeptAreLikeliest /\ NucleusIsSmallest /\ NeverDrawsZero

LEMMA InitEstablishesInv == Init => SamplerInv
<1> SUFFICES ASSUME Init PROVE SamplerInv
  OBVIOUS
<1>1. TypeOK
  BY SamplerAssumption DEF Init, TypeOK, Bits, Ids
<1>2. ~ Sampled
  BY DEF Init, Sampled
<1>3. logits \in Seq(Int) /\ recent \in Seq(Ids(given)) /\ recent = <<>>
  BY DEF Init
<1> QED
  BY <1>1, <1>2, <1>3 DEF SamplerInv, PenaltyNeverPromotes, KeptAreLikeliest,
     NucleusIsSmallest, NeverDrawsZero

\* What the loop has kept are ids of the logits it gets next.
LEMMA RecentAreIds ==
    ASSUME SamplerInv, NEW l \in Logits, Returned(l)
    PROVE  l \in Seq(Int) /\ Len(l) \in Nat /\ recent \in Seq(Ids(l))
<1>1. l \in Seq(Int)
  BY SamplerAssumption
<1>2. CASE calls = 0
  BY <1>1, <1>2 DEF SamplerInv
<1>3. CASE Len(l) = Len(given)
  BY <1>1, <1>3 DEF SamplerInv, Ids
<1> QED
  BY <1>2, <1>3 DEF Returned

LEMMA RejectsKeepsInv ==
    ASSUME SamplerInv, NEW l \in Logits, Rejects(l)
    PROVE  SamplerInv'
<1>1. l \in Seq(Int) /\ Len(l) \in Nat /\ recent \in Seq(Ids(l))
  BY RecentAreIds DEF Rejects
<1>2. /\ given' = l /\ logits' = l /\ kept' = <<>> /\ drawn' = NoToken
      /\ temp' = temp /\ topP' = topP /\ rng' = rng /\ recent' = recent
      /\ calls' = calls + 1 /\ calls < MaxCalls
  BY DEF Rejects
<1>3. error' \in Errors
  BY DEF Rejects, Invalid, Errors
<1>4. calls' \in 0 .. MaxCalls /\ calls' # 0
  BY <1>2, SamplerAssumption DEF SamplerInv, TypeOK
<1>5. TypeOK'
  BY <1>1, <1>2, <1>3, <1>4 DEF SamplerInv, TypeOK
<1>6. ~ Sampled'
  BY <1>2 DEF Sampled
<1>7. logits' \in Seq(Int) /\ recent' \in Seq(Ids(given'))
  BY <1>1, <1>2
<1> QED
  BY <1>4, <1>5, <1>6, <1>7 DEF SamplerInv, PenaltyNeverPromotes, KeptAreLikeliest,
     NucleusIsSmallest, NeverDrawsZero

LEMMA SampleTokenKeepsInv ==
    ASSUME SamplerInv, NEW l \in Logits, SampleToken(l)
    PROVE  SamplerInv'
<1>1. l \in Seq(Int) /\ Len(l) \in Nat /\ l # <<>> /\ recent \in Seq(Ids(l))
  BY RecentAreIds DEF SampleToken
<1>2. /\ given' = l /\ looked' = recent /\ logits' = Heated(Penalised(l, recent), temp)
      /\ rng' = Xorshift(rng) /\ recent' = Remember(recent, drawn')
      /\ temp' = temp /\ topP' = topP /\ error' = error
      /\ calls' = calls + 1 /\ calls < MaxCalls
  BY DEF SampleToken
<1>3. temp \in Nat \ {0} /\ topP \in Int
  <2>1. temp \in Int /\ topP \in Int
    BY SamplerAssumption DEF SamplerInv, TypeOK
  <2>2. ~ (temp <= 0)
    BY DEF SampleToken, Invalid
  <2> QED
    BY <2>1, <2>2
<1>4. PICK h \in Seq(Int) :
          /\ logits' = h /\ Len(h) = Len(l)
          /\ \A used \in Range(recent), fresh \in Ids(l) \ Range(recent) :
                 l[used + 1] <= l[fresh + 1] => h[used + 1] <= h[fresh + 1]
  BY <1>1, <1>2, <1>3, CallPenalises
<1>5. h # <<>> /\ Ids(h) = Ids(l)
  BY <1>1, <1>4 DEF Ids
<1>6a. PICK k : kept' = k
  OBVIOUS
<1>6. PICK o \in Orders(h), slack \in {0, 1} : k = SubSeq(o, 1, Cutoff(h, o, topP, slack))
  <2>1. PICK o \in Orders(logits'), slack \in {0, 1} :
            kept' = SubSeq(o, 1, Cutoff(logits', o, topP, slack))
    BY DEF SampleToken
  <2>2. kept' = SubSeq(o, 1, Cutoff(h, o, topP, slack)) /\ o \in Orders(h)
    BY <2>1, <1>4
  <2> QED
    BY <2>2, <1>6a
<1>7. /\ Descending(h, k) /\ IsInjective(k) /\ Len(k) <= TopK
      /\ \A out \in Ids(h) \ Range(k), in \in Range(k) : h[out + 1] <= h[in + 1]
      /\ IsPrefix(k, o)
      /\ Len(k) > 1 => Within(h, o, topP, Len(k) - 1)
      /\ Len(k) < Len(o) => Reaches(h, o, topP, Len(k))
  BY <1>3, <1>5, <1>6, CallKeeps
<1>8. k \in Seq(Ids(h)) /\ k # <<>> /\ DOMAIN k = 1 .. Len(k)
  BY <1>7, WeightNat DEF Descending
<1>9. PICK threshold \in Int, slk \in {0, 1} : drawn' = Drawn(h, k, threshold, slk)
  <2>1. PICK threshold \in Thresholds(rng'), slk \in {0, 1} : drawn' = Drawn(logits', kept', threshold, slk)
    BY DEF SampleToken
  <2>2. Leading(rng') \in Int
    BY DEF Leading
  <2>3. threshold \in Int
    BY <2>1, <2>2 DEF Thresholds
  <2> QED
    BY <2>1, <2>3, <1>4, <1>6a
<1>10. PICK i \in 1 .. Len(k) : k[i] = drawn' /\ Weight(h, k, i) > 0
  BY <1>7, <1>9, DrawnHasWeight
<1>11. drawn' \in Ids(l)
  BY <1>5, <1>8, <1>10, ElementOfSeq
<1>12. recent' \in Seq(Ids(l)) /\ Len(recent') <= Window
  BY <1>1, <1>2, <1>11, RememberKeepsWindow DEF SamplerInv, TypeOK
<1>13. calls' \in 0 .. MaxCalls /\ calls' # 0
  BY <1>2, SamplerAssumption DEF SamplerInv, TypeOK
<1>14. rng' \in SUBSET Bits
  BY <1>2 DEF SamplerInv, TypeOK, Xorshift, Xor, Shl, Shr
<1>15. TypeOK'
  BY <1>2, <1>4, <1>5, <1>6a, <1>8, <1>11, <1>12, <1>13, <1>14 DEF SamplerInv, TypeOK
<1>16. PenaltyNeverPromotes'
  BY <1>2, <1>4 DEF PenaltyNeverPromotes
<1>17. KeptAreLikeliest'
  BY <1>2, <1>4, <1>5, <1>6a, <1>7, <1>8 DEF KeptAreLikeliest
<1>18. NucleusIsSmallest'
  BY <1>2, <1>4, <1>6a, <1>6, <1>7 DEF NucleusIsSmallest, Within, Reaches
<1>19. NeverDrawsZero'
  BY <1>4, <1>6a, <1>8, <1>10 DEF NeverDrawsZero
<1> QED
  BY <1>2, <1>4, <1>12, <1>13, <1>15, <1>16, <1>17, <1>18, <1>19 DEF SamplerInv

\* Every call leaves the invariant standing, for every vocabulary, every
\* logits, every configuration and a reply of any length.
THEOREM SamplerInvHolds == Spec => []SamplerInv
<1>1. SamplerInv /\ [Next]_vars => SamplerInv'
  <2> SUFFICES ASSUME SamplerInv, [Next]_vars PROVE SamplerInv'
    OBVIOUS
  <2>1. ASSUME NEW l \in Logits, Rejects(l) PROVE SamplerInv'
    BY <2>1, RejectsKeepsInv
  <2>2. ASSUME NEW l \in Logits, SampleToken(l) PROVE SamplerInv'
    BY <2>2, SampleTokenKeepsInv
  <2>3. CASE UNCHANGED vars
    BY <2>3 DEF SamplerInv, vars, TypeOK, PenaltyNeverPromotes, KeptAreLikeliest,
       NucleusIsSmallest, NeverDrawsZero, Sampled
  <2> QED
    BY <2>1, <2>2, <2>3 DEF Next, Done
<1> QED
  BY <1>1, InitEstablishesInv, PTL DEF Spec

\* sample_token returns an id of the vocabulary or an error, and keeps its
\* window within REPEAT_LAST_N.
THEOREM SamplerTypes == Spec => []TypeOK
  BY SamplerInvHolds, PTL DEF SamplerInv

\* The repeat penalty never lets a used token overtake a fresh one.
THEOREM SamplerPenaltyNeverPromotes == Spec => []PenaltyNeverPromotes
  BY SamplerInvHolds, PTL DEF SamplerInv

\* What sample_token draws from holds nothing less likely than what it has
\* left out, whatever the unstable sorts do with equals.
THEOREM SamplerKeptAreLikeliest == Spec => []KeptAreLikeliest
  BY SamplerInvHolds, PTL DEF SamplerInv

\* The nucleus is as small as top_p allows.
THEOREM SamplerNucleusIsSmallest == Spec => []NucleusIsSmallest
  BY SamplerInvHolds, PTL DEF SamplerInv

\* A token of probability zero is never returned.
THEOREM SamplerNeverDrawsZero == Spec => []NeverDrawsZero
  BY SamplerInvHolds, PTL DEF SamplerInv

\* The generator never gets stuck at 0, however long the reply: no seed that
\* rng_seed_from_time returns leads there.
THEOREM RngNeverZeroHolds == Spec => []RngNeverZero
<1> DEFINE Inv == rng \in SUBSET Bits /\ rng # {}
<1>1. Init => Inv  BY SamplerAssumption DEF Init, Bits
<1>2. Inv /\ [Next]_vars => Inv'
  <2> SUFFICES ASSUME Inv, [Next]_vars PROVE Inv'  OBVIOUS
  <2>1. ASSUME NEW l \in Logits, Rejects(l)  PROVE Inv'  BY <2>1 DEF Rejects
  <2>2. ASSUME NEW l \in Logits, SampleToken(l)  PROVE Inv'
    BY <2>2, XorshiftNotZero DEF SampleToken
  <2>3. CASE UNCHANGED vars  BY <2>3 DEF vars
  <2> QED  BY <2>1, <2>2, <2>3 DEF Next, Done
<1>3. Inv => RngNeverZero  BY DEF RngNeverZero
<1> QED  BY <1>1, <1>2, <1>3, PTL DEF Spec
=============================================================================
