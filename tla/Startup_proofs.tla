--------------------------- MODULE Startup_proofs ---------------------------
(***************************************************************************)
(* Proofs about a whole run of the program, for every supply of addresses, *)
(* every set of model files, every place of the mapping and every size of  *)
(* the cache: the passes free what they allocate and nothing else, the     *)
(* objects they stand on are there, every tensor lies in the mapping, the  *)
(* data begins where the header says, and a clean exit leaves nothing.     *)
(***************************************************************************)
EXTENDS Startup, BufferLayout_proofs, SequenceTheorems, WellFoundedInduction, TLAPS

USE NullAssumption
-----------------------------------------------------------------------------
(* The objects of a pass *)

\* Which locals a call has allocated where.
HeldAt(p) ==
    CASE p \in {"idle", "dropped", "inp_buf"} -> {}
      [] p = "inp_ctx"                        -> {"inp_buf"}
      [] p = "ctx"                            -> {"inp_buf", "inp_ctx"}
      [] p \in {"tensors", "galloc"}          -> {"inp_buf", "inp_ctx", "ctx"}
      [] OTHER                                -> Names

\* A call's objects are live, distinct, and none of the decode graph's.
LocalsLive ==
    /\ \A n \in Names : IF n \in HeldAt(pc) THEN local[n] \in live ELSE local[n] = Null
    /\ \A m, n \in HeldAt(pc) : m # n => local[m] # local[n]
    /\ pc # "dropped" => \A m \in HeldAt(pc), n \in Names : local[m] # graph[n]

\* Only a call that found no decode graph builds one.
BuildOnlyOnce == pc \notin {"idle", "dropped"} /\ call = "build" => ~built

GraphInv ==
    /\ GraphTypeOK
    /\ NoBadFree
    /\ NothingLeaked
    /\ DecodeGraphAlive
    /\ LocalsLive
    /\ BuildOnlyOnce

LEMMA GraphInitEstablishesInv == GraphInit => GraphInv
  BY DEF GraphInit, GraphInv, GraphTypeOK, NoBadFree, NothingLeaked, DecodeGraphAlive, LocalsLive,
         BuildOnlyOnce, HeldAt, Nothing, Handles, Names, Real, Held

\* An early return that frees exactly what the call has allocated leaves the
\* decode graph, and nothing else.
LEMMA ReleaseKeepsInv ==
    ASSUME GraphInv, pc \in Names \cup {"tensors", "plan", "compute"},
           Free(local, HeldAt(pc)), Return, UNCHANGED <<call, graph, built, complete>>
    PROVE  GraphInv'
<1> USE DEF GraphInv
<1>1. GraphTypeOK'
  BY DEF GraphTypeOK, Free, Return, Nothing, Handles, Held
<1>2. NoBadFree'
  BY DEF NoBadFree, Free, Held, LocalsLive, HeldAt, Names
<1>3. NothingLeaked'
  BY DEF NothingLeaked, Free, Return, Real, Held, LocalsLive, HeldAt, Names, Nothing, GraphTypeOK
<1>4. DecodeGraphAlive'
  BY DEF DecodeGraphAlive, Free, Return, Held, LocalsLive, HeldAt, Names
<1>5. LocalsLive' /\ BuildOnlyOnce'
  BY DEF LocalsLive, BuildOnlyOnce, Return, HeldAt, Nothing
<1> QED
  BY <1>1, <1>2, <1>3, <1>4, <1>5

LEMMA AllocateKeepsInv ==
    ASSUME GraphInv, Allocate
    PROVE  GraphInv'
<1> USE DEF GraphInv
<1>1. PICK a \in Address \ live : /\ live' = live \cup {a}
                                  /\ local' = [local EXCEPT ![pc] = a]
  BY DEF Allocate
<1>2. /\ pc \in Names /\ pc' \in {"inp_ctx", "ctx", "tensors", "plan"}
      /\ HeldAt(pc') = HeldAt(pc) \cup {pc} /\ pc \notin HeldAt(pc)
  BY DEF Allocate, After, HeldAt, Names
<1>3. local[pc] = Null /\ a # Null
  BY <1>2 DEF LocalsLive
<1>4. UNCHANGED <<call, graph, built, complete, badFree>>
  BY DEF Allocate
<1>5. GraphTypeOK'
  BY <1>1, <1>2, <1>4 DEF GraphTypeOK, Handles, Names
<1>6. NoBadFree'
  BY <1>4 DEF NoBadFree
<1>7. NothingLeaked'
  <2>1. Real(local') = Real(local) \cup {a}
    BY <1>1, <1>2, <1>3 DEF Real, Held, GraphTypeOK, Handles
  <2> QED
    BY <2>1, <1>1, <1>2, <1>4 DEF NothingLeaked, Real, Names
<1>8. DecodeGraphAlive'
  BY <1>1, <1>2, <1>4 DEF DecodeGraphAlive, Held, Names
<1>9. \A n \in Names : graph[n] # a
  BY <1>1, <1>2, <1>3 DEF DecodeGraphAlive, Held, GraphTypeOK, Nothing, Names
<1>10. LocalsLive'
  <2> DEFINE H == HeldAt(pc)
             K == HeldAt(pc')
  <2>1. H \subseteq Names /\ K = H \cup {pc} /\ pc \notin H
    BY <1>2 DEF HeldAt, Names
  <2>2. /\ local'[pc] = a
        /\ \A n \in Names : n # pc => local'[n] = local[n]
    BY <1>1, <1>2 DEF GraphTypeOK, Handles
  <2>3. /\ \A n \in Names : IF n \in H THEN local[n] \in live ELSE local[n] = Null
        /\ \A m, n \in H : m # n => local[m] # local[n]
        /\ \A m \in H, n \in Names : local[m] # graph[n]
    BY <1>2 DEF LocalsLive, Names
  <2> HIDE DEF H, K
  <2>4. \A n \in Names : IF n \in K THEN local'[n] \in live' ELSE local'[n] = Null
    BY <1>1, <1>2, <2>1, <2>2, <2>3
  <2>5. \A m, n \in K : m # n => local'[m] # local'[n]
    BY <1>1, <2>1, <2>2, <2>3
  <2>6. \A m \in K, n \in Names : local'[m] # graph'[n]
    BY <1>4, <1>9, <2>1, <2>2, <2>3
  <2> QED
    BY <2>4, <2>5, <2>6 DEF LocalsLive, K
<1>11. BuildOnlyOnce'
  BY <1>2, <1>4 DEF BuildOnlyOnce, Names
<1> QED
  BY <1>5, <1>6, <1>7, <1>8, <1>10, <1>11

LEMMA GraphNextKeepsInv ==
    ASSUME GraphInv, [GraphNext]_graphvars
    PROVE  GraphInv'
<1>1. CASE \E c \in {"forward", "build"} : Begin(c)
  BY <1>1 DEF GraphInv, Begin, GraphTypeOK, NoBadFree, NothingLeaked, DecodeGraphAlive, LocalsLive,
              BuildOnlyOnce, HeldAt, Real, Held, Names
<1>2. CASE Allocate
  BY <1>2, AllocateKeepsInv
<1>3. CASE AllocationFails
  <2>1. pc \in Names /\ FreedAt[pc] = HeldAt(pc)
    BY <1>3 DEF AllocationFails, FreedAt, HeldAt, Names
  <2> QED
    BY <2>1, <1>3, ReleaseKeepsInv DEF AllocationFails
<1>4. CASE TensorsFound
  BY <1>4 DEF GraphInv, TensorsFound, GraphTypeOK, NoBadFree, NothingLeaked, DecodeGraphAlive,
              LocalsLive, BuildOnlyOnce, HeldAt
<1>5. CASE TensorMissing
  BY <1>5 DEF GraphInv, TensorMissing, Return, GraphTypeOK, NoBadFree, NothingLeaked,
              DecodeGraphAlive, LocalsLive, BuildOnlyOnce, HeldAt, Nothing, Handles
<1>6. CASE Overflow
  <2>1. HeldAt(pc) = {"ctx", "inp_ctx", "inp_buf"} /\ pc = "tensors"
    BY <1>6 DEF Overflow, HeldAt
  <2> QED
    BY <2>1, <1>6, ReleaseKeepsInv DEF Overflow
<1>7. CASE Plan
  BY <1>7 DEF GraphInv, Plan, GraphTypeOK, NoBadFree, NothingLeaked, DecodeGraphAlive,
              LocalsLive, BuildOnlyOnce, HeldAt
<1>8. CASE PlanFails
  <2>1. HeldAt(pc) = {"galloc", "inp_ctx", "ctx", "inp_buf"} /\ pc = "plan"
    BY <1>8 DEF PlanFails, HeldAt, Names
  <2> QED
    BY <2>1, <1>8, ReleaseKeepsInv DEF PlanFails
<1>9. CASE ForwardReturns
  <2>1. HeldAt(pc) = {"galloc", "ctx", "inp_ctx", "inp_buf"} /\ pc = "compute"
    BY <1>9 DEF ForwardReturns, HeldAt, Names
  <2> QED
    BY <2>1, <1>9, ReleaseKeepsInv DEF ForwardReturns
<1>10. CASE BuildReturns
  <2>1. HeldAt(pc) = Names /\ ~built /\ graph = Nothing
    BY <1>10 DEF GraphInv, BuildReturns, HeldAt, BuildOnlyOnce, GraphTypeOK
  <2>2. local \in [Names -> Address] /\ Held(local, Names) \subseteq live
    BY <2>1 DEF GraphInv, LocalsLive, GraphTypeOK, Handles, Held
  <2>3. GraphTypeOK' /\ NoBadFree' /\ DecodeGraphAlive'
    BY <2>1, <2>2, <1>10 DEF GraphInv, BuildReturns, Return, GraphTypeOK, NoBadFree,
                             DecodeGraphAlive, LocalsLive, Nothing, Handles
  <2>4. NothingLeaked'
    BY <2>1, <1>10 DEF GraphInv, BuildReturns, Return, NothingLeaked, Real, Held, Nothing
  <2>5. LocalsLive' /\ BuildOnlyOnce'
    BY <1>10 DEF BuildReturns, Return, LocalsLive, BuildOnlyOnce, HeldAt, Nothing
  <2> QED
    BY <2>3, <2>4, <2>5 DEF GraphInv
<1>11. CASE Drop
  <2>1. pc = "idle" /\ local = Nothing
    BY <1>11 DEF GraphInv, Drop, LocalsLive, HeldAt, GraphTypeOK, Handles, Nothing
  <2>2. GraphTypeOK' /\ DecodeGraphAlive' /\ LocalsLive' /\ BuildOnlyOnce'
    BY <2>1, <1>11 DEF GraphInv, Drop, Free, GraphTypeOK, DecodeGraphAlive, LocalsLive,
                       BuildOnlyOnce, HeldAt, Nothing
  <2>3. NoBadFree'
    BY <2>1, <1>11 DEF GraphInv, Drop, Free, NoBadFree, DecodeGraphAlive, Held
  <2>4. NothingLeaked'
    BY <2>1, <1>11 DEF GraphInv, Drop, Free, NothingLeaked, GraphTypeOK, Real, Held, Nothing
  <2> QED
    BY <2>2, <2>3, <2>4 DEF GraphInv
<1>12. CASE UNCHANGED graphvars
  BY <1>12 DEF graphvars, GraphInv, GraphTypeOK, NoBadFree, NothingLeaked, DecodeGraphAlive, LocalsLive,
               BuildOnlyOnce
<1>13. CASE Dropped
  BY <1>12, <1>13 DEF Dropped
<1> QED
  BY <1>1, <1>2, <1>3, <1>4, <1>5, <1>6, <1>7, <1>8, <1>9, <1>10, <1>11, <1>12, <1>13 DEF GraphNext, GraphCall

\* The conjuncts hold together: each early return of graph.rs relies on
\* knowing exactly which objects its call has allocated so far.
THEOREM GraphInvHolds == GraphSpec => []GraphInv
<1> QED
  BY GraphInitEstablishesInv, GraphNextKeepsInv, PTL DEF GraphSpec
-----------------------------------------------------------------------------
(* The header of a file *)

\* Induction over the naturals, with the set of those that have the property.
LEMMA SetInduction ==
    ASSUME NEW S, 0 \in S, \A n \in Nat : n \in S => n + 1 \in S
    PROVE  \A n \in Nat : n \in S
<1> DEFINE B == Nat \ S
<1> SUFFICES ASSUME B # {} PROVE FALSE
  OBVIOUS
<1>1. PICK b \in B : \A c \in B : ~ (<<c, b>> \in OpToRel(<, Nat))
  BY NatLessThanWellFounded, WFMin
<1>2. b \in Nat /\ b # 0 /\ b - 1 \in Nat /\ b - 1 < b /\ (b - 1) + 1 = b
  OBVIOUS
<1>3. b - 1 \notin B
  BY <1>1, <1>2 DEF OpToRel
<1> QED
  BY <1>2, <1>3

\* The recursive function in Behind, up to n.
Ends(start, sizes, n, g) ==
    g = [i \in 0 .. n |-> IF i = 0 THEN start ELSE g[i - 1] + sizes[i]]

LEMMA EndsExists ==
    ASSUME NEW start \in Nat, NEW sizes \in Seq(Nat), NEW n \in Nat, n <= Len(sizes)
    PROVE  \E g : Ends(start, sizes, n, g) /\ g[n] \in Nat /\ start <= g[n]
<1> DEFINE S == {m \in Nat : m <= Len(sizes) =>
                     \E g : Ends(start, sizes, m, g) /\ g[m] \in Nat /\ start <= g[m]}
<1>1. 0 \in S
  <2> DEFINE g == [i \in 0 .. 0 |-> start]
  <2>1. Ends(start, sizes, 0, g)
    BY DEF Ends
  <2>2. g[0] \in Nat /\ start <= g[0]
    OBVIOUS
  <2> QED
    BY <2>1, <2>2
<1>2. ASSUME NEW m \in Nat, m \in S PROVE m + 1 \in S
  <2> SUFFICES ASSUME m + 1 <= Len(sizes)
               PROVE  \E g : /\ Ends(start, sizes, m + 1, g)
                             /\ g[m + 1] \in Nat /\ start <= g[m + 1]
    BY <1>2
  <2>0. m <= Len(sizes) /\ m + 1 \in 1 .. Len(sizes) /\ sizes[m + 1] \in Nat
    BY LenProperties, ElementOfSeq
  <2>1. PICK g : Ends(start, sizes, m, g) /\ g[m] \in Nat /\ start <= g[m]
    BY <1>2, <2>0
  <2> DEFINE h == [i \in 0 .. (m + 1) |-> IF i = 0 THEN start ELSE g[i - 1] + sizes[i]]
  <2>2. \A i \in 0 .. m : h[i] = g[i]
    <3>1. \A i \in 0 .. m : i \in 0 .. (m + 1)
      OBVIOUS
    <3> QED
      BY <2>1, <3>1 DEF Ends
  <2>3. \A i \in 0 .. (m + 1) : i # 0 => i - 1 \in 0 .. m
    OBVIOUS
  <2>4. Ends(start, sizes, m + 1, h)
    BY <2>2, <2>3 DEF Ends
  <2>5. h[m + 1] = g[m] + sizes[m + 1]
    BY <2>0
  <2>6. h[m + 1] \in Nat /\ start <= h[m + 1]
    BY <2>0, <2>1, <2>5
  <2> QED
    BY <2>4, <2>6
<1>3. \A m \in Nat : m \in S
  <2> HIDE DEF S
  <2> QED
    BY <1>1, <1>2, SetInduction
<1> QED
  BY <1>3

\* A run of pieces ends at or behind its start.
LEMMA BehindStart ==
    ASSUME NEW start \in Nat, NEW sizes \in Seq(Nat)
    PROVE  Behind(start, sizes) \in Nat /\ start <= Behind(start, sizes)
<1> DEFINE f == CHOOSE g : Ends(start, sizes, Len(sizes), g)
<1>1. Len(sizes) \in Nat /\ Len(sizes) <= Len(sizes)
  BY LenProperties
<1>2. PICK g : /\ Ends(start, sizes, Len(sizes), g)
               /\ g[Len(sizes)] \in Nat /\ start <= g[Len(sizes)]
  BY <1>1, EndsExists
<1>3. Ends(start, sizes, Len(sizes), f)
  BY <1>2
<1>4. Behind(start, sizes) = f[Len(sizes)]
  BY Zenon DEF Behind, Ends
<1>5. f[Len(sizes)] = g[Len(sizes)]
  <2> DEFINE S == {m \in Nat : m <= Len(sizes) => f[m] = g[m]}
  <2> HIDE DEF f
  <2>1. 0 \in S
    BY <1>1, <1>2, <1>3 DEF Ends
  <2>2. ASSUME NEW m \in Nat, m \in S PROVE m + 1 \in S
    <3> SUFFICES ASSUME m + 1 <= Len(sizes) PROVE f[m + 1] = g[m + 1]
      BY <2>2
    <3>1. m + 1 \in 0 .. Len(sizes) /\ m + 1 # 0 /\ (m + 1) - 1 = m /\ f[m] = g[m]
      BY <2>2, <1>1
    <3>2. f[m + 1] = f[(m + 1) - 1] + sizes[m + 1]
      BY <3>1, <1>3 DEF Ends
    <3>3. g[m + 1] = g[(m + 1) - 1] + sizes[m + 1]
      BY <3>1, <1>2 DEF Ends
    <3> QED
      BY <3>1, <3>2, <3>3
  <2>3. \A m \in Nat : m \in S
    <3> HIDE DEF S
    <3> QED
      BY <2>1, <2>2, SetInduction
  <2> QED
    BY <2>3, <1>1
<1> QED
  BY <1>2, <1>4, <1>5

LEMMA ValueBytesNat ==
    ASSUME NEW v \in Value, Readable(v), NEW version \in Nat
    PROVE  ValueBytes(v, version) \in Nat
<1>1. CountWidth(version) \in Nat
  BY DEF CountWidth
<1>2. \A t \in Numbers : NumberWidth[t] \in Nat
  BY DEF Numbers, NumberWidth
<1>3. CASE v.type = "Array"
  <2>1. /\ v \in [type : {"Array"}, elem : STRING, n : Nat, length : Nat]
        /\ v.n = 0 \/ v.elem \in Numbers \cup {"String"}
        /\ "Array" \notin Numbers
    BY <1>3 DEF Value, Readable, Numbers, NumberWidth
  <2>2. v.n # 0 => ElementBytes(v) \in Nat
    BY <2>1, <1>2 DEF ElementBytes, StringBytes
  <2>3. ArrayBytes(v) \in Nat
    BY <2>1, <2>2 DEF ArrayBytes
  <2> QED
    BY <2>1, <2>3, <1>1, <1>3 DEF ValueBytes
<1>4. CASE v.type # "Array"
  <2>1. v.n \in Nat /\ v.type \in Numbers \cup {"String"}
    BY <1>4 DEF Value, Readable
  <2> QED
    BY <2>1, <1>2 DEF ValueBytes, StringBytes
<1> QED
  BY <1>3, <1>4

\* The header of a file that parses has a length.
LEMMA HeaderEndNat ==
    ASSUME NEW f \in Files, Parses(f)
    PROVE  HeaderEnd(f) \in Nat
<1> DEFINE kvs   == [i \in DOMAIN f.kvs |->
                        KeyBytes(f.kvs[i].key) + ValueBytes(f.kvs[i].value, f.version)]
           infos == [i \in DOMAIN f.tensors |-> TensorInfoBytes(f.tensors[i], f.version)]
           start == 8 + 2 * CountWidth(f.version)
<1>1. /\ f.version \in Nat
      /\ f.kvs \in Seq([key : STRING \X STRING, value : Value])
      /\ \A i \in DOMAIN f.kvs : KeyBytes(f.kvs[i].key) \in Nat
      /\ f.tensors \in Seq(Descriptor)
      /\ \A i \in DOMAIN f.kvs : Readable(f.kvs[i].value)
  BY FilesAssumption DEF IsFile, Parses
<1>2. start \in Nat /\ CountWidth(f.version) \in Nat
  BY DEF CountWidth
<1>3. /\ DOMAIN f.kvs = 1 .. Len(f.kvs) /\ Len(f.kvs) \in Nat
      /\ DOMAIN f.tensors = 1 .. Len(f.tensors) /\ Len(f.tensors) \in Nat
      /\ \A i \in DOMAIN f.kvs : f.kvs[i] \in [key : STRING \X STRING, value : Value]
      /\ \A i \in DOMAIN f.tensors : f.tensors[i] \in Descriptor
  BY <1>1, LenProperties, ElementOfSeq
<1>4. \A i \in DOMAIN f.kvs :
          KeyBytes(f.kvs[i].key) + ValueBytes(f.kvs[i].value, f.version) \in Nat
  <2> TAKE i \in DOMAIN f.kvs
  <2>1. f.kvs[i].value \in Value /\ Readable(f.kvs[i].value)
    BY <1>1, <1>3
  <2>2. ValueBytes(f.kvs[i].value, f.version) \in Nat
    BY <2>1, <1>1, ValueBytesNat
  <2> QED
    BY <2>2, <1>1
<1>5. \A i \in DOMAIN f.tensors : TensorInfoBytes(f.tensors[i], f.version) \in Nat
  <2> TAKE i \in DOMAIN f.tensors
  <2>1. f.tensors[i].nameLength \in Nat /\ f.tensors[i].dims \in Nat
    BY <1>3 DEF Descriptor
  <2>2. f.tensors[i].dims * CountWidth(f.version) \in Nat
    BY <2>1, <1>2
  <2> QED
    BY <2>1, <2>2 DEF TensorInfoBytes, StringBytes
<1>6. kvs \in Seq(Nat)
  BY <1>3, <1>4, SeqDef
<1>7. infos \in Seq(Nat)
  BY <1>3, <1>5, SeqDef
<1>8. HeaderEnd(f) = Behind(Behind(start, kvs), infos)
  BY DEF HeaderEnd
<1> HIDE DEF kvs, infos, start
<1>9. Behind(start, kvs) \in Nat
  BY <1>2, <1>6, BehindStart
<1> QED
  BY <1>7, <1>8, <1>9, BehindStart

\* A nonempty set of indices has a last one.
LEMMA LastIndex ==
    ASSUME NEW n \in Nat, NEW I \in SUBSET (1 .. n), I # {}
    PROVE  \E i \in I : \A j \in I : j <= i
<1> DEFINE D == {n - i : i \in I}
<1>1. D \subseteq Nat /\ D # {}
  <2>1. ASSUME NEW i \in I PROVE n - i \in Nat
    <3>1. i \in 1 .. n
      OBVIOUS
    <3> QED
      BY <3>1
  <2> QED
    BY <2>1
<1>2. PICK d \in D : \A e \in D : ~ (<<e, d>> \in OpToRel(<, Nat))
  BY <1>1, NatLessThanWellFounded, WFMin
<1>3. PICK i \in I : d = n - i
  BY <1>2
<1>4. ASSUME NEW j \in I PROVE j <= i
  <2>1. n - j \in D /\ n - j \in Nat /\ d \in Nat
    BY <1>1, <1>2
  <2>2. ~ (n - j < d)
    BY <2>1, <1>2 DEF OpToRel
  <2> QED
    BY <2>2, <1>3
<1> QED
  BY <1>4

\* A u32 of the metadata is a natural number, whichever entry it comes from.
LEMMA U32Nat ==
    ASSUME NEW f \in Files, NEW key, NEW default \in Nat
    PROVE  U32Of(f, key, default) \in Nat
<1>1. f.kvs \in Seq([key : STRING \X STRING, value : Value])
  BY FilesAssumption DEF IsFile
<1>2. /\ DOMAIN f.kvs = 1 .. Len(f.kvs) /\ Len(f.kvs) \in Nat
      /\ \A i \in DOMAIN f.kvs : f.kvs[i].value \in Value
  <2>1. DOMAIN f.kvs = 1 .. Len(f.kvs) /\ Len(f.kvs) \in Nat
    BY <1>1, LenProperties
  <2>2. \A i \in DOMAIN f.kvs : f.kvs[i] \in [key : STRING \X STRING, value : Value]
    BY <2>1, <1>1, ElementOfSeq
  <2> QED
    BY <2>1, <2>2
<1>3. ASSUME key \in Keys(f) PROVE Meta(f, key).n \in Nat
  <2> DEFINE I == {i \in DOMAIN f.kvs : f.kvs[i].key = key}
             last == CHOOSE i \in DOMAIN f.kvs :
                         /\ f.kvs[i].key = key
                         /\ \A j \in DOMAIN f.kvs : f.kvs[j].key = key => j <= i
  <2>1. I \in SUBSET (1 .. Len(f.kvs)) /\ I # {}
    BY <1>2, <1>3 DEF Keys
  <2>2. \E i \in I : \A j \in I : j <= i
    <3> HIDE DEF I
    <3> QED
      BY <2>1, <1>2, LastIndex
  <2>3. last \in DOMAIN f.kvs
    BY <2>2
  <2>4. f.kvs[last].value.n \in Nat
    BY <2>3, <1>2 DEF Value
  <2> QED
    BY <2>4 DEF Meta
<1> QED
  BY <1>3 DEF U32Of
-----------------------------------------------------------------------------
(* A run of the program *)

\* What the program owns at each step.
OwnedAt(s) ==
    CASE s \in {"header", "load", "map"}        -> {}
      [] s \in {"wrap", "unmap"}                -> {"mapping"}
      [] s = "context"                          -> {"mapping", "weight_buf"}
      [] s \in {"place", "tokenizer", "backend", "drop_model"}
                                                -> {"mapping", "weight_buf", "model_ctx"}
      [] s = "kv"                               -> {"mapping", "weight_buf", "model_ctx", "backend"}
      [] s = "drop_kv"                          -> Objects \ {"backend"}
      [] OTHER                                  -> Objects

OwnedByStage ==
    /\ stage \notin Ended \/ pc \notin {"idle", "dropped"} => owned = OwnedAt(stage)
    /\ stage = "exited" /\ exitCode = 0 => owned = {} /\ pc = "dropped"

\* There are passes between the start-up and the drop, and only then.
Fresh == /\ pc = "idle" /\ ~built /\ live = {}
         /\ local = Nothing /\ graph = Nothing

PassesWhenReady ==
    /\ stage \in Loading => Fresh
    /\ stage = "ready" => pc # "dropped"
    /\ stage \in Leaving => pc = "dropped"
    /\ stage = "exited" => pc \in {"idle", "dropped"}

\* The loader only goes on with a file it could parse.
ModelParsed ==
    model # NoFile \/ stage \notin {"header", "load"} \cup Ended =>
        model \in Files /\ Parses(model) /\ Alignment(model) # 0

\* A tensor begins in the mapping, and ends in it unless its size wraps.
Mapped(p) ==
    /\ p.data \in Base .. Base + mapped - 1
    /\ SizeFits(p) => Within(Region(p.data, Bytes(p.of)), Mapping)

TensorsMapped ==
    /\ stage \in {"header", "load", "map"} => DOMAIN placed = {}
    /\ \A t \in DOMAIN placed : Mapped(placed[t])

StartInv ==
    /\ TypeOK /\ GraphInv
    /\ OwnedByStage /\ PassesWhenReady /\ ModelParsed /\ TensorsMapped

LEMMA StartInitEstablishesInv == Init => StartInv
<1> SUFFICES ASSUME Init PROVE StartInv
  OBVIOUS
<1>1. GraphInv
  BY GraphInitEstablishesInv DEF Init
<1>2. DOMAIN placed = {}
  BY DEF Init
<1>3. TypeOK
  BY <1>1, <1>2 DEF Init, TypeOK, GraphInv, Loading
<1>4. OwnedByStage /\ PassesWhenReady
  BY DEF Init, GraphInit, OwnedByStage, OwnedAt, PassesWhenReady, Fresh, Ended, Loading, Leaving
<1>5. ModelParsed /\ TensorsMapped
  BY <1>2 DEF Init, ModelParsed, TensorsMapped
<1> QED
  BY <1>1, <1>3, <1>4, <1>5 DEF StartInv

\* The tensor at next has a descriptor and, after the sums wrapped, an address.
LEMMA CurrentTyped ==
    ASSUME StartInv, Placing
    PROVE  [data |-> TensorAddr, of |-> Current] \in [data : Nat, of : Descriptor]
<1>1. stage = "place" /\ model \in Files /\ Parses(model) /\ Alignment(model) # 0
      /\ next \in DOMAIN model.tensors
  BY DEF StartInv, ModelParsed, Placing, Ended
<1>2. Current \in Descriptor
  <2>1. model.tensors \in Seq(Descriptor)
    BY <1>1, FilesAssumption DEF IsFile
  <2> QED
    BY <2>1, <1>1, LenProperties, ElementOfSeq DEF Current
<1>3. Alignment(model) \in Nat \ {0}
  BY <1>1, U32Nat DEF Alignment
<1>4. DataOffset(model) \in Nat
  BY <1>1, <1>3, HeaderEndNat, RoundUpLeast DEF DataOffset
<1>5. Current.offset \in Nat
  BY <1>2 DEF Descriptor
<1>6. (Base + DataOffset(model) + Current.offset) % Word \in Nat
  <2>1. /\ Word \in Nat /\ Word > 0
        /\ Base + DataOffset(model) + Current.offset \in Nat
    BY <1>4, <1>5, AddressAssumption
  <2> QED
    BY <2>1
<1>7. TensorAddr \in Nat
  BY <1>6 DEF TensorAddr
<1> HIDE DEF TensorAddr, Current
<1> QED
  BY <1>2, <1>7

\* What fits a word does not wrap.
LEMMA NoWrap ==
    ASSUME NEW n \in Nat, NEW w \in Nat, n < w
    PROVE  n % w = n
OBVIOUS

LEMMA WholeBlocks ==
    ASSUME NEW x \in Nat, NEW q \in Nat, NEW b \in Nat \ {0}, NEW w \in Nat, q * b <= x
    PROVE  (x * w) \div b >= q * w
<1>1. PICK m \in Nat : m = q * b
  OBVIOUS
<1>2. PICK d \in Nat : x = m + d
  <2>1. x - m \in Nat /\ x = m + (x - m)
    BY <1>1
  <2> QED
    BY <2>1
<1>3. x * w = m * w + d * w /\ m * w \in Nat /\ d * w \in Nat
  BY ONLY <1>2, m \in Nat, d \in Nat, w \in Nat
<1>4. PICK k \in Nat : k = q * w
  OBVIOUS
<1>5. m * w = k * b
  BY ONLY <1>1, <1>4, q \in Nat, b \in Nat, w \in Nat
<1>6. PICK n \in Nat : n = x * w
  OBVIOUS
<1>7. k * b <= n
  BY ONLY <1>3, <1>5, <1>6
<1>8. n \div b >= k
  BY ONLY <1>7, k \in Nat, n \in Nat, b \in Nat \ {0}
<1> QED
  BY ONLY <1>4, <1>6, <1>8

\* A tensor claims a natural number of bytes: a row in whole blocks is not
\* longer than one that is cut.
LEMMA BytesNat ==
    ASSUME NEW t \in Descriptor
    PROVE  Bytes(t) \in Nat
<1>1. /\ t.row \in Nat /\ t.rows \in Nat /\ t.width \in Nat
      /\ t.block \in Nat \ {0}
  BY DEF Descriptor
<1>2. PICK q \in Nat : q = t.row \div t.block /\ q * t.block <= t.row
  BY <1>1
<1>3. PICK k \in Nat : k = Stride(t) /\ k = q * t.width
  BY <1>1, <1>2 DEF Stride
<1>4. PICK n \in Int : n = (t.row * t.width) \div t.block /\ n >= k
  <2>1. (t.row * t.width) \div t.block >= q * t.width
    BY <1>1, <1>2, WholeBlocks
  <2>2. (t.row * t.width) \div t.block \in Int
    <3>1. PICK m \in Nat : m = t.row * t.width
      BY <1>1
    <3> QED
      BY <3>1, <1>1
  <2> QED
    BY <2>1, <2>2, <1>3
<1>5. PICK r \in Nat : r = t.rows
  BY <1>1
<1>6. (r - 1) * k = r * k - k /\ r * k \in Nat
  BY ONLY r \in Nat, k \in Nat
<1>7. n + (r - 1) * k \in Nat
  BY ONLY <1>4, <1>6, n \in Int, k \in Nat
<1>8. Bytes(t) = n + (r - 1) * k
  BY ONLY <1>3, <1>4, <1>5 DEF Bytes
<1> QED
  BY <1>7, <1>8

\* Where nothing wraps, ggml's assertions say that the tensor lies in the
\* mapping.
LEMMA AllocFitsMeansMapped ==
    ASSUME StartInv, Placing, TensorAddr < Base + mapped, AllocFits
    PROVE  Mapped([data |-> TensorAddr, of |-> Current])
<1> DEFINE p == [data |-> TensorAddr, of |-> Current]
<1>1. /\ TensorAddr \in Nat /\ Current \in Descriptor
      /\ p.data = TensorAddr /\ p.of = Current
  BY CurrentTyped
<1>2. Base \in Nat /\ Word \in Nat /\ mapped \in Nat
  <2>1. \A f \in Files : f.size \in Nat
    BY FilesAssumption DEF IsFile
  <2> QED
    BY <2>1, AddressAssumption DEF StartInv, TypeOK
<1>3. /\ Base <= TensorAddr
      /\ (TensorAddr + NBytes(Current)) % Word <= Base + mapped
  BY DEF AllocFits
<1> HIDE DEF TensorAddr, Current, p
<1>4. p.data \in Base .. Base + mapped - 1
  BY <1>1, <1>2, <1>3
<1>5. ASSUME SizeFits(p) PROVE Within(Region(p.data, Bytes(p.of)), Mapping)
  <2>1. Current.row * Current.width < Word /\ TensorAddr + Bytes(Current) < Word
    BY <1>1, <1>5 DEF SizeFits
  <2>2. Bytes(Current) \in Nat /\ Current.row * Current.width \in Nat
    BY <1>1, BytesNat DEF Descriptor
  <2>3. (Current.row * Current.width) % Word = Current.row * Current.width
    BY <2>1, <2>2, <1>2, NoWrap
  <2>4. NBytes(Current) = Bytes(Current) % Word
    BY <2>3 DEF NBytes, Bytes
  <2>5. Bytes(Current) < Word
    BY <2>1, <2>2, <1>1, <1>2
  <2>6. NBytes(Current) = Bytes(Current)
    BY <2>2, <2>4, <2>5, <1>2, NoWrap
  <2>7. (TensorAddr + Bytes(Current)) % Word = TensorAddr + Bytes(Current)
    BY <2>1, <2>2, <1>1, <1>2, NoWrap
  <2>8. Base <= TensorAddr /\ TensorAddr + Bytes(Current) <= Base + mapped
    BY <2>6, <2>7, <1>3
  <2> QED
    BY <2>8, <1>1 DEF Within, Region, Mapping
<1>6. Mapped(p)
  BY <1>4, <1>5 DEF Mapped
<1> QED
  BY <1>6 DEF p

\* A step that leaves the graph, the files and the tensors alone.
LEMMA StageKeepsInv ==
    ASSUME StartInv, UNCHANGED <<graphvars, disk, replaced, header, model, mapped, next, placed>>,
           stage' \in Loading \cup Leaving \cup Ended, exitCode' \in {0, 1},
           owned' \subseteq Objects, OwnedByStage', PassesWhenReady', ModelParsed',
           stage' \in {"header", "load", "map"} => DOMAIN placed = {}
    PROVE  StartInv'
<1>1. GraphInv'
  BY GraphNextKeepsInv DEF StartInv
<1>2. TypeOK'
  BY <1>1 DEF StartInv, TypeOK, GraphInv
<1>3. TensorsMapped'
  BY DEF StartInv, TensorsMapped, Mapped, Mapping
<1> QED
  BY <1>1, <1>2, <1>3 DEF StartInv

LEMMA LoadKeepsInv ==
    ASSUME StartInv, Load, UNCHANGED graphvars
    PROVE  StartInv'
<1>0. TypeOK /\ GraphInv /\ OwnedByStage /\ PassesWhenReady /\ ModelParsed /\ TensorsMapped
  BY DEF StartInv
<1>1. GraphInv' /\ GraphTypeOK'
  BY <1>0, GraphNextKeepsInv DEF GraphInv
<1>2. UNCHANGED <<pc, built, live, local, graph>>
  BY DEF graphvars
<1> USE DEF Loading, Leaving, Ended
\* The steps that change a file, a mapping or a tensor.
<1>3. CASE Replace
  <2>1. /\ disk' \in Files /\ replaced' = TRUE
        /\ UNCHANGED <<stage, exitCode, header, model, mapped, next, placed, owned>>
    BY <1>3 DEF Replace
  <2>2. TypeOK'
    BY <2>1, <1>0, <1>1 DEF TypeOK
  <2>3. OwnedByStage' /\ PassesWhenReady' /\ ModelParsed' /\ TensorsMapped'
    BY <2>1, <1>0, <1>2 DEF OwnedByStage, PassesWhenReady, Fresh, ModelParsed, TensorsMapped, Mapped, Mapping
  <2> QED
    BY <2>2, <2>3, <1>1 DEF StartInv
<1>4. CASE ParseHeader
  <2>1. /\ stage = "header" /\ stage' = "load" /\ header' = disk
        /\ UNCHANGED <<exitCode, disk, replaced, model, mapped, next, placed, owned>>
    BY <1>4 DEF ParseHeader
  <2>2. TypeOK'
    BY <2>1, <1>0, <1>1 DEF TypeOK
  <2>3. OwnedByStage' /\ PassesWhenReady' /\ ModelParsed' /\ TensorsMapped'
    BY <2>1, <1>0, <1>2 DEF OwnedByStage, OwnedAt, PassesWhenReady, Fresh, ModelParsed,
                            TensorsMapped, Mapped, Mapping
  <2> QED
    BY <2>2, <2>3, <1>1 DEF StartInv
<1>5. CASE ParseModel
  <2>1. /\ stage = "load" /\ stage' = "map" /\ model' = disk
        /\ Parses(disk) /\ Alignment(disk) # 0 /\ disk \in Files
        /\ UNCHANGED <<exitCode, disk, replaced, header, mapped, next, placed, owned>>
    BY <1>0, <1>5 DEF ParseModel, TypeOK
  <2>2. TypeOK'
    BY <2>1, <1>0, <1>1 DEF TypeOK
  <2>3. ModelParsed'
    BY <2>1 DEF ModelParsed
  <2>4. OwnedByStage' /\ PassesWhenReady' /\ TensorsMapped'
    BY <2>1, <1>0, <1>2 DEF OwnedByStage, OwnedAt, PassesWhenReady, Fresh,
                            TensorsMapped, Mapped, Mapping
  <2> QED
    BY <2>2, <2>3, <2>4, <1>1 DEF StartInv
<1>6. CASE MapFile
  <2>1. /\ stage = "map" /\ stage' = "wrap" /\ mapped' = disk.size
        /\ owned' = owned \cup {"mapping"} /\ disk \in Files /\ owned = {}
        /\ UNCHANGED <<exitCode, disk, replaced, header, model, next, placed>>
        /\ DOMAIN placed = {}
    BY <1>0, <1>6 DEF MapFile, TypeOK, OwnedByStage, OwnedAt, TensorsMapped
  <2>2. TypeOK'
    BY <2>1, <1>0, <1>1 DEF TypeOK, Objects
  <2>3. OwnedByStage' /\ PassesWhenReady' /\ ModelParsed' /\ TensorsMapped'
    BY <2>1, <1>0, <1>2 DEF OwnedByStage, OwnedAt, PassesWhenReady, Fresh, ModelParsed,
                            TensorsMapped
  <2> QED
    BY <2>2, <2>3, <1>1 DEF StartInv
<1>7. CASE SkipTensor \/ PlaceTensor
  <2>1. /\ stage = "place" /\ next' = next + 1
        /\ UNCHANGED <<stage, exitCode, disk, replaced, header, model, mapped, owned>>
    BY <1>7 DEF SkipTensor, PlaceTensor, Placing, Advance
  <2>3. \A t \in DOMAIN placed' : /\ placed'[t] \in [data : Nat, of : Descriptor]
                                  /\ Mapped(placed'[t])
    <3>1. \A t \in DOMAIN placed : /\ placed[t] \in [data : Nat, of : Descriptor]
                                   /\ Mapped(placed[t])
      BY <1>0 DEF TypeOK, TensorsMapped
    <3>2. CASE SkipTensor
      BY <3>1, <3>2 DEF SkipTensor
    <3>3. CASE PlaceTensor
      <4> DEFINE p == [data |-> TensorAddr, of |-> Current]
                 n == Current.name
      <4>1. placed' = [t \in DOMAIN placed \cup {n} |-> IF t = n THEN p ELSE placed[t]]
        BY <3>3 DEF PlaceTensor, Insert
      <4>2. p \in [data : Nat, of : Descriptor] /\ Mapped(p)
        BY <3>3, CurrentTyped, AllocFitsMeansMapped DEF PlaceTensor
      <4> HIDE DEF p, n
      <4> QED
        BY <4>1, <4>2, <3>1
    <3> QED
      BY <1>7, <3>2, <3>3
  <2>4. TypeOK'
    BY <2>1, <2>3, <1>0, <1>1 DEF TypeOK
  <2>5. OwnedByStage' /\ PassesWhenReady' /\ ModelParsed'
    BY <2>1, <1>0, <1>2 DEF OwnedByStage, PassesWhenReady, Fresh, ModelParsed
  <2>6. TensorsMapped'
    BY <2>1, <2>3 DEF TensorsMapped, Mapped, Mapping
  <2> QED
    BY <2>4, <2>5, <2>6, <1>1 DEF StartInv
\* The steps that only acquire, release or end.
<1>8. CASE Wrap \/ NewContext \/ Placed \/ NewBackend \/ (BuildTokenizer /\ stage' = "backend")
  <2>1. /\ stage \in {"wrap", "context", "place", "tokenizer", "backend"}
        /\ stage' \in {"context", "place", "tokenizer", "backend", "kv"}
        /\ UNCHANGED <<exitCode, disk, replaced, header, model, mapped, next, placed>>
    BY <1>8 DEF Wrap, NewContext, Placed, NewBackend, BuildTokenizer, Acquire, ExitWith
  <2>2. owned' = OwnedAt(stage') /\ owned' \subseteq Objects
    BY <1>0, <1>8 DEF Wrap, NewContext, Placed, NewBackend, BuildTokenizer, Acquire, ExitWith,
                      OwnedByStage, OwnedAt, Objects
  <2>3. OwnedByStage' /\ PassesWhenReady' /\ ModelParsed'
    BY <2>1, <2>2, <1>0, <1>2 DEF OwnedByStage, PassesWhenReady, Fresh, ModelParsed
  <2>4. exitCode' \in {0, 1}
    BY <2>1, <1>0 DEF TypeOK
  <2> QED
    BY <2>1, <2>2, <2>3, <2>4, StageKeepsInv
<1>9. CASE DropKVCache \/ DropModel
  <2>1. /\ stage \in {"drop_kv", "drop_model"} /\ stage' \in {"drop_model", "unmap"}
        /\ UNCHANGED <<exitCode, disk, replaced, header, model, mapped, next, placed>>
    BY <1>9 DEF DropKVCache, DropModel, Release
  <2>2. owned' = OwnedAt(stage') /\ owned' \subseteq Objects
    BY <1>0, <1>9 DEF DropKVCache, DropModel, Release, OwnedByStage, OwnedAt, Objects
  <2>3. OwnedByStage' /\ PassesWhenReady' /\ ModelParsed'
    BY <2>1, <2>2, <1>0, <1>2 DEF OwnedByStage, PassesWhenReady, ModelParsed
  <2>4. exitCode' \in {0, 1}
    BY <2>1, <1>0 DEF TypeOK
  <2> QED
    BY <2>1, <2>2, <2>3, <2>4, StageKeepsInv
<1>10. CASE DropMapping
  <2>1. /\ stage = "unmap" /\ stage' = "exited" /\ exitCode' = 0
        /\ owned' = owned \ {"mapping"} /\ owned = {"mapping"} /\ pc = "dropped"
        /\ UNCHANGED <<disk, replaced, header, model, mapped, next, placed>>
    BY <1>0, <1>10 DEF DropMapping, ExitWith, OwnedByStage, OwnedAt, PassesWhenReady
  <2>2. OwnedByStage' /\ PassesWhenReady' /\ ModelParsed' /\ owned' \subseteq Objects
    BY <2>1, <1>0, <1>2 DEF OwnedByStage, PassesWhenReady, ModelParsed
  <2> QED
    BY <2>1, <2>2, StageKeepsInv
<1>11. CASE ParseFails \/ MapFails \/ WrapFails \/ ContextFails \/ BackendFails \/ PromptFails
            \/ PlaceAsserts \/ KVCacheCrashes \/ (BuildTokenizer /\ stage' # "backend")
  <2>0. /\ stage \in Loading \/ (stage = "ready" /\ pc = "idle")
        /\ Crash \/ \E gone \in SUBSET Objects : ExitWith(1, gone)
    <3>1. {} \in SUBSET Objects /\ {"mapping"} \in SUBSET Objects
      BY DEF Objects
    <3>2. CASE ParseFails
      BY <3>1, <3>2 DEF ParseFails
    <3>3. CASE MapFails \/ WrapFails \/ ContextFails \/ BackendFails \/ PromptFails
      BY <3>1, <3>3 DEF MapFails, WrapFails, ContextFails, BackendFails, PromptFails
    <3>4. CASE PlaceAsserts \/ KVCacheCrashes
      BY <3>4 DEF PlaceAsserts, Placing, KVCacheCrashes
    <3>5. CASE BuildTokenizer /\ stage' # "backend"
      BY <3>1, <3>5 DEF BuildTokenizer, Acquire
    <3> QED
      BY <1>11, <3>2, <3>3, <3>4, <3>5
  <2>1. /\ \/ stage' = "exited" /\ exitCode' = 1
           \/ stage' = "crashed" /\ exitCode' = exitCode
        /\ owned' \subseteq owned /\ pc = "idle"
        /\ UNCHANGED <<disk, replaced, header, model, mapped, next, placed>>
    BY <2>0, <1>0 DEF ExitWith, Crash, PassesWhenReady, Fresh
  <2>2. OwnedByStage' /\ PassesWhenReady' /\ ModelParsed'
    BY <2>1, <1>0, <1>2 DEF OwnedByStage, PassesWhenReady, ModelParsed
  <2>3. owned' \subseteq Objects /\ exitCode' \in {0, 1}
    BY <2>1, <1>0 DEF TypeOK
  <2> QED
    BY <2>1, <2>2, <2>3, StageKeepsInv
<1>12. CASE FileCutShort
  <2>1. /\ stage = "ready" /\ stage' = "crashed" /\ pc \in {"idle", "compute"}
        /\ UNCHANGED <<exitCode, disk, replaced, header, model, mapped, next, placed, owned>>
    BY <1>12 DEF FileCutShort, Crash
  <2>2. owned = Objects
    BY <2>1, <1>0 DEF OwnedByStage, OwnedAt
  <2>3. OwnedByStage' /\ PassesWhenReady' /\ ModelParsed'
    BY <2>1, <2>2, <1>0, <1>2 DEF OwnedByStage, OwnedAt, PassesWhenReady, ModelParsed
  <2> QED
    BY <2>1, <2>3, <1>0, StageKeepsInv DEF TypeOK
<1> QED
  BY <1>3, <1>4, <1>5, <1>6, <1>7, <1>8, <1>9, <1>10, <1>11, <1>12 DEF Load

\* The first pass finds the graph as new() left it; whether the model is
\* complete is known from here on.
LEMMA NewKVCacheKeepsInv ==
    ASSUME StartInv, NewKVCache
    PROVE  StartInv'
<1>0. TypeOK /\ GraphInv /\ OwnedByStage /\ PassesWhenReady /\ ModelParsed /\ TensorsMapped
  BY DEF StartInv
<1>1. /\ stage = "kv" /\ stage' = "ready" /\ owned' = owned \cup {"kv_buf", "kv_ctx"}
      /\ UNCHANGED <<exitCode, disk, replaced, header, model, mapped, next, placed>>
      /\ complete' \in BOOLEAN
      /\ UNCHANGED <<pc, call, local, graph, built, live, badFree>>
  BY DEF NewKVCache, Acquire
<1>2. Fresh
  BY <1>0, <1>1 DEF PassesWhenReady, Loading
<1>3. GraphInv'
  BY <1>0, <1>1, <1>2 DEF Fresh, GraphInv, GraphTypeOK, NoBadFree, NothingLeaked, DecodeGraphAlive,
                          LocalsLive, BuildOnlyOnce, HeldAt, Nothing, Names, Real, Held
<1>4. owned' = Objects
  BY <1>0, <1>1 DEF OwnedByStage, OwnedAt, Objects, Ended
<1>5. TypeOK'
  BY <1>0, <1>1, <1>3, <1>4 DEF TypeOK, GraphInv
<1>6. OwnedByStage' /\ PassesWhenReady' /\ ModelParsed' /\ TensorsMapped'
  BY <1>0, <1>1, <1>2, <1>4 DEF OwnedByStage, OwnedAt, PassesWhenReady, Fresh, ModelParsed,
                                TensorsMapped, Mapped, Mapping, Ended, Loading, Leaving
<1> QED
  BY <1>3, <1>5, <1>6 DEF StartInv

LEMMA DriveKeepsInv ==
    ASSUME StartInv, Drive
    PROVE  StartInv'
<1>0. TypeOK /\ GraphInv /\ OwnedByStage /\ PassesWhenReady /\ ModelParsed /\ TensorsMapped
  BY DEF StartInv
<1>1. /\ stage = "ready" /\ GraphCall
      /\ UNCHANGED <<stage, exitCode, disk, replaced, header, model, mapped, next, placed, owned>>
  BY DEF Drive, startvars
<1>2. GraphInv'
  BY <1>0, <1>1, GraphNextKeepsInv DEF GraphNext
<1>3. pc' # "dropped"
  BY <1>1 DEF GraphCall, Begin, Allocate, After, Names, AllocationFails, TensorsFound, TensorMissing,
              Overflow, Plan, PlanFails, ForwardReturns, BuildReturns, Return
<1>4. TypeOK'
  BY <1>0, <1>1, <1>2 DEF TypeOK, GraphInv
<1>5. OwnedByStage' /\ PassesWhenReady' /\ ModelParsed' /\ TensorsMapped'
  BY <1>0, <1>1, <1>3 DEF OwnedByStage, PassesWhenReady, ModelParsed,
                          TensorsMapped, Mapped, Mapping, Ended, Loading, Leaving
<1> QED
  BY <1>2, <1>4, <1>5 DEF StartInv

LEMMA DropGraphKeepsInv ==
    ASSUME StartInv, DropGraph
    PROVE  StartInv'
<1>0. TypeOK /\ GraphInv /\ OwnedByStage /\ PassesWhenReady /\ ModelParsed /\ TensorsMapped
  BY DEF StartInv
<1>1. /\ stage = "ready" /\ stage' = "drop_kv" /\ Drop /\ owned' = owned \ {"backend"}
      /\ UNCHANGED <<exitCode, disk, replaced, header, model, mapped, next, placed>>
  BY DEF DropGraph, Release
<1>2. GraphInv' /\ pc' = "dropped"
  BY <1>0, <1>1, GraphNextKeepsInv DEF GraphNext, Drop
<1>3. owned' = OwnedAt(stage') /\ owned' \subseteq Objects
  BY <1>0, <1>1 DEF OwnedByStage, OwnedAt, Ended
<1>4. TypeOK'
  BY <1>0, <1>1, <1>2, <1>3 DEF TypeOK, GraphInv, Leaving
<1>5. OwnedByStage' /\ PassesWhenReady' /\ ModelParsed' /\ TensorsMapped'
  BY <1>0, <1>1, <1>2, <1>3 DEF OwnedByStage, PassesWhenReady, ModelParsed,
                                TensorsMapped, Mapped, Mapping, Ended, Loading, Leaving
<1> QED
  BY <1>2, <1>4, <1>5 DEF StartInv

LEMMA StartNextKeepsInv == StartInv /\ [Next]_vars => StartInv'
<1> SUFFICES ASSUME StartInv, [Next]_vars PROVE StartInv'
  OBVIOUS
<1>1. CASE UNCHANGED vars
  <2>1. UNCHANGED graphvars /\ UNCHANGED startvars /\ UNCHANGED pc
    BY <1>1 DEF vars, graphvars
  <2>2. GraphInv'
    BY <2>1, GraphNextKeepsInv DEF StartInv
  <2>3. TypeOK' /\ OwnedByStage' /\ ModelParsed' /\ TensorsMapped'
    BY <2>1, <2>2 DEF StartInv, startvars, TypeOK, GraphInv, OwnedByStage, ModelParsed,
                      TensorsMapped, Mapped, Mapping
  <2>4. PassesWhenReady'
    BY <2>1 DEF StartInv, startvars, graphvars, PassesWhenReady, Fresh
  <2> QED
    BY <2>2, <2>3, <2>4 DEF StartInv
<1> QED
  BY <1>1, LoadKeepsInv, NewKVCacheKeepsInv, DriveKeepsInv, DropGraphKeepsInv DEF Next, Terminated

THEOREM StartInvHolds == Spec => []StartInv
<1> QED
  BY StartInitEstablishesInv, StartNextKeepsInv, PTL DEF Spec

\* Types of the whole run: a built decode graph has all four of its objects,
\* and every placed tensor a descriptor and an address.
THEOREM StartupTypes == Spec => []TypeOK
<1>1. StartInv => TypeOK
  BY DEF StartInv
<1> QED
  BY <1>1, StartInvHolds, PTL

\* No early return and no drop frees what is not allocated (graph.rs:271-736, 763).
THEOREM StartupNoBadFree == Spec => []NoBadFree
<1>1. StartInv => NoBadFree
  BY DEF StartInv, GraphInv
<1> QED
  BY <1>1, StartInvHolds, PTL

\* With a complete model every path of a pass frees all it has allocated.
THEOREM StartupNothingLeaked == Spec => []NothingLeaked
<1>1. StartInv => NothingLeaked
  BY DEF StartInv, GraphInv
<1> QED
  BY <1>1, StartInvHolds, PTL

\* The persistent graph is live for as long as execute_decode may run it.
THEOREM StartupDecodeGraphAlive == Spec => []DecodeGraphAlive
<1>1. StartInv => DecodeGraphAlive
  BY DEF StartInv, GraphInv
<1> QED
  BY <1>1, StartInvHolds, PTL

\* The tensor data begins at the first multiple of the alignment behind the
\* header, for every header that parses.
THEOREM StartupDataBehindHeader == Spec => []DataBehindHeader
<1>1. StartInv => DataBehindHeader
  <2> SUFFICES ASSUME StartInv, model # NoFile
               PROVE  /\ DataOffset(model) - HeaderEnd(model) \in 0 .. Alignment(model) - 1
                      /\ DataOffset(model) % Alignment(model) = 0
    BY DEF DataBehindHeader
  <2>1. model \in Files /\ Parses(model) /\ Alignment(model) # 0
    BY DEF StartInv, ModelParsed
  <2>2. HeaderEnd(model) \in Nat /\ Alignment(model) \in Nat \ {0}
    BY <2>1, HeaderEndNat, U32Nat DEF Alignment
  <2>3. /\ DataOffset(model) \in Nat
        /\ DataOffset(model) % Alignment(model) = 0
        /\ HeaderEnd(model) <= DataOffset(model)
        /\ DataOffset(model) < HeaderEnd(model) + Alignment(model)
    BY <2>2, RoundUpLeast DEF DataOffset
  <2> QED
    BY <2>2, <2>3
<1> QED
  BY <1>1, StartInvHolds, PTL

\* What a pass reads exists, and every tensor it may look up begins in the
\* mapping and, unless its size wraps, ends there: the check of loader.rs:90
\* and the assertions of ggml_backend_tensor_alloc together, for every file.
THEOREM StartupPassesReadTheMapping == Spec => []PassesReadTheMapping
<1>1. StartInv => PassesReadTheMapping
  <2> SUFFICES ASSUME StartInv, pc \notin {"idle", "dropped"}
               PROVE  owned = Objects /\ \A t \in DOMAIN placed : Mapped(placed[t])
    BY DEF PassesReadTheMapping, Mapped
  <2>1. stage \in {"ready", "crashed"}
    BY DEF StartInv, TypeOK, PassesWhenReady, Fresh, Ended
  <2> QED
    BY <2>1 DEF StartInv, OwnedByStage, OwnedAt, TensorsMapped
<1> QED
  BY <1>1, StartInvHolds, PTL

\* The drops come in an order in which nothing loses what it stands on.
THEOREM StartupNothingOutlivesItsBase == Spec => []NothingOutlivesItsBase
<1>1. StartInv => NothingOutlivesItsBase
  <2> SUFFICES ASSUME StartInv, stage \notin Ended
               PROVE  /\ built /\ pc # "dropped" => owned = Objects
                      /\ "kv_buf" \in owned => "weight_buf" \in owned
                      /\ "model_ctx" \in owned => "weight_buf" \in owned
                      /\ "weight_buf" \in owned => "mapping" \in owned
    BY DEF NothingOutlivesItsBase
  <2>1. owned = OwnedAt(stage) /\ stage \in Loading \cup {"ready"} \cup Leaving
    BY DEF StartInv, OwnedByStage, TypeOK
  <2>2. built /\ pc # "dropped" => stage = "ready"
    BY <2>1 DEF StartInv, PassesWhenReady, Fresh
  <2> QED
    BY <2>1, <2>2 DEF OwnedAt, Objects
<1> QED
  BY <1>1, StartInvHolds, PTL

\* A program that exits with 0 has given everything back.
THEOREM StartupCleanExit == Spec => []CleanExit
<1>1. StartInv => CleanExit
  BY DEF StartInv, OwnedByStage, GraphInv, NothingLeaked, CleanExit
<1> QED
  BY <1>1, StartInvHolds, PTL

\* The buffers laid out by hand are sound for the geometry of every model and
\* every context length.
THEOREM StartupBuffersSound == Spec => []BuffersSound
<1>1. StartInv => BuffersSound
  <2> SUFFICES ASSUME StartInv, stage = "kv", Hparam("attention.head_count") # 0
               PROVE  /\ KVCellsSound(KVGeometry)
                      /\ \A n \in 1 .. NCtx : InputsSound(n)
                      /\ DecodeInputsSound(NCtx)
    BY DEF BuffersSound
  <2>1. model \in Files
    BY DEF StartInv, ModelParsed, Ended
  <2>2. /\ Hparam("block_count") \in Nat /\ Hparam("attention.head_count_kv") \in Nat
        /\ Hparam("embedding_length") \in Nat /\ Hparam("attention.head_count") \in Nat \ {0}
    BY <2>1, U32Nat DEF Hparam
  <2>3. Hparam("embedding_length") \div Hparam("attention.head_count") \in Nat
    BY <2>2
  <2>4. KVGeometry \in Geometry
    BY <2>2, <2>3, RowsAssumption DEF KVGeometry, Geometry
  <2>5. \A n \in 1 .. NCtx : n \in Nat
    BY RowsAssumption
  <2> QED
    BY <2>4, <2>5, RowsAssumption, KVCellsSoundHolds, InputsSoundHolds, DecodeInputsSoundHolds
<1> QED
  BY <1>1, StartInvHolds, PTL
=============================================================================
