------------------------- MODULE Generation_proofs -------------------------
(***************************************************************************)
(* Proofs about ForwardPass and about the loop that drives it, for every   *)
(* vocabulary, cache size and set of prompts.                              *)
(*                                                                         *)
(* ForwardPass: its state is well typed, the rows below head are the rows  *)
(* written since the last reset, no attention reads any other row, and the *)
(* cache implements the log of ContextLog.                                 *)
(*                                                                         *)
(* Generation: facts that hold under every driver. A step of the loop      *)
(* keeps its types and its control invariant, is a step ForwardPass allows *)
(* and keeps what was shown and what is looked back on in step with the    *)
(* cache, and each brings the call nearer to its return. Chat_proofs and   *)
(* Oneshot_proofs build on them.                                           *)
(***************************************************************************)
EXTENDS Generation, SequenceTheorems, WellFoundedInduction, TLAPS

USE TokenAssumption, NCtxAssumption

\* The rows below head hold tokens: what Tokens(cache, head) needs to be a
\* sequence over Token.
RowsHoldTokens == \A r \in 0..(head - 1) : cache[r].tok \in Token

FPInv == FPTypeOK /\ HeadCoversLive /\ NoStaleRead /\ RowsHoldTokens

\* Rows below a head are rows, and the sequence counts them from one.
LEMMA BelowHead ==
    ASSUME NEW h \in 0..NCtx
    PROVE  /\ h \in Nat
           /\ 0..(h - 1) \subseteq Rows
           /\ \A i \in 1..h : i - 1 \in 0..(h - 1)
<1>1. h \in Nat /\ NCtx \in Nat /\ h <= NCtx
  OBVIOUS
<1>2. ASSUME NEW r \in 0..(h - 1) PROVE r \in 0..(NCtx - 1)
  BY <1>1
<1>3. ASSUME NEW i \in 1..h PROVE i - 1 \in 0..(h - 1)
  BY <1>1
<1> QED
  BY <1>1, <1>2, <1>3 DEF Rows
-----------------------------------------------------------------------------
(* Tokens *)

LEMMA IntervalLength ==
    ASSUME NEW m \in Nat, NEW n \in Nat, 1..m = 1..n
    PROVE  m = n
<1>1. ASSUME m < n PROVE FALSE
  <2>1. n \in 1..n /\ n \notin 1..m
    BY <1>1
  <2> QED
    BY <2>1
<1>2. ASSUME n < m PROVE FALSE
  <2>1. m \in 1..m /\ m \notin 1..n
    BY <1>2
  <2> QED
    BY <2>1
<1> QED
  BY <1>1, <1>2

\* The first n rows of a cache, read as a sequence.
LEMMA TokensLen ==
    ASSUME NEW c, NEW n \in Nat
    PROVE  /\ Len(Tokens(c, n)) = n
           /\ \A i \in 1..n : Tokens(c, n)[i] = c[i-1].tok
<1> DEFINE S == {c[i-1].tok : i \in 1..n}
<1>1. Tokens(c, n) \in [1..n -> S]
  BY DEF Tokens
<1>2. Tokens(c, n) \in Seq(S)
  BY <1>1, SeqDef
<1>3. \A i \in 1..n : Tokens(c, n)[i] = c[i-1].tok
  BY DEF Tokens
<1>4. Len(Tokens(c, n)) \in Nat /\ DOMAIN Tokens(c, n) = 1..Len(Tokens(c, n))
  BY <1>2, LenProperties
<1>5. DOMAIN Tokens(c, n) = 1..n
  BY DEF Tokens
<1>6. Len(Tokens(c, n)) = n
  BY <1>4, <1>5, IntervalLength
<1> QED
  BY <1>3, <1>6

LEMMA TokensIsSeq ==
    ASSUME NEW S, NEW c, NEW n \in Nat, \A i \in 1..n : c[i-1].tok \in S
    PROVE  Tokens(c, n) \in Seq(S)
<1>1. Tokens(c, n) \in [1..n -> S]
  BY DEF Tokens
<1> QED
  BY <1>1, SeqDef

\* The log after a pass extends the log before it when the rows below head
\* are left alone and head has moved up.
LEMMA TokensExtend ==
    ASSUME NEW c, NEW d, NEW m \in Nat, NEW n \in Nat, m < n,
           \A i \in 1..m : d[i-1] = c[i-1]
    PROVE  Log!IsExtension(Tokens(d, n), Tokens(c, m))
<1>1. Len(Tokens(c, m)) = m /\ Len(Tokens(d, n)) = n
  BY TokensLen
<1>2. ASSUME NEW i \in 1..m
      PROVE  Tokens(d, n)[i] = Tokens(c, m)[i]
  <2>1. i \in 1..n
    OBVIOUS
  <2>2. Tokens(d, n)[i] = d[i-1].tok /\ Tokens(c, m)[i] = c[i-1].tok
    BY <2>1 DEF Tokens
  <2> QED
    BY <2>2
<1> QED
  BY <1>1, <1>2 DEF Log!IsExtension
-----------------------------------------------------------------------------
(* The rows a pass leaves *)

\* A prefill of ids leaves the rows below head alone and puts ids behind them.
LEMMA PrefillRowsLemma ==
    ASSUME FPTypeOK, NEW ids \in Seq(Token), ids # <<>>, head + Len(ids) <= NCtx
    PROVE  LET c == PrefillWrites(ids) IN
           /\ Len(ids) \in Nat \ {0}
           /\ c \in [Rows -> Cell]
           /\ \A r \in 0..(head - 1) : c[r] = cache[r]
           /\ \A r \in PrefillRows(Len(ids)) : c[r].tok \in Token
<1> DEFINE n == Len(ids)
           c == PrefillWrites(ids)
<1>1. n \in Nat \ {0}
  BY EmptySeq
<1>2. head \in 0..NCtx /\ cache \in [Rows -> Cell]
  BY DEF FPTypeOK
<1>3. PrefillRows(n) \subseteq Rows
  BY <1>1, <1>2 DEF PrefillRows, Rows
<1>4. ASSUME NEW r \in PrefillRows(n)
      PROVE  ids[r - head + 1] \in Token /\ r - head \in Rows
  <2>1. r - head + 1 \in 1..n
    BY <1>1, <1>2 DEF PrefillRows
  <2>2. ids[r - head + 1] \in Token
    BY <2>1, ElementOfSeq
  <2>3. r \in head..(head + n - 1) /\ head \in 0..NCtx /\ head + n <= NCtx
    BY <1>2 DEF PrefillRows
  <2>4. r - head \in Rows
    BY <2>3, <1>1 DEF Rows
  <2> QED
    BY <2>2, <2>4
<1>5. \A r \in Rows : c[r] = IF r \in PrefillRows(n)
                             THEN [tok |-> ids[r - head + 1], pos |-> r - head]
                             ELSE cache[r]
  BY DEF PrefillWrites
<1>6. ASSUME NEW r \in Rows PROVE c[r] \in Cell
  <2>1. CASE r \in PrefillRows(n)
    <3>1. c[r] = [tok |-> ids[r - head + 1], pos |-> r - head]
      BY <2>1, <1>5
    <3>2. ids[r - head + 1] \in Token \cup {NoToken} /\ r - head \in Rows
      BY <2>1, <1>4
    <3> HIDE DEF c
    <3> QED
      BY <3>1, <3>2 DEF Cell
  <2>2. CASE r \notin PrefillRows(n)
    BY <2>2, <1>2, <1>5
  <2> QED
    BY <2>1, <2>2
<1>7. c \in [Rows -> Cell]
  BY <1>6 DEF PrefillWrites
<1>8. \A r \in 0..(head - 1) : r \in Rows /\ r \notin PrefillRows(n)
  BY <1>1, <1>2 DEF Rows, PrefillRows
<1> QED
  BY <1>1, <1>3, <1>4, <1>5, <1>7, <1>8

-----------------------------------------------------------------------------
(* The invariant *)

\* One successful prefill keeps the invariant.
LEMMA PrefillKeepsInv ==
    ASSUME FPInv, NEW ids \in Seq(Token), Prefill(ids)
    PROVE  FPInv'
<1> DEFINE n == Len(ids)
<1>1. /\ ids # <<>>
      /\ head + n <= NCtx
      /\ cache' = PrefillWrites(ids)
      /\ head' = head + n
      /\ live' = live \cup PrefillRows(n)
      /\ reads' = PrefillReads(n)
      /\ basis' = Tokens(cache', head + n)
      /\ result' = "ok"
      /\ decodeBuilt' = decodeBuilt
  BY DEF Prefill
<1>2. FPTypeOK /\ HeadCoversLive /\ RowsHoldTokens /\ head \in 0..NCtx
  BY DEF FPInv, FPTypeOK
<1>3. /\ n \in Nat \ {0}
      /\ cache' \in [Rows -> Cell]
      /\ \A r \in 0..(head - 1) : cache'[r] = cache[r]
      /\ \A r \in PrefillRows(n) : cache'[r].tok \in Token
  BY <1>1, <1>2, PrefillRowsLemma
<1>4. head' \in 0..NCtx
  BY <1>1, <1>2, <1>3
<1>5. live' = 0..(head' - 1)
  <2>1. 0..(head + n - 1) = (0..(head - 1)) \cup (head..(head + n - 1))
    BY <1>2, <1>3
  <2> QED
    BY <2>1, <1>1, <1>2 DEF HeadCoversLive, PrefillRows
<1>6. 0..(head' - 1) \subseteq Rows
  BY <1>4, BelowHead
<1>7. reads' \subseteq live' \X live'
  BY <1>1, <1>2, <1>3, <1>5 DEF PrefillReads, PrefillRows
<1>8. RowsHoldTokens'
  <2>1. ASSUME NEW r \in 0..(head' - 1) PROVE cache'[r].tok \in Token
    <3>1. CASE r \in 0..(head - 1)
      BY <3>1, <1>2, <1>3 DEF RowsHoldTokens
    <3>2. CASE r \in PrefillRows(n)
      BY <3>2, <1>3
    <3> QED
      BY <3>1, <3>2, <1>1, <1>2, <1>3 DEF PrefillRows
  <2> QED
    BY <2>1 DEF RowsHoldTokens
<1>9. basis' \in Seq(Token \cup {NoToken})
  <2>1. \A i \in 1..head' : i - 1 \in 0..(head' - 1)
    BY <1>4, BelowHead
  <2>2. \A i \in 1..head' : cache'[i-1].tok \in Token \cup {NoToken}
    BY <2>1, <1>8 DEF RowsHoldTokens
  <2>3. head' \in Nat
    BY <1>4
  <2> QED
    BY <2>2, <2>3, <1>1, TokensIsSeq
<1>10. FPTypeOK'
  BY <1>1, <1>2, <1>3, <1>4, <1>5, <1>6, <1>7, <1>9 DEF FPTypeOK
<1>11. NoStaleRead'
  BY <1>7 DEF NoStaleRead
<1> QED
  BY <1>5, <1>8, <1>10, <1>11 DEF FPInv, HeadCoversLive

\* One successful decode on a cache that is not empty keeps the invariant.
LEMMA DecodeKeepsInv ==
    ASSUME FPInv, NEW t \in Token, head > 0, Decode(t)
    PROVE  FPInv'
<1>1. /\ head < NCtx
      /\ cache' = [cache EXCEPT ![head] = [tok |-> t, pos |-> head]]
      /\ head' = head + 1
      /\ decodeBuilt' = TRUE
      /\ live' = live \cup {head}
      /\ reads' = {head} \X (0..(head - 1))
      /\ basis' = Append(Tokens(cache, head), t)
      /\ result' = "ok"
  BY DEF Decode, DecodeSpan, FPInv, FPTypeOK
<1>2. FPTypeOK /\ HeadCoversLive /\ RowsHoldTokens /\ head \in 0..NCtx
  BY DEF FPInv, FPTypeOK
<1>3. head \in Rows /\ head' \in 1..NCtx
  BY <1>1, <1>2 DEF Rows
<1>4. /\ cache' \in [Rows -> Cell]
      /\ cache'[head].tok = t
      /\ \A r \in 0..(head - 1) : cache'[r] = cache[r]
  <2>1. [tok |-> t, pos |-> head] \in Cell
    BY <1>3 DEF Cell
  <2>2. \A r \in 0..(head - 1) : r \in Rows /\ r # head
    BY <1>2 DEF Rows
  <2> QED
    BY <2>1, <2>2, <1>1, <1>2, <1>3 DEF FPTypeOK
<1>5. live' = 0..(head' - 1)
  <2>1. 0..head = (0..(head - 1)) \cup {head}
    BY <1>2
  <2> QED
    BY <2>1, <1>1, <1>2 DEF HeadCoversLive
<1>6. head' \in 0..NCtx /\ 0..(head' - 1) \subseteq Rows
  <2>1. head' \in 0..NCtx
    BY <1>3
  <2> QED
    BY <2>1, BelowHead
<1>7. reads' \subseteq live' \X live'
  BY <1>1, <1>2, <1>5
<1>8. RowsHoldTokens'
  <2>1. ASSUME NEW r \in 0..(head' - 1) PROVE cache'[r].tok \in Token
    <3>1. CASE r \in 0..(head - 1)
      BY <3>1, <1>2, <1>4 DEF RowsHoldTokens
    <3>2. CASE r = head
      BY <3>2, <1>4
    <3> QED
      BY <3>1, <3>2, <1>1, <1>2
  <2> QED
    BY <2>1 DEF RowsHoldTokens
<1>9. basis' \in Seq(Token \cup {NoToken})
  <2>1. \A i \in 1..head : i - 1 \in 0..(head - 1)
    BY <1>2
  <2>2. \A i \in 1..head : cache[i-1].tok \in Token \cup {NoToken}
    BY <2>1, <1>2 DEF RowsHoldTokens
  <2>3. Tokens(cache, head) \in Seq(Token \cup {NoToken})
    BY <2>2, <1>2, TokensIsSeq
  <2> QED
    BY <2>3, <1>1, AppendProperties
<1>10. FPTypeOK'
  BY <1>1, <1>2, <1>3, <1>4, <1>5, <1>6, <1>7, <1>9 DEF FPTypeOK
<1>11. NoStaleRead'
  BY <1>7 DEF NoStaleRead
<1> QED
  BY <1>5, <1>8, <1>10, <1>11 DEF FPInv, HeadCoversLive

LEMMA InitEstablishesInv == FPInit => FPInv
<1> SUFFICES ASSUME FPInit PROVE FPInv
  OBVIOUS
<1>1. [tok |-> NoToken, pos |-> 0] \in Cell
  BY DEF Cell, Rows
<1>2. cache \in [Rows -> Cell]
  BY <1>1 DEF FPInit
<1>3. basis \in Seq(Token \cup {NoToken})
  BY EmptySeq DEF FPInit
<1>4. head \in 0..NCtx /\ head = 0 /\ 0..(head - 1) = {}
  BY DEF FPInit
<1> QED
  BY <1>2, <1>3, <1>4
     DEF FPInit, FPInv, FPTypeOK, HeadCoversLive, NoStaleRead, RowsHoldTokens

LEMMA NextKeepsInv == FPInv /\ [FPNext]_fpvars => FPInv'
<1> SUFFICES ASSUME FPInv, [FPNext]_fpvars PROVE FPInv'
  OBVIOUS
<1> USE DEF FPInv, FPTypeOK, HeadCoversLive, NoStaleRead, RowsHoldTokens
<1>1. ASSUME NEW ids \in Prompts, Prefill(ids) PROVE FPInv'
  BY <1>1, PromptsAssumption, PrefillKeepsInv
<1>2. CASE PrefillFails
  BY <1>2 DEF PrefillFails
<1>3. ASSUME NEW t \in Token, head > 0, Decode(t) PROVE FPInv'
  BY <1>3, DecodeKeepsInv
<1>4. CASE DecodeFails
  BY <1>4 DEF DecodeFails
<1>5. CASE ResetKV
  <2>1. head' = 0 /\ 0..(head' - 1) = {} /\ head' \in 0..NCtx
    BY <1>5 DEF ResetKV
  <2> QED
    BY <2>1, <1>5 DEF ResetKV
<1>6. CASE UNCHANGED fpvars
  BY <1>6 DEF fpvars
<1> QED
  BY <1>1, <1>2, <1>3, <1>4, <1>5, <1>6 DEF FPNext

\* Every behaviour of ForwardPass keeps the invariant.
THEOREM InvHolds == FPSpec => []FPInv
<1> QED
  BY InitEstablishesInv, NextKeepsInv, PTL DEF FPSpec

\* The state of graph.rs stays well typed: kv.head never leaves 0 .. n_ctx,
\* every row holds a token (or the initial zeros) at a position below n_ctx.
THEOREM ForwardPassTypes == FPSpec => []FPTypeOK
<1>1. FPInv => FPTypeOK
  BY DEF FPInv
<1> QED
  BY <1>1, InvHolds, PTL

\* The rows below kv.head are the ones written since the last reset_kv.
THEOREM HeadCoversLiveHolds == FPSpec => []HeadCoversLive
<1>1. FPInv => HeadCoversLive
  BY DEF FPInv
<1> QED
  BY <1>1, InvHolds, PTL

\* No attention reads a row of an earlier conversation, or one never written.
THEOREM NoStaleReadHolds == FPSpec => []NoStaleRead
<1>1. FPInv => NoStaleRead
  BY DEF FPInv
<1> QED
  BY <1>1, InvHolds, PTL
-----------------------------------------------------------------------------
(* ForwardPass implements ContextLog *)

LEMMA PrefillExtends ==
    ASSUME FPInv, NEW ids \in Seq(Token), Prefill(ids)
    PROVE  Log!Extend
<1>1. FPInv'
  BY PrefillKeepsInv
<1>2. head' = head + Len(ids) /\ basis' = Tokens(cache, head)'
  BY DEF Prefill
<1>3. /\ Len(ids) \in Nat \ {0}
      /\ \A r \in 0..(head - 1) : cache'[r] = cache[r]
  BY PrefillRowsLemma DEF Prefill, FPInv
<1>4. head \in 0..NCtx /\ head' \in 0..NCtx
  BY <1>1 DEF FPInv, FPTypeOK
<1>5. head \in Nat /\ head' \in Nat /\ head < head' /\ head' <= NCtx
  BY <1>2, <1>3, <1>4
<1>6. /\ \A i \in 1..head : i - 1 \in 0..(head - 1)
      /\ \A i \in 1..head' : i - 1 \in 0..(head' - 1)
  BY <1>4, BelowHead
<1>7. Log!IsExtension(Tokens(cache', head'), Tokens(cache, head))
  BY <1>3, <1>5, <1>6, TokensExtend
<1>8. \A i \in 1..head' : cache'[i-1].tok \in Token
  BY <1>1, <1>6 DEF FPInv, RowsHoldTokens
<1>9. Tokens(cache', head') \in Seq(Token) /\ Len(Tokens(cache', head')) = head'
  BY <1>5, <1>8, TokensIsSeq, TokensLen
<1> QED
  BY <1>2, <1>5, <1>7, <1>9 DEF Log!Extend

LEMMA DecodeExtends ==
    ASSUME FPInv, NEW t \in Token, head > 0, Decode(t)
    PROVE  Log!Extend
<1>1. FPInv'
  BY DecodeKeepsInv
<1>2. /\ head' = head + 1
      /\ head < NCtx
      /\ cache' = [cache EXCEPT ![head] = [tok |-> t, pos |-> head]]
      /\ basis' = Append(Tokens(cache, head), t)
  BY DEF Decode, DecodeSpan, FPInv, FPTypeOK
<1>3. head \in 0..NCtx /\ head' \in 0..NCtx /\ cache \in [Rows -> Cell]
  BY <1>1 DEF FPInv, FPTypeOK
<1>4. head \in Nat /\ head' \in Nat /\ head < head' /\ head' <= NCtx /\ head \in Rows
  BY <1>2, <1>3 DEF Rows
<1>5. /\ \A i \in 1..head : i - 1 \in 0..(head - 1) /\ i - 1 \in Rows /\ i - 1 # head
      /\ \A i \in 1..head' : i - 1 \in 0..(head' - 1)
  <2>1. \A i \in 1..head : i - 1 # head
    BY <1>4
  <2> QED
    BY <2>1, <1>3, BelowHead
<1>6. /\ cache'[head].tok = t
      /\ \A i \in 1..head : cache'[i-1] = cache[i-1]
  BY <1>2, <1>3, <1>4, <1>5
<1>7. Log!IsExtension(Tokens(cache', head'), Tokens(cache, head))
  BY <1>4, <1>6, TokensExtend
<1>8. \A i \in 1..head' : cache'[i-1].tok \in Token
  BY <1>1, <1>5 DEF FPInv, RowsHoldTokens
<1>9. /\ Tokens(cache', head') \in Seq(Token)
      /\ Len(Tokens(cache', head')) = head'
      /\ \A i \in 1..head' : Tokens(cache', head')[i] = cache'[i-1].tok
  BY <1>4, <1>8, TokensIsSeq, TokensLen
<1>10. basis' = Tokens(cache', head')
  <2>1. \A i \in 1..head : cache[i-1].tok \in Token
    BY <1>5 DEF FPInv, RowsHoldTokens
  <2>2. /\ Tokens(cache, head) \in Seq(Token)
        /\ Len(Tokens(cache, head)) = head
        /\ \A i \in 1..head : Tokens(cache, head)[i] = cache[i-1].tok
    BY <2>1, <1>4, TokensIsSeq, TokensLen
  <2>3. /\ basis' \in Seq(Token)
        /\ Len(basis') = head + 1
        /\ \A i \in 1..head : basis'[i] = Tokens(cache, head)[i]
        /\ basis'[head + 1] = t
    BY <2>2, <1>2, AppendProperties
  <2>4. ASSUME NEW i \in 1..Len(basis') PROVE basis'[i] = Tokens(cache', head')[i]
    <3>1. CASE i \in 1..head
      <4>1. i \in 1..head'  BY <3>1, <1>2, <1>4
      <4>2. basis'[i] = cache[i-1].tok  BY <3>1, <2>2, <2>3
      <4>3. Tokens(cache', head')[i] = cache'[i-1].tok  BY <4>1, <1>9
      <4>4. cache'[i-1] = cache[i-1]  BY <3>1, <1>6
      <4> QED  BY <4>2, <4>3, <4>4
    <3>2. CASE i = head + 1
      <4>1. i - 1 = head /\ i \in 1..head'
        BY <3>2, <1>2, <1>4
      <4> QED
        BY <4>1, <3>2, <2>3, <1>6, <1>9
    <3> QED
      BY <3>1, <3>2, <2>3, <1>4
  <2> QED
    BY <2>3, <2>4, <1>2, <1>9, SeqEqual
<1> QED
  BY <1>4, <1>7, <1>9, <1>10 DEF Log!Extend

\* The log after a pass, as a sequence.
LEMMA PrefillLog ==
    ASSUME FPInv, NEW ids \in Seq(Token), Prefill(ids)
    PROVE  Tokens(cache', head') = Tokens(cache, head) \o ids
<1> DEFINE t == Tokens(cache, head)
           u == Tokens(cache', head')
           n == Len(ids)
<1>1. /\ ids # <<>> /\ head + n <= NCtx
      /\ cache' = PrefillWrites(ids) /\ head' = head + n
  BY DEF Prefill
<1>2. /\ n \in Nat \ {0}
      /\ \A r \in 0..(head - 1) : cache'[r] = cache[r]
  BY <1>1, PrefillRowsLemma DEF FPInv
<1>3. FPInv'
  BY PrefillKeepsInv
<1>4. head \in 0..NCtx /\ head' \in 0..NCtx /\ head \in Nat /\ head' \in Nat
  BY <1>3 DEF FPInv, FPTypeOK
<1>5. /\ \A i \in 1..head : cache[i-1].tok \in Token
      /\ \A i \in 1..head' : cache'[i-1].tok \in Token
  BY <1>3, <1>4, BelowHead DEF FPInv, RowsHoldTokens
<1>6. /\ t \in Seq(Token) /\ Len(t) = head /\ \A i \in 1..head : t[i] = cache[i-1].tok
      /\ u \in Seq(Token) /\ Len(u) = head' /\ \A i \in 1..head' : u[i] = cache'[i-1].tok
  BY <1>4, <1>5, TokensIsSeq, TokensLen
<1> HIDE DEF t, u, n
<1>7. /\ t \o ids \in Seq(Token) /\ Len(t \o ids) = head + n
      /\ \A i \in 1..(head + n) : (t \o ids)[i] = IF i <= head THEN t[i] ELSE ids[i - head]
  BY <1>6, ConcatProperties DEF n
<1>8. ASSUME NEW i \in 1..(head + n) PROVE u[i] = (t \o ids)[i]
  <2>1. CASE i <= head
    <3>1. i \in 1..head /\ i \in 1..head' /\ i - 1 \in 0..(head - 1)
      BY <2>1, <1>1, <1>2, <1>4
    <3> QED
      BY <2>1, <3>1, <1>2, <1>6, <1>7
  <2>2. CASE ~ (i <= head)
    <3>1. /\ i - 1 \in Rows /\ i - 1 \in PrefillRows(n) /\ i \in 1..head'
          /\ (i - 1) - head + 1 = i - head
      BY <2>2, <1>1, <1>2, <1>4 DEF Rows, PrefillRows
    <3>2. cache'[i-1].tok = ids[(i - 1) - head + 1]
      BY <3>1, <1>1 DEF PrefillWrites, n
    <3> QED
      BY <2>2, <3>1, <3>2, <1>6, <1>7
  <2> QED
    BY <2>1, <2>2
<1> QED
  BY <1>1, <1>6, <1>7, <1>8, SeqEqual DEF t, u

LEMMA DecodeLog ==
    ASSUME FPInv, NEW t \in Token, head > 0, Decode(t)
    PROVE  Tokens(cache', head') = Append(Tokens(cache, head), t)
<1>1. basis' = Tokens(cache', head')
  BY DecodeExtends DEF Log!Extend
<1>2. basis' = Append(Tokens(cache, head), t)
  BY DEF Decode, DecodeSpan, FPInv, FPTypeOK
<1> QED
  BY <1>1, <1>2

LEMMA NextImplements == FPInv /\ [FPNext]_fpvars => [Log!CLNext]_(Log!clvars)
<1> SUFFICES ASSUME FPInv, [FPNext]_fpvars PROVE Log!CLNext \/ UNCHANGED Log!clvars
  OBVIOUS
<1>1. ASSUME NEW ids \in Prompts, Prefill(ids) PROVE Log!CLNext
  BY <1>1, PromptsAssumption, PrefillExtends DEF Log!CLNext
<1>2. ASSUME NEW t \in Token, head > 0, Decode(t) PROVE Log!CLNext
  BY <1>2, DecodeExtends DEF Log!CLNext
<1>3. CASE PrefillFails \/ DecodeFails \/ UNCHANGED fpvars
  BY <1>3 DEF PrefillFails, DecodeFails, fpvars, Log!clvars
<1>4. CASE ResetKV
  <2>1. head' = 0 /\ basis' = basis
    BY <1>4 DEF ResetKV
  <2>2. Tokens(cache', 0) = <<>>
    BY TokensLen, TokensIsSeq, EmptySeq
  <2> QED
    BY <2>1, <2>2 DEF Log!CLNext, Log!Clear
<1> QED
  BY <1>1, <1>2, <1>3, <1>4 DEF FPNext

\* The KV cache and its head implement the log of ContextLog: the context only
\* ever grows at its end or is forgotten as a whole, and the logits of every
\* pass are computed from all of it.
THEOREM ForwardPassImplementsContextLog == FPSpec => ImplementsContextLog
<1>1. FPInit => Log!CLInit
  <2> SUFFICES ASSUME FPInit PROVE Log!CLInit
    OBVIOUS
  <2>1. Tokens(cache, 0) = <<>>
    BY TokensLen, TokensIsSeq, EmptySeq
  <2> QED
    BY <2>1 DEF FPInit, Log!CLInit
<1> QED
  BY <1>1, NextImplements, InvHolds, PTL DEF FPSpec, ImplementsContextLog, Log!CLSpec
-----------------------------------------------------------------------------
(* What is printed of a sequence, and the last of it *)

\* Induction over the naturals, with the set of those that have the property.
LEMMA SetInduction ==
    ASSUME NEW S, 0 \in S, \A n \in Nat : n \in S => n + 1 \in S
    PROVE  \A n \in Nat : n \in S
<1> DEFINE B == Nat \ S
<1> SUFFICES ASSUME B # {} PROVE FALSE
  OBVIOUS
<1>1. PICK b \in B : \A c \in B : ~ (<<c, b>> \in OpToRel(<, Nat))
  BY NatLessThanWellFounded, WFMin
<1>2. b \in Nat /\ b # 0 /\ b - 1 \in Nat /\ b - 1 < b /\ (b - 1) + 1 = b
  OBVIOUS
<1>3. b - 1 \notin B
  BY <1>1, <1>2 DEF OpToRel
<1> QED
  BY <1>2, <1>3

\* The recursive function in Printable, up to n.
Among(s, n, g) ==
    g = [i \in 0..n |-> IF i = 0 THEN <<>>
                        ELSE IF s[i] \in Silent THEN g[i-1] ELSE Append(g[i-1], s[i])]

LEMMA AmongExists ==
    ASSUME NEW s, NEW n \in Nat
    PROVE  \E g : Among(s, n, g)
<1> DEFINE S == {m \in Nat : \E g : Among(s, m, g)}
<1>1. 0 \in S
  <2> DEFINE g == [i \in 0..0 |-> <<>>]
  <2>1. Among(s, 0, g)
    BY DEF Among
  <2> QED
    BY <2>1
<1>2. ASSUME NEW m \in Nat, m \in S PROVE m + 1 \in S
  <2>1. PICK g : Among(s, m, g)
    BY <1>2
  <2> DEFINE h == [i \in 0..(m + 1) |->
                      IF i = 0 THEN <<>>
                      ELSE IF s[i] \in Silent THEN g[i-1] ELSE Append(g[i-1], s[i])]
  <2>2. \A i \in 0..m : h[i] = g[i]
    <3>1. \A i \in 0..m : i \in 0..(m + 1)
      OBVIOUS
    <3> QED
      BY <2>1, <3>1 DEF Among
  <2>3. \A i \in 0..(m + 1) : i # 0 => i - 1 \in 0..m
    OBVIOUS
  <2>4. Among(s, m + 1, h)
    BY <2>2, <2>3 DEF Among
  <2> QED
    BY <2>4
<1>3. \A m \in Nat : m \in S
  <2> HIDE DEF S
  <2> QED
    BY <1>1, <1>2, SetInduction
<1> QED
  BY <1>3

LEMMA PrintableAmong ==
    ASSUME NEW s, Len(s) \in Nat
    PROVE  \E g : Among(s, Len(s), g) /\ Printable(s) = g[Len(s)]
<1> DEFINE f == CHOOSE g : Among(s, Len(s), g)
<1>1. Among(s, Len(s), f)
  BY AmongExists
<1>2. Printable(s) = f[Len(s)]
  BY Zenon DEF Printable, Among
<1> QED
  BY <1>1, <1>2
LEMMA PrintableEmpty == Printable(<<>>) = <<>>
<1>1. Len(<<>>) = 0
  BY EmptySeq
<1>2. PICK g : Among(<<>>, 0, g) /\ Printable(<<>>) = g[0]
  BY <1>1, PrintableAmong
<1>3. g[0] = <<>>
  BY <1>2 DEF Among
<1> QED
  BY <1>2, <1>3

\* One element more is appended if it has a text.
LEMMA PrintableAppend ==
    ASSUME NEW T, NEW s \in Seq(T), NEW t \in T
    PROVE  Printable(Append(s, t)) = IF t \in Silent THEN Printable(s)
                                                     ELSE Append(Printable(s), t)
<1> DEFINE u == Append(s, t)
           k == Len(s)
<1>1. /\ k \in Nat /\ Len(u) = k + 1
      /\ u[k + 1] = t /\ \A i \in 1..k : u[i] = s[i]
  BY LenProperties, AppendProperties
<1> HIDE DEF u, k
<1>2. PICK g : Among(s, k, g) /\ Printable(s) = g[k]
  BY <1>1, PrintableAmong DEF k
<1>3. PICK h : Among(u, k + 1, h) /\ Printable(u) = h[k + 1]
  BY <1>1, PrintableAmong
<1>4. \A i \in 0..k : g[i] = IF i = 0 THEN <<>>
                             ELSE IF s[i] \in Silent THEN g[i-1] ELSE Append(g[i-1], s[i])
  BY <1>2 DEF Among
<1>5. \A i \in 0..(k + 1) : h[i] = IF i = 0 THEN <<>>
                             ELSE IF u[i] \in Silent THEN h[i-1] ELSE Append(h[i-1], u[i])
  BY <1>3 DEF Among
<1>6. \A n \in Nat : n \in {m \in Nat : m <= k => g[m] = h[m]}
  <2> DEFINE S == {m \in Nat : m <= k => g[m] = h[m]}
  <2>1. 0 \in S
    <3>1. 0 \in 0..k /\ 0 \in 0..(k + 1)
      BY <1>1
    <3> QED
      BY <3>1, <1>4, <1>5
  <2>2. ASSUME NEW m \in Nat, m \in S PROVE m + 1 \in S
    <3> SUFFICES ASSUME m + 1 <= k PROVE g[m + 1] = h[m + 1]
      OBVIOUS
    <3>1. /\ m + 1 \in 0..k /\ m + 1 \in 0..(k + 1) /\ m + 1 \in 1..k
          /\ m + 1 # 0 /\ (m + 1) - 1 = m /\ m <= k
      BY <1>1
    <3>2. g[m] = h[m] /\ u[m + 1] = s[m + 1]
      BY <3>1, <2>2, <1>1
    <3>3. g[m + 1] = IF s[m + 1] \in Silent THEN g[m] ELSE Append(g[m], s[m + 1])
      BY <3>1, <1>4
    <3>4. h[m + 1] = IF u[m + 1] \in Silent THEN h[m] ELSE Append(h[m], u[m + 1])
      BY <3>1, <1>5
    <3> QED
      BY <3>2, <3>3, <3>4
  <2> HIDE DEF S
  <2>3. \A n \in Nat : n \in S
    BY <2>1, <2>2, SetInduction
  <2> QED
    BY <2>3 DEF S
<1>7. g[k] = h[k]
  BY <1>1, <1>6
<1>8. h[k + 1] = IF u[k + 1] \in Silent THEN h[k] ELSE Append(h[k], u[k + 1])
  <2>1. k + 1 \in 0..(k + 1) /\ k + 1 # 0 /\ (k + 1) - 1 = k
    BY <1>1
  <2> QED
    BY <2>1, <1>5
<1> QED
  BY <1>1, <1>2, <1>3, <1>7, <1>8 DEF u

LEMMA LookBackEmpty == LookBack(<<>>) = <<>>
  BY EmptySeq, SubSeqEmpty, WindowAssumption DEF LookBack

\* Remember keeps the window a suffix of what was said.
LEMMA LookBackAppend ==
    ASSUME NEW T, NEW s \in Seq(T), NEW t \in T
    PROVE  LookBack(Append(s, t)) =
               LET r == Append(LookBack(s), t)
               IN  IF Len(r) > Window THEN Tail(r) ELSE r
<1> DEFINE u == Append(s, t)
           k == Len(s)
           l == LookBack(s)
           r == Append(l, t)
           a == IF k > Window THEN k - Window + 1 ELSE 1
           b == IF k + 1 > Window THEN k + 1 - Window + 1 ELSE 1
           v == SubSeq(u, b, k + 1)
<1>0. Window \in Nat \ {0} /\ k \in Nat
  BY WindowAssumption
<1>1. /\ u \in Seq(T) /\ Len(u) = k + 1
      /\ u[k + 1] = t /\ \A i \in 1..k : u[i] = s[i]
  BY AppendProperties
<1>2. a \in 1..(k + 1) /\ k - a + 1 \in Nat
  BY <1>0
<1>3. /\ l \in Seq(T)
      /\ Len(l) = k - a + 1
      /\ \A i \in 1..(k - a + 1) : l[i] = s[a + i - 1]
  <2>1. l = SubSeq(s, a, k)
    BY DEF LookBack
  <2>2. /\ SubSeq(s, a, k) \in Seq(T)
        /\ Len(SubSeq(s, a, k)) = IF a <= k THEN k - a + 1 ELSE 0
        /\ \A i \in 1..(k - a + 1) : SubSeq(s, a, k)[i] = s[a + i - 1]
    <3> HIDE DEF a
    <3>1. CASE a <= k
      <4>1. a \in 1..(k + 1) /\ k \in a - 1..k
        BY <1>0, <1>2, <3>1
      <4> QED
        BY <4>1, <1>0, SubSeqProperties
    <3>2. CASE a > k
      <4>1. SubSeq(s, a, k) = <<>> /\ a = k + 1
        BY <1>0, <1>2, <3>2, SubSeqEmpty
      <4> QED
        BY <4>1, <1>0, EmptySeq
    <3> QED
      BY <3>1, <3>2, <1>0, <1>2
  <2> HIDE DEF l, a
  <2> QED
    BY <2>1, <2>2, <1>0, <1>2
<1>4. /\ r \in Seq(T)
      /\ Len(r) = k - a + 2
      /\ r[k - a + 2] = t
      /\ \A i \in 1..(k - a + 1) : r[i] = s[a + i - 1]
  <2> HIDE DEF l, a
  <2> QED
    BY <1>2, <1>3, AppendProperties
<1>5. \A i \in 1..(k - a + 2) : r[i] = u[a + i - 1]
  <2> TAKE i \in 1..(k - a + 2)
  <2> HIDE DEF r, u, a
  <2>1. CASE i \in 1..(k - a + 1)
    <3>1. a + i - 1 \in 1..k
      BY <2>1, <1>0, <1>2
    <3> QED
      BY <2>1, <3>1, <1>1, <1>4
  <2>2. CASE i = k - a + 2
    BY <2>2, <1>0, <1>1, <1>2, <1>4
  <2> QED
    BY <2>1, <2>2, <1>0, <1>2
<1>6. LookBack(u) = v
  <2> DEFINE n == k + 1
  <2>1. Len(u) = n
    BY <1>1
  <2> HIDE DEF n, u, k
  <2>2. LookBack(u) = SubSeq(u, IF n > Window THEN n - Window + 1 ELSE 1, n)
    BY <2>1 DEF LookBack
  <2> QED
    BY <2>2, <1>0 DEF n
<1>7. b \in 1..(k + 1)
  BY <1>0
<1>8. /\ v \in Seq(T)
      /\ Len(v) = k - b + 2
      /\ \A i \in 1..(k - b + 2) : v[i] = u[b + i - 1]
  <2> HIDE DEF b, u
  <2>1. k + 1 \in b - 1..Len(u) /\ (k + 1) - b + 1 = k - b + 2 /\ b <= k + 1
        /\ b \in 1..(Len(u) + 1) 
    BY <1>0, <1>1, <1>7
  <2> QED
    BY <2>1, <1>0, <1>1, <1>7, SubSeqProperties
<1>9. CASE k >= Window
  <2>1. b = a + 1 /\ k - a + 2 > Window
    <3> HIDE DEF k
    <3> QED
      BY <1>0, <1>9
  <2> HIDE DEF a, b, u, r, v
  <2>2. r # <<>>
    BY <1>2, <1>4, EmptySeq
  <2>3. /\ Tail(r) \in Seq(T) /\ Len(Tail(r)) = k - a + 1
        /\ \A i \in 1..(k - a + 1) : Tail(r)[i] = r[i + 1]
    BY <2>2, <1>2, <1>4, HeadTailProperties
  <2>4. ASSUME NEW i \in 1..Len(v) PROVE v[i] = Tail(r)[i]
    <3>1. i \in 1..(k - a + 1) /\ i \in 1..(k - b + 2) /\ i + 1 \in 1..(k - a + 2)
      BY <2>1, <1>0, <1>2, <1>8
    <3>2. b + i - 1 = a + (i + 1) - 1
      BY <2>1, <1>0, <1>2
    <3> QED
      BY <3>1, <3>2, <2>3, <1>5, <1>8
  <2>5. Len(v) = Len(Tail(r))
    BY <2>1, <2>3, <1>0, <1>2, <1>8
  <2>6. v = Tail(r)
    BY <2>3, <2>4, <2>5, <1>8, SeqEqual
  <2> QED
    BY <2>1, <2>6, <1>4, <1>6 DEF u, r
<1>10. CASE k < Window
  <2>1. b = 1 /\ a = 1 /\ k - a + 2 <= Window
    <3> HIDE DEF k
    <3> QED
      BY <1>0, <1>10
  <2> HIDE DEF a, b, u, r, v
  <2>2. ASSUME NEW i \in 1..Len(v) PROVE v[i] = r[i]
    <3>1. i \in 1..(k - a + 2) /\ b = a
      BY <2>1, <1>0, <1>2, <1>8
    <3> QED
      BY <3>1, <1>5, <1>8
  <2>3. Len(v) = Len(r)
    BY <2>1, <1>0, <1>4, <1>8
  <2>4. v = r
    BY <2>2, <2>3, <1>4, <1>8, SeqEqual
  <2>5. ~ (Len(r) > Window)
    BY <2>1, <1>0, <1>4
  <2> QED
    BY <2>4, <2>5, <1>6 DEF u, r
<1> QED
  BY <1>0, <1>9, <1>10
-----------------------------------------------------------------------------
(* The loop *)

\* What each program point of run_generation_inner can rely on. The checks of
\* generate.rs:150-158 still hold when prefill is called; a token was sampled
\* behind a prefill, so the cache is not empty; decode_one is called below
\* both bounds of the loop and never on an end of the text.
CallInv ==
    /\ pc # "idle" => turnIds \in Prompts
    /\ pc = "prefill" => turnIds # <<>> /\ Fits(turnIds) /\ used = head
    /\ pc \in {"sample", "check", "decode"} => head > 0
    /\ pc \in {"check", "decode"} => nextToken \in Sampled
    /\ pc = "decode" => head < NCtx /\ generated < limit /\ nextToken \notin Eos

LEMMA GenInitEstablishesInv ==
    ASSUME GenInit
    PROVE  GenTypeOK /\ CallInv
<1>1. <<>> \in Seq(Token) /\ <<>> \in Seq(Sampled)
  BY EmptySeq
<1>2. 0 \in Nat /\ 0 \in 0..0 /\ 0 \in 0..NCtx
  OBVIOUS
<1> QED
  BY <1>1, <1>2 DEF GenInit, GenTypeOK, CallInv, Errors

\* Starting a call on one of the prompts.
LEMMA CallKeepsInv ==
    ASSUME GenTypeOK, CallInv, NEW ids \in Prompts, NEW q \in BOOLEAN, NEW n \in Nat,
           Call(ids, q, n)
    PROVE  GenTypeOK' /\ CallInv'
<1>1. ids \in Seq(Token) /\ <<>> \in Seq(Sampled) /\ 0 \in 0..n
  BY PromptsAssumption, EmptySeq
<1> QED
  BY <1>1 DEF Call, GenTypeOK, CallInv

\* A return keeps everything but pc, ret and nextToken.
LEMMA ReturnKeepsInv ==
    ASSUME GenTypeOK, CallInv, NEW r \in {"Ok"} \cup Errors, Return(r)
    PROVE  GenTypeOK' /\ CallInv'
  BY DEF Return, GenTypeOK, CallInv, callvars

\* A driver's own step, when no call is in progress.
LEMMA IdleKeepsInv ==
    ASSUME GenTypeOK, CallInv, pc = "idle", UNCHANGED genvars
    PROVE  GenTypeOK' /\ CallInv'
  BY DEF genvars, callvars, loopvars, GenTypeOK, CallInv

LEMMA GenStepUsesForwardPass ==
    ASSUME GenTypeOK, CallInv, GenStep
    PROVE  FPNext \/ UNCHANGED fpvars
<1>1. CASE PrefillTurn
  BY <1>1 DEF PrefillTurn, CallInv, FPNext
<1>2. CASE PrefillError
  BY <1>2 DEF PrefillError, FPNext
<1>3. CASE DecodeNext
  BY <1>3, SampledAssumption DEF DecodeNext, CallInv, FPNext
<1>4. CASE DecodeError
  BY <1>4 DEF DecodeError, FPNext
<1>5. CASE \/ Enter \/ Refuse \/ Sample \/ SampleError
           \/ Finish \/ Emit \/ EmitError
  BY <1>5 DEF Enter, Refuse, Sample, SampleError, Finish, Emit, EmitError
<1> QED
  BY <1>1, <1>2, <1>3, <1>4, <1>5 DEF GenStep

\* The look-back window stays a sequence of sampled tokens.
LEMMA RememberType ==
    ASSUME recent \in Seq(Sampled), NEW t \in Sampled
    PROVE  Remember(t) \in Seq(Sampled)
<1> DEFINE r == Append(recent, t)
<1>1. r \in Seq(Sampled) /\ Len(r) = Len(recent) + 1 /\ Len(recent) \in Nat
  BY AppendProperties, LenProperties
<1>2. r # <<>>
  BY <1>1, EmptySeq
<1>3. Tail(r) \in Seq(Sampled)
  BY <1>1, <1>2, HeadTailProperties
<1> QED
  BY <1>1, <1>3 DEF Remember

LEMMA GenStepKeepsInv ==
    ASSUME FPTypeOK, GenTypeOK, CallInv, GenStep
    PROVE  GenTypeOK' /\ CallInv'
<1> USE DEF genvars, callvars, loopvars
<1>1. CASE Enter
  <2>1. head \in 0..NCtx /\ head' = head
    BY <1>1 DEF Enter, FPTypeOK, fpvars
  <2> QED
    BY <2>1, <1>1 DEF Enter, GenTypeOK, CallInv, Fits
<1>2. CASE Refuse
  <2>1. \E r \in Errors : Return(r)
    BY <1>2 DEF Refuse, Errors
  <2> QED
    BY <1>2, <2>1, ReturnKeepsInv DEF Refuse, Errors
<1>3. CASE PrefillTurn
  <2>1. turnIds \in Seq(Token) /\ turnIds # <<>> /\ head' = head + Len(turnIds)
    BY <1>3 DEF PrefillTurn, Prefill, GenTypeOK
  <2>2. head \in Nat /\ Len(turnIds) \in Nat \ {0}
    BY <2>1, EmptySeq DEF FPTypeOK
  <2>3. head' > 0
    BY <2>1, <2>2
  <2> QED
    BY <2>3, <1>3 DEF PrefillTurn, GenTypeOK, CallInv
<1>4. CASE PrefillError
  BY <1>4, ReturnKeepsInv DEF PrefillError, Errors
<1>5. CASE Sample
  BY <1>5 DEF Sample, fpvars, GenTypeOK, CallInv
<1>6. CASE SampleError
  BY <1>6, ReturnKeepsInv DEF SampleError, Errors
<1>7. CASE Finish
  BY <1>7, ReturnKeepsInv DEF Finish
<1>8. CASE Emit
  <2>1. nextToken \in Sampled /\ recent \in Seq(Sampled) /\ shown \in Seq(Sampled)
    BY <1>8 DEF Emit, CallInv, GenTypeOK
  <2>2. recent' \in Seq(Sampled)
    BY <2>1, <1>8, RememberType DEF Emit
  <2>3. shown' \in Seq(Sampled)
    BY <2>1, <1>8, AppendProperties DEF Emit
  <2>4. head \in Nat /\ generated \in Nat /\ limit \in Nat /\ NCtx \in Nat
    BY DEF FPTypeOK, GenTypeOK
  <2>5. head < NCtx /\ generated < limit /\ nextToken \notin Eos
    BY <2>4, <1>8 DEF Emit, Stops
  <2> QED
    BY <2>2, <2>3, <2>5, <1>8 DEF Emit, fpvars, GenTypeOK, CallInv
<1>9. CASE EmitError
  BY <1>9, ReturnKeepsInv DEF EmitError, Errors
<1>10. CASE DecodeNext
  <2>1. /\ head' = head + 1 /\ generated' = generated + 1 /\ limit' = limit
        /\ head \in Nat /\ generated \in 0..limit /\ limit \in Nat /\ generated < limit
    BY <1>10 DEF DecodeNext, Decode, FPTypeOK, GenTypeOK, CallInv
  <2>2. head' > 0 /\ generated' \in 0..limit'
    BY <2>1
  <2> QED
    BY <2>2, <1>10 DEF DecodeNext, GenTypeOK, CallInv
<1>11. CASE DecodeError
  BY <1>11, ReturnKeepsInv DEF DecodeError, Errors
<1> QED
  BY <1>1, <1>2, <1>3, <1>4, <1>5, <1>6, <1>7, <1>8, <1>9, <1>10, <1>11 DEF GenStep

\* Neither full-cache check of graph.rs is ever met.
LEMMA CallInvNeverOverruns == CallInv => NeverOverrun
  BY DEF CallInv, NeverOverrun, Fits
-----------------------------------------------------------------------------
(* The reply *)

\* What the loop keeps in step with the cache. Before its prefill a call has
\* put nothing out; behind it, the cache is the history, the prompt and as
\* many tokens as were generated, and the logits are those of all of it.
LoopInv ==
    /\ pc \in {"entry", "prefill"} => generated = 0 /\ recent = <<>> /\ shown = <<>>
    /\ InLoop => /\ head = used + Len(turnIds) + generated
                 /\ basis = Tokens(cache, head)
    /\ ShownIsCached
    /\ PenaltyLooksBack

\* The rows of a cache c from row m on, read as a sequence.
LEMMA RowsFrom ==
    ASSUME NEW S, NEW c, NEW m \in Nat, NEW g \in Nat, NEW h \in Nat, h = m + g,
           \A i \in 1..h : c[i-1].tok \in S
    PROVE  /\ SubSeq(Tokens(c, h), m + 1, h) \in Seq(S)
           /\ Len(SubSeq(Tokens(c, h), m + 1, h)) = g
<1>1. \A i \in (m + 1)..h : i \in 1..h
  OBVIOUS
<1>2. \A i \in (m + 1)..h : Tokens(c, h)[i] \in S
  BY <1>1, TokensLen
<1>3. /\ SubSeq(Tokens(c, h), m + 1, h) \in Seq(S)
      /\ Len(SubSeq(Tokens(c, h), m + 1, h)) = IF m + 1 <= h THEN h - (m + 1) + 1 ELSE 0
  BY <1>2, SubSeqProperties
<1>4. (IF m + 1 <= h THEN h - (m + 1) + 1 ELSE 0) = g
  OBVIOUS
<1> QED
  BY <1>3, <1>4

LEMMA RowFrom ==
    ASSUME NEW c, NEW m \in Nat, NEW h \in Nat, NEW j \in 1..(h - m)
    PROVE  SubSeq(Tokens(c, h), m + 1, h)[j] = c[m + j - 1].tok
<1> DEFINE t == Tokens(c, h)
           S == {t[i] : i \in (m + 1)..h}
<1>1. \A i \in (m + 1)..h : t[i] \in S
  OBVIOUS
<1>2. j \in 1..(h - (m + 1) + 1) /\ (m + 1) + j - 1 = m + j /\ m + j \in 1..h
  OBVIOUS
<1>3. t[m + j] = c[(m + j) - 1].tok
  BY <1>2, TokensLen
<1> HIDE DEF t, S
<1>4. SubSeq(t, m + 1, h)[j] = t[(m + 1) + j - 1]
  BY <1>1, <1>2, SubSeqProperties
<1> QED
  BY <1>2, <1>3, <1>4 DEF t

\* The reply as a sequence of its own.
LEMMA ReplyRows ==
    ASSUME FPInv, GenTypeOK, head = used + Len(turnIds) + generated
    PROVE  /\ Reply \in Seq(Token) /\ Len(Reply) = generated
           /\ \A i \in 1..generated : Reply[i] = cache[used + Len(turnIds) + i - 1].tok
           /\ used + Len(turnIds) \in Nat /\ generated \in Nat /\ head \in 0..NCtx
<1>1. used \in Nat /\ Len(turnIds) \in Nat /\ generated \in Nat /\ head \in 0..NCtx
  BY LenProperties DEF GenTypeOK, FPInv, FPTypeOK
<1>2. \A i \in 1..head : cache[i-1].tok \in Token
  BY <1>1, BelowHead DEF FPInv, RowsHoldTokens
<1>3. PICK m \in Nat : m = used + Len(turnIds)
  BY <1>1
<1>4. /\ SubSeq(Tokens(cache, head), m + 1, head) \in Seq(Token)
      /\ Len(SubSeq(Tokens(cache, head), m + 1, head)) = generated
      /\ \A i \in 1..generated :
             SubSeq(Tokens(cache, head), m + 1, head)[i] = cache[m + i - 1].tok
  <2>1. head \in Nat /\ head = m + generated
    BY <1>1, <1>3
  <2>2. SubSeq(Tokens(cache, head), m + 1, head) \in Seq(Token)
    BY <2>1, <1>1, <1>2, RowsFrom
  <2>3. Len(SubSeq(Tokens(cache, head), m + 1, head)) = generated
    BY <2>1, <1>1, <1>2, RowsFrom
  <2>4. ASSUME NEW i \in 1..generated
        PROVE  SubSeq(Tokens(cache, head), m + 1, head)[i] = cache[m + i - 1].tok
    <3>1. i \in 1..(head - m) /\ m \in Nat /\ head \in Nat
      BY <2>1, <1>1
    <3> QED
      BY <3>1, RowFrom, SMTT(20)
  <2> QED
    BY <2>2, <2>3, <2>4
<1> QED
  BY <1>1, <1>3, <1>4 DEF Reply

\* Decoding a token puts it at the end of the reply.
LEMMA DecodeAppends ==
    ASSUME FPInv, FPInv', GenTypeOK, GenTypeOK', CallInv, DecodeNext,
           head = used + Len(turnIds) + generated
    PROVE  /\ head' = used' + Len(turnIds') + generated'
           /\ Reply' = Append(Reply, nextToken)
           /\ \A i \in 1..Len(turnIds) : cache'[used + i - 1] = cache[used + i - 1]
<1>1. /\ head' = head + 1 /\ generated' = generated + 1
      /\ used' = used /\ turnIds' = turnIds
      /\ head < NCtx /\ nextToken \in Token
      /\ cache' = [cache EXCEPT ![head] = [tok |-> nextToken, pos |-> head]]
  BY SampledAssumption DEF DecodeNext, Decode, callvars, CallInv
<1>2. /\ Reply \in Seq(Token) /\ Len(Reply) = generated
      /\ \A i \in 1..generated : Reply[i] = cache[used + Len(turnIds) + i - 1].tok
      /\ used + Len(turnIds) \in Nat /\ generated \in Nat /\ head \in 0..NCtx
  BY ReplyRows
<1>3. used \in Nat /\ Len(turnIds) \in Nat /\ head' = used' + Len(turnIds') + generated'
  BY <1>1, <1>2, LenProperties DEF GenTypeOK
<1>4. /\ cache'[head].tok = nextToken
      /\ \A r \in 0..(head - 1) : cache'[r] = cache[r]
  <2>1. head \in Rows /\ \A r \in 0..(head - 1) : r \in Rows /\ r # head
    BY <1>1, <1>2 DEF Rows
  <2> QED
    BY <2>1, <1>1 DEF FPInv, FPTypeOK
<1>5. /\ Reply' \in Seq(Token) /\ Len(Reply') = generated + 1
      /\ \A i \in 1..(generated + 1) : Reply'[i] = cache'[used + Len(turnIds) + i - 1].tok
  <2>0. PICK m \in Nat : m = used + Len(turnIds)
    BY <1>2
  <2>1. head' \in 0..NCtx /\ head' \in Nat /\ generated + 1 \in Nat /\ head' = m + (generated + 1)
    BY <1>1, <1>2, <2>0 DEF FPInv, FPTypeOK
  <2>2. \A i \in 1..head' : cache'[i-1].tok \in Token
    BY <2>1, BelowHead DEF FPInv, RowsHoldTokens
  <2>3. Reply' = SubSeq(Tokens(cache', head'), m + 1, head')
    BY <1>1, <2>0 DEF Reply
  <2>5. /\ SubSeq(Tokens(cache', head'), m + 1, head') \in Seq(Token)
        /\ Len(SubSeq(Tokens(cache', head'), m + 1, head')) = generated + 1
        /\ \A i \in 1..(generated + 1) :
               SubSeq(Tokens(cache', head'), m + 1, head')[i] = cache'[m + i - 1].tok
    <3>1. SubSeq(Tokens(cache', head'), m + 1, head') \in Seq(Token)
      BY <2>1, <2>2, RowsFrom
    <3>2. Len(SubSeq(Tokens(cache', head'), m + 1, head')) = generated + 1
      BY <2>1, <2>2, RowsFrom
    <3>3. ASSUME NEW i \in 1..(generated + 1)
          PROVE  SubSeq(Tokens(cache', head'), m + 1, head')[i] = cache'[m + i - 1].tok
      <4>1. i \in 1..(head' - m) /\ m \in Nat /\ head' \in Nat
        BY <2>1, <1>2
      <4> QED
        BY <4>1, RowFrom, Zenon
    <3> QED
      BY <3>1, <3>2, <3>3
  <2> QED
    BY <2>0, <2>3, <2>5
<1>6. Reply' = Append(Reply, nextToken)
  <2> DEFINE a == Append(Reply, nextToken)
  <2>1. /\ a \in Seq(Token) /\ Len(a) = generated + 1 /\ a[generated + 1] = nextToken
        /\ \A i \in 1..generated : a[i] = Reply[i]
    BY <1>1, <1>2, AppendProperties
  <2> HIDE DEF a
  <2>2. ASSUME NEW i \in 1..(generated + 1) PROVE Reply'[i] = a[i]
    <3>0. i \in 1..generated \/ i = generated + 1
      BY <1>2
    <3> DEFINE r == used + Len(turnIds) + i - 1
    <3>1. Reply'[i] = cache'[r].tok
      BY <1>5
    <3>2. CASE i \in 1..generated
      <4>1. r \in 0..(head - 1)
        BY <3>2, <1>2, <1>3
      <4>2. a[i] = cache[r].tok
        BY <3>2, <2>1, <1>2
      <4> HIDE DEF r
      <4> QED
        BY <4>1, <4>2, <3>1, <1>4
    <3>3. CASE i = generated + 1
      <4>1. r = head
        BY <3>3, <1>2, <1>3
      <4> HIDE DEF r
      <4> QED
        BY <4>1, <3>1, <3>3, <2>1, <1>4
    <3> QED
      BY <3>0, <3>2, <3>3
  <2>3. Reply' = a
    BY <2>1, <2>2, <1>5, SeqEqual
  <2> QED
    BY <2>3 DEF a
<1>7. ASSUME NEW i \in 1..Len(turnIds) PROVE cache'[used + i - 1] = cache[used + i - 1]
  <2>1. used + i - 1 \in 0..(head - 1)
    BY <1>2, <1>3
  <2> QED
    BY <2>1, <1>4
<1> QED
  BY <1>3, <1>6, <1>7

\* With no call in progress there is nothing to keep; a new call starts with
\* nothing shown.
LEMMA IdleHasLoopInv == ASSUME pc = "idle" PROVE LoopInv
  BY DEF LoopInv, InLoop, ShownIsCached, PenaltyLooksBack

LEMMA IdleKeepsLoop == ASSUME pc' = "idle" PROVE LoopInv'
  BY DEF LoopInv, InLoop, ShownIsCached, PenaltyLooksBack

LEMMA CallKeepsLoop ==
    ASSUME NEW ids, NEW q, NEW n, Call(ids, q, n)
    PROVE  LoopInv'
  BY DEF Call, LoopInv, InLoop, ShownIsCached, PenaltyLooksBack

LEMMA PrefillKeepsLoop ==
    ASSUME FPInv, FPInv', GenTypeOK, GenTypeOK', CallInv, LoopInv, PrefillTurn
    PROVE  LoopInv'
<1>1. /\ turnIds \in Seq(Token) /\ turnIds # <<>> /\ head + Len(turnIds) <= NCtx
      /\ cache' = PrefillWrites(turnIds) /\ head' = head + Len(turnIds)
      /\ basis' = Tokens(cache', head') /\ pc' = "sample"
      /\ used = head /\ generated = 0 /\ recent = <<>> /\ shown = <<>>
      /\ UNCHANGED <<turnIds, used, generated, recent, shown>>
  BY DEF PrefillTurn, Prefill, callvars, loopvars, GenTypeOK, CallInv, LoopInv
<1>2. head \in 0..NCtx /\ Len(turnIds) \in Nat \ {0}
  BY <1>1, PrefillRowsLemma DEF FPInv, FPTypeOK
<1>3. head' = used' + Len(turnIds') + generated'
  BY <1>1, <1>2
<1>4. ASSUME NEW i \in 1..Len(turnIds) PROVE cache'[used + i - 1].tok = turnIds[i]
  <2>1. /\ head + i - 1 \in Rows /\ head + i - 1 \in PrefillRows(Len(turnIds))
        /\ (head + i - 1) - head + 1 = i
    BY <1>1, <1>2 DEF Rows, PrefillRows
  <2>2. cache'[head + i - 1].tok = turnIds[(head + i - 1) - head + 1]
    BY <2>1, <1>1 DEF PrefillWrites
  <2> QED
    BY <2>1, <2>2, <1>1
<1>5. Reply' = <<>>
  <2> DEFINE t == Tokens(cache', head')
  <2>1. Reply' = SubSeq(t, used + Len(turnIds) + 1, head')
    BY <1>1 DEF Reply
  <2>2. head' < used + Len(turnIds) + 1 /\ head' \in Int /\ used + Len(turnIds) + 1 \in Int
    BY <1>1, <1>2
  <2> HIDE DEF t
  <2> QED
    BY <2>1, <2>2, SubSeqEmpty
<1>6. Uttered' = <<>>
  BY <1>1, <1>5 DEF Uttered
<1>7. shown' = Printable(Uttered')
  BY <1>1, <1>6, PrintableEmpty
<1>8. recent' = LookBack(Uttered')
  BY <1>1, <1>6, LookBackEmpty
<1>9. ShownIsCached'
  BY <1>1, <1>4, <1>7 DEF ShownIsCached
<1>10. PenaltyLooksBack'
  BY <1>8 DEF PenaltyLooksBack
<1> QED
  BY <1>1, <1>3, <1>9, <1>10 DEF LoopInv

LEMMA EmitKeepsLoop ==
    ASSUME FPInv, GenTypeOK, CallInv, LoopInv, Emit
    PROVE  LoopInv'
<1>1. /\ pc = "check" /\ pc' = "decode" /\ nextToken \in Token
      /\ shown' = IF nextToken \in Silent THEN shown ELSE Append(shown, nextToken)
      /\ recent' = Remember(nextToken)
      /\ UNCHANGED <<turnIds, used, generated, nextToken, head, cache, basis>>
  BY SampledAssumption DEF Emit, callvars, fpvars, CallInv
<1>2. /\ head = used + Len(turnIds) + generated /\ basis = Tokens(cache, head)
      /\ \A i \in 1..Len(turnIds) : cache[used + i - 1].tok = turnIds[i]
      /\ shown = Printable(Reply) /\ recent = LookBack(Reply)
  BY <1>1 DEF LoopInv, InLoop, ShownIsCached, PenaltyLooksBack, Uttered
<1>3. Reply \in Seq(Token)
  BY <1>2, ReplyRows
<1>4. Reply' = Reply /\ Uttered' = Append(Reply, nextToken)
  BY <1>1 DEF Reply, Uttered
<1>5. shown' = Printable(Uttered')
  BY <1>1, <1>2, <1>3, <1>4, PrintableAppend
<1>6. recent' = LookBack(Uttered')
  <2>1. recent' = LET r == Append(LookBack(Reply), nextToken)
                  IN  IF Len(r) > Window THEN Tail(r) ELSE r
    BY <1>1, <1>2 DEF Remember
  <2> QED
    BY <2>1, <1>1, <1>3, <1>4, LookBackAppend
<1>7. ShownIsCached'
  BY <1>1, <1>2, <1>5 DEF ShownIsCached
<1>8. PenaltyLooksBack'
  BY <1>6 DEF PenaltyLooksBack
<1> QED
  BY <1>1, <1>2, <1>7, <1>8 DEF LoopInv

LEMMA DecodeKeepsLoop ==
    ASSUME FPInv, FPInv', GenTypeOK, GenTypeOK', CallInv, LoopInv, DecodeNext
    PROVE  LoopInv'
<1>1. /\ pc = "decode" /\ pc' = "sample" /\ head > 0 /\ nextToken \in Token
      /\ Decode(nextToken)
      /\ UNCHANGED <<turnIds, used, recent, shown>>
  BY SampledAssumption DEF DecodeNext, callvars, CallInv
<1>2. /\ head = used + Len(turnIds) + generated
      /\ \A i \in 1..Len(turnIds) : cache[used + i - 1].tok = turnIds[i]
      /\ shown = Printable(Append(Reply, nextToken))
      /\ recent = LookBack(Append(Reply, nextToken))
  BY <1>1 DEF LoopInv, InLoop, ShownIsCached, PenaltyLooksBack, Uttered
<1>3. /\ head' = used' + Len(turnIds') + generated'
      /\ Reply' = Append(Reply, nextToken)
      /\ \A i \in 1..Len(turnIds) : cache'[used + i - 1] = cache[used + i - 1]
  BY <1>2, DecodeAppends
<1>4. Uttered' = Append(Reply, nextToken)
  BY <1>1, <1>3 DEF Uttered
<1>5. basis' = Tokens(cache', head')
  BY <1>1, DecodeExtends DEF Log!Extend
<1>6. ShownIsCached'
  BY <1>1, <1>2, <1>3, <1>4 DEF ShownIsCached
<1>7. PenaltyLooksBack'
  BY <1>1, <1>2, <1>4 DEF PenaltyLooksBack
<1> QED
  BY <1>1, <1>3, <1>5, <1>6, <1>7 DEF LoopInv

\* Every step of the loop.
LEMMA GenStepKeepsLoop ==
    ASSUME FPInv, FPInv', GenTypeOK, GenTypeOK', CallInv, LoopInv, GenStep
    PROVE  LoopInv'
<1>1. CASE Enter
  BY <1>1 DEF Enter, loopvars, LoopInv, InLoop, ShownIsCached, PenaltyLooksBack
<1>2. CASE \/ Refuse \/ PrefillError \/ SampleError \/ Finish \/ EmitError \/ DecodeError
  <2>1. pc' = "idle"
    BY <1>2 DEF Refuse, PrefillError, SampleError, Finish, EmitError, DecodeError, Return
  <2> QED
    BY <2>1, IdleKeepsLoop
<1>3. CASE PrefillTurn
  BY <1>3, PrefillKeepsLoop
<1>4. CASE Sample
  <2>1. /\ pc = "sample" /\ pc' = "check"
        /\ UNCHANGED <<turnIds, used, generated, recent, shown, head, cache, basis>>
    BY <1>4 DEF Sample, callvars, fpvars
  <2>2. Reply' = Reply /\ Uttered' = Uttered
    BY <2>1 DEF Reply, Uttered
  <2> QED
    BY <2>1, <2>2 DEF LoopInv, InLoop, ShownIsCached, PenaltyLooksBack
<1>5. CASE Emit
  BY <1>5, EmitKeepsLoop
<1>6. CASE DecodeNext
  BY <1>6, DecodeKeepsLoop
<1> QED
  BY <1>1, <1>2, <1>3, <1>4, <1>5, <1>6 DEF GenStep
-----------------------------------------------------------------------------
(* A call comes nearer to its end with every step                          *)

\* A bound on the steps a call still takes: three for every token that may
\* be generated, sample, check and decode, and the way in and out.
CallLeft ==
    LET ahead == 3 * (limit - generated)
    IN  CASE pc = "idle"    -> 0
          [] pc = "entry"   -> ahead + 5
          [] pc = "prefill" -> ahead + 4
          [] pc = "sample"  -> ahead + 3
          [] pc = "check"   -> ahead + 2
          [] pc = "decode"  -> ahead + 1

LEMMA CallLeftBounded ==
    ASSUME GenTypeOK
    PROVE  CallLeft \in 0..(3 * limit + 5)
<1>1. PICK l \in Nat, g \in Nat : l = limit /\ g = generated /\ g <= l
  BY DEF GenTypeOK
<1>2. pc \in {"idle", "entry", "prefill", "sample", "check", "decode"}
  BY DEF GenTypeOK
<1> QED
  BY <1>1, <1>2 DEF CallLeft

\* Every step of the loop brings the call nearer to its return: a token that
\* was decoded counts, and no failure is tried again (generate.rs:186-208).
LEMMA GenStepLeaves ==
    ASSUME GenTypeOK, GenStep
    PROVE  CallLeft' \in Int /\ CallLeft' < CallLeft
<1>1. PICK l \in Nat, g \in Nat : l = limit /\ g = generated /\ g <= l
  BY DEF GenTypeOK
<1>2. CASE Refuse \/ PrefillError \/ SampleError \/ Finish \/ EmitError \/ DecodeError
  <2>1. pc \in {"entry", "prefill", "sample", "check", "decode"} /\ pc' = "idle"
    BY <1>2 DEF Refuse, PrefillError, SampleError, Finish, EmitError, DecodeError, Return
  <2>2. CallLeft' = 0
    BY <2>1 DEF CallLeft
  <2>3. CallLeft > 0
    BY <2>1, <1>1 DEF CallLeft
  <2> QED
    BY <2>2, <2>3
<1>3. CASE Enter \/ PrefillTurn \/ Sample \/ Emit
  <2>1. /\ UNCHANGED <<limit, generated>>
        /\ \/ pc = "entry" /\ pc' = "prefill"
           \/ pc = "prefill" /\ pc' = "sample"
           \/ pc = "sample" /\ pc' = "check"
           \/ pc = "check" /\ pc' = "decode"
    BY <1>3 DEF Enter, PrefillTurn, Sample, Emit, callvars, loopvars
  <2> QED
    BY <2>1, <1>1 DEF CallLeft
<1>4. CASE DecodeNext
  <2>1. pc = "decode" /\ pc' = "sample" /\ limit' = limit /\ generated' = generated + 1
    BY <1>4 DEF DecodeNext, callvars
  <2>2. CallLeft = 3 * (l - g) + 1 /\ CallLeft' = 3 * (l - (g + 1)) + 3
    BY <2>1, <1>1 DEF CallLeft
  <2> QED
    BY ONLY <2>2, l \in Nat, g \in Nat
<1> QED
  BY <1>2, <1>3, <1>4 DEF GenStep
=============================================================================
