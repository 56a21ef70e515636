--------------------------- MODULE ForwardPass ---------------------------
(***************************************************************************)
(* src/graph.rs: the KV cache and the calls of LlamaGraph that change it:  *)
(* prefill (forward), decode_one (execute_decode) and reset_kv.            *)
(*                                                                         *)
(* A row of the cache stands for the K and V rows of every layer: each     *)
(* pass writes them at the same index, from the same token and position.   *)
(* Tensor arithmetic is left out. What is kept of a pass is which rows it  *)
(* writes, with which token and rotary position, and which rows its        *)
(* attention reads.                                                        *)
(***************************************************************************)
EXTENDS Integers, Sequences

CONSTANTS Token,     \* token ids
          NoToken,   \* the content of a row never written (the zeros of new())
          NCtx,      \* kv.n_ctx, the number of rows
          Prompts    \* the token sequences callers pass to prefill

ASSUME TokenAssumption == NoToken \notin Token
ASSUME NCtxAssumption == NCtx \in Nat \ {0}
ASSUME PromptsAssumption == Prompts \subseteq Seq(Token)

VARIABLES
    cache,        \* the rows of the K/V tensors
    head,         \* kv.head: rows 0 .. head-1 hold the context
    decodeBuilt,  \* d_built: the persistent decode graph exists
    result,       \* what the last call returned: "ok" or "failed"
    \* History variables, read by properties only:
    live,         \* the rows written since the last reset
    reads,        \* <<query row, key row>> pairs of the last pass since then
    basis         \* the tokens the logits of the last pass were computed from

fpvars == <<cache, head, decodeBuilt, result, live, reads, basis>>

Rows == 0..(NCtx - 1)
Cell == [tok : Token \cup {NoToken}, pos : Rows]

\* The tokens in the first n rows of c, as a sequence.
Tokens(c, n) == [i \in 1..n |-> c[i-1].tok]

FPTypeOK ==
    /\ cache \in [Rows -> Cell]
    /\ head \in 0..NCtx
    /\ decodeBuilt \in BOOLEAN
    /\ result \in {"ok", "failed"}
    /\ live \subseteq Rows
    /\ reads \subseteq Rows \X Rows
    /\ basis \in Seq(Token \cup {NoToken})

\* LlamaGraph::new and KVCache::new: every row zeroed, nothing built.
FPInit ==
    /\ cache = [r \in Rows |-> [tok |-> NoToken, pos |-> 0]]
    /\ head = 0
    /\ decodeBuilt = FALSE
    /\ result = "ok"
    /\ live = {}
    /\ reads = {}
    /\ basis = <<>>
-----------------------------------------------------------------------------
(* prefill *)

\* The rows a prefill of n tokens writes, and the rows each of its queries
\* reads: soft_max_ext gets no mask, so all of 0 .. kv_len-1.
PrefillRows(n)  == head..(head + n - 1)
PrefillReads_OneTooMany(n) == PrefillRows(n) \X (0..(head + n))  \* mutant
PrefillReads(n) == PrefillRows(n) \X (0..(head + n - 1))

\* ggml_cpy of the new K and V into rows head .. head+n-1, rotated by the
\* positions 0 .. n-1: prefill() hands forward() the constant position 0.
PrefillWrites(ids) ==
    [r \in Rows |-> IF r \in PrefillRows(Len(ids))
                    THEN [tok |-> ids[r - head + 1], pos |-> r - head]
                    ELSE cache[r]]

Prefill(ids) ==
    LET kvLen == head + Len(ids) IN
    /\ ids # <<>>
    /\ kvLen <= NCtx
    /\ cache' = PrefillWrites(ids)
    /\ head' = kvLen
    /\ live' = live \cup PrefillRows(Len(ids))
    /\ reads' = PrefillReads(Len(ids))
    /\ basis' = Tokens(cache', kvLen)
    /\ result' = "ok"
    /\ UNCHANGED decodeBuilt

\* Every error return of prefill() and forward(): the empty prompt, a failed
\* allocation, a missing tensor, kv_len > n_ctx, a compute status other than
\* success (the CPU backend reports one before it runs the first node). None
\* of them has touched the cache, and any call can run into the allocations.
PrefillFails ==
    /\ result' = "failed"
    /\ UNCHANGED <<cache, head, decodeBuilt, live, reads, basis>>
-----------------------------------------------------------------------------
(* decode_one *)

\* Mutant: the mask is filled for one row more.
DecodeSpan_OwnRow == head + 1

\* The rows the mask lets through. With head = 0 every entry of the mask is
\* the same -1e4, which soft_max cancels: nothing is masked then.
DecodeSpan == IF head = 0 THEN NCtx ELSE head

\* Mutant: no check that the cache is full.
Decode_NoCapacityCheck(t) ==
    /\ cache' = [cache EXCEPT ![head] = [tok |-> t, pos |-> head]]
    /\ head' = head + 1
    /\ decodeBuilt' = TRUE
    /\ live' = live \cup {head}
    /\ reads' = {head} \X (0..(DecodeSpan - 1))
    /\ basis' = Append(Tokens(cache, DecodeSpan), t)
    /\ result' = "ok"

\* Mutant: the position is set after the head has moved.
Decode_PositionOfNext(t) ==
    /\ head < NCtx
    /\ cache' = [cache EXCEPT ![head] = [tok |-> t, pos |-> head + 1]]
    /\ head' = head + 1
    /\ decodeBuilt' = TRUE
    /\ live' = live \cup {head}
    /\ reads' = {head} \X (0..(DecodeSpan - 1))
    /\ basis' = Append(Tokens(cache, DecodeSpan), t)
    /\ result' = "ok"

\* Position head, copied to row head through the host buffer after the graph
\* ran, so the token's own K/V row is not among the rows it attends to.
Decode(t) ==
    /\ head < NCtx
    /\ cache' = [cache EXCEPT ![head] = [tok |-> t, pos |-> head]]
    /\ head' = head + 1
    /\ decodeBuilt' = TRUE
    /\ live' = live \cup {head}
    /\ reads' = {head} \X (0..(DecodeSpan - 1))
    /\ basis' = Append(Tokens(cache, DecodeSpan), t)
    /\ result' = "ok"

\* The error returns of execute_decode: the graph could not be built (it stays
\* unbuilt), the cache is full, the computation failed. No row was written.
DecodeFails ==
    /\ decodeBuilt' \in {decodeBuilt, TRUE}
    /\ result' = "failed"
    /\ UNCHANGED <<cache, head, live, reads, basis>>
-----------------------------------------------------------------------------
\* Mutant: the rows are given up but head stays.
ResetKV_HeadStays ==
    /\ live' = {}
    /\ reads' = {}
    /\ result' = "ok"
    /\ UNCHANGED <<cache, head, decodeBuilt, basis>>

\* reset_kv: the rows keep their content, only head moves.
ResetKV ==
    /\ head' = 0
    /\ live' = {}
    /\ reads' = {}
    /\ result' = "ok"
    /\ UNCHANGED <<cache, decodeBuilt, basis>>

\* The callers' side of the contract: no decode_one on an empty cache (see
\* DecodeSpan). generate.rs keeps to it by decoding only after a prefill.
FPNext ==
    \/ \E ids \in Prompts : Prefill(ids)
    \/ PrefillFails
    \/ \E t \in Token : head > 0 /\ Decode(t)
    \/ DecodeFails
    \/ ResetKV

FPSpec == FPInit /\ [][FPNext]_fpvars
-----------------------------------------------------------------------------
(* Properties *)

\* The rows below kv.head are the rows written since the last reset_kv: a
\* reset only moves head (graph.rs:182), so a row left by an earlier
\* conversation must be overwritten before head passes it again.
HeadCoversLive == live = 0..(head - 1)

\* Attention never reads a row that an earlier conversation left behind or
\* that was never written: neither the prefill's view of rows 0 .. kv_len-1
\* nor the n_ctx-wide, masked read of the decode graph.
NoStaleRead == \A qk \in reads : qk[2] \in live

\* The cache and its head implement the log of ContextLog, and the logits of
\* every pass are computed from exactly that log.
Log == INSTANCE ContextLog WITH log <- Tokens(cache, head), Capacity <- NCtx
ImplementsContextLog == Log!CLSpec

\* src/README.md:25 says the prompt is processed "with a causal mask": no
\* token attends to a row behind its own.
CausalAttention == \A qk \in reads : qk[2] <= qk[1]
=============================================================================
