---------------------------- MODULE BufferLayout ----------------------------
(***************************************************************************)
(* Where the program puts things inside buffers it lays out by hand: the   *)
(* K and V rows of every layer in the buffer of the KV cache, the token    *)
(* ids and positions of a prefill, the tensor data of a GGUF file, and the *)
(* windows of the mapping. A region is a first byte and a length.          *)
(***************************************************************************)
EXTENDS Integers

Region(first, length) == [first |-> first, length |-> length]

\* A region of buf: no byte before its start, none behind its end.
Within(r, buf) ==
    /\ buf.first <= r.first
    /\ r.first + r.length <= buf.first + buf.length

Apart(r, s) == \/ r.first + r.length <= s.first
               \/ s.first + s.length <= r.first

\* The least multiple of a at or behind n, in the two ways the code has.
RoundUp(n, a)   == ((n + a - 1) \div a) * a
RoundUp64(n)    == ((n + 63) \div 64) * 64
-----------------------------------------------------------------------------
(* graph.rs, KVCache::new. A geometry g has the layers, the KV heads, the  *)
(* dimension of a head and the rows (n_ctx) of the cache; values are F32.  *)

Geometry == [layers : Nat, headsKV : Nat, headDim : Nat, rows : Nat]

RowBytes(g)  == g.headsKV * g.headDim * 4
BytesPer(g)  == g.headsKV * g.headDim * g.rows * 4
KVBuffer(g)  == Region(0, BytesPer(g) * g.layers * 2 + 1024)

VOffset_OneTensorOn(g, l) == g.layers + l * BytesPer(g)  \* mutant
KOffset(g, l) == l * BytesPer(g)
VOffset(g, l) == g.layers * BytesPer(g) + l * BytesPer(g)

TensorOffset(g, kind, l) == IF kind = "K" THEN KOffset(g, l) ELSE VOffset(g, l)

\* The bytes of row r: the view of prefill and the write of decode are at
\* kv.head times the row's size from the start of their tensor.
Cells(g) == {"K", "V"} \X (0 .. g.layers - 1) \X (0 .. g.rows - 1)
CellBytes(g, c) == Region(TensorOffset(g, c[1], c[2]) + c[3] * RowBytes(g), RowBytes(g))

\* Every layer's row has bytes of its own inside the buffer, for K and for V:
\* what a pass writes at kv.head changes no other row, layer or tensor
\* (graph.rs:131-166, 619-624).
KVCellsSound(g) ==
    /\ \A c \in Cells(g) : Within(CellBytes(g, c), KVBuffer(g))
    /\ \A c, d \in Cells(g) : c # d => Apart(CellBytes(g, c), CellBytes(g, d))
-----------------------------------------------------------------------------
(* graph.rs, forward: the input buffer of n tokens (I32).                  *)

TokenBytes(n)    == n * 4
InputBuffer(n)   == Region(0, TokenBytes(n) * 2 + 256)
TokenRegion(n)   == Region(0, TokenBytes(n))
PositionRegion(n) == Region(RoundUp64(TokenBytes(n)), TokenBytes(n))

InputsSound(n) ==
    /\ Within(TokenRegion(n), InputBuffer(n))
    /\ Within(PositionRegion(n), InputBuffer(n))
    /\ Apart(TokenRegion(n), PositionRegion(n))

(* graph.rs, build_decode_graph: token, position and a mask of n_ctx F32.  *)
DecodeBuffer(rows) == Region(0, 128 + rows * 4 + 256)
DecodeInputs(rows) == {Region(0, 4), Region(64, 4), Region(128, rows * 4)}

DecodeInputsSound(rows) ==
    /\ \A r \in DecodeInputs(rows) : Within(r, DecodeBuffer(rows))
    /\ \A r, s \in DecodeInputs(rows) : r # s => Apart(r, s)
-----------------------------------------------------------------------------
(* mapper.rs: the windows of a mapping of total bytes, size bytes each.    *)

WindowCount(total, size) == (total + size - 1) \div size
Smaller(a, b) == IF a < b THEN a ELSE b
Window(total, size, t) == Region(t * size, Smaller(size, total - t * size))

\* A window has at least a byte, and all of them lie in the mapping.
WindowSound(total, size, t) ==
    /\ Window(total, size, t).length > 0
    /\ Within(Window(total, size, t), Region(0, total))
=============================================================================
