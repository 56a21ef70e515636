---------------------------- MODULE MCStartup ----------------------------
(* Twenty-one files: five good ones and one for each way to be bad.        *)
EXTENDS Startup

Num(key, type, n)  == [key |-> key, value |-> [type |-> type, n |-> n]]
U32(name, n)       == Num(<<"llama", name>>, "U32", n)
Array(key, elem, n) ==
    [key |-> key, value |-> [type |-> "Array", elem |-> elem, n |-> n, length |-> 3]]
Tensor(name, at) ==
    [name |-> name, nameLength |-> 10, dims |-> 2, known |-> TRUE, offset |-> at,
     row |-> 8, rows |-> 1, width |-> 4, block |-> 1]
\* A row of blocks of 32 elements in 18 bytes.
Blocks(name, at, n) == [Tensor(name, at) EXCEPT !.row = 32 * n, !.width = 18, !.block = 32]

Good == [
    magic   |-> TRUE, version |-> 3,
    kvs     |-> <<U32("block_count", 1), U32("attention.head_count", 2),
                  U32("attention.head_count_kv", 1), U32("embedding_length", 4),
                  Array(Tokens, "String", 3), Array(Scores, "F32", 3)>>,
    tensors |-> <<Tensor(<<"token_embd">>, 0), Blocks(<<"blk", 0>>, 32, 1),
                  Tensor(<<"output_norm">>, 64), Tensor(<<"output">>, 96)>>,
    size    |-> 0]

\* A file is as long as its data needs.
Sized(f) == [f EXCEPT !.size = RoundUp(HeaderEnd(f), 64) + 128]
With(kv) == Sized([Good EXCEPT !.kvs = Append(@, kv)])
WithOutput(t)  == Sized([Good EXCEPT !.tensors[4] = t])
Output(at) == Tensor(<<"output">>, at)
AlignTo(type, n) == Num(<<"general", "alignment">>, type, n)

MCFiles == {
    Sized(Good),
    Sized([Good EXCEPT !.version = 1]),
    Sized([Good EXCEPT !.kvs = @ \o <<AlignTo("U32", 64), AlignTo("U32", 8)>>]),
    With(AlignTo("U64", 64)),
    With(AlignTo("U32", 0)),
    Sized([Good EXCEPT !.tensors = SubSeq(@, 1, 3)]),
    WithOutput(Output(4096 - 64)),                          \* wraps below the mapping
    WithOutput(Output(512)),                                \* behind it
    WithOutput(Output(112)),                                \* across its end
    WithOutput([Output(96) EXCEPT !.known = FALSE]),
    WithOutput([Output(96) EXCEPT !.rows = 128]),           \* its size wraps to 0
    WithOutput(Blocks(<<"output">>, 96, 64)),               \* a product on the way does
    WithOutput([Output(96) EXCEPT !.dims = 5]),
    With(Array(<<"x", "y">>, "Array", 0)),
    [Sized(Good) EXCEPT !.size = 40],
    [Sized(Good) EXCEPT !.size = 0],
    [Sized(Good) EXCEPT !.magic = FALSE],
    [Good EXCEPT !.kvs = <<Array(<<"x", "y">>, "Array", 1)>>, !.size = 512],
    With(U32("attention.head_count", 0)),
    With(Array(Scores, "F32", 2)),
    With(Array(Tokens, "U32", 3))}

\* Free addresses are alike: nothing asks more of them than equality. The
\* allocator of the instance hands out the lowest.
LowestFree ==
    live' \subseteq live \/ \A a \in live' \ live, b \in Address \ live : a <= b
=============================================================================
