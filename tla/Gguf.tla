-------------------------------- MODULE Gguf --------------------------------
(***************************************************************************)
(* src/gguf.rs: what GgufHeader::from_file makes of a file. A file is a    *)
(* record of its parts in the order they are read:                         *)
(*   magic    its first word is GGUF_MAGIC                                 *)
(*   version                                                               *)
(*   kvs      the metadata, each [key, value]; a key is a pair such as     *)
(*            <<"llama", "block_count">>, in the file its two parts joined *)
(*            by a dot; a value is [type, n], with n the number itself,    *)
(*            the length of a string, or [elem, types] for an array: its   *)
(*            declared element type and how many elements follow           *)
(*   tensors  each [name, dims, known, offset], the elements of a row (its *)
(*            first dimension), the rows, and the type of the elements: so *)
(*            many bytes wide for every block of them                      *)
(*   size     of the file in bytes                                         *)
(***************************************************************************)
EXTENDS Integers, Sequences, BufferLayout

\* The bytes of a number, by type.
NumberWidth ==
    [U8 |-> 1, I8 |-> 1, Bool |-> 1, U16 |-> 2, I16 |-> 2,
     U32 |-> 4, I32 |-> 4, F32 |-> 4, U64 |-> 8, I64 |-> 8, F64 |-> 8]

Numbers == DOMAIN NumberWidth

\* Counts are 32 bits wide in version 1 and 64 bits since. The length of a
\* string is read with 64 bits in every version.
CountWidth(version) == IF version = 1 THEN 4 ELSE 8
StringBytes(length) == 8 + length

\* An array may hold numbers or strings (here of one length), not arrays. The
\* type of its elements is looked at when one is read: an empty array may
\* declare any.
Readable(v) == \/ v.type \in Numbers \cup {"String"}
               \/ v.type = "Array" /\ (v.n = 0 \/ v.elem \in Numbers \cup {"String"})

ElementBytes(v) == IF v.elem = "String" THEN StringBytes(v.length) ELSE NumberWidth[v.elem]
ArrayBytes(v)   == IF v.n = 0 THEN 0 ELSE v.n * ElementBytes(v)

\* read_gguf_value: the type word, then the value.
ValueBytes(v, version) ==
    4 + IF v.type \in Numbers THEN NumberWidth[v.type]
        ELSE IF v.type = "String" THEN StringBytes(v.n)
        ELSE 4 + CountWidth(version) + ArrayBytes(v)

KeyBytes(key) == StringBytes(Len(key[1]) + 1 + Len(key[2]))

TensorInfoBytes(t, version) ==
    StringBytes(t.nameLength) + 4 + t.dims * CountWidth(version) + 4 + 8

\* Where a run of pieces of the given sizes ends that begins at start.
Behind(start, sizes) ==
    LET end[n \in 0 .. Len(sizes)] == IF n = 0 THEN start ELSE end[n - 1] + sizes[n]
    IN  end[Len(sizes)]

\* stream_position() behind the last descriptor.
HeaderEnd(f) ==
    LET kvs   == [i \in DOMAIN f.kvs |->
                      KeyBytes(f.kvs[i].key) + ValueBytes(f.kvs[i].value, f.version)]
        infos == [i \in DOMAIN f.tensors |-> TensorInfoBytes(f.tensors[i], f.version)]
    IN  Behind(Behind(8 + 2 * CountWidth(f.version), kvs), infos)

\* What a file consists of, well-formed or not: an array may hold arrays and
\* a type may be unknown, but a length or a count is a natural number.
Value == [type : STRING \ {"Array"}, n : Nat]
             \cup [type : {"Array"}, elem : STRING, n : Nat, length : Nat]
Descriptor ==
    [name : ({"blk"} \X Nat) \cup Seq(STRING), nameLength : Nat, dims : Nat,
     known : BOOLEAN, offset : Nat,
     row : Nat, rows : Nat, width : Nat, block : Nat \ {0}]

IsFile(f) ==
    /\ f.magic \in BOOLEAN /\ f.version \in Nat /\ f.size \in Nat
    /\ f.kvs \in Seq([key : STRING \X STRING, value : Value])
    /\ \A i \in DOMAIN f.kvs : KeyBytes(f.kvs[i].key) \in Nat
    /\ f.tensors \in Seq(Descriptor)

\* parse returns Ok: everything else is an Err, a file that ends inside its
\* header included.
Parses(f) ==
    /\ f.magic
    /\ f.version \in 1 .. 3
    /\ \A i \in DOMAIN f.kvs : Readable(f.kvs[i].value)
    /\ HeaderEnd(f) <= f.size

\* The metadata is a map: of two entries with one key the last one stays.
Keys(f) == {f.kvs[i].key : i \in DOMAIN f.kvs}
Meta(f, key) ==
    LET last == CHOOSE i \in DOMAIN f.kvs :
                    /\ f.kvs[i].key = key
                    /\ \A j \in DOMAIN f.kvs : f.kvs[j].key = key => j <= i
    IN f.kvs[last].value

\* get(key).and_then(as_u32).unwrap_or(default): a number of any other type
\* counts as absent.
U32Of(f, key, default) ==
    IF key \in Keys(f) /\ Meta(f, key).type = "U32" THEN Meta(f, key).n ELSE default

Alignment(f) == U32Of(f, <<"general", "alignment">>, 32)

\* Mutant: the header is not padded.
DataOffset_Unpadded(f) == HeaderEnd(f)
DataOffset(f) == RoundUp(HeaderEnd(f), Alignment(f))
=============================================================================
