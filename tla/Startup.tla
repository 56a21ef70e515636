------------------------------ MODULE Startup ------------------------------
(***************************************************************************)
(* src/main.rs, loader.rs, graph.rs: a run of the program, from the model  *)
(* file to the last drop. main parses the header of the file; then the     *)
(* loader parses it a second time, maps the file and points a tensor at    *)
(* each piece of data; tokenizer, backend and KV cache follow; a driver    *)
(* runs its passes (GraphResources); and the locals of main drop, the      *)
(* graph first, the mapping last. process::exit drops nothing, and neither *)
(* does a failed assertion of ggml.                                        *)
(***************************************************************************)
EXTENDS GraphResources, Gguf, FiniteSets

CONSTANTS Files,  \* what may be at the path of the model
          Base,   \* where the mapping begins
          Word,   \* addresses are computed modulo this
          NCtx    \* rows of the KV cache

ASSUME FilesAssumption == \A f \in Files : IsFile(f)
ASSUME AddressAssumption == Base \in Nat /\ Word \in Nat /\ Base < Word
ASSUME RowsAssumption == NCtx \in Nat

VARIABLES
    stage,     \* the step of the start-up, "ready", a step of the drop, or the end
    exitCode,  \* of a program that has exited
    disk,      \* the file at the path now
    replaced,  \* somebody put another file there
    header,    \* what main parsed
    model,     \* what the loader parsed
    mapped,    \* the length of the mapping
    next,      \* the descriptor the loader is at
    placed,    \* self.tensors of MappedModel: each tensor, and where its data is
    owned      \* what the program has to give back

startvars == <<stage, exitCode, disk, replaced, header, model, mapped, next, placed, owned>>
vars      == <<graphvars, startvars>>

Objects == {"mapping", "weight_buf", "model_ctx", "backend", "kv_buf", "kv_ctx"}
Loading == {"header", "load", "map", "wrap", "context", "place", "tokenizer", "backend", "kv"}
Leaving == {"drop_kv", "drop_model", "unmap"}
Ended   == {"exited", "crashed"}
NoFile  == [size |-> 0]
MAX_DIMS == 4  \* GGML_MAX_DIMS

TypeOK ==
    /\ GraphTypeOK
    /\ stage \in Loading \cup {"ready"} \cup Leaving \cup Ended
    /\ exitCode \in {0, 1}
    /\ disk \in Files /\ replaced \in BOOLEAN
    /\ header \in Files \cup {NoFile} /\ model \in Files \cup {NoFile}
    /\ mapped \in {f.size : f \in Files} \cup {0}
    /\ next \in Nat
    /\ \A t \in DOMAIN placed : placed[t] \in [data : Nat, of : Descriptor]
    /\ owned \subseteq Objects

Init ==
    /\ GraphInit /\ complete = FALSE
    /\ stage = "header" /\ exitCode = 0
    /\ disk \in Files /\ replaced = FALSE
    /\ header = NoFile /\ model = NoFile
    /\ mapped = 0 /\ next = 1
    /\ placed = <<>>
    /\ owned = {}

\* process::exit(1) in main, once what a failing load has dropped is gone.
ExitWith(code, dropped) ==
    /\ stage' = "exited"
    /\ exitCode' = code
    /\ owned' = owned \ dropped
    /\ UNCHANGED <<disk, replaced, header, model, mapped, next, placed>>

\* A panic of the program or a failed assertion of ggml.
Crash ==
    /\ stage' = "crashed"
    /\ UNCHANGED <<exitCode, disk, replaced, header, model, mapped, next, placed, owned>>

Acquire(what, then) ==
    /\ owned' = owned \cup what
    /\ stage' = then
    /\ UNCHANGED <<exitCode, disk, replaced, header, model, mapped, next, placed>>

\* Another process puts a new file at the path, at most once; the mapping
\* keeps the file it was made from.
Replace ==
    /\ ~replaced
    /\ stage \in {"header", "load", "map"}
    /\ disk' \in Files /\ replaced' = TRUE
    /\ UNCHANGED <<stage, exitCode, header, model, mapped, next, placed, owned>>
-----------------------------------------------------------------------------
(* The load                                                                *)

ParseHeader ==
    /\ stage = "header"
    /\ Parses(disk) /\ Alignment(disk) # 0
    /\ header' = disk
    /\ stage' = "load"
    /\ UNCHANGED <<exitCode, disk, replaced, model, mapped, next, placed, owned>>

ParseModel ==
    /\ stage = "load"
    /\ Parses(disk) /\ Alignment(disk) # 0
    /\ model' = disk
    /\ stage' = "map"
    /\ UNCHANGED <<exitCode, disk, replaced, header, mapped, next, placed, owned>>

ParseFails ==
    /\ stage \in {"header", "load"}
    /\ IF Parses(disk) THEN Alignment(disk) = 0 /\ Crash ELSE ExitWith(1, {})

\* FileMapper::open; an empty file is refused, and a system call may fail. A
\* mapping ends below the last address.
MapFile ==
    /\ stage = "map"
    /\ disk.size > 0 /\ Base + disk.size < Word
    /\ mapped' = disk.size
    /\ owned' = owned \cup {"mapping"}
    /\ stage' = "wrap"
    /\ UNCHANGED <<exitCode, disk, replaced, header, model, next, placed>>

MapFails == stage = "map" /\ ExitWith(1, {})

\* ggml_backend_cpu_buffer_from_ptr, then ggml_init; the mapping is a local
\* of load and drops with its error, the weight buffer does not.
Wrap        == stage = "wrap"    /\ Acquire({"weight_buf"}, "context")
WrapFails   == stage = "wrap"    /\ ExitWith(1, {"mapping"})
NewContext  == stage = "context" /\ Acquire({"model_ctx"}, "place")
ContextFails == stage = "context" /\ ExitWith(1, {"mapping"})

\* The tensor at next, and its address as the sums of loader.rs:77-82 come out.
Mapping    == Region(Base, mapped)
Current    == model.tensors[next]
TensorAddr == (Base + DataOffset(model) + Current.offset) % Word

\* ggml_nbytes: the first row, then a stride for every other one. (The sum
\* over the dimensions telescopes to the number of rows.)
Stride(t) == (t.row \div t.block) * t.width
Bytes(t)  == (t.row * t.width) \div t.block + (t.rows - 1) * Stride(t)

\* The same in size_t: the product of the first row wraps before it is
\* divided, everything else with the sum.
NBytes(t) == (((t.row * t.width) % Word) \div t.block + (t.rows - 1) * Stride(t)) % Word

\* The assertions of ggml_backend_tensor_alloc; their sum wraps as well.
AllocFits ==
    /\ Base <= TensorAddr
    /\ (TensorAddr + NBytes(Current)) % Word <= Base + mapped

Placing == stage = "place" /\ next \in DOMAIN model.tensors
Advance == /\ next' = next + 1
           /\ UNCHANGED <<stage, exitCode, disk, replaced, header, model, mapped, owned>>

\* An unknown type or an address behind the mapping: the tensor is left out
\* and the load goes on. (The third reason, a null from ggml_new_tensor, does
\* not occur: the context has room for every descriptor.)
SkipTensor ==
    /\ Placing
    /\ Current.known => TensorAddr >= Base + mapped
    /\ Advance /\ UNCHANGED placed

\* tensors.insert: of two tensors with one name the last one stays.
Insert(name, tensor) ==
    placed' = [t \in DOMAIN placed \cup {name} |-> IF t = name THEN tensor ELSE placed[t]]

\* Mutant: the assertions of ggml_backend_tensor_alloc are gone.
PlaceTensor_Unasserted ==
    /\ Placing
    /\ Current.known /\ TensorAddr < Base + mapped
    /\ Insert(Current.name, [data |-> TensorAddr, of |-> Current])
    /\ Advance

PlaceTensor ==
    /\ Placing
    /\ Current.known /\ TensorAddr < Base + mapped
    /\ AllocFits
    /\ Insert(Current.name, [data |-> TensorAddr, of |-> Current])
    /\ Advance

\* A failed assertion; or more dimensions than a tensor has, which ggml_new_tensor
\* writes behind its ne. The assert against that is compiled away (-DNDEBUG,
\* build.rs:47), so that PlaceTensor may also be what happens.
PlaceAsserts ==
    /\ Placing
    /\ Current.known /\ TensorAddr < Base + mapped
    /\ ~AllocFits \/ Current.dims > MAX_DIMS
    /\ Crash

Placed ==
    /\ stage = "place"
    /\ next \notin DOMAIN model.tensors
    /\ stage' = "tokenizer"
    /\ UNCHANGED <<exitCode, disk, replaced, header, model, mapped, next, placed, owned>>
-----------------------------------------------------------------------------
(* Tokenizer, backend and KV cache                                         *)

\* The elements of an array that have the type asked for; the others are
\* passed over, all of them if the array is of another type.
Elements(f, key, elem) ==
    IF key \in Keys(f) /\ Meta(f, key).type = "Array" /\ Meta(f, key).elem = elem
    THEN Meta(f, key).n ELSE 0

Tokens == <<"tokenizer.ggml", "tokens">>
Scores == <<"tokenizer.ggml", "scores">>

\* extract_*_array and the check of from_gguf_parts, on what main parsed.
TokenizerBuilds ==
    /\ Tokens \in Keys(header) /\ Meta(header, Tokens).type = "Array"
    /\ Elements(header, Scores, "F32") \in {0, Elements(header, Tokens, "String")}

BuildTokenizer ==
    /\ stage = "tokenizer"
    /\ IF TokenizerBuilds THEN Acquire({}, "backend") ELSE ExitWith(1, {})

NewBackend   == stage = "backend" /\ Acquire({"backend"}, "kv")
BackendFails == stage = "backend" /\ ExitWith(1, {})

\* LlamaHparams::from_model for the architecture llama (another one renames
\* the keys); head_dim divides.
Hparam(name) == U32Of(model, <<"llama", name>>, 0)
KVGeometry ==
    [layers  |-> Hparam("block_count"),
     headsKV |-> Hparam("attention.head_count_kv"),
     headDim |-> Hparam("embedding_length") \div Hparam("attention.head_count"),
     rows    |-> NCtx]

\* What the passes ask the model for (the tensors of a layer as one).
Required(layers) ==
    {<<"token_embd">>, <<"output_norm">>, <<"output">>} \cup {<<"blk", l>> : l \in 0 .. layers - 1}

NewKVCache ==
    /\ stage = "kv"
    /\ Hparam("attention.head_count") # 0
    /\ Acquire({"kv_buf", "kv_ctx"}, "ready")
    /\ complete' = (Required(KVGeometry.layers) \subseteq DOMAIN placed)
    /\ UNCHANGED <<pc, call, local, graph, built, live, badFree>>

\* No heads: a division by zero. The buffer or the context null: not looked at.
KVCacheCrashes == stage = "kv" /\ Crash
-----------------------------------------------------------------------------
(* The driver, and the drops                                               *)

Drive == stage = "ready" /\ GraphCall /\ UNCHANGED startvars

\* Another process cuts the mapped file short: its pages are gone, and the
\* graph that reads a weight on one of them ends the program (SIGBUS).
FileCutShort ==
    /\ stage = "ready"
    /\ pc = "compute" \/ (pc = "idle" /\ built)
    /\ Crash

\* run_prompt exits where it stands when generate fails.
PromptFails == stage = "ready" /\ pc = "idle" /\ ExitWith(1, {})

Release(what, then) ==
    /\ owned' = owned \ what
    /\ stage' = then
    /\ UNCHANGED <<exitCode, disk, replaced, header, model, mapped, next, placed>>

\* Mutant: the model goes before the graph.
DropGraph_ModelFirst ==
    /\ stage = "ready" /\ pc = "idle"
    /\ Release({"mapping"}, "drop_kv") /\ UNCHANGED graphvars

\* The drop of LlamaGraph frees the backend; the fields drop behind it.
DropGraph ==
    /\ stage = "ready"
    /\ Drop
    /\ Release({"backend"}, "drop_kv")

DropKVCache == stage = "drop_kv"    /\ Release({"kv_ctx", "kv_buf"}, "drop_model")
DropModel   == stage = "drop_model" /\ Release({"model_ctx", "weight_buf"}, "unmap")

\* Mutant: a drop of MappedModel that leaves its field alone.
DropMapping_Forgotten == stage = "unmap" /\ ExitWith(0, {})
DropMapping == stage = "unmap" /\ ExitWith(0, {"mapping"})

Terminated == stage \in Ended /\ UNCHANGED vars

Load ==
    \/ Replace
    \/ ParseHeader \/ ParseModel \/ ParseFails
    \/ MapFile \/ MapFails \/ Wrap \/ WrapFails \/ NewContext \/ ContextFails
    \/ SkipTensor \/ PlaceTensor \/ PlaceAsserts \/ Placed
    \/ BuildTokenizer \/ NewBackend \/ BackendFails \/ KVCacheCrashes
    \/ FileCutShort \/ PromptFails \/ DropKVCache \/ DropModel \/ DropMapping

Next ==
    \/ Load /\ UNCHANGED graphvars
    \/ NewKVCache \/ Drive \/ DropGraph
    \/ Terminated

Spec == Init /\ [][Next]_vars
-----------------------------------------------------------------------------
(* Properties *)

\* The tensor data begins behind the header of the file the loader parsed, at
\* the first multiple of the alignment the metadata settles on, whichever of
\* several entries that is and whatever its type (gguf.rs:130-135).
DataBehindHeader ==
    model # NoFile =>
        LET gap == DataOffset(model) - HeaderEnd(model) IN
        /\ gap \in 0 .. Alignment(model) - 1
        /\ DataOffset(model) % Alignment(model) = 0

\* The size and the end of a tensor are numbers below Word.
SizeFits(p) ==
    /\ p.of.row * p.of.width < Word
    /\ p.data + Bytes(p.of) < Word

\* What a pass reads exists: while one runs, the model, the mapping and the
\* cache are all there, and every tensor it may look up begins in the mapping
\* and ends there too, unless its size is so large that ggml's arithmetic
\* wraps; also when the file was another one when its header was read, and
\* where the offset has wrapped (loader.rs:77-121, main.rs:124-125).
PassesReadTheMapping ==
    pc \notin {"idle", "dropped"} =>
        /\ owned = Objects
        /\ \A t \in DOMAIN placed :
               LET p == placed[t] IN
               /\ p.data \in Base .. Base + mapped - 1
               /\ SizeFits(p) => Within(Region(p.data, Bytes(p.of)), Mapping)

\* The drops of main's locals come in an order in which nothing loses what
\* it stands on: the decode graph the backend, the model and the cache, the
\* weight buffer the mapping it wraps (graph.rs:761-774, loader.rs:159-167).
NothingOutlivesItsBase ==
    stage \notin Ended =>
        /\ built /\ pc # "dropped" => owned = Objects
        /\ "kv_buf" \in owned => "weight_buf" \in owned
        /\ "model_ctx" \in owned => "weight_buf" \in owned
        /\ "weight_buf" \in owned => "mapping" \in owned

\* A program that exits with 0 has given everything back, the objects of the
\* passes included if the model is complete (main.rs:390-426).
CleanExit ==
    stage = "exited" /\ exitCode = 0 =>
        /\ owned = {} /\ pc = "dropped"
        /\ complete => live = {}

\* The buffers laid out by hand hold what the code puts into them, without
\* overlap: the cache for the geometry of the loaded model, the inputs of a
\* prefill of any length and those of a decode (graph.rs:131-166, 259-275,
\* 530-562).
BuffersSound ==
    stage = "kv" /\ Hparam("attention.head_count") # 0 =>
        /\ KVCellsSound(KVGeometry)
        /\ \A n \in 1 .. NCtx : InputsSound(n)
        /\ DecodeInputsSound(NCtx)
=============================================================================
