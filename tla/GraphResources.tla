-------------------------- MODULE GraphResources --------------------------
(***************************************************************************)
(* src/graph.rs: the ggml objects that forward and build_decode_graph      *)
(* allocate and have to free by hand. forward frees its four before every  *)
(* return; build_decode_graph hands them over to self once, and the Drop   *)
(* of LlamaGraph frees those. Each early return lists what it frees, and   *)
(* the ? behind a missing tensor frees nothing.                            *)
(*                                                                         *)
(* What lives from new() to drop (the backend, the buffer and the context  *)
(* of the KV cache) is in Startup, which creates and drops a graph.        *)
(***************************************************************************)
CONSTANTS Address,  \* what the allocators may hand out
          Null

ASSUME NullAssumption == Null \notin Address

VARIABLES
    pc,        \* the allocation or step a call stands at; "idle", "dropped"
    call,      \* the call in progress: "forward" or "build"
    local,     \* its locals inp_buf, inp_ctx, ctx, galloc
    graph,     \* self.d_inp_buf, d_inp_ctx, d_ctx, d_galloc
    built,     \* self.d_built
    complete,  \* the model file has every tensor the graphs ask for
    live,      \* what is allocated and not yet freed
    badFree    \* history variable: something was freed that was not live

graphvars == <<pc, call, local, graph, built, complete, live, badFree>>

Names   == {"inp_buf", "inp_ctx", "ctx", "galloc"}
Handles == [Names -> Address \cup {Null}]
Nothing == [n \in Names |-> Null]

\* The addresses that handles hs has under names.
Held(hs, names) == {hs[n] : n \in names}

GraphTypeOK ==
    /\ pc \in {"idle", "inp_buf", "inp_ctx", "ctx", "tensors", "galloc",
               "plan", "compute", "dropped"}
    /\ call \in {"forward", "build"}
    /\ local \in Handles
    /\ built \in BOOLEAN
    /\ graph \in IF built THEN [Names -> Address] ELSE {Nothing}
    /\ complete \in BOOLEAN
    /\ live \subseteq Address
    /\ badFree \in BOOLEAN

GraphInit ==
    /\ pc = "idle"
    /\ call = "forward"
    /\ local = Nothing
    /\ graph = Nothing
    /\ built = FALSE
    /\ complete \in BOOLEAN
    /\ live = {}
    /\ badFree = FALSE

\* Free what handles hs holds under names. Freeing what is not live, or the
\* same address under two names, is what must never happen.
Free(hs, names) ==
    /\ live' = live \ Held(hs, names)
    /\ badFree' = (badFree
                    \/ ~(Held(hs, names) \subseteq live)
                    \/ \E m, n \in names : m # n /\ hs[m] = hs[n])

\* The call ends; its locals are gone whether they were freed or not.
Return == pc' = "idle" /\ local' = Nothing
-----------------------------------------------------------------------------
\* execute_decode builds the graph unless it has one.
Begin(c) ==
    /\ pc = "idle"
    /\ c = "build" => ~built
    /\ call' = c
    /\ pc' = "inp_buf"
    /\ UNCHANGED <<local, graph, built, complete, live, badFree>>

\* The four allocations, in their order, and what the error return of each
\* frees. The tensors are looked up between the third and the fourth.
After == [inp_buf |-> "inp_ctx", inp_ctx |-> "ctx", ctx |-> "tensors", galloc |-> "plan"]

\* Mutant: the new context is forgotten.
FreedAt_ForgetsContext ==
    [inp_buf |-> {},
     inp_ctx |-> {"inp_buf"},
     ctx     |-> {"inp_ctx", "inp_buf"},
     galloc  |-> {"inp_ctx", "inp_buf"}]

FreedAt ==
    [inp_buf |-> {},
     inp_ctx |-> {"inp_buf"},
     ctx     |-> {"inp_ctx", "inp_buf"},
     galloc  |-> {"inp_ctx", "ctx", "inp_buf"}]

Allocate ==
    /\ pc \in Names
    /\ \E a \in Address \ live :
           /\ live' = live \cup {a}
           /\ local' = [local EXCEPT ![pc] = a]
    /\ pc' = After[pc]
    /\ UNCHANGED <<call, graph, built, complete, badFree>>

AllocationFails ==
    /\ pc \in Names
    /\ Free(local, FreedAt[pc])
    /\ Return
    /\ UNCHANGED <<call, graph, built, complete>>

TensorsFound ==
    /\ pc = "tensors"
    /\ complete
    /\ pc' = "galloc"
    /\ UNCHANGED <<call, local, graph, built, complete, live, badFree>>

\* Mutant: the graph counts as built although it was given up.
TensorMissing_Built ==
    /\ pc = "tensors"
    /\ ~complete
    /\ Return
    /\ built' = (built \/ call = "build")
    /\ UNCHANGED <<call, graph, complete, live, badFree>>

\* The ? behind model.tensor(..).ok_or_else(..) and t(..).
TensorMissing ==
    /\ pc = "tensors"
    /\ ~complete
    /\ Return
    /\ UNCHANGED <<call, graph, built, complete, live, badFree>>

\* forward: kv_len > n_ctx, found between two look-ups.
Overflow ==
    /\ pc = "tensors"
    /\ call = "forward"
    /\ Free(local, {"ctx", "inp_ctx", "inp_buf"})
    /\ Return
    /\ UNCHANGED <<call, graph, built, complete>>

\* gallocr_alloc_graph.
Plan ==
    /\ pc = "plan"
    /\ pc' = "compute"
    /\ UNCHANGED <<call, local, graph, built, complete, live, badFree>>

PlanFails ==
    /\ pc = "plan"
    /\ Free(local, {"galloc", "inp_ctx", "ctx", "inp_buf"})
    /\ Return
    /\ UNCHANGED <<call, graph, built, complete>>

\* forward, whether the computation failed or its logits were read.
ForwardReturns ==
    /\ pc = "compute"
    /\ call = "forward"
    /\ Free(local, {"galloc", "ctx", "inp_ctx", "inp_buf"})
    /\ Return
    /\ UNCHANGED <<call, graph, built, complete>>

\* Mutant: the allocator is freed as forward does it.
BuildReturns_FreesAllocator ==
    /\ pc = "compute"
    /\ call = "build"
    /\ Free(local, {"galloc"})
    /\ graph' = local
    /\ built' = TRUE
    /\ Return
    /\ UNCHANGED <<call, complete>>

\* build_decode_graph keeps all four.
BuildReturns ==
    /\ pc = "compute"
    /\ call = "build"
    /\ graph' = local
    /\ built' = TRUE
    /\ Return
    /\ UNCHANGED <<call, complete, live, badFree>>

\* Mutant: the handles are freed whether the graph was built or not.
Drop_Unbuilt ==
    /\ pc = "idle"
    /\ Free(graph, Names)
    /\ pc' = "dropped"
    /\ UNCHANGED <<call, local, graph, built, complete>>

\* Drop for LlamaGraph.
Drop ==
    /\ pc = "idle"
    /\ Free(graph, IF built THEN Names ELSE {})
    /\ pc' = "dropped"
    /\ UNCHANGED <<call, local, graph, built, complete>>

Dropped ==
    /\ pc = "dropped"
    /\ UNCHANGED graphvars

\* prefill and decode_one, up to the drop.
GraphCall ==
    \/ \E c \in {"forward", "build"} : Begin(c)
    \/ Allocate \/ AllocationFails
    \/ TensorsFound \/ TensorMissing \/ Overflow
    \/ Plan \/ PlanFails
    \/ ForwardReturns \/ BuildReturns

GraphNext == GraphCall \/ Drop \/ Dropped

GraphSpec == GraphInit /\ [][GraphNext]_graphvars
-----------------------------------------------------------------------------
(* Properties *)

Real(hs) == Held(hs, Names) \ {Null}

\* No path frees what another has freed, what was never allocated, or the
\* same object twice: the lists of the early returns (graph.rs:271, 299, 409,
\* 415, 542, 569, 586, 691, 697, 707), of the end of forward (graph.rs:732)
\* and of Drop (graph.rs:763) agree with what is allocated at that point.
NoBadFree == ~badFree

\* With a complete model nothing leaks: between two calls only the decode
\* graph is allocated, and once LlamaGraph is dropped nothing is. A failure
\* at any allocation, in any order of calls, leaves nothing behind.
NothingLeaked ==
    complete => live = IF pc = "dropped" THEN {} ELSE Real(local) \cup Real(graph)

\* The decode graph is never pulled from under execute_decode, which runs it
\* without another check than d_built: its four objects are distinct and
\* live until the drop, whatever a prefill frees and the allocator hands out
\* again in between (graph.rs:443, 474).
DecodeGraphAlive ==
    built /\ pc # "dropped" =>
        /\ Held(graph, Names) \subseteq live
        /\ \A m, n \in Names : m # n => graph[m] # graph[n]
=============================================================================
