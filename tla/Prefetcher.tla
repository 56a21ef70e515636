---------------------------- MODULE Prefetcher ----------------------------
(***************************************************************************)
(* src/mapper.rs: InferenceMapper, the file mapping it owns and the        *)
(* Prefetcher thread that advises the kernel about windows of the mapping. *)
(*                                                                         *)
(* Two threads: the owner, which calls the methods of InferenceMapper and  *)
(* at last drops it, and the prefetch thread. They share current_layer,    *)
(* stop and a condition variable. Its mutex is taken by the prefetch       *)
(* thread alone, so nothing keeps the owner from storing and notifying     *)
(* between two steps of the other thread, and a notification that finds no *)
(* thread waiting is lost.                                                 *)
(***************************************************************************)
EXTENDS BufferLayout

CONSTANTS TotalSize,         \* bytes of the file
          LAYER_SIZE_BYTES,  \* and of a window
          PREFETCH_DEPTH,    \* how many windows ahead to prefetch
          Word               \* a usize is a number below this

ASSUME SizeAssumption ==
    TotalSize \in Nat \ {0} /\ LAYER_SIZE_BYTES \in Nat \ {0}
ASSUME DepthAssumption == PREFETCH_DEPTH \in Nat \ {0}
ASSUME WordAssumption == Word \in Nat /\ TotalSize < Word

VARIABLES
    owner,      \* where the owner's thread stands
    warmed,     \* windows new() has advised so far
    shutdowns,  \* calls of Prefetcher::shutdown still to make
    handle,     \* Prefetcher.handle is Some
    mapped,     \* the mapping exists
    stop,       \* the stop flag
    current,    \* current_layer
    worker,     \* where the prefetch thread stands
    cur, next,  \* its locals: the layer it loaded, the i of its for loop
    wanted      \* windows whose last advice was MADV_WILLNEED

ownervars  == <<owner, warmed, shutdowns, handle, mapped>>
workervars == <<worker, cur, next>>
vars == <<ownervars, workervars, stop, current, wanted>>

\* num_layers(total_size).
NLayers == WindowCount(TotalSize, LAYER_SIZE_BYTES)
Windows == 0..(NLayers - 1)

\* What a client may take for a layer.
Usize == 0..(Word - 1)

TypeOK ==
    /\ owner \in {"new", "running", "advanced", "stopping", "notifying",
                  "joining", "unmapping", "gone"}
    /\ warmed \in 0..Smaller(PREFETCH_DEPTH, NLayers)
    /\ shutdowns \in 0..2
    /\ handle \in BOOLEAN
    /\ mapped \in BOOLEAN
    /\ stop \in BOOLEAN
    /\ current \in Usize
    /\ worker \in {"locking", "waiting", "woken", "loading", "advising", "exited"}
    /\ cur \in Usize
    /\ next \in 1..(PREFETCH_DEPTH + 1)
    /\ wanted \subseteq Windows

\* The file is mapped and the thread spawned; new() has still to warm up.
Init ==
    /\ owner = "new"
    /\ warmed = 0
    /\ shutdowns = 0
    /\ handle = TRUE
    /\ mapped = TRUE
    /\ stop = FALSE
    /\ current = 0
    /\ worker = "locking"
    /\ cur = 0
    /\ next = 1
    /\ wanted = {}
-----------------------------------------------------------------------------
(* The prefetch thread *)

\* lock() and wait_timeout(): the thread is in the wait set.
Wait ==
    /\ worker = "locking"
    /\ worker' = "waiting"
    /\ UNCHANGED <<ownervars, cur, next, stop, current, wanted>>

\* Mutant: a time-out is no reason to look.
Timeout_NothingToDo ==
    /\ worker = "waiting"
    /\ worker' = "locking"
    /\ UNCHANGED <<ownervars, cur, next, stop, current, wanted>>

\* 100 ms have passed, or a spurious wake-up.
Timeout ==
    /\ worker = "waiting"
    /\ worker' = "woken"
    /\ UNCHANGED <<ownervars, cur, next, stop, current, wanted>>

\* Mutant: the flag is not looked at after the wait.
CheckStop_Missing ==
    /\ worker = "woken"
    /\ worker' = "loading"
    /\ UNCHANGED <<ownervars, cur, next, stop, current, wanted>>

CheckStop ==
    /\ worker = "woken"
    /\ worker' = IF stop THEN "exited" ELSE "loading"
    /\ UNCHANGED <<ownervars, cur, next, stop, current, wanted>>

LoadCurrent ==
    /\ worker = "loading"
    /\ cur' = current
    /\ next' = 1
    /\ worker' = "advising"
    /\ UNCHANGED <<ownervars, stop, current, wanted>>

\* A sum that wraps, in a release build.
Ahead == (cur + next) % Word

\* Mutant: the bound of the windows is off by one.
Advise_OneTooMany ==
    /\ worker = "advising"
    /\ next <= PREFETCH_DEPTH
    /\ Ahead <= NLayers
    /\ wanted' = wanted \cup {Ahead}
    /\ next' = next + 1
    /\ UNCHANGED <<ownervars, worker, cur, stop, current>>

\* One madvise(MADV_WILLNEED); a failure is only logged.
Advise ==
    /\ worker = "advising"
    /\ next <= PREFETCH_DEPTH
    /\ Ahead < NLayers
    /\ wanted' = wanted \cup {Ahead}
    /\ next' = next + 1
    /\ UNCHANGED <<ownervars, worker, cur, stop, current>>

AdviseDone ==
    /\ worker = "advising"
    /\ next > PREFETCH_DEPTH \/ Ahead >= NLayers
    /\ worker' = "locking"
    /\ UNCHANGED <<ownervars, cur, next, stop, current, wanted>>

WorkerStep == Wait \/ Timeout \/ CheckStop \/ LoadCurrent \/ Advise \/ AdviseDone
-----------------------------------------------------------------------------
(* The owner *)

\* notify_one and notify_all are the same for the one thread there is.
Notify == worker' = IF worker = "waiting" THEN "woken" ELSE worker

WarmUp ==
    /\ owner = "new"
    /\ warmed < Smaller(PREFETCH_DEPTH, NLayers)
    /\ wanted' = wanted \cup {warmed}
    /\ warmed' = warmed + 1
    /\ UNCHANGED <<owner, shutdowns, handle, mapped, workervars, stop, current>>

NewReturns ==
    /\ owner = "new"
    /\ warmed = Smaller(PREFETCH_DEPTH, NLayers)
    /\ owner' = "running"
    /\ UNCHANGED <<warmed, shutdowns, handle, mapped, workervars, stop, current, wanted>>

\* Prefetcher::advance: the store ...
Advance(layer) ==
    /\ owner = "running"
    /\ current' = layer
    /\ owner' = "advanced"
    /\ UNCHANGED <<warmed, shutdowns, handle, mapped, workervars, stop, wanted>>

\* ... and the notification, without the lock.
AdvanceNotify ==
    /\ owner = "advanced"
    /\ Notify
    /\ owner' = "running"
    /\ UNCHANGED <<warmed, shutdowns, handle, mapped, cur, next, stop, current, wanted>>

\* activate_layer: MADV_DONTNEED on a window that exists, and nothing else.
Activate(evict) ==
    /\ owner = "running"
    /\ wanted' = wanted \ {evict}
    /\ UNCHANGED <<ownervars, workervars, stop, current>>

\* The InferenceMapper goes: dropped, which calls Prefetcher::shutdown once,
\* or by its own shutdown(), after which the drop calls it a second time.
Close ==
    /\ owner = "running"
    /\ shutdowns' \in {1, 2}
    /\ owner' = "stopping"
    /\ UNCHANGED <<warmed, handle, mapped, workervars, stop, current, wanted>>

\* Prefetcher::shutdown: set the flag, wake the thread, join it.
SetStop ==
    /\ owner = "stopping"
    /\ stop' = TRUE
    /\ owner' = "notifying"
    /\ UNCHANGED <<warmed, shutdowns, handle, mapped, workervars, current, wanted>>

StopNotify ==
    /\ owner = "notifying"
    /\ Notify
    /\ owner' = "joining"
    /\ UNCHANGED <<warmed, shutdowns, handle, mapped, cur, next, stop, current, wanted>>

\* Mutant: the handle is dropped, which detaches the thread.
Join_Detached ==
    /\ owner = "joining"
    /\ handle' = FALSE
    /\ shutdowns' = shutdowns - 1
    /\ owner' = IF shutdowns > 1 THEN "stopping" ELSE "unmapping"
    /\ UNCHANGED <<warmed, mapped, workervars, stop, current, wanted>>

\* handle.take() and join: the second call finds None and does not wait.
Join ==
    /\ owner = "joining"
    /\ handle => worker = "exited"
    /\ handle' = FALSE
    /\ shutdowns' = shutdowns - 1
    /\ owner' = IF shutdowns > 1 THEN "stopping" ELSE "unmapping"
    /\ UNCHANGED <<warmed, mapped, workervars, stop, current, wanted>>

\* The fields are dropped after InferenceMapper::drop: munmap, close.
Unmap ==
    /\ owner = "unmapping"
    /\ mapped' = FALSE
    /\ wanted' = {}
    /\ owner' = "gone"
    /\ UNCHANGED <<warmed, shutdowns, handle, workervars, stop, current>>

\* What the owner's thread does by itself inside a call.
OwnerStep == \/ WarmUp \/ NewReturns \/ AdvanceNotify
             \/ SetStop \/ StopNotify \/ Join \/ Unmap

\* The calls a client may make.
ClientCall ==
    \/ \E layer \in Usize : Advance(layer)
    \/ \E evict \in Usize : Activate(evict)
    \/ Close

Gone ==
    /\ owner = "gone"
    /\ worker = "exited"
    /\ UNCHANGED vars

Next == WorkerStep \/ OwnerStep \/ ClientCall \/ Gone

Spec == Init /\ [][Next]_vars

\* Both threads are scheduled, and a wait of 100 ms comes to its end.
FairSpec == Spec /\ WF_vars(WorkerStep) /\ WF_vars(OwnerStep)
-----------------------------------------------------------------------------
(* Properties *)

\* The thread holds the address of the mapping as a plain integer; nothing
\* but the join in shutdown keeps it from calling madvise on addresses that
\* have been unmapped, and perhaps mapped anew (mapper.rs:224-231, 304-312).
NoAdviseAfterUnmap == ~mapped => worker = "exited"

\* Every advice is on bytes of the mapping, at least one of them: the address
\* and the length are computed from a layer number that may be stale, and the
\* last window is a part of one (mapper.rs:220-227).
AdviceInsideMapping ==
    \A t \in wanted : mapped /\ WindowSound(TotalSize, LAYER_SIZE_BYTES, t)

\* Shutdown comes to its end although the thread may miss the notification:
\* it is not waiting when notify_all is called, and then waits (mapper.rs:216).
CloseCompletes == owner = "stopping" ~> owner = "gone"

\* The window after the current one is asked for sooner or later, even when
\* the notification of the advance was lost, unless the owner moves on.
NextWindowPrefetched ==
    \A layer \in Windows :
        layer + 1 \in Windows =>
            (current = layer /\ owner = "running"
                ~> \/ layer + 1 \in wanted
                   \/ current # layer
                   \/ stop)
=============================================================================
