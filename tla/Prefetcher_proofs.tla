------------------------- MODULE Prefetcher_proofs -------------------------
(***************************************************************************)
(* Proofs about Prefetcher for every number of windows and every prefetch  *)
(* depth: its state is well typed, no advice is given on memory that has   *)
(* been unmapped, every advice is inside the mapping, and a shutdown comes *)
(* nearer to its end with every step of either thread.                     *)
(***************************************************************************)
EXTENDS Prefetcher, BufferLayout_proofs, TLAPS

\* A file that is not empty has a window.
LEMMA NLayersPositive == NLayers \in Nat \ {0}
<1>1. TotalSize + LAYER_SIZE_BYTES - 1 >= LAYER_SIZE_BYTES /\ LAYER_SIZE_BYTES > 0
  BY SizeAssumption
<1>2. (TotalSize + LAYER_SIZE_BYTES - 1) \div LAYER_SIZE_BYTES \in Nat \ {0}
  BY <1>1, SizeAssumption
<1> QED  BY <1>2 DEF NLayers, WindowCount

\* A usize can count the bytes of the file.
LEMMA ZeroIsUsize == Word \in Nat \ {0} /\ 0 \in Usize
  BY WordAssumption, SizeAssumption DEF Usize

USE NLayersPositive, DepthAssumption

\* The join is what ties the two threads: a handle is only given up for a
\* thread that has exited, and the mapping goes only after the handle. A
\* shutdown in progress is counted, so the second one can be the last.
JoinBeforeUnmap ==
    /\ ~handle => worker = "exited"
    /\ owner \in {"unmapping", "gone"} => ~handle
    /\ ~mapped => owner = "gone" /\ wanted = {}
    /\ owner \in {"stopping", "notifying", "joining"} => shutdowns > 0

Inv == TypeOK /\ JoinBeforeUnmap

LEMMA InitEstablishesInv == Init => Inv
<1> SUFFICES ASSUME Init PROVE Inv
  OBVIOUS
<1>1. 0 \in 0..Smaller(PREFETCH_DEPTH, NLayers) /\ 0 \in Windows
  BY DEF Smaller, Windows
<1>2. 0 \in 0..2 /\ 1 \in 1..(PREFETCH_DEPTH + 1) /\ 0 \in Usize
  BY ZeroIsUsize
<1> QED
  BY <1>1, <1>2 DEF Init, Inv, TypeOK, JoinBeforeUnmap

LEMMA WorkerKeepsInv ==
    ASSUME Inv, WorkerStep
    PROVE  Inv'
<1> USE DEF Inv, TypeOK, JoinBeforeUnmap, ownervars
<1>1. CASE Wait
  BY <1>1 DEF Wait
<1>2. CASE Timeout
  BY <1>2 DEF Timeout
<1>3. CASE CheckStop
  BY <1>3 DEF CheckStop
<1>4. CASE LoadCurrent
  BY <1>4 DEF LoadCurrent
<1>5. CASE Advise
  <2>1. Ahead \in Nat
    BY ZeroIsUsize DEF Ahead, Usize
  <2>2. Ahead \in Windows
    BY <2>1, <1>5 DEF Advise, Windows
  <2>3. next' \in 1..(PREFETCH_DEPTH + 1)
    BY <1>5 DEF Advise
  <2> QED
    BY <2>2, <2>3, <1>5 DEF Advise
<1>6. CASE AdviseDone
  BY <1>6 DEF AdviseDone
<1> QED
  BY <1>1, <1>2, <1>3, <1>4, <1>5, <1>6 DEF WorkerStep

LEMMA OwnerKeepsInv ==
    ASSUME Inv, OwnerStep
    PROVE  Inv'
<1> USE DEF Inv, TypeOK, JoinBeforeUnmap, workervars
<1>1. CASE WarmUp
  <2>1. warmed \in Windows /\ warmed' \in 0..Smaller(PREFETCH_DEPTH, NLayers)
    BY <1>1 DEF WarmUp, Smaller, Windows
  <2> QED
    BY <2>1, <1>1 DEF WarmUp
<1>2. CASE NewReturns
  BY <1>2 DEF NewReturns
<1>3. CASE AdvanceNotify
  BY <1>3 DEF AdvanceNotify, Notify
<1>4. CASE SetStop
  BY <1>4 DEF SetStop
<1>5. CASE StopNotify
  BY <1>5 DEF StopNotify, Notify
<1>6. CASE Join
  <2>1. shutdowns' \in 0..2 /\ (shutdowns > 1 => shutdowns' > 0)
    BY <1>6 DEF Join
  <2> QED
    BY <2>1, <1>6 DEF Join
<1>7. CASE Unmap
  BY <1>7 DEF Unmap
<1> QED
  BY <1>1, <1>2, <1>3, <1>4, <1>5, <1>6, <1>7 DEF OwnerStep

LEMMA ClientKeepsInv ==
    ASSUME Inv, ClientCall
    PROVE  Inv'
<1> USE DEF Inv, TypeOK, JoinBeforeUnmap, ownervars, workervars
<1>1. ASSUME NEW layer \in Usize, Advance(layer) PROVE Inv'
  BY <1>1 DEF Advance
<1>2. ASSUME NEW evict \in Usize, Activate(evict) PROVE Inv'
  BY <1>2 DEF Activate
<1>3. CASE Close
  BY <1>3 DEF Close
<1> QED
  BY <1>1, <1>2, <1>3 DEF ClientCall

LEMMA NextKeepsInv == Inv /\ [Next]_vars => Inv'
<1> SUFFICES ASSUME Inv, [Next]_vars PROVE Inv'
  OBVIOUS
<1>1. CASE Gone \/ UNCHANGED vars
  BY <1>1 DEF Gone, vars, ownervars, workervars, Inv, TypeOK, JoinBeforeUnmap
<1> QED
  BY <1>1, WorkerKeepsInv, OwnerKeepsInv, ClientKeepsInv DEF Next

\* Every behaviour of the two threads keeps the invariant.
THEOREM InvHolds == Spec => []Inv
<1> QED
  BY InitEstablishesInv, NextKeepsInv, PTL DEF Spec

\* The state of both threads is well typed; in particular the windows that
\* are advised are windows of the file (mapper.rs:221-225).
THEOREM PrefetcherTypes == Spec => []TypeOK
<1>1. Inv => TypeOK
  BY DEF Inv
<1> QED
  BY <1>1, InvHolds, PTL

\* The prefetch thread never gives advice on the mapping after munmap.
THEOREM NoAdviseAfterUnmapHolds == Spec => []NoAdviseAfterUnmap
<1>1. Inv => NoAdviseAfterUnmap
  BY DEF Inv, JoinBeforeUnmap, NoAdviseAfterUnmap
<1> QED
  BY <1>1, InvHolds, PTL

\* Every advice is on bytes of the mapping while it is mapped: the windows in
\* wanted are windows of the file, and those are sound (WindowSoundHolds).
THEOREM AdviceInsideMappingHolds == Spec => []AdviceInsideMapping
<1>1. \A t \in Windows : WindowSound(TotalSize, LAYER_SIZE_BYTES, t)
  BY SizeAssumption, WindowSoundHolds DEF Windows, NLayers
<1>2. Inv => AdviceInsideMapping
  BY <1>1 DEF Inv, TypeOK, JoinBeforeUnmap, AdviceInsideMapping
<1> QED
  BY <1>2, InvHolds, PTL
-----------------------------------------------------------------------------
(* A shutdown comes nearer to its end with every step of either thread     *)

\* A bound on the steps the thread takes until it has read the stop flag.
WorkerLeft ==
    CASE worker = "exited"   -> 0
      [] worker = "woken"    -> 1
      [] worker = "waiting"  -> 2
      [] worker = "locking"  -> 3
      [] worker = "advising" -> 4 + (PREFETCH_DEPTH + 1 - next)
      [] worker = "loading"  -> 5 + PREFETCH_DEPTH

\* And on those of the owner until the mapping is gone.
OwnerLeft ==
    CASE owner = "stopping"  -> 3 * shutdowns + 1
      [] owner = "notifying" -> 3 * shutdowns
      [] owner = "joining"   -> 3 * shutdowns - 1
      [] owner = "unmapping" -> 1
      [] owner = "gone"      -> 0

CloseLeft == OwnerLeft + WorkerLeft

\* The flag is only set by a shutdown and never taken back; it is set again
\* by the second call alone.
ClosingInv ==
    /\ owner \in {"notifying", "joining", "unmapping", "gone"} => stop
    /\ stop => owner \in {"stopping", "notifying", "joining", "unmapping", "gone"}
    /\ stop /\ owner = "stopping" => shutdowns = 1

LEMMA ClosingNext == Inv /\ ClosingInv /\ [Next]_vars => ClosingInv'
<1> SUFFICES ASSUME Inv, ClosingInv, [Next]_vars PROVE ClosingInv'
  OBVIOUS
<1>1. shutdowns \in 0..2
  BY DEF Inv, TypeOK
<1> USE DEF ClosingInv, ownervars, workervars
<1>2. CASE WorkerStep
  BY <1>2 DEF WorkerStep, Wait, Timeout, CheckStop, LoadCurrent, Advise, AdviseDone
<1>3. CASE OwnerStep
  BY <1>1, <1>3 DEF OwnerStep, WarmUp, NewReturns, AdvanceNotify, SetStop, StopNotify, Join, Unmap
<1>4. CASE ClientCall
  BY <1>4 DEF ClientCall, Advance, Activate, Close
<1>5. CASE Gone \/ UNCHANGED vars
  BY <1>5 DEF Gone, vars
<1> QED
  BY <1>2, <1>3, <1>4, <1>5 DEF Next

LEMMA WorkerLeftBounded ==
    ASSUME Inv
    PROVE  WorkerLeft \in 0..(PREFETCH_DEPTH + 5)
<1>1. PICK d \in Nat, n \in Nat : d = PREFETCH_DEPTH /\ n = next /\ 1 <= n /\ n <= d + 1
  <2>1. next \in 1..(PREFETCH_DEPTH + 1)
    BY DEF Inv, TypeOK
  <2>2. next \in Nat /\ 1 <= next /\ next <= PREFETCH_DEPTH + 1 /\ PREFETCH_DEPTH \in Nat
    BY <2>1
  <2> QED
    BY <2>2
<1>2. worker \in {"locking", "waiting", "woken", "loading", "advising", "exited"}
  BY DEF Inv, TypeOK
<1>3. WorkerLeft \in 0..(d + 5)
  BY ONLY <1>1, <1>2, d \in Nat, n \in Nat DEF WorkerLeft
<1> QED
  BY <1>1, <1>3

LEMMA OwnerLeftBounded ==
    ASSUME Inv, ClosingInv, stop
    PROVE  OwnerLeft \in 0..6
<1>1. /\ shutdowns \in 0..2
      /\ owner \in {"stopping", "notifying", "joining", "unmapping", "gone"}
      /\ owner \in {"stopping", "notifying", "joining"} => shutdowns > 0
      /\ owner = "stopping" => shutdowns = 1
  BY DEF Inv, TypeOK, JoinBeforeUnmap, ClosingInv
<1> QED
  BY <1>1 DEF OwnerLeft

\* A step of the thread; with the flag set it does not begin anew.
LEMMA WorkerLeaves ==
    ASSUME Inv, stop, WorkerStep
    PROVE  WorkerLeft' \in Int /\ WorkerLeft' < WorkerLeft /\ OwnerLeft' = OwnerLeft
<1>1. PICK d \in Nat, n \in Nat : d = PREFETCH_DEPTH /\ n = next /\ 1 <= n /\ n <= d + 1
  <2>1. next \in 1..(PREFETCH_DEPTH + 1)
    BY DEF Inv, TypeOK
  <2>2. next \in Nat /\ 1 <= next /\ next <= PREFETCH_DEPTH + 1 /\ PREFETCH_DEPTH \in Nat
    BY <2>1
  <2> QED
    BY <2>2
<1>2. UNCHANGED <<owner, shutdowns>>
  BY DEF WorkerStep, Wait, Timeout, CheckStop, LoadCurrent, Advise, AdviseDone, ownervars
<1>3. OwnerLeft' = OwnerLeft
  BY <1>2 DEF OwnerLeft
<1>4. CASE Wait \/ Timeout \/ CheckStop
  <2>1. \/ worker = "locking" /\ worker' = "waiting"
        \/ worker = "waiting" /\ worker' = "woken"
        \/ worker = "woken" /\ worker' = "exited"
    BY <1>4 DEF Wait, Timeout, CheckStop
  <2> QED
    BY <2>1, <1>3 DEF WorkerLeft
<1>5. CASE LoadCurrent
  <2>1. worker = "loading" /\ worker' = "advising" /\ next' = 1
    BY <1>5 DEF LoadCurrent
  <2>2. WorkerLeft = 5 + d /\ WorkerLeft' = 4 + (d + 1 - 1)
    BY ONLY <2>1, <1>1 DEF WorkerLeft
  <2> QED
    BY <2>2, <1>3
<1>6. CASE Advise
  <2>1. worker = "advising" /\ worker' = "advising" /\ next' = n + 1
    BY <1>1, <1>6 DEF Advise
  <2>2. WorkerLeft = 4 + (d + 1 - n) /\ WorkerLeft' = 4 + (d + 1 - (n + 1))
    BY ONLY <2>1, <1>1 DEF WorkerLeft
  <2> QED
    BY <2>2, <1>3
<1>7. CASE AdviseDone
  <2>1. worker = "advising" /\ worker' = "locking"
    BY <1>7 DEF AdviseDone
  <2>2. WorkerLeft = 4 + (d + 1 - n) /\ WorkerLeft' = 3
    BY ONLY <2>1, <1>1 DEF WorkerLeft
  <2> QED
    BY <2>2, <1>1, <1>3
<1> QED
  BY <1>4, <1>5, <1>6, <1>7 DEF WorkerStep

\* A step of the owner; waking the thread does not set it back.
LEMMA OwnerLeaves ==
    ASSUME Inv, ClosingInv, stop, OwnerStep
    PROVE  /\ OwnerLeft' \in Int /\ OwnerLeft' < OwnerLeft
           /\ WorkerLeft' \in Int /\ WorkerLeft' <= WorkerLeft
<1>1. PICK s \in 0..2 : s = shutdowns
  BY DEF Inv, TypeOK
<1>2. PICK w \in Nat : w = WorkerLeft
  BY WorkerLeftBounded
<1>3. /\ owner \in {"stopping", "notifying", "joining", "unmapping"} /\ ~WarmUp /\ ~NewReturns
      /\ ~AdvanceNotify
  BY DEF ClosingInv, OwnerStep, WarmUp, NewReturns, AdvanceNotify, SetStop, StopNotify, Join,
         Unmap
<1>4. OwnerLeft' \in Int /\ OwnerLeft' < OwnerLeft
  <2>1. CASE SetStop
    BY <2>1, <1>1 DEF SetStop, OwnerLeft
  <2>2. CASE StopNotify
    BY <2>2, <1>1 DEF StopNotify, OwnerLeft
  <2>3. CASE Join
    <3>1. /\ owner = "joining" /\ s > 0 /\ shutdowns' = s - 1
          /\ owner' = IF s > 1 THEN "stopping" ELSE "unmapping"
      BY <2>3, <1>1 DEF Join, Inv, JoinBeforeUnmap
    <3> QED
      BY <3>1, <1>1 DEF OwnerLeft
  <2>4. CASE Unmap
    BY <2>4 DEF Unmap, OwnerLeft
  <2> QED
    BY <2>1, <2>2, <2>3, <2>4, <1>3 DEF OwnerStep
<1>5. WorkerLeft' \in Int /\ WorkerLeft' <= WorkerLeft
  <2>1. UNCHANGED next /\ (worker' = worker \/ (worker = "waiting" /\ worker' = "woken"))
    BY <1>3 DEF OwnerStep, SetStop, StopNotify, Join, Unmap, Notify, workervars
  <2>2. CASE UNCHANGED worker
    <3>1. WorkerLeft' = WorkerLeft
      BY ONLY <2>1, <2>2 DEF WorkerLeft
    <3> QED
      BY <3>1, <1>2
  <2>3. CASE worker = "waiting" /\ worker' = "woken"
    BY <2>3 DEF WorkerLeft
  <2> QED
    BY <2>1, <2>2, <2>3
<1> QED
  BY <1>4, <1>5

\* Behind the store to stop every step of either thread brings the end of
\* shutdown and of the thread nearer.
CloseAdvances == [][stop => CloseLeft' < CloseLeft]_vars

\* Once the stop flag is set the two threads take at most PREFETCH_DEPTH + 11
\* steps between them until the thread has exited and the mapping is gone,
\* whichever notification is lost and whichever call of shutdown it is: the
\* thread reads the flag at the next wake-up and cannot go round its loop
\* again. That the steps are taken, the 100 ms included, is the fairness
\* CloseCompletes assumes (mapper.rs:211-239, 250-255).
THEOREM CloseAdvancesHolds ==
    Spec => [](stop => CloseLeft \in 0..(PREFETCH_DEPTH + 11)) /\ CloseAdvances
<1>1. Init => ClosingInv
  BY DEF Init, ClosingInv
<1>2. Inv /\ ClosingInv => (stop => CloseLeft \in 0..(PREFETCH_DEPTH + 11))
  <2> SUFFICES ASSUME Inv, ClosingInv, stop PROVE CloseLeft \in 0..(PREFETCH_DEPTH + 11)
    OBVIOUS
  <2>1. PICK a \in 0..6, b \in Nat, d \in Nat :
            a = OwnerLeft /\ b = WorkerLeft /\ d = PREFETCH_DEPTH /\ b <= d + 5
    <3>1. OwnerLeft \in 0..6 /\ WorkerLeft \in 0..(PREFETCH_DEPTH + 5)
      BY WorkerLeftBounded, OwnerLeftBounded
    <3>2. WorkerLeft \in Nat /\ WorkerLeft <= PREFETCH_DEPTH + 5 /\ PREFETCH_DEPTH \in Nat
      BY <3>1
    <3> QED
      BY <3>1, <3>2
  <2>2. a + b \in 0..(d + 11)
    BY ONLY <2>1, a \in 0..6, b \in Nat, d \in Nat
  <2> QED
    BY <2>1, <2>2 DEF CloseLeft
<1>3. Inv /\ ClosingInv /\ [Next]_vars => [stop => CloseLeft' < CloseLeft]_vars
  <2> SUFFICES ASSUME Inv, ClosingInv, Next, ~UNCHANGED vars, stop PROVE CloseLeft' < CloseLeft
    OBVIOUS
  <2>1. PICK a \in Int, b \in Int : a = OwnerLeft /\ b = WorkerLeft
    BY WorkerLeftBounded, OwnerLeftBounded
  <2>2. ~ClientCall /\ ~Gone
    BY DEF ClosingInv, ClientCall, Advance, Activate, Close, Gone
  <2>3. CASE WorkerStep
    <3>1. PICK v \in Int : v = WorkerLeft'
      BY <2>3, WorkerLeaves
    <3>2. v < b /\ CloseLeft = a + b /\ CloseLeft' = a + v
      BY <3>1, <2>1, <2>3, WorkerLeaves DEF CloseLeft
    <3> QED
      BY ONLY <3>2, a \in Int, b \in Int, v \in Int
  <2>4. CASE OwnerStep
    <3>1. PICK u \in Int, v \in Int : u = OwnerLeft' /\ v = WorkerLeft'
      BY <2>4, OwnerLeaves
    <3>2. u < a /\ v <= b /\ CloseLeft = a + b /\ CloseLeft' = u + v
      BY <3>1, <2>1, <2>4, OwnerLeaves DEF CloseLeft
    <3> QED
      BY ONLY <3>2, a \in Int, b \in Int, u \in Int, v \in Int
  <2> QED
    BY <2>2, <2>3, <2>4 DEF Next
<1> QED
  BY <1>1, <1>2, <1>3, InitEstablishesInv, NextKeepsInv, ClosingNext, PTL DEF Spec, CloseAdvances
=============================================================================
