------------------------ MODULE BufferLayout_proofs ------------------------
(***************************************************************************)
(* The layouts of BufferLayout for every size: arithmetic, no state. The   *)
(* products of variables are handled once, in the first three lemmas; what *)
(* follows treats them as opaque numbers.                                  *)
(***************************************************************************)
EXTENDS BufferLayout, TLAPS

\* One multiple of c below another is below it by c.
LEMMA MultipleStep ==
    ASSUME NEW a \in Nat, NEW b \in Nat, NEW c \in Nat, a < b
    PROVE  /\ a * c \in Nat /\ b * c \in Nat
           /\ a * c + c <= b * c
<1>1. PICK d \in Nat : b = a + 1 + d
  <2>1. b - a - 1 \in Nat /\ b = a + 1 + (b - a - 1)  OBVIOUS
  <2> QED  BY <2>1
<1>2. b * c = a * c + c + d * c  BY <1>1
<1>3. a * c \in Nat /\ b * c \in Nat /\ d * c \in Nat  OBVIOUS
<1> QED  BY <1>2, <1>3

\* RoundUp gives a multiple, not below n, and none lies between.
THEOREM RoundUpLeast ==
    ASSUME NEW n \in Nat, NEW a \in Nat \ {0}
    PROVE  /\ RoundUp(n, a) \in Nat
           /\ RoundUp(n, a) % a = 0
           /\ n <= RoundUp(n, a) /\ RoundUp(n, a) < n + a
<1> DEFINE m == n + a - 1
           q == m \div a
<1>1. m \in Nat /\ a \in Nat /\ a > 0  OBVIOUS
<1>2. q \in Nat /\ m = a * q + (m % a) /\ (m % a) \in 0 .. a - 1  BY <1>1
<1>3. RoundUp(n, a) = q * a  BY DEF RoundUp
<1> HIDE DEF q
<1>4. q * a \in Nat /\ q * a = a * q  BY <1>1, <1>2
<1>5. (q * a) % a = 0  BY <1>1, <1>2
<1>6. n <= q * a /\ q * a < n + a  BY <1>1, <1>2, <1>4
<1> QED  BY <1>3, <1>4, <1>5, <1>6

LEMMA RoundUp64Least ==
    ASSUME NEW n \in Nat
    PROVE  RoundUp64(n) \in Nat /\ n <= RoundUp64(n) /\ RoundUp64(n) <= n + 63
BY DEF RoundUp64
-----------------------------------------------------------------------------
(* The cache: 2 * layers slots of `rows' rows, one after the other         *)

\* Rows of slots of b = rows * c bytes each: two of them are apart unless
\* slot and row are the same, and each ends before slot `slots' begins.
LEMMA RowsApart ==
    ASSUME NEW rows \in Nat, NEW c \in Nat, NEW b \in Nat, b = rows * c,
           NEW i \in Nat, NEW r \in 0 .. rows - 1,
           NEW j \in Nat, NEW s \in 0 .. rows - 1
    PROVE  /\ i # j \/ r # s => Apart(Region(i * b + r * c, c), Region(j * b + s * c, c))
           /\ \A slots \in Nat : i < slots => i * b + r * c + c <= slots * b
           /\ 0 <= i * b + r * c
<1>1. /\ r * c \in Nat /\ r * c + c <= b
      /\ s * c \in Nat /\ s * c + c <= b
  BY MultipleStep
<1>2. i * b \in Nat /\ j * b \in Nat  OBVIOUS
<1>3. \A slots \in Nat : i < slots => slots * b \in Nat /\ i * b + b <= slots * b
  BY MultipleStep
<1>4. CASE i < j
  <2>1. i * b + b <= j * b  BY <1>4, MultipleStep
  <2> QED  BY <1>1, <1>2, <1>3, <2>1 DEF Apart, Region
<1>5. CASE j < i
  <2>1. j * b + b <= i * b  BY <1>5, MultipleStep
  <2> QED  BY <1>1, <1>2, <1>3, <2>1 DEF Apart, Region
<1>6. CASE i = j
  <2>1. r < s => r * c + c <= s * c  BY MultipleStep
  <2>2. s < r => s * c + c <= r * c  BY MultipleStep
  <2>3. i * b = j * b  BY <1>6
  <2> QED  BY <1>1, <1>2, <1>3, <1>6, <2>1, <2>2, <2>3 DEF Apart, Region
<1> QED  BY <1>4, <1>5, <1>6

\* The slot of a tensor: K before V.
Slot(g, c) == IF c[1] = "K" THEN c[2] ELSE g.layers + c[2]

LEMMA CellInItsSlot ==
    ASSUME NEW g \in Geometry, NEW c \in Cells(g)
    PROVE  /\ Slot(g, c) \in Nat /\ Slot(g, c) < 2 * g.layers
           /\ c[3] \in 0 .. g.rows - 1
           /\ RowBytes(g) \in Nat /\ BytesPer(g) \in Nat
           /\ BytesPer(g) = g.rows * RowBytes(g)
           /\ CellBytes(g, c)
                = Region(Slot(g, c) * BytesPer(g) + c[3] * RowBytes(g), RowBytes(g))
<1>1. g.layers \in Nat /\ g.headsKV \in Nat /\ g.headDim \in Nat /\ g.rows \in Nat
  BY DEF Geometry
<1>2. c[1] \in {"K", "V"} /\ c[2] \in 0 .. g.layers - 1 /\ c[3] \in 0 .. g.rows - 1
  BY DEF Cells
<1>3. g.headsKV * g.headDim \in Nat  BY <1>1
<1>4. RowBytes(g) \in Nat /\ BytesPer(g) \in Nat /\ BytesPer(g) = g.rows * RowBytes(g)
  <2> DEFINE w == g.headsKV * g.headDim
  <2>1. RowBytes(g) = w * 4 /\ BytesPer(g) = w * g.rows * 4  BY DEF RowBytes, BytesPer
  <2>2. w \in Nat  BY <1>3
  <2> HIDE DEF w
  <2> QED  BY <1>1, <2>1, <2>2
<1>5. Slot(g, c) \in Nat /\ Slot(g, c) < 2 * g.layers  BY <1>1, <1>2 DEF Slot
<1>6. TensorOffset(g, c[1], c[2]) = Slot(g, c) * BytesPer(g)
  BY <1>1, <1>2, <1>4 DEF TensorOffset, KOffset, VOffset, Slot
<1>7. CellBytes(g, c) = Region(TensorOffset(g, c[1], c[2]) + c[3] * RowBytes(g), RowBytes(g))
  BY DEF CellBytes
<1> QED  BY <1>2, <1>4, <1>5, <1>6, <1>7

\* Two cells in one slot and one row are one cell.
LEMMA SlotsDiffer ==
    ASSUME NEW g \in Geometry, NEW c \in Cells(g), NEW d \in Cells(g), c # d
    PROVE  Slot(g, c) # Slot(g, d) \/ c[3] # d[3]
<1>1. g.layers \in Nat  BY DEF Geometry
<1>2. /\ c = <<c[1], c[2], c[3]>> /\ d = <<d[1], d[2], d[3]>>
      /\ c[1] \in {"K", "V"} /\ c[2] \in 0 .. g.layers - 1
      /\ d[1] \in {"K", "V"} /\ d[2] \in 0 .. g.layers - 1
  BY DEF Cells
<1> QED  BY <1>1, <1>2 DEF Slot

\* Every layer's K and V row has bytes of its own in the buffer, for every
\* number of layers and heads, every dimension and every context length
\* (graph.rs:131-166).
THEOREM KVCellsSoundHolds == \A g \in Geometry : KVCellsSound(g)
<1> SUFFICES ASSUME NEW g \in Geometry  PROVE KVCellsSound(g)
  OBVIOUS
<1>1. g.layers \in Nat /\ g.rows \in Nat  BY DEF Geometry
<1>2. ASSUME NEW c \in Cells(g)  PROVE Within(CellBytes(g, c), KVBuffer(g))
  <2> DEFINE b == BytesPer(g)
             first == Slot(g, c) * b + c[3] * RowBytes(g)
  <2>1. /\ 0 <= first /\ first + RowBytes(g) <= (2 * g.layers) * b
        /\ b \in Nat /\ CellBytes(g, c) = Region(first, RowBytes(g))
    <3>1. Slot(g, c) \in Nat /\ Slot(g, c) < 2 * g.layers /\ 2 * g.layers \in Nat
      BY <1>1, CellInItsSlot
    <3> QED  BY <1>1, <3>1, CellInItsSlot, RowsApart
  <2>2. KVBuffer(g) = Region(0, b * g.layers * 2 + 1024)  BY DEF KVBuffer
  <2>3. first \in Int /\ RowBytes(g) \in Nat  BY CellInItsSlot
  <2> HIDE DEF first, b
  <2>4. (2 * g.layers) * b = b * g.layers * 2 /\ b * g.layers * 2 \in Nat  BY <1>1, <2>1
  <2> QED  BY <2>1, <2>2, <2>3, <2>4 DEF Within, Region
<1>3. ASSUME NEW c \in Cells(g), NEW d \in Cells(g), c # d
      PROVE  Apart(CellBytes(g, c), CellBytes(g, d))
  <2> DEFINE b == BytesPer(g)
             w == RowBytes(g)
  <2>1. /\ Slot(g, c) \in Nat /\ c[3] \in 0 .. g.rows - 1
        /\ Slot(g, d) \in Nat /\ d[3] \in 0 .. g.rows - 1
        /\ w \in Nat /\ b \in Nat /\ b = g.rows * w
    BY CellInItsSlot
  <2>2. /\ CellBytes(g, c) = Region(Slot(g, c) * b + c[3] * w, w)
        /\ CellBytes(g, d) = Region(Slot(g, d) * b + d[3] * w, w)
    BY CellInItsSlot
  <2>3. Slot(g, c) # Slot(g, d) \/ c[3] # d[3]  BY <1>3, SlotsDiffer
  <2> HIDE DEF b, w
  <2>4. Apart(Region(Slot(g, c) * b + c[3] * w, w), Region(Slot(g, d) * b + d[3] * w, w))
    BY <1>1, <2>1, <2>3, RowsApart
  <2> QED  BY <2>2, <2>4
<1> QED  BY <1>2, <1>3 DEF KVCellsSound
-----------------------------------------------------------------------------
(* The input buffers                                                       *)

\* The ids and the positions of a prefill of any length lie in its input
\* buffer, apart from each other (graph.rs:528-562).
THEOREM InputsSoundHolds == \A n \in Nat : InputsSound(n)
<1> SUFFICES ASSUME NEW n \in Nat  PROVE InputsSound(n)
  OBVIOUS
<1>1. TokenBytes(n) \in Nat  BY DEF TokenBytes
<1> QED  BY <1>1, RoundUp64Least
         DEF InputsSound, InputBuffer, TokenRegion, PositionRegion, Within, Apart, Region

\* Token, position and mask of the decode graph, for any context length
\* (graph.rs:259-275).
THEOREM DecodeInputsSoundHolds == \A rows \in Nat : DecodeInputsSound(rows)
<1> SUFFICES ASSUME NEW rows \in Nat  PROVE DecodeInputsSound(rows)
  OBVIOUS
<1>1. ASSUME NEW r \in DecodeInputs(rows)  PROVE Within(r, DecodeBuffer(rows))
  BY DEF DecodeInputs, DecodeBuffer, Within, Region
<1>2. ASSUME NEW r \in DecodeInputs(rows), NEW s \in DecodeInputs(rows), r # s
      PROVE  Apart(r, s)
  BY <1>2 DEF DecodeInputs, Apart, Region
<1> QED  BY <1>1, <1>2 DEF DecodeInputsSound
-----------------------------------------------------------------------------
(* The windows of the mapping                                              *)

\* Every window the mapper counts has a byte and lies in the mapping, for
\* every file and window size (mapper.rs:107-111, 152-174, 222-227).
THEOREM WindowSoundHolds ==
    ASSUME NEW total \in Nat, NEW size \in Nat \ {0}
    PROVE  /\ WindowCount(total, size) \in Nat
           /\ \A t \in 0 .. WindowCount(total, size) - 1 : WindowSound(total, size, t)
<1> DEFINE count == WindowCount(total, size)
<1>1. /\ count \in Nat /\ count * size \in Nat
      /\ count * size < total + size
  <2>1. count * size = RoundUp(total, size)  BY DEF WindowCount, RoundUp
  <2>2. total + size - 1 \in Nat /\ size > 0  OBVIOUS
  <2>3. count \in Nat  BY <2>2 DEF WindowCount
  <2> QED  BY <2>1, <2>3, RoundUpLeast
<1>2. ASSUME NEW t \in 0 .. count - 1  PROVE WindowSound(total, size, t)
  <2>1. t \in Nat /\ t < count  BY <1>1
  <2>2. t * size \in Nat /\ t * size + size <= count * size
    BY <1>1, <2>1, MultipleStep
  <2>3. t * size < total  BY <1>1, <2>2
  <2> DEFINE first == t * size
             length == Smaller(size, total - first)
  <2>4. Window(total, size, t) = Region(first, length)  BY DEF Window
  <2>5. first \in Nat /\ first < total  BY <2>2, <2>3
  <2> HIDE DEF first
  <2>6. length \in Nat /\ length > 0 /\ first + length <= total  BY <2>5 DEF Smaller
  <2> HIDE DEF length
  <2> QED  BY <2>4, <2>5, <2>6 DEF WindowSound, Within, Region
<1> QED  BY <1>1, <1>2
=============================================================================
