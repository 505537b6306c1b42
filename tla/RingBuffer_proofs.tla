-------------------------- MODULE RingBuffer_proofs --------------------------
(***************************************************************************)
(* Proofs about RingBuffer for every ring size, every index width that the *)
(* ring size divides, and every set of descriptors.                        *)
(***************************************************************************)
EXTENDS RingBuffer, SequenceTheorems, TLAPS

-----------------------------------------------------------------------------
(* Remainders of division.                                                 *)

\* A remainder is below the modulus.
LEMMA ModRange ==
  ASSUME NEW x \in Int, NEW m \in Nat, m > 0
  PROVE  x % m \in 0 .. m - 1
  OBVIOUS

\* A number is its quotient times the modulus plus its remainder.
LEMMA ModDiv ==
  ASSUME NEW x \in Int, NEW m \in Nat, m > 0
  PROVE  x \div m \in Int /\ x = m * (x \div m) + (x % m)
  OBVIOUS

\* Quotient and remainder are unique.
LEMMA ModUnique ==
  ASSUME NEW x \in Int, NEW m \in Nat, m > 0, NEW q \in Int, NEW r \in 0 .. m - 1,
         x = m * q + r
  PROVE  x % m = r
<1> DEFINE d == x \div m
           s == x % m
<1>1. d \in Int /\ s \in 0 .. m - 1 /\ x = m * d + s
  BY ModRange, ModDiv
<1> HIDE DEF d, s
<1>2. m * (d - q) = r - s
  BY <1>1
<1>3. d - q \in Int /\ r - s \in Int /\ -m < r - s /\ r - s < m
  BY <1>1
<1>4. \A k \in Int : (k >= 1 => m * k >= m) /\ (k <= -1 => m * k <= -m)
  OBVIOUS
<1>5. d - q = 0
  BY <1>2, <1>3, <1>4
<1>6. QED
  BY <1>1, <1>5 DEF s

\* A number below the modulus is its own remainder.
LEMMA ModSmall ==
  ASSUME NEW m \in Nat, m > 0, NEW x \in 0 .. m - 1
  PROVE  x % m = x
<1>1. x \in Int /\ x = m * 0 + x
  OBVIOUS
<1>2. QED
  BY <1>1, ModUnique

\* Adding a multiple of the modulus leaves the remainder alone.
LEMMA ModShift ==
  ASSUME NEW x \in Int, NEW m \in Nat, m > 0, NEW k \in Int
  PROVE  (x + m * k) % m = x % m
<1> DEFINE d == x \div m
           s == x % m
<1>1. d \in Int /\ s \in 0 .. m - 1 /\ x = m * d + s
  BY ModRange, ModDiv
<1> HIDE DEF d, s
<1>2. d + k \in Int /\ x + m * k = m * (d + k) + s
  BY <1>1
<1>3. x + m * k \in Int
  OBVIOUS
<1>4. (x + m * k) % m = s
  BY <1>1, <1>2, <1>3, ModUnique
<1>5. QED
  BY <1>4 DEF s

\* Numbers less than a modulus apart have different remainders.
LEMMA ModDistinct ==
  ASSUME NEW x \in Int, NEW y \in Int, NEW m \in Nat, m > 0, x < y, y < x + m
  PROVE  x % m # y % m
<1> DEFINE d == x \div m
           e == y \div m
           s == x % m
<1>1. d \in Int /\ s \in 0 .. m - 1 /\ x = m * d + s
  BY ModRange, ModDiv
<1>2. e \in Int /\ y = m * e + (y % m)
  BY ModDiv
<1>3. SUFFICES ASSUME y % m = s PROVE FALSE
  BY DEF s
<1> HIDE DEF d, e, s
<1>4. m * (e - d) = y - x
  BY <1>1, <1>2, <1>3
<1>5. \A k \in Int : (k >= 1 => m * k >= m) /\ (k <= 0 => m * k <= 0)
  OBVIOUS
<1>6. e - d \in Int /\ 0 < y - x /\ y - x < m
  BY <1>1, <1>2
<1>7. CASE e - d >= 1
  BY <1>4, <1>5, <1>6, <1>7
<1>8. CASE e - d <= 0
  BY <1>4, <1>5, <1>6, <1>8
<1>9. QED
  BY <1>6, <1>7, <1>8

-----------------------------------------------------------------------------
(* The arithmetic of the indices.                                          *)

Idx == 0 .. IdxMod - 1

\* The index range is a positive multiple of the ring size.
LEMMA IdxModMultiple ==
  /\ IdxMod >= SIZE
  /\ \A x \in Int : (x + IdxMod) % SIZE = x % SIZE
<1> DEFINE k == IdxMod \div SIZE
<1>1. k \in Int /\ IdxMod = SIZE * k
  BY RingAssumption, ModDiv
<1> HIDE DEF k
<1>2. \A j \in Int : (j >= 1 => SIZE * j >= SIZE) /\ (j <= 0 => SIZE * j <= 0)
  BY RingAssumption
<1>3. IdxMod >= SIZE
  BY <1>1, <1>2, RingAssumption
<1>4. ASSUME NEW x \in Int PROVE (x + IdxMod) % SIZE = x % SIZE
  <2>1. SIZE \in Nat /\ SIZE > 0 /\ k \in Int
    BY <1>1, RingAssumption
  <2>2. (x + SIZE * k) % SIZE = x % SIZE
    BY <2>1, ModShift
  <2>3. QED
    BY <1>1, <2>2
<1>5. QED
  BY <1>3, <1>4

\* ring_size is the distance from read_idx forward to write_idx.
LEMMA SizeCases ==
  ASSUME NEW w \in Idx, NEW r \in Idx
  PROVE  ring_size(w, r) = IF w >= r THEN w - r ELSE w - r + IdxMod
<1>1. w - r \in Int /\ IdxMod \in Nat /\ IdxMod > 0
  BY RingAssumption DEF Idx
<1>2. CASE w >= r
  <2>1. w - r = IdxMod * 0 + (w - r) /\ w - r \in 0 .. IdxMod - 1
    BY <1>1, <1>2 DEF Idx
  <2>2. QED
    BY <1>1, <1>2, <2>1, ModUnique DEF ring_size
<1>3. CASE w < r
  <2>1. w - r = IdxMod * (-1) + (w - r + IdxMod) /\ w - r + IdxMod \in 0 .. IdxMod - 1
    BY <1>1, <1>3 DEF Idx
  <2>2. (w - r) % IdxMod = w - r + IdxMod
    BY <1>1, <2>1, ModUnique
  <2>3. QED
    BY <1>3, <2>2 DEF ring_size, Idx
<1>4. QED
  BY <1>2, <1>3 DEF Idx

\* Bump wraps at the top of the range.
LEMMA BumpCases ==
  ASSUME NEW i \in Idx
  PROVE  /\ Bump(i) = IF i = IdxMod - 1 THEN 0 ELSE i + 1
         /\ Bump(i) \in Idx
<1>1. i + 1 \in Int /\ IdxMod \in Nat /\ IdxMod > 0
  BY RingAssumption DEF Idx
<1>2. CASE i = IdxMod - 1
  <2>1. i + 1 = IdxMod * 1 + 0 /\ 0 \in 0 .. IdxMod - 1
    BY <1>1, <1>2
  <2>2. QED
    BY <1>1, <1>2, <2>1, ModUnique DEF Bump, Idx
<1>3. CASE i # IdxMod - 1
  <2>1. i + 1 = IdxMod * 0 + (i + 1) /\ i + 1 \in 0 .. IdxMod - 1
    BY <1>1, <1>3 DEF Idx
  <2>2. QED
    BY <1>1, <1>3, <2>1, ModUnique DEF Bump, Idx
<1>4. QED
  BY <1>2, <1>3

\* The slot that enqueue writes is the one just past the queued descriptors.
LEMMA WriteSlot ==
  ASSUME NEW w \in Idx, NEW r \in Idx
  PROVE  SlotOf(w) = (r + ring_size(w, r)) % SIZE
<1>1. CASE w >= r
  BY <1>1, SizeCases, RingAssumption DEF SlotOf, Idx
<1>2. CASE w < r
  <2>1. r + ring_size(w, r) = w + IdxMod
    BY <1>2, SizeCases, RingAssumption DEF Idx
  <2>2. QED
    BY <2>1, IdxModMultiple DEF SlotOf, Idx
<1>3. QED
  BY <1>1, <1>2 DEF Idx

\* Moving an index on by one moves its slot on by one.
LEMMA BumpSlot ==
  ASSUME NEW i \in Idx, NEW k \in Int
  PROVE  (Bump(i) + k) % SIZE = (i + 1 + k) % SIZE
<1>1. CASE i = IdxMod - 1
  <2>1. Bump(i) + k = k /\ i + 1 + k = k + IdxMod
    BY <1>1, BumpCases, RingAssumption DEF Idx
  <2>2. QED
    BY <2>1, IdxModMultiple
<1>2. CASE i # IdxMod - 1
  BY <1>2, BumpCases, RingAssumption DEF Idx
<1>3. QED
  BY <1>1, <1>2

\* In a ring that holds fewer than SIZE descriptors, the empty check tells
\* exactly that it holds none, and the full check that it holds SIZE - 1.
LEMMA EmptyFull ==
  ASSUME NEW w \in Idx, NEW r \in Idx, ring_size(w, r) \in 0 .. SIZE - 1
  PROVE  /\ ring_empty(w, r) <=> ring_size(w, r) = 0
         /\ ring_full(w, r) <=> ring_size(w, r) = SIZE - 1
<1> DEFINE n == ring_size(w, r)
<1>1. n \in 0 .. SIZE - 1 /\ SIZE \in Nat /\ SIZE > 1 /\ IdxMod \in Nat /\ IdxMod >= SIZE
  BY RingAssumption, IdxModMultiple
<1>2. n % SIZE = n
  BY <1>1, ModSmall
<1>3. (w - r + 1) % SIZE = (n + 1) % SIZE
  <2>1. CASE w >= r
    BY <2>1, SizeCases
  <2>2. CASE w < r
    <3>1. n + 1 = (w - r + 1) + IdxMod /\ w - r + 1 \in Int
      BY <2>2, SizeCases, RingAssumption DEF Idx
    <3>2. QED
      BY <3>1, IdxModMultiple
  <2>3. QED
    BY <2>1, <2>2 DEF Idx
<1>4. ((w - r + 1) % IdxMod) % SIZE = (w - r + 1) % SIZE
  <2>1. w - r + 1 \in Int /\ -IdxMod < w - r + 1 /\ w - r + 1 <= IdxMod
    BY <1>1 DEF Idx
  <2>2. CASE w - r + 1 \in 0 .. IdxMod - 1
    BY <1>1, <2>2, ModSmall
  <2>3. CASE w - r + 1 = IdxMod
    <3>1. IdxMod % IdxMod = 0
      <4>1. IdxMod = 0 + IdxMod * 1 /\ 0 \in 0 .. IdxMod - 1
        BY <1>1
      <4>2. (0 + IdxMod * 1) % IdxMod = 0 % IdxMod
        BY <1>1, ModShift
      <4>3. QED
        BY <1>1, <4>1, <4>2, ModSmall
    <3>2. (0 + IdxMod) % SIZE = 0 % SIZE
      BY IdxModMultiple
    <3>3. QED
      BY <1>1, <2>3, <3>1, <3>2
  <2>4. CASE w - r + 1 < 0
    <3>1. w - r + 1 + IdxMod \in 0 .. IdxMod - 1
      BY <1>1, <2>1, <2>4
    <3>2. w - r + 1 + IdxMod * 1 = w - r + 1 + IdxMod
      BY <1>1, <2>1
    <3>3. (w - r + 1 + IdxMod * 1) % IdxMod = (w - r + 1) % IdxMod
      BY <1>1, <2>1, ModShift
    <3>4. (w - r + 1) % IdxMod = w - r + 1 + IdxMod
      BY <1>1, <3>1, <3>2, <3>3, ModSmall
    <3>5. QED
      BY <2>1, <3>4, IdxModMultiple
  <2>5. w - r + 1 \in 0 .. IdxMod - 1 \/ w - r + 1 = IdxMod \/ w - r + 1 < 0
    BY <1>1, <2>1
  <2>6. QED
    BY <2>2, <2>3, <2>4, <2>5
<1>5. n + 1 < SIZE => (n + 1) % SIZE = n + 1
  BY <1>1, ModSmall
<1>6. SIZE % SIZE = 0
  <2>1. SIZE = 0 + SIZE * 1 /\ 0 \in 0 .. SIZE - 1
    BY <1>1
  <2>2. (0 + SIZE * 1) % SIZE = 0 % SIZE
    BY <1>1, ModShift
  <2>3. QED
    BY <1>1, <2>1, <2>2, ModSmall
<1>7. ring_full(w, r) <=> (n + 1) % SIZE = 0
  BY <1>3, <1>4 DEF ring_full
<1> HIDE DEF n
<1>8. (n + 1) % SIZE = 0 <=> n = SIZE - 1
  <2>1. CASE n + 1 < SIZE
    BY <1>1, <1>5, <2>1
  <2>2. CASE n + 1 = SIZE
    BY <1>1, <1>6, <2>2
  <2>3. QED
    BY <1>1, <2>1, <2>2
<1>9. QED
  BY <1>2, <1>7, <1>8 DEF ring_empty, n

-----------------------------------------------------------------------------
(* The inductive invariant.                                                *)

IInv == TypeOK /\ Copied

\* The values the constants and slot numbers take.
LEMMA Basics ==
  /\ SIZE \in Nat /\ SIZE > 1 /\ IdxMod \in Nat /\ IdxMod >= SIZE
  /\ \A i \in Int : SlotOf(i) \in Slots
  /\ NoDesc \in SlotDescs
  /\ \A d \in Descs : d \in SlotDescs
<1>1. SIZE \in Nat /\ SIZE > 1 /\ IdxMod \in Nat /\ IdxMod >= SIZE
  BY RingAssumption, IdxModMultiple
<1>2. \A i \in Int : SlotOf(i) \in Slots
  BY <1>1, ModRange DEF SlotOf, Slots
<1>3. QED
  BY <1>1, <1>2, DescsAssumption DEF NoDesc, SlotDescs

LEMMA InitInv == Init => IInv
<1> SUFFICES ASSUME Init PROVE IInv
  OBVIOUS
<1>1. TypeOK
  BY Basics DEF Init, ring_init, TypeOK
<1>2. Occupied = 0
  BY Basics, SizeCases DEF Init, ring_init, Occupied, Idx
<1>3. QED
  BY <1>1, <1>2, Basics DEF Init, Copied, IInv

LEMMA StepTypeOK == TypeOK /\ [Next]_vars => TypeOK'
<1> SUFFICES ASSUME TypeOK, [Next]_vars PROVE TypeOK'
  OBVIOUS
<1> USE Basics DEF TypeOK, Idx
<1>1. CASE EnqueueRefused
  BY <1>1 DEF EnqueueRefused, cvars
<1>2. ASSUME NEW d \in Descs, EnqueueStart(d) PROVE TypeOK'
  BY <1>2 DEF EnqueueStart, cvars
<1>3. CASE StoreAddr
  BY <1>3 DEF StoreAddr, cvars, SlotDescs
<1>4. CASE StoreLen
  BY <1>4 DEF StoreLen, cvars, SlotDescs
<1>5. CASE Publish
  BY <1>5, BumpCases DEF Publish, cvars
<1>6. CASE DequeueRefused
  BY <1>6 DEF DequeueRefused, pvars
<1>7. CASE DequeueStart
  BY <1>7 DEF DequeueStart, pvars
<1>8. CASE LoadAddr
  BY <1>8 DEF LoadAddr, pvars, SlotDescs
<1>9. CASE LoadLen
  BY <1>9 DEF LoadLen, pvars, SlotDescs
<1>10. CASE Advance
  BY <1>10, BumpCases DEF Advance, pvars, SlotDescs
<1>11. CASE UNCHANGED vars
  BY <1>11 DEF vars, pvars, cvars
<1>12. QED
  BY <1>1, <1>2, <1>3, <1>4, <1>5, <1>6, <1>7, <1>8, <1>9, <1>10, <1>11
     DEF Next, Enqueue, Dequeue

\* What the two index updates do to the number of descriptors queued.
LEMMA OccupiedPublish ==
  ASSUME TypeOK, Occupied < SIZE - 1, Publish
  PROVE  Occupied' = Occupied + 1
<1>1. write_idx \in Idx /\ read_idx \in Idx /\ write_idx' \in Idx /\ read_idx' = read_idx
  BY BumpCases DEF TypeOK, Publish, Idx
<1>2. Occupied = IF write_idx >= read_idx THEN write_idx - read_idx
                                          ELSE write_idx - read_idx + IdxMod
  BY <1>1, SizeCases DEF Occupied
<1>3. Occupied' = IF write_idx' >= read_idx THEN write_idx' - read_idx
                                            ELSE write_idx' - read_idx + IdxMod
  BY <1>1, SizeCases DEF Occupied
<1>4. write_idx' = IF write_idx = IdxMod - 1 THEN 0 ELSE write_idx + 1
  BY <1>1, BumpCases DEF Publish
<1>5. QED
  BY <1>1, <1>2, <1>3, <1>4, Basics DEF Idx

LEMMA OccupiedAdvance ==
  ASSUME TypeOK, Occupied > 0, Advance
  PROVE  Occupied' = Occupied - 1
<1>1. write_idx \in Idx /\ read_idx \in Idx /\ read_idx' \in Idx /\ write_idx' = write_idx
  BY BumpCases DEF TypeOK, Advance, pvars, Idx
<1>2. Occupied = IF write_idx >= read_idx THEN write_idx - read_idx
                                          ELSE write_idx - read_idx + IdxMod
  BY <1>1, SizeCases DEF Occupied
<1>3. Occupied' = IF write_idx >= read_idx' THEN write_idx - read_idx'
                                            ELSE write_idx - read_idx' + IdxMod
  BY <1>1, SizeCases DEF Occupied
<1>4. read_idx' = IF read_idx = IdxMod - 1 THEN 0 ELSE read_idx + 1
  BY <1>1, BumpCases DEF Advance
<1>5. QED
  BY <1>1, <1>2, <1>3, <1>4, Basics DEF Idx

\* The slot being filled is not the slot being read out.
LEMMA SlotsApart ==
  ASSUME TypeOK, Occupied \in 1 .. SIZE - 1
  PROVE  SlotOf(write_idx) # SlotOf(read_idx)
<1>1. write_idx \in Idx /\ read_idx \in Idx
  BY DEF TypeOK, Idx
<1>2. SlotOf(write_idx) = (read_idx + Occupied) % SIZE
  BY <1>1, WriteSlot DEF Occupied
<1>3. read_idx \in Int /\ read_idx + Occupied \in Int
      /\ read_idx < read_idx + Occupied /\ read_idx + Occupied < read_idx + SIZE
  BY <1>1, Basics DEF Idx
<1>4. QED
  BY <1>2, <1>3, Basics, ModDistinct DEF SlotOf

LEMMA StepCopied == IInv /\ [Next]_vars => Copied'
<1> SUFFICES ASSUME IInv, [Next]_vars PROVE Copied'
  OBVIOUS
<1> USE Basics DEF IInv
<1>0. /\ write_idx \in Idx /\ read_idx \in Idx /\ write_idx \in Int /\ read_idx \in Int
      /\ Occupied \in 0 .. SIZE - 1
      /\ ring_empty(write_idx, read_idx) <=> Occupied = 0
      /\ ring_full(write_idx, read_idx) <=> Occupied = SIZE - 1
  BY EmptyFull DEF TypeOK, Copied, Occupied, Idx
<1>a. ASSUME UNCHANGED <<write_idx, read_idx>> PROVE Occupied' = Occupied
  BY <1>a DEF Occupied
<1>1. CASE EnqueueRefused
  BY <1>1, <1>a DEF EnqueueRefused, cvars, Copied
<1>2. ASSUME NEW d \in Descs, EnqueueStart(d) PROVE Copied'
  BY <1>0, <1>2, <1>a DEF EnqueueStart, cvars, Copied
<1>3. CASE StoreAddr
  <2>1. Occupied' = Occupied
    BY <1>3, <1>a DEF StoreAddr
  <2>2. cpc # "idle" => SlotOf(write_idx) # SlotOf(read_idx)
    BY <1>0, SlotsApart DEF Copied
  <2>3. QED
    BY <1>0, <1>3, <2>1, <2>2 DEF StoreAddr, cvars, Copied, TypeOK, SlotDescs
<1>4. CASE StoreLen
  <2>1. Occupied' = Occupied
    BY <1>4, <1>a DEF StoreLen
  <2>2. cpc # "idle" => SlotOf(write_idx) # SlotOf(read_idx)
    BY <1>0, SlotsApart DEF Copied
  <2>3. QED
    BY <1>0, <1>4, <2>1, <2>2 DEF StoreLen, cvars, Copied, TypeOK, SlotDescs
<1>5. CASE Publish
  <2>1. Occupied' = Occupied + 1
    BY <1>5, OccupiedPublish DEF Copied, Publish
  <2>2. QED
    BY <1>0, <1>5, <2>1 DEF Publish, cvars, Copied
<1>6. CASE DequeueRefused
  BY <1>6, <1>a DEF DequeueRefused, pvars, Copied
<1>7. CASE DequeueStart
  BY <1>0, <1>7, <1>a DEF DequeueStart, pvars, Copied
<1>8. CASE LoadAddr
  BY <1>8, <1>a DEF LoadAddr, pvars, Copied
<1>9. CASE LoadLen
  BY <1>9, <1>a DEF LoadLen, pvars, Copied
<1>10. CASE Advance
  <2>1. Occupied' = Occupied - 1
    BY <1>0, <1>10, OccupiedAdvance DEF Copied, Advance
  <2>2. QED
    BY <1>0, <1>10, <2>1 DEF Advance, pvars, Copied
<1>11. CASE UNCHANGED vars
  BY <1>11, <1>a DEF vars, pvars, cvars, Copied
<1>12. QED
  BY <1>1, <1>2, <1>3, <1>4, <1>5, <1>6, <1>7, <1>8, <1>9, <1>10, <1>11
     DEF Next, Enqueue, Dequeue

LEMMA Inductive == Spec => []IInv
<1>1. IInv /\ [Next]_vars => IInv'
  BY StepTypeOK, StepCopied DEF IInv
<1>2. QED
  BY InitInv, <1>1, PTL DEF Spec

-----------------------------------------------------------------------------
(* What the invariant gives.                                               *)

\* Every variable of the ring keeps its C type: the indices stay in range
\* however often they wrap.
THEOREM RingTypeCorrect == Spec => []TypeOK
<1>1. IInv => TypeOK
  BY DEF IInv
<1>2. QED
  BY <1>1, Inductive, PTL

\* The full and the empty test, made once at the start of a call, stay good until
\* the call moves its index, and the half-copied descriptor is the one asked for,
\* whatever the other side does meanwhile.
THEOREM RingCopied == Spec => []Copied
<1>1. IInv => Copied
  BY DEF IInv
<1>2. QED
  BY <1>1, Inductive, PTL

\* Neither side ever touches the slot the other one is using, for every ring
\* size and every interleaving of enqueue and dequeue.
THEOREM RingNoSlotRace == Spec => []NoSlotRace
<1>1. IInv => NoSlotRace
  <2> SUFFICES ASSUME IInv PROVE NoSlotRace
    OBVIOUS
  <2> USE Basics DEF IInv
  <2>1. write_idx \in Idx /\ read_idx \in Idx /\ read_idx \in Int
        /\ Occupied \in 0 .. SIZE - 1
    BY DEF TypeOK, Copied, Idx
  <2>2. SlotOf(write_idx) = (read_idx + Occupied) % SIZE
    BY <2>1, WriteSlot DEF Occupied
  <2>3. SlotOf(write_idx) \notin Live
    <3>1. SUFFICES ASSUME NEW k \in 0 .. Occupied - 1
                   PROVE  (read_idx + k) % SIZE # (read_idx + Occupied) % SIZE
      BY <2>2 DEF Live
    <3>2. read_idx + k \in Int /\ read_idx + Occupied \in Int
          /\ read_idx + k < read_idx + Occupied
          /\ read_idx + Occupied < read_idx + k + SIZE
      BY <2>1, <3>1
    <3>3. QED
      BY <3>2, ModDistinct
  <2>4. Occupied > 0 => SlotOf(read_idx) \in Live
    <3>1. Occupied > 0 => 0 \in 0 .. Occupied - 1 /\ read_idx + 0 = read_idx
      BY <2>1
    <3>2. QED
      BY <3>1 DEF Live, SlotOf
  <2>5. QED
    BY <2>3, <2>4 DEF NoSlotRace, Copied
<1>2. QED
  BY <1>1, Inductive, PTL

-----------------------------------------------------------------------------
(* Refinement of BoundedFifo.                                              *)

\* The queue as long as nobody moves an index: only the live slots matter.
LEMMA QueueFacts ==
  ASSUME IInv
  PROVE  /\ Occupied \in 0 .. SIZE - 1
         /\ Queue \in Seq(SlotDescs)
         /\ Len(Queue) = Occupied
         /\ \A k \in 1 .. Occupied : Queue[k] = buffers[(read_idx + k - 1) % SIZE]
<1> USE Basics DEF IInv
<1>1. Occupied \in 0 .. SIZE - 1 /\ read_idx \in Int
  BY DEF Copied, TypeOK
<1>2. \A k \in 1 .. Occupied : buffers[(read_idx + k - 1) % SIZE] \in SlotDescs
  <2> SUFFICES ASSUME NEW k \in 1 .. Occupied
               PROVE  buffers[(read_idx + k - 1) % SIZE] \in SlotDescs
    OBVIOUS
  <2>1. read_idx + k - 1 \in Int
    BY <1>1
  <2>2. (read_idx + k - 1) % SIZE \in Slots
    BY <2>1 DEF SlotOf
  <2>3. QED
    BY <2>2 DEF TypeOK
<1>3. QED
  BY <1>1, <1>2 DEF Queue

\* A store into the slot past the live ones does not show in the queue.
LEMMA QueueKept ==
  ASSUME IInv, UNCHANGED <<write_idx, read_idx>>,
         \A s \in Slots : s # SlotOf(write_idx) \/ ppc = "idle" => buffers'[s] = buffers[s]
  PROVE  Queue' = Queue
<1> USE Basics DEF IInv
<1>1. Occupied' = Occupied /\ Occupied \in 0 .. SIZE - 1
      /\ write_idx \in Idx /\ read_idx \in Idx /\ read_idx \in Int
  BY DEF Occupied, Copied, TypeOK, Idx
<1>2. SlotOf(write_idx) = (read_idx + Occupied) % SIZE
  BY <1>1, WriteSlot DEF Occupied
<1>3. ASSUME NEW k \in 1 .. Occupied
      PROVE  buffers'[(read_idx + k - 1) % SIZE] = buffers[(read_idx + k - 1) % SIZE]
  <2>1. read_idx + k - 1 \in Int /\ read_idx + Occupied \in Int
        /\ read_idx + k - 1 < read_idx + Occupied
        /\ read_idx + Occupied < read_idx + k - 1 + SIZE
    BY <1>1
  <2>2. (read_idx + k - 1) % SIZE # SlotOf(write_idx)
    BY <1>2, <2>1, ModDistinct
  <2>3. (read_idx + k - 1) % SIZE \in Slots
    BY <2>1 DEF SlotOf
  <2>4. QED
    BY <2>2, <2>3
<1>4. QED
  BY <1>1, <1>3 DEF Queue

\* Moving write_idx on appends the descriptor that was stored.
LEMMA QueuePublish ==
  ASSUME IInv, Publish
  PROVE  Queue' = Append(Queue, pdesc) /\ Len(Queue) < SIZE - 1
<1> USE Basics DEF IInv
<1>1. /\ Occupied' = Occupied + 1 /\ Occupied \in 0 .. SIZE - 2
      /\ write_idx \in Idx /\ read_idx \in Idx /\ read_idx \in Int
      /\ buffers' = buffers /\ read_idx' = read_idx
  BY OccupiedPublish DEF Copied, Publish, TypeOK, Idx
<1>2. buffers[(read_idx + Occupied) % SIZE] = pdesc
  <2>1. SlotOf(write_idx) = (read_idx + Occupied) % SIZE
    BY <1>1, WriteSlot DEF Occupied
  <2>2. SlotOf(write_idx) \in Slots
    BY <1>1
  <2>3. buffers[SlotOf(write_idx)] \in SlotDescs /\ pdesc \in SlotDescs
        /\ buffers[SlotOf(write_idx)].encoded_addr = pdesc.encoded_addr
        /\ buffers[SlotOf(write_idx)].len = pdesc.len
    BY <2>2 DEF TypeOK, Copied, Publish
  <2>4. buffers[SlotOf(write_idx)] = pdesc
    BY <2>3 DEF SlotDescs
  <2>5. QED
    BY <2>1, <2>4
<1>3. Queue' = [k \in 1 .. Occupied + 1 |-> buffers[(read_idx + k - 1) % SIZE]]
  BY <1>1 DEF Queue
<1>4. read_idx + (Occupied + 1) - 1 = read_idx + Occupied
  BY <1>1
<1>5. Queue \in Seq(SlotDescs) /\ Len(Queue) = Occupied
      /\ \A k \in 1 .. Occupied : Queue[k] = buffers[(read_idx + k - 1) % SIZE]
  BY QueueFacts
<1>6. ASSUME NEW k \in 1 .. Occupied + 1
      PROVE  /\ buffers[(read_idx + k - 1) % SIZE] \in SlotDescs
             /\ buffers[(read_idx + k - 1) % SIZE] =
                  IF k = Occupied + 1 THEN pdesc ELSE Queue[k]
  <2>1. read_idx + k - 1 \in Int
    BY <1>1
  <2>2. (read_idx + k - 1) % SIZE \in Slots
    BY <2>1 DEF SlotOf
  <2>3. CASE k = Occupied + 1
    BY <1>2, <1>4, <2>2, <2>3 DEF TypeOK
  <2>4. CASE k # Occupied + 1
    <3>1. k \in 1 .. Occupied
      BY <1>1, <2>4
    <3>2. QED
      BY <1>5, <2>2, <2>4, <3>1 DEF TypeOK
  <2>5. QED
    BY <2>3, <2>4
<1>7. Queue' \in Seq(SlotDescs) /\ Len(Queue') = Occupied + 1
      /\ \A k \in 1 .. Occupied + 1 : Queue'[k] = IF k = Occupied + 1 THEN pdesc ELSE Queue[k]
  <2>1. Occupied + 1 \in Nat
    BY <1>1
  <2>2. \A k \in 1 .. Occupied + 1 : buffers[(read_idx + k - 1) % SIZE] \in SlotDescs
    BY <1>6
  <2>3. Queue' \in Seq(SlotDescs) /\ Len(Queue') = Occupied + 1
    BY <1>3, <2>1, <2>2
  <2>4. \A k \in 1 .. Occupied + 1 : Queue'[k] = buffers[(read_idx + k - 1) % SIZE]
    BY <1>3
  <2>5. QED
    BY <1>6, <2>3, <2>4
<1>8. /\ Append(Queue, pdesc) \in Seq(SlotDescs)
      /\ Len(Append(Queue, pdesc)) = Occupied + 1
      /\ \A k \in 1 .. Occupied : Append(Queue, pdesc)[k] = Queue[k]
      /\ Append(Queue, pdesc)[Occupied + 1] = pdesc
  <2>1. pdesc \in SlotDescs
    BY DEF TypeOK
  <2>2. QED
    BY <1>5, <2>1, AppendProperties
<1>9. \A k \in 1 .. Occupied + 1 : Queue'[k] = Append(Queue, pdesc)[k]
  BY <1>1, <1>7, <1>8
<1>10. Queue' = Append(Queue, pdesc)
  BY <1>7, <1>8, <1>9, SeqEqual
<1>11. QED
  BY <1>1, <1>5, <1>10

\* Moving read_idx on takes away the oldest descriptor, the one just copied.
LEMMA QueueAdvance ==
  ASSUME IInv, Advance
  PROVE  Queue # <<>> /\ Queue' = Tail(Queue) /\ out' = Head(Queue)
<1> USE Basics DEF IInv
<1>1. /\ Occupied' = Occupied - 1 /\ Occupied \in 1 .. SIZE - 1
      /\ read_idx \in Idx /\ read_idx \in Int
      /\ buffers' = buffers /\ read_idx' = Bump(read_idx)
  BY OccupiedAdvance DEF Copied, Advance, TypeOK, Idx
<1>2. Queue \in Seq(SlotDescs) /\ Len(Queue) = Occupied
      /\ \A k \in 1 .. Occupied : Queue[k] = buffers[(read_idx + k - 1) % SIZE]
  BY QueueFacts
<1>3. Queue # <<>>
  BY <1>1, <1>2
<1>4. /\ Tail(Queue) \in Seq(SlotDescs)
      /\ Len(Tail(Queue)) = Occupied - 1
      /\ \A k \in 1 .. Occupied - 1 : Tail(Queue)[k] = Queue[k + 1]
  BY <1>2, <1>3, HeadTailProperties
<1>5. Queue' = [k \in 1 .. Occupied - 1 |-> buffers[(Bump(read_idx) + k - 1) % SIZE]]
  BY <1>1 DEF Queue
<1>6. ASSUME NEW k \in 1 .. Occupied - 1
      PROVE  buffers[(Bump(read_idx) + k - 1) % SIZE] = Queue[k + 1]
  <2>1. k - 1 \in Int /\ read_idx + 1 + (k - 1) = read_idx + (k + 1) - 1
        /\ k + 1 \in 1 .. Occupied
    BY <1>1
  <2>2. (Bump(read_idx) + (k - 1)) % SIZE = (read_idx + 1 + (k - 1)) % SIZE
    BY <1>1, <2>1, BumpSlot
  <2>3. Bump(read_idx) + k - 1 = Bump(read_idx) + (k - 1)
    BY <1>1, BumpCases DEF Idx
  <2>4. QED
    BY <1>2, <2>1, <2>2, <2>3
<1>7. out' = Head(Queue)
  <2>1. Head(Queue) = Queue[1] /\ 1 \in 1 .. Occupied /\ read_idx + 1 - 1 = read_idx
    BY <1>1, <1>2
  <2>2. Head(Queue) = buffers[SlotOf(read_idx)]
    BY <1>2, <2>1 DEF SlotOf
  <2>3. buffers[SlotOf(read_idx)] \in SlotDescs
    BY <1>1 DEF TypeOK
  <2>4. out' = [encoded_addr |-> buffers[SlotOf(read_idx)].encoded_addr,
                len |-> buffers[SlotOf(read_idx)].len]
    BY DEF Advance, Copied
  <2>5. QED
    BY <2>2, <2>3, <2>4 DEF SlotDescs
<1>8. Queue' \in Seq(SlotDescs) /\ Len(Queue') = Occupied - 1
  <2>1. ASSUME NEW k \in 1 .. Occupied - 1 PROVE Queue[k + 1] \in SlotDescs
    BY <1>1, <1>2, k + 1 \in 1 .. Occupied, ElementOfSeq
  <2>2. Occupied - 1 \in Nat
    BY <1>1
  <2>3. QED
    BY <1>5, <1>6, <2>1, <2>2
<1>9. \A k \in 1 .. Occupied - 1 : Queue'[k] = Tail(Queue)[k]
  BY <1>4, <1>5, <1>6
<1>10. Queue' = Tail(Queue)
  BY <1>4, <1>8, <1>9, SeqEqual
<1>11. QED
  BY <1>3, <1>7, <1>10

LEMMA StepRefines == IInv /\ [Next]_vars => [Fifo!Next]_(Fifo!fifoVars)
<1> SUFFICES ASSUME IInv, [Next]_vars PROVE [Fifo!Next]_(Fifo!fifoVars)
  OBVIOUS
<1> USE DEF Fifo!fifoVars
<1>0. /\ Occupied \in 0 .. SIZE - 1 /\ Len(Queue) = Occupied
      /\ ring_empty(write_idx, read_idx) <=> Occupied = 0
      /\ ring_full(write_idx, read_idx) <=> Occupied = SIZE - 1
      /\ Queue \in Seq(SlotDescs)
  BY QueueFacts, EmptyFull DEF IInv, TypeOK, Copied, Occupied, Idx
<1>a. ASSUME UNCHANGED <<write_idx, read_idx, buffers>> PROVE Queue' = Queue
  BY <1>a, QueueKept
<1>1. CASE EnqueueRefused
  BY <1>0, <1>1, <1>a DEF EnqueueRefused, cvars, Fifo!Next, Fifo!PutRefused
<1>2. ASSUME NEW d \in Descs, EnqueueStart(d) PROVE UNCHANGED Fifo!fifoVars
  BY <1>2, <1>a DEF EnqueueStart, cvars
<1>3. CASE StoreAddr
  <2>1. \A s \in Slots : s # SlotOf(write_idx) \/ ppc = "idle" => buffers'[s] = buffers[s]
    BY <1>3 DEF StoreAddr, IInv, TypeOK
  <2>2. QED
    BY <1>3, <2>1, QueueKept DEF StoreAddr, cvars
<1>4. CASE StoreLen
  <2>1. \A s \in Slots : s # SlotOf(write_idx) \/ ppc = "idle" => buffers'[s] = buffers[s]
    BY <1>4 DEF StoreLen, IInv, TypeOK
  <2>2. QED
    BY <1>4, <2>1, QueueKept DEF StoreLen, cvars
<1>5. CASE Publish
  <2>1. pdesc \in Descs /\ enqRet' = 0 /\ deqRet' = deqRet /\ out' = out
    BY <1>5 DEF Publish, cvars, IInv, Copied
  <2>2. Fifo!Put(pdesc)
    BY <1>5, <2>1, QueuePublish DEF Fifo!Put
  <2>3. QED
    BY <2>1, <2>2 DEF Fifo!Next
<1>6. CASE DequeueRefused
  <2>1. Queue = <<>>
    BY <1>0, <1>6 DEF DequeueRefused
  <2>2. QED
    BY <1>6, <1>a, <2>1 DEF DequeueRefused, pvars, Fifo!Next, Fifo!TakeRefused
<1>7. CASE DequeueStart
  BY <1>7, <1>a DEF DequeueStart, pvars
<1>8. CASE LoadAddr
  BY <1>8, <1>a DEF LoadAddr, pvars
<1>9. CASE LoadLen
  BY <1>9, <1>a DEF LoadLen, pvars
<1>10. CASE Advance
  BY <1>10, QueueAdvance DEF Advance, pvars, Fifo!Next, Fifo!Take
<1>11. CASE UNCHANGED vars
  BY <1>11, <1>a DEF vars, pvars, cvars
<1>12. QED
  BY <1>1, <1>2, <1>3, <1>4, <1>5, <1>6, <1>7, <1>8, <1>9, <1>10, <1>11
     DEF Next, Enqueue, Dequeue

\* The ring implements the bounded queue: every interleaving of the two calls is
\* one in which each took effect in a single step, with the same results.
THEOREM RingImplementsFifo == Spec => ImplementsFifo
<1>1. Init => Fifo!Init
  <2> SUFFICES ASSUME Init PROVE Fifo!Init
    OBVIOUS
  <2>1. Len(Queue) = 0 /\ Queue \in Seq(SlotDescs)
    <3>1. Occupied = 0
      BY Basics, SizeCases DEF Init, ring_init, Occupied, Idx
    <3>2. QED
      BY <3>1, InitInv, QueueFacts
  <2>2. QED
    BY <2>1 DEF Init, Fifo!Init
<1>2. QED
  BY <1>1, StepRefines, Inductive, PTL DEF Spec, ImplementsFifo, Fifo!Spec

=============================================================================
