----------------------------- MODULE RingBuffer -----------------------------
(***************************************************************************)
(* One ring of i2c/include/sw_shared_ringbuffer.h, in memory that two      *)
(* protection domains map.  One of them calls enqueue, the other dequeue;  *)
(* every access to the shared memory is a step of its own, so the two      *)
(* calls interleave in every way.  Stores become visible in program order. *)
(***************************************************************************)
EXTENDS Integers, Sequences

CONSTANTS
  SIZE,     \* slots of a ring (512 in the code)
  IdxMod,   \* range of the uint32_t indices (2^32 in the code)
  Descs     \* descriptors that callers enqueue

\* The free-running indices wrap at a multiple of the ring size: 512 divides 2^32.
ASSUME RingAssumption ==
  /\ SIZE \in Nat /\ SIZE > 1
  /\ IdxMod \in Nat /\ IdxMod > 0
  /\ IdxMod % SIZE = 0

ASSUME DescsAssumption == Descs \subseteq [encoded_addr : Nat, len : Nat]

VARIABLES
  write_idx, read_idx, buffers,   \* the shared ring_buffer_t
  ppc, pdesc, enqRet,             \* producer: next access, arguments, last result
  cpc, caddr, clen, deqRet, out   \* consumer: next access, *addr, *len, last result,
                                  \* and what the last successful call handed out

pvars == <<ppc, pdesc, enqRet>>
cvars == <<cpc, caddr, clen, deqRet, out>>
vars  == <<write_idx, read_idx, buffers, pvars, cvars>>

NoDesc == [encoded_addr |-> 0, len |-> 0]
Slots  == 0 .. SIZE - 1

-----------------------------------------------------------------------------
\* ring_size, ring_empty, ring_full: unsigned differences of the two indices.

ring_size(w, r) == (w - r) % IdxMod

ring_empty(w, r) == ring_size(w, r) % SIZE = 0

\* Mutants: no full check at all; a ring filled to its last slot.
ring_full_Unchecked(w, r) == FALSE
ring_full_NoSpare(w, r) == ring_size(w, r) = SIZE

ring_full(w, r) == ((w - r + 1) % IdxMod) % SIZE = 0

SlotOf(i) == i % SIZE

\* Mutant: an index wider than 32 bits, which does not wrap.
Bump_Wide(i) == i + 1

Bump(i) == (i + 1) % IdxMod

-----------------------------------------------------------------------------
\* ring_init with buffer_init = 1: indices cleared, descriptors left as they are
\* (zeroed memory at boot).

ring_init ==
  /\ write_idx = 0
  /\ read_idx = 0

Init ==
  /\ ring_init
  /\ buffers = [s \in Slots |-> NoDesc]
  /\ ppc = "idle" /\ pdesc = NoDesc /\ enqRet = 0
  /\ cpc = "idle" /\ caddr = 0 /\ clen = 0 /\ deqRet = 0 /\ out = NoDesc

-----------------------------------------------------------------------------
\* enqueue(ring, buffer, len)

EnqueueRefused ==
  /\ ppc = "idle"
  /\ ring_full(write_idx, read_idx)
  /\ enqRet' = -1
  /\ UNCHANGED <<write_idx, read_idx, buffers, ppc, pdesc, cvars>>

EnqueueStart(d) ==
  /\ ppc = "idle"
  /\ ~ring_full(write_idx, read_idx)
  /\ pdesc' = d
  /\ ppc' = "addr"
  /\ UNCHANGED <<write_idx, read_idx, buffers, enqRet, cvars>>

StoreAddr ==
  /\ ppc = "addr"
  /\ buffers' = [buffers EXCEPT ![SlotOf(write_idx)].encoded_addr = pdesc.encoded_addr]
  /\ ppc' = "len"
  /\ UNCHANGED <<write_idx, read_idx, pdesc, enqRet, cvars>>

StoreLen ==
  /\ ppc = "len"
  /\ buffers' = [buffers EXCEPT ![SlotOf(write_idx)].len = pdesc.len]
  /\ ppc' = "publish"
  /\ UNCHANGED <<write_idx, read_idx, pdesc, enqRet, cvars>>

Publish ==
  /\ ppc = "publish"
  /\ write_idx' = Bump(write_idx)
  /\ ppc' = "idle"
  /\ enqRet' = 0
  /\ UNCHANGED <<read_idx, buffers, pdesc, cvars>>

-----------------------------------------------------------------------------
\* dequeue(ring, addr, len)

DequeueRefused ==
  /\ cpc = "idle"
  /\ ring_empty(write_idx, read_idx)
  /\ deqRet' = -1
  /\ UNCHANGED <<write_idx, read_idx, buffers, pvars, cpc, caddr, clen, out>>

DequeueStart ==
  /\ cpc = "idle"
  /\ ~ring_empty(write_idx, read_idx)
  /\ cpc' = "addr"
  /\ UNCHANGED <<write_idx, read_idx, buffers, pvars, caddr, clen, deqRet, out>>

LoadAddr ==
  /\ cpc = "addr"
  /\ caddr' = buffers[SlotOf(read_idx)].encoded_addr
  /\ cpc' = "len"
  /\ UNCHANGED <<write_idx, read_idx, buffers, pvars, clen, deqRet, out>>

LoadLen ==
  /\ cpc = "len"
  /\ clen' = buffers[SlotOf(read_idx)].len
  /\ cpc' = "advance"
  /\ UNCHANGED <<write_idx, read_idx, buffers, pvars, caddr, deqRet, out>>

Advance ==
  /\ cpc = "advance"
  /\ read_idx' = Bump(read_idx)
  /\ cpc' = "idle"
  /\ deqRet' = 0
  /\ out' = [encoded_addr |-> caddr, len |-> clen]
  /\ UNCHANGED <<write_idx, buffers, pvars, caddr, clen>>

-----------------------------------------------------------------------------
Enqueue == \/ EnqueueRefused
           \/ \E d \in Descs : EnqueueStart(d)
           \/ StoreAddr
           \/ StoreLen
           \/ Publish

Dequeue == DequeueRefused \/ DequeueStart \/ LoadAddr \/ LoadLen \/ Advance

Next == Enqueue \/ Dequeue

Spec == Init /\ [][Next]_vars

-----------------------------------------------------------------------------
\* Properties.

SlotDescs == [encoded_addr : Nat, len : Nat]

\* Every variable keeps the type the C declarations give it; in particular the
\* indices stay uint32_t values.
TypeOK ==
  /\ write_idx \in 0 .. IdxMod - 1
  /\ read_idx \in 0 .. IdxMod - 1
  /\ buffers \in [Slots -> SlotDescs]
  /\ ppc \in {"idle", "addr", "len", "publish"}
  /\ pdesc \in SlotDescs
  /\ enqRet \in {0, -1}
  /\ cpc \in {"idle", "addr", "len", "advance"}
  /\ caddr \in Nat /\ clen \in Nat
  /\ deqRet \in {0, -1}
  /\ out \in SlotDescs

Occupied == ring_size(write_idx, read_idx)

\* No side fills the ring to its last slot, and the argument and the cells that
\* each side has already copied agree: with TypeOK the inductive invariant.
Copied ==
  /\ Occupied \in 0 .. SIZE - 1
  /\ ppc # "idle" => Occupied < SIZE - 1 /\ pdesc \in Descs
  /\ ppc \in {"len", "publish"} =>
       buffers[SlotOf(write_idx)].encoded_addr = pdesc.encoded_addr
  /\ ppc = "publish" => buffers[SlotOf(write_idx)].len = pdesc.len
  /\ cpc # "idle" => Occupied > 0
  /\ cpc \in {"len", "advance"} => caddr = buffers[SlotOf(read_idx)].encoded_addr
  /\ cpc = "advance" => clen = buffers[SlotOf(read_idx)].len

\* The slots between the indices: published and not yet given back.
Live == {(read_idx + k) % SIZE : k \in 0 .. Occupied - 1}

\* While enqueue stores a descriptor (after its full check, before write_idx
\* moves) the slot is none of those a dequeue may be reading, and a dequeue past
\* its empty check always has a published slot, whatever the other side does
\* between its steps: the two never touch one slot at the same time.
NoSlotRace ==
  /\ ppc # "idle" => SlotOf(write_idx) \notin Live
  /\ cpc # "idle" => SlotOf(read_idx) \in Live

\* The queue of descriptors that the ring holds, oldest first.
Queue == [k \in 1 .. Occupied |-> buffers[(read_idx + k - 1) % SIZE]]

\* Every call has the effect and the result of one atomic step of a queue of
\* SIZE - 1 descriptors: none is lost, duplicated, torn or reordered, enqueue
\* fails only when SIZE - 1 are queued and dequeue only when none is.
Fifo == INSTANCE BoundedFifo WITH queue <- Queue, Capacity <- SIZE - 1

ImplementsFifo == Fifo!Spec

=============================================================================
