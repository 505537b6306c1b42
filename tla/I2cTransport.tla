---------------------------- MODULE I2cTransport ----------------------------
(***************************************************************************)
(* i2c-transport.c: the buffers that server and driver exchange.  Each bus *)
(* has a ring pair for requests and one for returns; a ring pair is a free *)
(* and a used ring.  A ring is the sequence of the buffers queued on it    *)
(* (RingBuffer.tla shows that it is one); its descriptors' lengths are     *)
(* left out: a free buffer's is constant and never read, a request's is    *)
(* that of its contents, a return's is only printed.                       *)
(*                                                                         *)
(* Each operator is the effect of one transport call on one ring, for the  *)
(* actions of the server and of the driver to be put together from.        *)
(***************************************************************************)
EXTENDS Integers, Sequences

CONSTANTS
  I2C_BUF_COUNT,   \* buffers of each ring pair (511 in the code)
  RING_CAPACITY,   \* buffers that a ring can queue (SIZE - 1 = 511 in the code)
  I2C_BUF_SZ       \* bytes of a buffer (512 in the code)

\* No ring has more buffers to hold than it can.
ASSUME TransportAssumption ==
  /\ I2C_BUF_COUNT \in Nat \ {0}
  /\ RING_CAPACITY \in Nat
  /\ I2C_BUF_COUNT <= RING_CAPACITY
  /\ I2C_BUF_SZ \in Nat

VARIABLES
  reqFree, reqUsed,   \* m2ReqRing and m3ReqRing
  retFree, retUsed,   \* m2RetRing and m3RetRing
  reqBuf,             \* contents of request buffers: client, addr and the tokens
  retBuf              \* contents of return buffers: err, err_tk, client, addr, data

reqVars == <<reqFree, reqUsed, reqBuf>>
retVars == <<retFree, retUsed, retBuf>>
transportVars == <<reqVars, retVars>>

Bus == {2, 3}

NULL == 0

\* Buffers lie back to back in driver_bufs, in units of I2C_BUF_SZ from 1: those of
\* m2ReqRing, m2RetRing, m3ReqRing and m3RetRing.
reqBase(bus) == 2 * (bus - 2) * I2C_BUF_COUNT

retBase(bus) == (2 * (bus - 2) + 1) * I2C_BUF_COUNT

ReqBufs(bus) == reqBase(bus) + 1 .. reqBase(bus) + I2C_BUF_COUNT
RetBufs(bus) == retBase(bus) + 1 .. retBase(bus) + I2C_BUF_COUNT

AllReqBufs == ReqBufs(2) \cup ReqBufs(3)
AllRetBufs == RetBufs(2) \cup RetBufs(3)

-----------------------------------------------------------------------------
\* One ring.

Full(ring)  == Len(ring) >= RING_CAPACITY
Empty(ring) == ring = <<>>

\* enqueue: a full ring refuses, and every caller but allocReqBuf goes on.
Enqueued(ring, buf) == IF Full(ring) THEN ring ELSE Append(ring, buf)

\* dequeue, and the buffer it stores for the caller (0 when it fails).
Dequeued(ring) == IF Empty(ring) THEN ring ELSE Tail(ring)
Oldest(ring)   == IF Empty(ring) THEN NULL ELSE Head(ring)

-----------------------------------------------------------------------------
i2cTransportInit ==
  /\ reqFree = [b \in Bus |-> [k \in 1 .. I2C_BUF_COUNT |-> reqBase(b) + k]]
  /\ retFree = [b \in Bus |-> [k \in 1 .. I2C_BUF_COUNT |-> retBase(b) + k]]
  /\ reqUsed = [b \in Bus |-> <<>>]
  /\ retUsed = [b \in Bus |-> <<>>]
  /\ reqBuf = [buf \in AllReqBufs |-> [client |-> 0, addr |-> 0, body |-> <<>>]]
  /\ retBuf = [buf \in AllRetBufs |->
                 [err |-> 0, err_tk |-> 0, client |-> 0, addr |-> 0, data |-> 0]]

\* allocReqBuf up to its dequeue_free: what it refuses, and the buffer it takes.
allocReqBuf_Refuses(r) ==
  \/ r.bus \notin Bus
  \/ Len(r.body) > I2C_BUF_SZ - 2
  \/ Empty(reqFree[r.bus])

allocReqBuf_Take(bus) == reqFree' = [reqFree EXCEPT ![bus] = Dequeued(@)]

\* The rest of allocReqBuf: fill the buffer, queue it; on a full ring put it back.
allocReqBuf_Fill(r, buf) ==
  reqBuf' = [reqBuf EXCEPT ![buf] = [client |-> r.client, addr |-> r.addr, body |-> r.body]]

allocReqBuf_Queue(bus, buf) ==
  /\ reqUsed' = [reqUsed EXCEPT ![bus] = Enqueued(@, buf)]
  /\ reqFree' = [reqFree EXCEPT ![bus] =
                   IF Full(reqUsed[bus]) THEN Enqueued(@, buf) ELSE @]

reqBufEmpty(bus) == Empty(reqUsed[bus])
retBufEmpty(bus) == Empty(retUsed[bus])

popReqBuf(bus) == reqUsed' = [reqUsed EXCEPT ![bus] = Dequeued(@)]
popRetBuf(bus) == retUsed' = [retUsed EXCEPT ![bus] = Dequeued(@)]
getRetBuf(bus) == retFree' = [retFree EXCEPT ![bus] = Dequeued(@)]

\* These three check the pointer they are given before they queue it.
pushRetBuf(bus, buf) ==
  retUsed' = IF buf = NULL THEN retUsed ELSE [retUsed EXCEPT ![bus] = Enqueued(@, buf)]

\* Mutants: the buffer is not released, or to the other bus's ring.
releaseReqBuf_Never(bus, buf) == UNCHANGED reqFree

releaseReqBuf_WrongRing(bus, buf) ==
  reqFree' = IF buf = NULL THEN reqFree
             ELSE [reqFree EXCEPT ![5 - bus] = Enqueued(@, buf)]

releaseReqBuf(bus, buf) ==
  reqFree' = IF buf = NULL THEN reqFree ELSE [reqFree EXCEPT ![bus] = Enqueued(@, buf)]

releaseRetBuf(bus, buf) ==
  retFree' = IF buf = NULL THEN retFree ELSE [retFree EXCEPT ![bus] = Enqueued(@, buf)]

=============================================================================
