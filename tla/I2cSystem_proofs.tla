-------------------------- MODULE I2cSystem_proofs --------------------------
(***************************************************************************)
(* Proved of I2cSystem for every number of buffers and every program: the  *)
(* custody of the buffers, each of which is in one place and in one only,  *)
(* and that no request is forgotten on its ring.                           *)
(***************************************************************************)
EXTENDS I2cSystem, FiniteSetTheorems, TLAPS

-----------------------------------------------------------------------------
\* One ring whose buffers are distinct members of S.

\* enqueue on a ring with room adds the buffer, which was not queued, and nothing else.
LEMMA EnqueuedRing ==
  ASSUME NEW S, NEW ring \in Seq(S), NEW x \in S,
         IsInjective(ring), x \notin ToSet(ring), ~Full(ring)
  PROVE  /\ Enqueued(ring, x) \in Seq(S)
         /\ IsInjective(Enqueued(ring, x))
         /\ ToSet(Enqueued(ring, x)) = ToSet(ring) \cup {x}
<1>1. Enqueued(ring, x) = Append(ring, x)
  BY DEF Enqueued
<1>2. /\ Append(ring, x) \in Seq(S)
      /\ DOMAIN Append(ring, x) = 1 .. Len(ring) + 1
      /\ DOMAIN ring = 1 .. Len(ring) /\ Len(ring) \in Nat
      /\ \A k \in 1 .. Len(ring) : Append(ring, x)[k] = ring[k]
      /\ Append(ring, x)[Len(ring) + 1] = x
  OBVIOUS
<1>3. IsInjective(Append(ring, x))
  BY <1>2 DEF IsInjective, ToSet
<1>4. ToSet(Append(ring, x)) = ToSet(ring) \cup {x}
  BY <1>2 DEF ToSet
<1> QED
  BY <1>1, <1>2, <1>3, <1>4

\* dequeue on a ring that is not empty takes its oldest buffer and no other.
LEMMA DequeuedRing ==
  ASSUME NEW S, NEW ring \in Seq(S), IsInjective(ring), ~Empty(ring)
  PROVE  /\ Dequeued(ring) \in Seq(S)
         /\ IsInjective(Dequeued(ring))
         /\ Oldest(ring) \in S
         /\ Oldest(ring) \in ToSet(ring)
         /\ ToSet(Dequeued(ring)) = ToSet(ring) \ {Oldest(ring)}
<1>1. Dequeued(ring) = Tail(ring) /\ Oldest(ring) = ring[1] /\ ring # <<>>
  BY DEF Dequeued, Oldest, Empty
<1>2. /\ Tail(ring) \in Seq(S)
      /\ DOMAIN ring = 1 .. Len(ring) /\ Len(ring) \in Nat \ {0}
      /\ DOMAIN Tail(ring) = 1 .. Len(ring) - 1
      /\ \A k \in 1 .. Len(ring) - 1 : Tail(ring)[k] = ring[k + 1]
  BY <1>1
<1>3. IsInjective(Tail(ring))
  BY <1>2 DEF IsInjective
<1>4. ToSet(Tail(ring)) = ToSet(ring) \ {ring[1]}
  <2>1. ASSUME NEW e \in ToSet(Tail(ring)) PROVE e \in ToSet(ring) \ {ring[1]}
    BY <2>1, <1>2 DEF ToSet, IsInjective
  <2>2. ASSUME NEW e \in ToSet(ring), e # ring[1] PROVE e \in ToSet(Tail(ring))
    <3>1. PICK k \in 1 .. Len(ring) : e = ring[k] /\ k # 1
      BY <2>2, <1>2 DEF ToSet
    <3>2. k - 1 \in 1 .. Len(ring) - 1 /\ Tail(ring)[k - 1] = ring[k]
      BY <3>1, <1>2
    <3> QED
      BY <3>1, <3>2, <1>2 DEF ToSet
  <2> QED
    BY <2>1, <2>2
<1>5. ring[1] \in S /\ ring[1] \in ToSet(ring)
  BY <1>2 DEF ToSet
<1> QED
  BY <1>1, <1>2, <1>3, <1>4, <1>5

\* A buffer that is not on a ring of its kind finds room there.
LEMMA RoomFor ==
  ASSUME NEW S, IsFiniteSet(S), Cardinality(S) <= RING_CAPACITY,
         NEW ring \in Seq(S), IsInjective(ring),
         NEW x \in S, x \notin ToSet(ring)
  PROVE  ~Full(ring)
<1> DEFINE T == S \ {x}
<1>1. IsFiniteSet(T) /\ Cardinality(T) = Cardinality(S) - 1 /\ Cardinality(S) \in Nat
  BY FS_RemoveElement, FS_CardinalityType
<1>2. /\ ring \in [1 .. Len(ring) -> T]
      /\ Len(ring) \in Nat /\ DOMAIN ring = 1 .. Len(ring)
  BY DEF ToSet
<1>3. ring \in Injection(1 .. Len(ring), T)
  BY <1>2 DEF Injection, IsInjective
<1>4. Cardinality(1 .. Len(ring)) <= Cardinality(T)
  BY <1>1, <1>3, FS_Injection
<1>5. Cardinality(1 .. Len(ring)) = Len(ring)
  <2>1. 1 \in Int /\ Len(ring) \in Int
    BY <1>2
  <2>2. Cardinality(1 .. Len(ring)) = IF 1 > Len(ring) THEN 0 ELSE Len(ring) - 1 + 1
    BY ONLY <2>1, FS_Interval
  <2> QED
    BY <1>2, <2>2
<1> QED
  BY <1>1, <1>2, <1>4, <1>5, TransportAssumption DEF Full


-----------------------------------------------------------------------------
\* The custody of the buffers S of a kind: two rings, and two domains that hold
\* buffers; all is there as long as the driver is up.

Kept(ring1, ring2, hand1, hand2, S, up) ==
  /\ ring1 \in Seq(S) /\ ring2 \in Seq(S)
  /\ IsInjective(ring1) /\ IsInjective(ring2)
  /\ hand1 \subseteq S /\ hand2 \subseteq S
  /\ ToSet(ring1) \cap ToSet(ring2) = {}
  /\ hand1 \cap hand2 = {}
  /\ (ToSet(ring1) \cup ToSet(ring2)) \cap (hand1 \cup hand2) = {}
  /\ up => ToSet(ring1) \cup ToSet(ring2) \cup hand1 \cup hand2 = S

\* Which ring is named first does not matter, nor which holder.
LEMMA KeptSymmetric ==
  ASSUME NEW r1, NEW r2, NEW h1, NEW h2, NEW S, NEW up \in BOOLEAN
  PROVE  /\ Kept(r1, r2, h1, h2, S, up) => Kept(r2, r1, h1, h2, S, up)
         /\ Kept(r1, r2, h1, h2, S, up) => Kept(r1, r2, h2, h1, S, up)
  BY DEF Kept

\* When the driver has stopped nothing more is promised of the union.
LEMMA KeptWhenDown ==
  ASSUME NEW r1, NEW r2, NEW h1, NEW h2, NEW S, NEW up \in BOOLEAN,
         Kept(r1, r2, h1, h2, S, up)
  PROVE  Kept(r1, r2, h1, h2, S, FALSE)
  BY DEF Kept

\* A dequeue hands the oldest buffer of a ring to a holder who has none.
LEMMA Take ==
  ASSUME NEW r1, NEW r2, NEW h2, NEW S, NEW up \in BOOLEAN,
         Kept(r1, r2, {}, h2, S, up), ~Empty(r1)
  PROVE  /\ Oldest(r1) \in S
         /\ Kept(Dequeued(r1), r2, {Oldest(r1)}, h2, S, up)
<1>1. r1 \in Seq(S) /\ IsInjective(r1)
  BY DEF Kept
<1>2. /\ Dequeued(r1) \in Seq(S)
      /\ IsInjective(Dequeued(r1))
      /\ Oldest(r1) \in S
      /\ Oldest(r1) \in ToSet(r1)
      /\ ToSet(Dequeued(r1)) = ToSet(r1) \ {Oldest(r1)}
  BY <1>1, DequeuedRing
<1> QED
  BY <1>2 DEF Kept

\* A dequeue whose buffer nobody keeps.
LEMMA Drop ==
  ASSUME NEW r1, NEW r2, NEW h1, NEW h2, NEW S, NEW up \in BOOLEAN,
         Kept(r1, r2, h1, h2, S, up), ~Empty(r1)
  PROVE  Kept(Dequeued(r1), r2, h1, h2, S, FALSE)
<1>1. r1 \in Seq(S) /\ IsInjective(r1)
  BY DEF Kept
<1>2. /\ Dequeued(r1) \in Seq(S)
      /\ IsInjective(Dequeued(r1))
      /\ ToSet(Dequeued(r1)) = ToSet(r1) \ {Oldest(r1)}
  BY <1>1, DequeuedRing
<1> QED
  BY <1>2 DEF Kept

\* The buffer that a holder has fits on either ring of its kind, and an enqueue
\* leaves the holder with none.
LEMMA Give ==
  ASSUME NEW r1, NEW r2, NEW x, NEW h2, NEW S, NEW up \in BOOLEAN,
         IsFiniteSet(S), Cardinality(S) <= RING_CAPACITY,
         Kept(r1, r2, {x}, h2, S, up)
  PROVE  /\ ~Full(r1)
         /\ Kept(Enqueued(r1, x), r2, {}, h2, S, up)
<1>1. r1 \in Seq(S) /\ IsInjective(r1) /\ x \in S /\ x \notin ToSet(r1)
  BY DEF Kept
<1>2. ~Full(r1)
  BY <1>1, RoomFor
<1>3. /\ Enqueued(r1, x) \in Seq(S)
      /\ IsInjective(Enqueued(r1, x))
      /\ ToSet(Enqueued(r1, x)) = ToSet(r1) \cup {x}
  BY <1>1, <1>2, EnqueuedRing
<1> QED
  BY <1>2, <1>3 DEF Kept

-----------------------------------------------------------------------------
\* The sets of buffers.

\* Each set fits a ring, and no buffer of it is the null pointer.
LEMMA BufferSets ==
  ASSUME NEW b \in Bus
  PROVE  /\ IsFiniteSet(ReqBufs(b)) /\ Cardinality(ReqBufs(b)) <= RING_CAPACITY
         /\ IsFiniteSet(RetBufs(b)) /\ Cardinality(RetBufs(b)) <= RING_CAPACITY
         /\ NULL \notin ReqBufs(b) /\ NULL \notin RetBufs(b)
<1>1. reqBase(b) \in Nat /\ retBase(b) \in Nat
  BY TransportAssumption DEF Bus, reqBase, retBase
<1>2. ASSUME NEW base \in Nat
      PROVE  /\ IsFiniteSet(base + 1 .. base + I2C_BUF_COUNT)
             /\ Cardinality(base + 1 .. base + I2C_BUF_COUNT) <= RING_CAPACITY
             /\ 0 \notin base + 1 .. base + I2C_BUF_COUNT
  <2>1. I2C_BUF_COUNT \in Nat \ {0} /\ RING_CAPACITY \in Nat /\ I2C_BUF_COUNT <= RING_CAPACITY
    BY TransportAssumption
  <2> DEFINE lo == base + 1
             hi == base + I2C_BUF_COUNT
  <2>2. lo \in Int /\ hi \in Int
    BY <2>1
  <2>3. hi - lo + 1 = I2C_BUF_COUNT /\ ~(lo > hi) /\ 0 \notin lo .. hi
    BY <2>1
  <2> HIDE DEF lo, hi
  <2>4. /\ IsFiniteSet(lo .. hi)
        /\ Cardinality(lo .. hi) = IF lo > hi THEN 0 ELSE hi - lo + 1
    BY ONLY <2>2, FS_Interval
  <2>5. IsFiniteSet(lo .. hi) /\ Cardinality(lo .. hi) <= RING_CAPACITY
    BY <2>1, <2>3, <2>4
  <2> QED
    BY <2>3, <2>5 DEF lo, hi
<1> QED
  BY <1>1, <1>2 DEF ReqBufs, RetBufs, NULL

\* A ring filled with all of them, as i2cTransportInit does.
LEMMA FilledRing ==
  ASSUME NEW base \in Nat
  PROVE  LET S    == base + 1 .. base + I2C_BUF_COUNT
             ring == [k \in 1 .. I2C_BUF_COUNT |-> base + k]
         IN Kept(ring, <<>>, {}, {}, S, TRUE)
<1> DEFINE S    == base + 1 .. base + I2C_BUF_COUNT
           ring == [k \in 1 .. I2C_BUF_COUNT |-> base + k]
<1>1. I2C_BUF_COUNT \in Nat
  BY TransportAssumption
<1>2. ring \in Seq(S) /\ IsInjective(ring) /\ DOMAIN ring = 1 .. I2C_BUF_COUNT
  BY <1>1 DEF IsInjective
<1>3. ToSet(ring) = S
  <2>1. ASSUME NEW e \in S PROVE e \in ToSet(ring)
    <3>1. e - base \in 1 .. I2C_BUF_COUNT /\ ring[e - base] = e
      BY <1>1
    <3> QED
      BY <3>1, <1>2 DEF ToSet
  <2>2. ToSet(ring) \subseteq S
    BY <1>1, <1>2 DEF ToSet
  <2> QED
    BY <2>1, <2>2
<1>4. <<>> \in Seq(S) /\ IsInjective(<<>>) /\ ToSet(<<>>) = {}
  BY DEF IsInjective, ToSet
<1> QED
  BY <1>2, <1>3, <1>4 DEF Kept

-----------------------------------------------------------------------------
\* The inductive invariant.

Fields == {"current_req", "current_ret", "remaining", "notified", "ddr"}

\* The rings and the interface states are functions on the buses; a bus that has
\* a request has a return buffer for it, and the other way round.
Shape ==
  /\ DOMAIN reqFree = Bus /\ DOMAIN reqUsed = Bus
  /\ DOMAIN retFree = Bus /\ DOMAIN retUsed = Bus
  /\ DOMAIN ifState = Bus
  /\ \A b \in Bus : /\ DOMAIN ifState[b] = Fields
                    /\ ifState[b].current_req = NULL <=> ifState[b].current_ret = NULL
  /\ driverUp \in BOOLEAN

\* What the server's place in its program says of the bus that it is at.
ServerAt ==
  /\ pc \in {"allocate", "publish", "notify", "wait", "check", "pop", "release"}
  /\ pc = "publish" => Program[cur].bus \in Bus
  /\ pc \in {"check", "pop", "release"} => bus \in Bus
  /\ pc = "pop" => ~Empty(retUsed[bus])

KeptReq(b) == Kept(reqFree[b], reqUsed[b], ServerReq(b), DriverReq(b), ReqBufs(b), driverUp)
KeptRet(b) == Kept(retFree[b], retUsed[b], ServerRet(b), DriverRet(b), RetBufs(b), driverUp)

Custody == \A b \in Bus : KeptReq(b) /\ KeptRet(b)

CustodyInv == Shape /\ ServerAt /\ Custody

\* The invariant says of the buffers what the checked properties say.
LEMMA CustodySuffices == CustodyInv => NoBufferTwice /\ NoBufferLost
<1> SUFFICES ASSUME CustodyInv PROVE NoBufferTwice /\ NoBufferLost
  OBVIOUS
<1>1. ASSUME NEW A, NEW B, NEW C, NEW D,
             A \cap B = {}, C \cap D = {}, (A \cup B) \cap (C \cup D) = {}
      PROVE  Apart(<<A, B, C, D>>)
  <2>1. DOMAIN <<A, B, C, D>> = {1, 2, 3, 4}
    OBVIOUS
  <2> QED
    BY <1>1, <2>1 DEF Apart
<1>2. ASSUME NEW A, NEW B, NEW C, NEW D
      PROVE  UNION ToSet(<<A, B, C, D>>) = A \cup B \cup C \cup D
  <2>1. ToSet(<<A, B, C, D>>) = {A, B, C, D}
    <3>1. DOMAIN <<A, B, C, D>> = {1, 2, 3, 4}
      OBVIOUS
    <3> QED
      BY <3>1 DEF ToSet
  <2> QED
    BY <2>1
<1>3. ASSUME NEW b \in Bus
      PROVE  /\ Apart(ReqPlaces(b)) /\ Apart(RetPlaces(b))
             /\ IsInjective(reqFree[b]) /\ IsInjective(reqUsed[b])
             /\ IsInjective(retFree[b]) /\ IsInjective(retUsed[b])
  <2>1. KeptReq(b) /\ KeptRet(b)
    BY DEF CustodyInv, Custody
  <2>2. Apart(ReqPlaces(b))
    BY <2>1, <1>1 DEF KeptReq, Kept, ReqPlaces
  <2>3. Apart(RetPlaces(b))
    BY <2>1, <1>1 DEF KeptRet, Kept, RetPlaces
  <2> QED
    BY <2>1, <2>2, <2>3 DEF KeptReq, KeptRet, Kept
<1>4. ASSUME NEW b \in Bus, driverUp
      PROVE  /\ UNION ToSet(ReqPlaces(b)) = ReqBufs(b)
             /\ UNION ToSet(RetPlaces(b)) = RetBufs(b)
  <2>1. KeptReq(b) /\ KeptRet(b)
    BY DEF CustodyInv, Custody
  <2>2. UNION ToSet(ReqPlaces(b)) = ReqBufs(b)
    BY <2>1, <1>2, <1>4 DEF KeptReq, Kept, ReqPlaces
  <2>3. UNION ToSet(RetPlaces(b)) = RetBufs(b)
    BY <2>1, <1>2, <1>4 DEF KeptRet, Kept, RetPlaces
  <2> QED
    BY <2>2, <2>3
<1> QED
  BY <1>3, <1>4 DEF NoBufferTwice, NoBufferLost

\* i2cTransportInit puts every buffer on its free ring.
LEMMA CustodyInit == Init => CustodyInv
<1> SUFFICES ASSUME Init PROVE CustodyInv
  OBVIOUS
<1> USE DEF Init, i2cTransportInit, DriverInit, ServerInit
<1>1. Shape
  BY DEF Shape, Fields, Idle, NULL
<1>2. ServerAt
  BY DEF ServerAt
<1>3. ASSUME NEW b \in Bus PROVE KeptReq(b) /\ KeptRet(b)
  <2>1. /\ reqFree[b] = [k \in 1 .. I2C_BUF_COUNT |-> reqBase(b) + k]
        /\ retFree[b] = [k \in 1 .. I2C_BUF_COUNT |-> retBase(b) + k]
        /\ reqUsed[b] = <<>> /\ retUsed[b] = <<>>
        /\ ServerReq(b) = {} /\ ServerRet(b) = {}
        /\ DriverReq(b) = {} /\ DriverRet(b) = {}
        /\ driverUp = TRUE
    BY DEF ServerReq, ServerRet, DriverReq, DriverRet, Idle
  <2>2. reqBase(b) \in Nat /\ retBase(b) \in Nat
    BY TransportAssumption DEF Bus, reqBase, retBase
  <2>3. KeptReq(b)
    BY <2>1, <2>2, FilledRing DEF KeptReq, ReqBufs
  <2>4. KeptRet(b)
    BY <2>1, <2>2, FilledRing DEF KeptRet, RetBufs
  <2> QED
    BY <2>3, <2>4
<1> QED
  BY <1>1, <1>2, <1>3 DEF CustodyInv, Custody

-----------------------------------------------------------------------------
\* One action after the other keeps the invariant.

\* The request buffers of a bus that a step leaves alone; a driver that stops keeps
\* what it has.
LEMMA SameReq ==
  ASSUME NEW b \in Bus, Shape, KeptReq(b),
         reqFree'[b] = reqFree[b], reqUsed'[b] = reqUsed[b],
         ServerReq(b)' = ServerReq(b), DriverReq(b)' = DriverReq(b),
         driverUp' \in {driverUp, FALSE}
  PROVE  KeptReq(b)'
<1>1. Kept(reqFree[b], reqUsed[b], ServerReq(b), DriverReq(b), ReqBufs(b), driverUp')
  BY KeptWhenDown DEF KeptReq, Shape
<1> QED
  BY <1>1 DEF KeptReq, ReqBufs, reqBase

LEMMA SameRet ==
  ASSUME NEW b \in Bus, Shape, KeptRet(b),
         retFree'[b] = retFree[b], retUsed'[b] = retUsed[b],
         ServerRet(b)' = ServerRet(b), DriverRet(b)' = DriverRet(b),
         driverUp' \in {driverUp, FALSE}
  PROVE  KeptRet(b)'
<1>1. Kept(retFree[b], retUsed[b], ServerRet(b), DriverRet(b), RetBufs(b), driverUp')
  BY KeptWhenDown DEF KeptRet, Shape
<1> QED
  BY <1>1 DEF KeptRet, RetBufs, retBase

\* The server's actions that take, hold and give no buffer.
LEMMA ServerIdle ==
  ASSUME CustodyInv, UNCHANGED driverVars,
         initDone \/ notify \/ ServerWake \/ skipBus \/ checkBus
  PROVE  CustodyInv'
<1>1. UNCHANGED transportVars
  BY DEF initDone, notify, ServerWake, skipBus, checkBus
<1>2. Shape'
  BY <1>1 DEF CustodyInv, Shape, transportVars, reqVars, retVars, driverVars
<1>3. ServerAt'
  BY <1>1 DEF CustodyInv, ServerAt, Bus, initDone, notify, ServerWake, skipBus, checkBus,
              NextBus, retBufEmpty, transportVars, retVars
<1>4. ASSUME NEW b \in Bus PROVE KeptReq(b)' /\ KeptRet(b)'
  <2>1. ServerReq(b)' = ServerReq(b) /\ ServerRet(b)' = ServerRet(b)
    BY DEF ServerReq, ServerRet, initDone, notify, ServerWake, skipBus, checkBus, NextBus
  <2>2. DriverReq(b)' = DriverReq(b) /\ DriverRet(b)' = DriverRet(b) /\ driverUp' = driverUp
    BY DEF DriverReq, DriverRet, driverVars
  <2>3. KeptReq(b)'
    BY <1>1, <2>1, <2>2, SameReq DEF CustodyInv, Custody, transportVars, reqVars
  <2>4. KeptRet(b)'
    BY <1>1, <2>1, <2>2, SameRet DEF CustodyInv, Custody, transportVars, retVars
  <2> QED
    BY <2>3, <2>4
<1> QED
  BY <1>2, <1>3, <1>4 DEF CustodyInv, Custody

\* allocReqBuf takes a free request buffer.
LEMMA ServerAllocate ==
  ASSUME CustodyInv, UNCHANGED driverVars, allocate
  PROVE  CustodyInv'
<1> DEFINE c == Program[cur].bus
<1>1. /\ c \in Bus /\ ~Empty(reqFree[c])
      /\ buf' = Oldest(reqFree[c])
      /\ reqFree' = [reqFree EXCEPT ![c] = Dequeued(@)]
      /\ pc = "allocate" /\ pc' = "publish"
      /\ UNCHANGED <<reqUsed, retFree, retUsed, cur, bus>>
  BY DEF allocate, allocReqBuf_Refuses, allocReqBuf_Take, retVars
<1>2. Shape'
  BY <1>1 DEF CustodyInv, Shape, driverVars
<1>3. ServerAt'
  BY <1>1 DEF CustodyInv, ServerAt
<1>4. ASSUME NEW b \in Bus PROVE KeptReq(b)' /\ KeptRet(b)'
  <2>1. DriverReq(b)' = DriverReq(b) /\ DriverRet(b)' = DriverRet(b) /\ driverUp' = driverUp
    BY DEF DriverReq, DriverRet, driverVars
  <2>2. ServerRet(b)' = ServerRet(b)
    BY <1>1 DEF ServerRet
  <2>3. KeptRet(b)'
    BY <1>1, <2>1, <2>2, SameRet DEF CustodyInv, Custody
  <2>4. CASE b # c
    <3>1. reqFree'[b] = reqFree[b] /\ ServerReq(b)' = ServerReq(b)
      BY <1>1, <2>4 DEF ServerReq
    <3> QED
      BY <1>1, <2>1, <2>3, <3>1, SameReq DEF CustodyInv, Custody
  <2>5. CASE b = c
    <3>1. reqFree'[b] = Dequeued(reqFree[b])
      BY <1>1, <2>5 DEF CustodyInv, Shape
    <3>2. ServerReq(b) = {} /\ ServerReq(b)' = {Oldest(reqFree[b])}
      BY <1>1, <2>5 DEF ServerReq
    <3>3. Kept(Dequeued(reqFree[b]), reqUsed[b], {Oldest(reqFree[b])}, DriverReq(b),
               ReqBufs(b), driverUp)
      <4>1. Kept(reqFree[b], reqUsed[b], {}, DriverReq(b), ReqBufs(b), driverUp)
        BY <3>2 DEF CustodyInv, Custody, KeptReq
      <4>2. driverUp \in BOOLEAN /\ ~Empty(reqFree[b])
        BY <1>1, <2>5 DEF CustodyInv, Shape
      <4> QED
        BY <4>1, <4>2, Take
    <3>4. KeptReq(b)'
      BY <1>1, <2>1, <3>1, <3>2, <3>3 DEF KeptReq, ReqBufs, reqBase
    <3> QED
      BY <2>3, <3>4
  <2> QED
    BY <2>4, <2>5
<1> QED
  BY <1>2, <1>3, <1>4 DEF CustodyInv, Custody

\* It then queues that buffer, for which there is room.
LEMMA ServerPublish ==
  ASSUME CustodyInv, UNCHANGED driverVars, publish
  PROVE  CustodyInv' /\ pc' = "notify"
<1> DEFINE c == Program[cur].bus
<1>1. c \in Bus /\ pc = "publish" /\ ServerReq(c) = {buf}
  BY DEF publish, CustodyInv, ServerAt, ServerReq
<1>2. /\ ~Full(reqUsed[c])
      /\ Kept(reqFree[c], Enqueued(reqUsed[c], buf), {}, DriverReq(c), ReqBufs(c), driverUp)
  <2>1. Kept(reqUsed[c], reqFree[c], {buf}, DriverReq(c), ReqBufs(c), driverUp)
    BY <1>1, KeptSymmetric DEF CustodyInv, Shape, Custody, KeptReq
  <2>2. /\ ~Full(reqUsed[c])
        /\ Kept(Enqueued(reqUsed[c], buf), reqFree[c], {}, DriverReq(c), ReqBufs(c), driverUp)
    BY <1>1, <2>1, Give, BufferSets DEF CustodyInv, Shape
  <2> QED
    BY <2>2, KeptSymmetric DEF CustodyInv, Shape
<1>3. /\ reqUsed' = [reqUsed EXCEPT ![c] = Enqueued(@, buf)]
      /\ \A b \in Bus : reqFree'[b] = reqFree[b]
      /\ DOMAIN reqFree' = Bus
      /\ pc' = "notify"
      /\ UNCHANGED <<retFree, retUsed, cur, bus>>
  BY <1>1, <1>2 DEF publish, allocReqBuf_Queue, retVars, CustodyInv, Shape
<1>4. Shape'
  BY <1>1, <1>3 DEF CustodyInv, Shape, driverVars
<1>5. ServerAt'
  BY <1>3 DEF CustodyInv, ServerAt
<1>6. ASSUME NEW b \in Bus PROVE KeptReq(b)' /\ KeptRet(b)'
  <2>1. DriverReq(b)' = DriverReq(b) /\ DriverRet(b)' = DriverRet(b) /\ driverUp' = driverUp
    BY DEF DriverReq, DriverRet, driverVars
  <2>2. ServerRet(b)' = ServerRet(b)
    BY <1>1, <1>3 DEF ServerRet
  <2>3. KeptRet(b)'
    BY <1>3, <2>1, <2>2, SameRet DEF CustodyInv, Custody
  <2>4. CASE b # c
    <3>1. reqUsed'[b] = reqUsed[b] /\ ServerReq(b)' = ServerReq(b)
      BY <1>1, <1>3, <2>4 DEF ServerReq
    <3> QED
      BY <1>3, <2>1, <2>3, <3>1, SameReq DEF CustodyInv, Custody
  <2>5. CASE b = c
    <3>1. reqUsed'[b] = Enqueued(reqUsed[b], buf) /\ ServerReq(b)' = {}
      BY <1>1, <1>3, <2>5 DEF ServerReq, CustodyInv, Shape
    <3>2. KeptReq(b)'
      BY <1>2, <1>3, <2>1, <2>5, <3>1 DEF KeptReq, ReqBufs, reqBase
    <3> QED
      BY <2>3, <3>2
  <2> QED
    BY <2>4, <2>5
<1> QED
  BY <1>3, <1>4, <1>5, <1>6 DEF CustodyInv, Custody

\* popRetBuf on a ring that was not empty, and the driver has only added to since.
LEMMA ServerCollect ==
  ASSUME CustodyInv, UNCHANGED driverVars, collect
  PROVE  CustodyInv' /\ pc' = "release"
<1>1. /\ bus \in Bus /\ pc = "pop" /\ ~Empty(retUsed[bus])
      /\ ServerRet(bus) = {}
  BY DEF collect, CustodyInv, ServerAt, ServerRet
<1>2. /\ Oldest(retUsed[bus]) \in RetBufs(bus)
      /\ Kept(retFree[bus], Dequeued(retUsed[bus]), {Oldest(retUsed[bus])}, DriverRet(bus),
              RetBufs(bus), driverUp)
  <2>1. Kept(retUsed[bus], retFree[bus], {}, DriverRet(bus), RetBufs(bus), driverUp)
    BY <1>1, KeptSymmetric DEF CustodyInv, Shape, Custody, KeptRet
  <2>2. /\ Oldest(retUsed[bus]) \in RetBufs(bus)
        /\ Kept(Dequeued(retUsed[bus]), retFree[bus], {Oldest(retUsed[bus])}, DriverRet(bus),
                RetBufs(bus), driverUp)
    BY <1>1, <2>1, Take DEF CustodyInv, Shape
  <2> QED
    BY <2>2, KeptSymmetric DEF CustodyInv, Shape
<1>3. Oldest(retUsed[bus]) # NULL
  BY <1>1, <1>2, BufferSets
<1>4. /\ retUsed' = [retUsed EXCEPT ![bus] = Dequeued(@)]
      /\ buf' = Oldest(retUsed[bus])
      /\ pc' = "release"
      /\ UNCHANGED <<reqFree, reqUsed, retFree, cur, bus>>
  BY <1>3 DEF collect, popRetBuf, reqVars
<1>5. Shape'
  BY <1>1, <1>4 DEF CustodyInv, Shape, driverVars
<1>6. ServerAt'
  BY <1>1, <1>4 DEF CustodyInv, ServerAt
<1>7. ASSUME NEW b \in Bus PROVE KeptReq(b)' /\ KeptRet(b)'
  <2>1. DriverReq(b)' = DriverReq(b) /\ DriverRet(b)' = DriverRet(b) /\ driverUp' = driverUp
    BY DEF DriverReq, DriverRet, driverVars
  <2>2. ServerReq(b)' = ServerReq(b)
    BY <1>1, <1>4 DEF ServerReq
  <2>3. KeptReq(b)'
    BY <1>4, <2>1, <2>2, SameReq DEF CustodyInv, Custody
  <2>4. CASE b # bus
    <3>1. retUsed'[b] = retUsed[b] /\ ServerRet(b)' = ServerRet(b)
      BY <1>1, <1>4, <2>4 DEF ServerRet
    <3> QED
      BY <1>4, <2>1, <2>3, <3>1, SameRet DEF CustodyInv, Custody
  <2>5. CASE b = bus
    <3>1. retUsed'[b] = Dequeued(retUsed[b]) /\ ServerRet(b)' = {Oldest(retUsed[b])}
      BY <1>1, <1>4, <2>5 DEF ServerRet, CustodyInv, Shape
    <3>2. KeptRet(b)'
      BY <1>2, <1>4, <2>1, <2>5, <3>1 DEF KeptRet, RetBufs, retBase
    <3> QED
      BY <2>3, <3>2
  <2> QED
    BY <2>4, <2>5
<1> QED
  BY <1>4, <1>5, <1>6, <1>7 DEF CustodyInv, Custody

\* releaseRetBuf gives it back to the free ring, which has room.
LEMMA ServerRelease ==
  ASSUME CustodyInv, UNCHANGED driverVars, release
  PROVE  CustodyInv'
<1>1. bus \in Bus /\ pc = "release" /\ ServerRet(bus) = {buf}
  BY DEF release, CustodyInv, ServerAt, ServerRet
<1>2. Kept(retFree[bus], retUsed[bus], {buf}, DriverRet(bus), RetBufs(bus), driverUp)
  BY <1>1 DEF CustodyInv, Custody, KeptRet
<1>3. Kept(Enqueued(retFree[bus], buf), retUsed[bus], {}, DriverRet(bus), RetBufs(bus), driverUp)
  BY <1>1, <1>2, Give, BufferSets DEF CustodyInv, Shape
<1>4. buf # NULL
  BY <1>1, <1>2, BufferSets DEF Kept
<1>5. /\ retFree' = [retFree EXCEPT ![bus] = Enqueued(@, buf)]
      /\ pc' \in {"check", "wait"} /\ bus' \in Bus
      /\ UNCHANGED <<reqFree, reqUsed, retUsed, cur>>
  BY <1>1, <1>4 DEF release, releaseRetBuf, NextBus, reqVars, Bus
<1>6. Shape'
  BY <1>1, <1>5 DEF CustodyInv, Shape, driverVars
<1>7. ServerAt'
  BY <1>5 DEF CustodyInv, ServerAt
<1>8. ASSUME NEW b \in Bus PROVE KeptReq(b)' /\ KeptRet(b)'
  <2>1. DriverReq(b)' = DriverReq(b) /\ DriverRet(b)' = DriverRet(b) /\ driverUp' = driverUp
    BY DEF DriverReq, DriverRet, driverVars
  <2>2. ServerReq(b)' = ServerReq(b)
    BY <1>1, <1>5 DEF ServerReq
  <2>3. KeptReq(b)'
    BY <1>5, <2>1, <2>2, SameReq DEF CustodyInv, Custody
  <2>4. CASE b # bus
    <3>1. retFree'[b] = retFree[b] /\ ServerRet(b)' = ServerRet(b)
      BY <1>1, <1>5, <2>4 DEF ServerRet
    <3> QED
      BY <1>5, <2>1, <2>3, <3>1, SameRet DEF CustodyInv, Custody
  <2>5. CASE b = bus
    <3>1. retFree'[b] = Enqueued(retFree[b], buf) /\ ServerRet(b)' = {}
      BY <1>1, <1>5, <2>5 DEF ServerRet, CustodyInv, Shape
    <3>2. KeptRet(b)'
      BY <1>3, <1>5, <2>1, <2>5, <3>1 DEF KeptRet, RetBufs, retBase
    <3> QED
      BY <2>3, <3>2
  <2> QED
    BY <2>4, <2>5
<1> QED
  BY <1>6, <1>7, <1>8 DEF CustodyInv, Custody

\* i2cLoadTokens leaves the pointers as the caller has set them, and the other bus.
LEMMA LoadKeepsPointers ==
  ASSUME NEW c \in Bus, NEW st, DOMAIN ifState = Bus, DOMAIN st = Fields,
         i2cLoadTokens(c, st)
  PROVE  /\ DOMAIN ifState' = Bus /\ DOMAIN ifState'[c] = Fields
         /\ ifState'[c].current_req = st.current_req
         /\ ifState'[c].current_ret = st.current_ret
         /\ ifState'[c].notified = st.notified
         /\ \A b \in Bus \ {c} : ifState'[b] = ifState[b]
<1> DEFINE b  == LoadBatch(reqBuf[st.current_req].body, st.remaining, st.ddr)
           up == [st EXCEPT !.remaining = b.remaining, !.ddr = b.ddr]
<1>1. /\ DOMAIN up = Fields
      /\ up.current_req = st.current_req /\ up.current_ret = st.current_ret
      /\ up.notified = st.notified
  BY DEF Fields
<1>2. \/ ifState' = [ifState EXCEPT ![c] = st]
      \/ ifState' = [ifState EXCEPT ![c] = up]
  BY DEF i2cLoadTokens
<1> HIDE DEF up
<1> QED
  BY <1>1, <1>2

\* The driver's calls that change no pointer.
LEMMA DriverIdle ==
  ASSUME CustodyInv, UNCHANGED serverVars, NEW c \in Bus,
         \/ DriverWake
         \/ checkBuf_Nothing(c)
         \/ checkBuf_Busy(c)
         \/ i2cirq_NextBatch(c)
         \/ i2cirq_NoRequest(c)
  PROVE  CustodyInv'
<1>1. UNCHANGED <<reqFree, reqUsed, retFree, retUsed>>
  BY DEF DriverWake, checkBuf_Nothing, checkBuf_Busy, i2cirq_NextBatch, i2cirq_NoRequest,
         Interrupted, transportVars, reqVars, retVars
<1>2. UNCHANGED <<pc, cur, bus, buf>>
  BY DEF serverVars
<1>3. /\ DOMAIN ifState' = Bus
      /\ \A b \in Bus : /\ DOMAIN ifState'[b] = Fields
                        /\ ifState'[b].current_req = ifState[b].current_req
                        /\ ifState'[b].current_ret = ifState[b].current_ret
  <2>1. DOMAIN ifState = Bus /\ \A b \in Bus : DOMAIN ifState[b] = Fields
    BY DEF CustodyInv, Shape
  <2>2. CASE DriverWake \/ i2cirq_NoRequest(c)
    BY <2>1, <2>2 DEF DriverWake, i2cirq_NoRequest
  <2>3. CASE checkBuf_Nothing(c) \/ checkBuf_Busy(c)
    <3>1. \E n : ifState' = [ifState EXCEPT ![c] = [ifState[c] EXCEPT !.notified = n]]
      BY <2>3 DEF checkBuf_Nothing, checkBuf_Busy, Deferred
    <3> QED
      BY <2>1, <3>1 DEF Fields
  <2>4. CASE i2cirq_NextBatch(c)
    <3>1. i2cLoadTokens(c, ifState[c])
      BY <2>4 DEF i2cirq_NextBatch
    <3> QED
      BY <2>1, <3>1, LoadKeepsPointers
  <2> QED
    BY <2>2, <2>3, <2>4
<1>4. driverUp' \in {driverUp, FALSE}
  BY DEF DriverWake, checkBuf_Nothing, checkBuf_Busy, i2cirq_NextBatch, i2cirq_NoRequest
<1>5. Shape'
  BY <1>1, <1>3, <1>4 DEF CustodyInv, Shape
<1>6. ServerAt'
  BY <1>1, <1>2 DEF CustodyInv, ServerAt
<1>7. ASSUME NEW b \in Bus PROVE KeptReq(b)' /\ KeptRet(b)'
  <2>1. /\ ServerReq(b)' = ServerReq(b) /\ ServerRet(b)' = ServerRet(b)
        /\ DriverReq(b)' = DriverReq(b) /\ DriverRet(b)' = DriverRet(b)
    BY <1>2, <1>3 DEF ServerReq, ServerRet, DriverReq, DriverRet
  <2>2. KeptReq(b)'
    BY <1>1, <1>4, <2>1, SameReq DEF CustodyInv, Custody
  <2>3. KeptRet(b)'
    BY <1>1, <1>4, <2>1, SameRet DEF CustodyInv, Custody
  <2> QED
    BY <2>2, <2>3
<1> QED
  BY <1>5, <1>6, <1>7 DEF CustodyInv, Custody

\* The driver takes a request off its ring, finds no return buffer, and stops.
LEMMA DriverStops ==
  ASSUME CustodyInv, UNCHANGED serverVars, NEW c \in Bus, checkBuf_NoRetBuf(c)
  PROVE  CustodyInv'
<1>1. /\ ~Empty(reqUsed[c])
      /\ reqUsed' = [reqUsed EXCEPT ![c] = Dequeued(@)]
      /\ driverUp' = FALSE
      /\ UNCHANGED <<reqFree, retFree, retUsed, ifState, pc, cur, bus, buf>>
  BY DEF checkBuf_NoRetBuf, reqBufEmpty, popReqBuf, retVars, serverVars
<1>2. Shape'
  BY <1>1 DEF CustodyInv, Shape
<1>3. ServerAt'
  BY <1>1 DEF CustodyInv, ServerAt
<1>4. ASSUME NEW b \in Bus PROVE KeptReq(b)' /\ KeptRet(b)'
  <2>1. /\ ServerReq(b)' = ServerReq(b) /\ ServerRet(b)' = ServerRet(b)
        /\ DriverReq(b)' = DriverReq(b) /\ DriverRet(b)' = DriverRet(b)
    BY <1>1 DEF ServerReq, ServerRet, DriverReq, DriverRet
  <2>2. KeptRet(b)'
    BY <1>1, <2>1, SameRet DEF CustodyInv, Custody
  <2>3. CASE b # c
    <3>1. reqUsed'[b] = reqUsed[b]
      BY <1>1, <2>3
    <3>2. KeptReq(b)'
      BY <1>1, <2>1, <3>1, SameReq DEF CustodyInv, Custody
    <3> QED
      BY <2>2, <3>2
  <2>4. CASE b = c
    <3>1. reqUsed'[b] = Dequeued(reqUsed[b])
      BY <1>1, <2>4 DEF CustodyInv, Shape
    <3>2. Kept(reqUsed[b], reqFree[b], ServerReq(b), DriverReq(b), ReqBufs(b), driverUp)
      BY KeptSymmetric DEF CustodyInv, Shape, Custody, KeptReq
    <3>3. Kept(Dequeued(reqUsed[b]), reqFree[b], ServerReq(b), DriverReq(b), ReqBufs(b), FALSE)
      BY <1>1, <2>4, <3>2, Drop DEF CustodyInv, Shape
    <3>4. Kept(reqFree[b], Dequeued(reqUsed[b]), ServerReq(b), DriverReq(b), ReqBufs(b), FALSE)
      BY <3>3, KeptSymmetric
    <3>5. KeptReq(b)'
      BY <1>1, <2>1, <3>1, <3>4 DEF KeptReq, ReqBufs, reqBase
    <3> QED
      BY <2>2, <3>5
  <2> QED
    BY <2>3, <2>4
<1> QED
  BY <1>2, <1>3, <1>4 DEF CustodyInv, Custody

\* checkBuf begins a request: one buffer of each kind goes to the driver.
LEMMA DriverStarts ==
  ASSUME CustodyInv, UNCHANGED serverVars, NEW c \in Bus, checkBuf_Start(c)
  PROVE  CustodyInv'
<1> DEFINE req == Oldest(reqUsed[c])
           ret == Oldest(retFree[c])
<1>1. /\ ~Empty(reqUsed[c]) /\ ~Empty(retFree[c])
      /\ reqUsed' = [reqUsed EXCEPT ![c] = Dequeued(@)]
      /\ retFree' = [retFree EXCEPT ![c] = Dequeued(@)]
      /\ ifState[c].current_req = NULL
      /\ i2cLoadTokens(c, Begun(ifState[c], req, ret))
      /\ UNCHANGED <<reqFree, retUsed, driverUp, pc, cur, bus, buf>>
  BY DEF checkBuf_Start, reqBufEmpty, popReqBuf, getRetBuf, Busy, Oldest, serverVars
<1>2. /\ DOMAIN ifState = Bus /\ DOMAIN ifState[c] = Fields
      /\ ifState[c].current_ret = NULL
  BY <1>1 DEF CustodyInv, Shape
<1>3. /\ DOMAIN ifState' = Bus /\ DOMAIN ifState'[c] = Fields
      /\ ifState'[c].current_req = req
      /\ ifState'[c].current_ret = ret
      /\ \A b \in Bus \ {c} : ifState'[b] = ifState[b]
  <2> DEFINE st == Begun(ifState[c], req, ret)
  <2>1. DOMAIN st = Fields /\ st.current_req = req /\ st.current_ret = ret
    BY <1>2 DEF Begun, Fields
  <2>2. i2cLoadTokens(c, st)
    BY <1>1
  <2> HIDE DEF st, req, ret
  <2> QED
    BY <1>2, <2>1, <2>2, LoadKeepsPointers
<1>4. /\ req \in ReqBufs(c) /\ req # NULL
      /\ Kept(reqFree[c], Dequeued(reqUsed[c]), ServerReq(c), {req}, ReqBufs(c), driverUp)
  <2>1. DriverReq(c) = {}
    BY <1>1 DEF DriverReq
  <2>2. Kept(reqFree[c], reqUsed[c], ServerReq(c), {}, ReqBufs(c), driverUp)
    BY <2>1 DEF CustodyInv, Custody, KeptReq
  <2>3. Kept(reqUsed[c], reqFree[c], {}, ServerReq(c), ReqBufs(c), driverUp)
    BY <2>2, KeptSymmetric DEF CustodyInv, Shape
  <2>4. /\ req \in ReqBufs(c)
        /\ Kept(Dequeued(reqUsed[c]), reqFree[c], {req}, ServerReq(c), ReqBufs(c), driverUp)
    BY <1>1, <2>3, Take DEF CustodyInv, Shape
  <2> QED
    BY <2>4, KeptSymmetric, BufferSets DEF CustodyInv, Shape
<1>5. /\ ret \in RetBufs(c) /\ ret # NULL
      /\ Kept(Dequeued(retFree[c]), retUsed[c], ServerRet(c), {ret}, RetBufs(c), driverUp)
  <2>1. DriverRet(c) = {}
    BY <1>2 DEF DriverRet
  <2>2. Kept(retFree[c], retUsed[c], ServerRet(c), {}, RetBufs(c), driverUp)
    BY <2>1 DEF CustodyInv, Custody, KeptRet
  <2>3. Kept(retFree[c], retUsed[c], {}, ServerRet(c), RetBufs(c), driverUp)
    BY <2>2, KeptSymmetric DEF CustodyInv, Shape
  <2>4. /\ ret \in RetBufs(c)
        /\ Kept(Dequeued(retFree[c]), retUsed[c], {ret}, ServerRet(c), RetBufs(c), driverUp)
    BY <1>1, <2>3, Take DEF CustodyInv, Shape
  <2> QED
    BY <2>4, KeptSymmetric, BufferSets DEF CustodyInv, Shape
<1> HIDE DEF req, ret
<1>6. Shape'
  BY <1>1, <1>3, <1>4, <1>5 DEF CustodyInv, Shape
<1>7. ServerAt'
  BY <1>1 DEF CustodyInv, ServerAt
<1>8. ASSUME NEW b \in Bus PROVE KeptReq(b)' /\ KeptRet(b)'
  <2>1. ServerReq(b)' = ServerReq(b) /\ ServerRet(b)' = ServerRet(b)
    BY <1>1 DEF ServerReq, ServerRet
  <2>2. CASE b # c
    <3>1. /\ DriverReq(b)' = DriverReq(b) /\ DriverRet(b)' = DriverRet(b)
          /\ reqUsed'[b] = reqUsed[b] /\ retFree'[b] = retFree[b]
      BY <1>1, <1>3, <2>2 DEF DriverReq, DriverRet
    <3>2. KeptReq(b)'
      BY <1>1, <2>1, <3>1, SameReq DEF CustodyInv, Custody
    <3>3. KeptRet(b)'
      BY <1>1, <2>1, <3>1, SameRet DEF CustodyInv, Custody
    <3> QED
      BY <3>2, <3>3
  <2>3. CASE b = c
    <3>1. /\ DriverReq(b)' = {req} /\ DriverRet(b)' = {ret}
          /\ reqUsed'[b] = Dequeued(reqUsed[b]) /\ retFree'[b] = Dequeued(retFree[b])
      BY <1>1, <1>3, <1>4, <1>5, <2>3 DEF DriverReq, DriverRet, CustodyInv, Shape
    <3>2. KeptReq(b)'
      BY <1>1, <1>4, <2>1, <2>3, <3>1 DEF KeptReq, ReqBufs, reqBase
    <3>3. KeptRet(b)'
      BY <1>1, <1>5, <2>1, <2>3, <3>1 DEF KeptRet, RetBufs, retBase
    <3> QED
      BY <3>2, <3>3
  <2> QED
    BY <2>2, <2>3
<1> QED
  BY <1>6, <1>7, <1>8 DEF CustodyInv, Custody

\* The handler ends a request: the return is queued and the request buffer free.
LEMMA DriverFinishes ==
  ASSUME CustodyInv, UNCHANGED serverVars, NEW c \in Bus,
         i2cirq_Finish(c) \/ i2cirq_FinishNotified(c)
  PROVE  CustodyInv'
<1> DEFINE req == ifState[c].current_req
           ret == ifState[c].current_ret
<1>1. /\ ret # NULL /\ Return(c)
      /\ driverUp' \in {driverUp, FALSE}
      /\ UNCHANGED <<reqUsed, retFree, pc, cur, bus, buf>>
  BY DEF i2cirq_Finish, i2cirq_FinishNotified, Interrupted, serverVars
<1>2. /\ DOMAIN ifState = Bus /\ DOMAIN ifState[c] = Fields /\ req # NULL
      /\ driverUp \in BOOLEAN
  BY <1>1 DEF CustodyInv, Shape
<1>3. DriverReq(c) = {req} /\ DriverRet(c) = {ret}
  BY <1>1, <1>2 DEF DriverReq, DriverRet
<1>4. /\ DOMAIN ifState' = Bus /\ DOMAIN ifState'[c] = Fields
      /\ ifState'[c].current_req = NULL /\ ifState'[c].current_ret = NULL
      /\ \A b \in Bus \ {c} : ifState'[b] = ifState[b]
  <2>1. ifState' = [ifState EXCEPT ![c] = Reset(ifState[c])]
    BY <1>1 DEF Return
  <2>2. /\ DOMAIN Reset(ifState[c]) = Fields
        /\ Reset(ifState[c]).current_req = NULL /\ Reset(ifState[c]).current_ret = NULL
    BY <1>2 DEF Reset, Fields
  <2> QED
    BY <1>2, <2>1, <2>2
<1>5. Kept(Enqueued(reqFree[c], req), reqUsed[c], ServerReq(c), {}, ReqBufs(c), driverUp)
  <2>1. Kept(reqFree[c], reqUsed[c], ServerReq(c), {req}, ReqBufs(c), driverUp)
    BY <1>3 DEF CustodyInv, Custody, KeptReq
  <2>2. Kept(reqFree[c], reqUsed[c], {req}, ServerReq(c), ReqBufs(c), driverUp)
    BY <1>2, <2>1, KeptSymmetric
  <2>3. Kept(Enqueued(reqFree[c], req), reqUsed[c], {}, ServerReq(c), ReqBufs(c), driverUp)
    BY <1>2, <2>2, Give, BufferSets
  <2> QED
    BY <1>2, <2>3, KeptSymmetric
<1>6. /\ ~Full(retUsed[c])
      /\ Kept(retFree[c], Enqueued(retUsed[c], ret), ServerRet(c), {}, RetBufs(c), driverUp)
  <2>1. Kept(retFree[c], retUsed[c], ServerRet(c), {ret}, RetBufs(c), driverUp)
    BY <1>3 DEF CustodyInv, Custody, KeptRet
  <2>2. Kept(retUsed[c], retFree[c], {ret}, ServerRet(c), RetBufs(c), driverUp)
    BY <1>2, <2>1, KeptSymmetric
  <2>3. /\ ~Full(retUsed[c])
        /\ Kept(Enqueued(retUsed[c], ret), retFree[c], {}, ServerRet(c), RetBufs(c), driverUp)
    BY <1>2, <2>2, Give, BufferSets
  <2> QED
    BY <1>2, <2>3, KeptSymmetric
<1>7. /\ reqFree' = [reqFree EXCEPT ![c] = Enqueued(@, req)]
      /\ retUsed' = [retUsed EXCEPT ![c] = Enqueued(@, ret)]
  BY <1>1, <1>2 DEF Return, pushRetBuf, releaseReqBuf
<1>8. Enqueued(retUsed[c], ret) # <<>>
  <2>1. retUsed[c] \in Seq(RetBufs(c))
    BY DEF CustodyInv, Custody, KeptRet, Kept
  <2> QED
    BY <1>6, <2>1 DEF Enqueued
<1>9. Shape'
  <2>1. DOMAIN reqFree' = Bus /\ DOMAIN retUsed' = Bus
    BY <1>7 DEF CustodyInv, Shape
  <2> QED
    BY <1>1, <1>4, <2>1 DEF CustodyInv, Shape
<1>10. ServerAt'
  BY <1>1, <1>7, <1>8 DEF CustodyInv, ServerAt, Shape, Empty
<1>11. ASSUME NEW b \in Bus PROVE KeptReq(b)' /\ KeptRet(b)'
  <2>1. ServerReq(b)' = ServerReq(b) /\ ServerRet(b)' = ServerRet(b)
    BY <1>1 DEF ServerReq, ServerRet
  <2>2. CASE b # c
    <3>1. /\ DriverReq(b)' = DriverReq(b) /\ DriverRet(b)' = DriverRet(b)
          /\ reqFree'[b] = reqFree[b] /\ retUsed'[b] = retUsed[b]
      BY <1>4, <1>7, <2>2 DEF DriverReq, DriverRet
    <3>2. KeptReq(b)'
      BY <1>1, <2>1, <3>1, SameReq DEF CustodyInv, Custody
    <3>3. KeptRet(b)'
      BY <1>1, <2>1, <3>1, SameRet DEF CustodyInv, Custody
    <3> QED
      BY <3>2, <3>3
  <2>3. CASE b = c
    <3>1. /\ DriverReq(b)' = {} /\ DriverRet(b)' = {}
          /\ reqFree'[b] = Enqueued(reqFree[b], req)
          /\ retUsed'[b] = Enqueued(retUsed[b], ret)
      BY <1>4, <1>7, <2>3 DEF DriverReq, DriverRet, CustodyInv, Shape
    <3>2. /\ Kept(Enqueued(reqFree[c], req), reqUsed[c], ServerReq(c), {}, ReqBufs(c), driverUp')
          /\ Kept(retFree[c], Enqueued(retUsed[c], ret), ServerRet(c), {}, RetBufs(c), driverUp')
      BY <1>1, <1>2, <1>5, <1>6, KeptWhenDown
    <3>3. KeptReq(b)'
      BY <1>1, <2>1, <2>3, <3>1, <3>2 DEF KeptReq, ReqBufs, reqBase
    <3>4. KeptRet(b)'
      BY <1>1, <2>1, <2>3, <3>1, <3>2 DEF KeptRet, RetBufs, retBase
    <3> QED
      BY <3>3, <3>4
  <2> QED
    BY <2>2, <2>3
<1> QED
  BY <1>9, <1>10, <1>11 DEF CustodyInv, Custody

\* Neither a list processor's step nor a stuttering one moves a buffer.
LEMMA NothingMoves ==
  ASSUME CustodyInv, UNCHANGED <<transportVars, driverVars, serverVars>>
  PROVE  CustodyInv'
<1>1. UNCHANGED <<reqFree, reqUsed, retFree, retUsed, ifState, driverUp, pc, cur, bus, buf>>
  BY DEF transportVars, reqVars, retVars, driverVars, serverVars
<1>2. Shape' /\ ServerAt'
  BY <1>1 DEF CustodyInv, Shape, ServerAt
<1>3. ASSUME NEW b \in Bus PROVE KeptReq(b)' /\ KeptRet(b)'
  <2>1. /\ ServerReq(b)' = ServerReq(b) /\ ServerRet(b)' = ServerRet(b)
        /\ DriverReq(b)' = DriverReq(b) /\ DriverRet(b)' = DriverRet(b)
    BY <1>1 DEF ServerReq, ServerRet, DriverReq, DriverRet
  <2>2. KeptReq(b)'
    BY <1>1, <2>1, SameReq DEF CustodyInv, Custody
  <2>3. KeptRet(b)'
    BY <1>1, <2>1, SameRet DEF CustodyInv, Custody
  <2> QED
    BY <2>2, <2>3
<1> QED
  BY <1>2, <1>3 DEF CustodyInv, Custody

-----------------------------------------------------------------------------
\* The theorems.

LEMMA CustodyNext == CustodyInv /\ [Next]_vars => CustodyInv'
<1> SUFFICES ASSUME CustodyInv, [Next]_vars PROVE CustodyInv'
  OBVIOUS
<1>1. CASE DriverStep
  <2>1. UNCHANGED serverVars
    BY <1>1 DEF DriverStep
  <2>2. CASE DriverWake
    <3>1. 2 \in Bus
      BY DEF Bus
    <3> QED
      BY <2>1, <2>2, <3>1, DriverIdle
  <2>3. ASSUME NEW c \in Bus, DriverCall(c) PROVE CustodyInv'
    <3>1. CASE checkBuf_Nothing(c) \/ checkBuf_Busy(c) \/ i2cirq_NextBatch(c) \/ i2cirq_NoRequest(c)
      BY <2>1, <3>1, DriverIdle
    <3>2. CASE checkBuf_Start(c)
      BY <2>1, <3>2, DriverStarts
    <3>3. CASE checkBuf_NoRetBuf(c)
      BY <2>1, <3>3, DriverStops
    <3>4. CASE i2cirq_Finish(c) \/ i2cirq_FinishNotified(c)
      BY <2>1, <3>4, DriverFinishes
    <3> QED
      BY <2>3, <3>1, <3>2, <3>3, <3>4 DEF DriverCall
  <2> QED
    BY <1>1, <2>2, <2>3 DEF DriverStep, DriverNext
<1>2. CASE ServerStep
  <2>1. UNCHANGED driverVars
    BY <1>2 DEF ServerStep
  <2>2. CASE initDone \/ notify \/ ServerWake \/ skipBus \/ checkBus
    BY <2>1, <2>2, ServerIdle
  <2>3. CASE allocate
    BY <2>1, <2>3, ServerAllocate
  <2>4. CASE publish
    BY <2>1, <2>4, ServerPublish
  <2>5. CASE collect
    BY <2>1, <2>5, ServerCollect
  <2>6. CASE release
    BY <2>1, <2>6, ServerRelease
  <2> QED
    BY <1>2, <2>2, <2>3, <2>4, <2>5, <2>6 DEF ServerStep, ServerNext
<1>3. CASE \E b \in Bus : HwStep(b)
  BY <1>3, NothingMoves DEF HwStep
<1>4. CASE UNCHANGED vars
  BY <1>4, NothingMoves DEF vars
<1> QED
  BY <1>1, <1>2, <1>3, <1>4 DEF Next

\* The custody of every buffer is an invariant of the system.
LEMMA CustodyAlways == Spec => []CustodyInv
<1> QED
  BY CustodyInit, CustodyNext, PTL DEF Spec

\* No request or return buffer is ever in two places: queued twice, queued while
\* the server or the driver uses it, or used by both; for every number of buffers,
\* every program, every interleaving, and late interrupts or not.
THEOREM SystemNoBufferTwice == Spec => []NoBufferTwice
<1> QED
  BY CustodyAlways, CustodySuffices, PTL

\* No buffer is ever lost, as long as the driver has not faulted: every one is on
\* a ring or in the hands of a domain that will put it there.
THEOREM SystemNoBufferLost == Spec => []NoBufferLost
<1> QED
  BY CustodyAlways, CustodySuffices, PTL

-----------------------------------------------------------------------------
\* No request is forgotten.  checkBuf takes one request and clears the note of a
\* deferred notification, so it must not leave a second one behind: while no note
\* is down, at most one request is queued, because the driver runs to its end
\* between two steps of the server.

Noted(b) == ifState[b].current_req # NULL /\ ifState[b].notified = 1

Looks(b) ==
  \/ SERVER_NOTIFY_ID \in driverWord
  \/ CallsAhead("checkBuf", b) # {}
  \/ pc = "notify"

Seen(b) ==
  driverUp => /\ ~Empty(reqUsed[b]) => Noted(b) \/ Looks(b)
              /\ ~Noted(b) => Len(reqUsed[b]) <= 1

SeenInv == \A b \in Bus : Seen(b)

LEMMA SeenInit == Init => SeenInv
  BY DEF Init, i2cTransportInit, SeenInv, Seen, Empty

\* What a call that the driver makes leaves of its other calls.
LEMMA OtherCalls ==
  ASSUME NEW name, NEW c \in Bus, NEW b \in Bus, Called(name, c),
         name # "checkBuf" \/ b # c, CallsAhead("checkBuf", b) # {}
  PROVE  CallsAhead("checkBuf", b)' # {}
  BY DEF Called, CallsAhead

\* The server hands over a request only when the driver has nothing to do.
LEMMA SeenServer ==
  ASSUME CustodyInv, SeenInv, ServerStep
  PROVE  SeenInv'
<1> SUFFICES ASSUME NEW b \in Bus, driverUp PROVE Seen(b)'
  BY DEF SeenInv, Seen, ServerStep, driverVars
<1>1. /\ Noted(b)' = Noted(b)
      /\ CallsAhead("checkBuf", b)' = CallsAhead("checkBuf", b)
      /\ driverUp' = driverUp
  BY DEF ServerStep, driverVars, Noted, CallsAhead
<1>2. CASE publish
  <2> DEFINE c == Program[cur].bus
  <2>1. c \in Bus /\ pc = "publish"
    BY <1>2 DEF publish, CustodyInv, ServerAt
  <2>2. driverWord = {} /\ driverCalls = {}
    BY DEF ServerStep, DriverRuns
  <2>3. ~Looks(b)
    BY <2>1, <2>2 DEF Looks, CallsAhead
  <2>4. pc' = "notify"
    BY <1>2, ServerPublish DEF ServerStep
  <2>5. reqUsed[b] \in Seq(ReqBufs(b))
    BY DEF CustodyInv, Custody, KeptReq, Kept
  <2>6. ~Noted(b) => Len(reqUsed[b]) = 0
    BY <2>3, <2>5 DEF SeenInv, Seen, Empty
  <2>7. reqUsed'[b] = reqUsed[b] \/ reqUsed'[b] = Append(reqUsed[b], buf)
    BY <1>2, <2>1 DEF publish, allocReqBuf_Queue, Enqueued, CustodyInv, Shape
  <2>8. Len(reqUsed'[b]) <= Len(reqUsed[b]) + 1
    <3>1. buf \in ReqBufs(c)
      BY <2>1 DEF CustodyInv, Custody, KeptReq, Kept, ServerReq
    <3>2. CASE reqUsed'[b] = reqUsed[b]
      BY <2>5, <3>2
    <3>3. CASE reqUsed'[b] = Append(reqUsed[b], buf)
      BY <2>5, <3>3
    <3> QED
      BY <2>7, <3>2, <3>3
  <2> QED
    BY <1>1, <2>4, <2>6, <2>8 DEF Seen, Looks
<1>3. CASE notify
  BY <1>1, <1>3 DEF notify, notify_driver, transportVars, reqVars, SeenInv, Seen, Looks
<1>4. CASE initDone \/ ServerWake \/ skipBus \/ checkBus \/ allocate \/ collect \/ release
  <2>1. /\ reqUsed' = reqUsed /\ driverWord' = driverWord
        /\ pc # "notify"
    BY <1>4 DEF initDone, ServerWake, skipBus, checkBus, allocate, collect, release,
                transportVars, reqVars, wordVars
  <2> QED
    BY <1>1, <2>1 DEF SeenInv, Seen, Looks
<1> QED
  BY <1>2, <1>3, <1>4 DEF ServerStep, ServerNext

\* checkBuf starts the only request there is, or notes that there are more.
LEMMA SeenDriver ==
  ASSUME CustodyInv, SeenInv, DriverStep
  PROVE  SeenInv'
<1> SUFFICES ASSUME NEW b \in Bus, driverUp' PROVE Seen(b)'
  BY DEF SeenInv, Seen
<1>1. pc' = pc
  BY DEF DriverStep, serverVars
<1>2. /\ DOMAIN ifState = Bus /\ DOMAIN reqUsed = Bus
      /\ \A c \in Bus : DOMAIN ifState[c] = Fields
      /\ \A c \in Bus : reqUsed[c] \in Seq(ReqBufs(c))
  BY DEF CustodyInv, Shape, Custody, KeptReq, Kept
<1>3. CASE DriverWake
  <2>1. /\ driverUp /\ reqUsed' = reqUsed /\ Noted(b)' = Noted(b)
        /\ CallsAhead("checkBuf", b) = {}
    BY <1>3 DEF DriverWake, transportVars, reqVars, Noted, CallsAhead
  <2>2. SERVER_NOTIFY_ID \in driverWord => CallsAhead("checkBuf", b)' # {}
    <3> SUFFICES ASSUME SERVER_NOTIFY_ID \in driverWord
                 PROVE  CallsAhead("checkBuf", b)' # {}
      OBVIOUS
    <3> DEFINE call == Call(SERVER_NOTIFY_ID, "checkBuf", b, FALSE)
    <3>1. call \in notified(SERVER_NOTIFY_ID)
      <4> DEFINE calls == {Call(SERVER_NOTIFY_ID, "checkBuf", x, FALSE) : x \in Bus}
      <4>1. call \in calls
        OBVIOUS
      <4> HIDE DEF calls
      <4>2. notified(SERVER_NOTIFY_ID) = calls
        <5> USE DEF SERVER_NOTIFY_ID, IRQ_I2C_M2, IRQ_I2C_M2_TO, IRQ_I2C_M3, IRQ_I2C_M3_TO
        <5> QED
          BY DEF notified, serverNotify, calls
      <4> QED
        BY <4>1, <4>2
    <3>2. call \in driverCalls'
      BY <1>3, <3>1 DEF DriverWake
    <3>3. call.name = "checkBuf" /\ call.bus = b
      BY DEF Call
    <3> QED
      BY <3>2, <3>3 DEF CallsAhead
  <2> QED
    BY <1>1, <2>1, <2>2 DEF SeenInv, Seen, Looks
<1>4. ASSUME NEW c \in Bus, DriverCall(c) PROVE Seen(b)'
  <2>1. CASE checkBuf_Nothing(c)
    <3>1. /\ Called("checkBuf", c) /\ Empty(reqUsed[c]) /\ driverUp
          /\ reqUsed' = reqUsed /\ driverWord' = driverWord
          /\ ifState' = [ifState EXCEPT ![c].notified = 0]
      BY <2>1 DEF checkBuf_Nothing, reqBufEmpty, transportVars, reqVars, wordVars, Called
    <3>2. CASE b = c
      BY <1>2, <3>1, <3>2 DEF Seen, Empty
    <3>3. CASE b # c
      <4>1. Noted(b)' = Noted(b)
        BY <1>2, <3>1, <3>3 DEF Noted
      <4> QED
        BY <1>1, <3>1, <3>3, <4>1, OtherCalls DEF SeenInv, Seen, Looks
    <3> QED
      BY <3>2, <3>3
  <2>2. CASE checkBuf_Busy(c)
    <3>1. /\ Called("checkBuf", c) /\ driverUp /\ ifState[c].current_req # NULL
          /\ reqUsed' = reqUsed /\ driverWord' = driverWord
          /\ ifState' = [ifState EXCEPT ![c] = [ifState[c] EXCEPT !.notified = 1]]
      BY <2>2 DEF checkBuf_Busy, Busy, Deferred, transportVars, reqVars, wordVars, Called
    <3>2. CASE b = c
      <4>1. Noted(b)'
        BY <1>2, <3>1, <3>2 DEF Noted, Fields
      <4> QED
        BY <4>1 DEF Seen
    <3>3. CASE b # c
      <4>1. Noted(b)' = Noted(b)
        BY <1>2, <3>1, <3>3 DEF Noted
      <4> QED
        BY <1>1, <3>1, <3>3, <4>1, OtherCalls DEF SeenInv, Seen, Looks
    <3> QED
      BY <3>2, <3>3
  <2>3. CASE checkBuf_Start(c)
    <3>1. /\ Called("checkBuf", c) /\ driverUp /\ ifState[c].current_req = NULL
          /\ ~Empty(reqUsed[c])
          /\ reqUsed' = [reqUsed EXCEPT ![c] = Dequeued(@)] /\ driverWord' = driverWord
          /\ i2cLoadTokens(c, Begun(ifState[c], Oldest(reqUsed[c]), Oldest(retFree[c])))
      BY <2>3 DEF checkBuf_Start, Busy, reqBufEmpty, popReqBuf, wordVars, Called
    <3>2. CASE b = c
      <4>1. Len(reqUsed[b]) <= 1
        BY <3>1, <3>2 DEF SeenInv, Seen, Noted
      <4>2. reqUsed'[b] = Tail(reqUsed[b]) /\ reqUsed[b] # <<>>
        BY <1>2, <3>1, <3>2 DEF Dequeued, Empty
      <4>3. reqUsed'[b] = <<>>
        BY <1>2, <4>1, <4>2
      <4> QED
        BY <4>3 DEF Seen, Empty
    <3>3. CASE b # c
      <4>1. reqUsed'[b] = reqUsed[b]
        BY <1>2, <3>1, <3>3
      <4>2. DOMAIN Begun(ifState[c], Oldest(reqUsed[c]), Oldest(retFree[c])) = Fields
        BY <1>2 DEF Begun
      <4>3. ifState'[b] = ifState[b]
        BY <1>2, <3>1, <3>3, <4>2, LoadKeepsPointers
      <4> QED
        BY <1>1, <3>1, <3>3, <4>1, <4>3, OtherCalls DEF SeenInv, Seen, Looks, Noted
    <3> QED
      BY <3>2, <3>3
  <2>4. CASE i2cirq_NextBatch(c) \/ i2cirq_Finish(c)
    <3>1. /\ Called("i2cirq", c) /\ driverUp
          /\ reqUsed' = reqUsed /\ driverWord' = driverWord
      BY <2>4 DEF i2cirq_NextBatch, i2cirq_Finish, Interrupted, Called, reqVars, wordVars
    <3>2. ASSUME Noted(b) PROVE Noted(b)'
      <4>1. CASE i2cirq_NextBatch(c)
        BY <1>2, <3>2, <4>1, LoadKeepsPointers DEF i2cirq_NextBatch, Noted
      <4>2. CASE i2cirq_Finish(c)
        <5>1. ifState' = [ifState EXCEPT ![c] = Reset(@)] /\ ifState[c].notified = 0
          BY <4>2 DEF i2cirq_Finish, Return
        <5>2. b # c
          BY <3>2, <5>1 DEF Noted
        <5> QED
          BY <1>2, <3>2, <5>1, <5>2 DEF Noted
      <4> QED
        BY <2>4, <4>1, <4>2
    <3>3. Looks(b) => Looks(b)'
      BY <1>1, <3>1, OtherCalls DEF Looks
    <3> QED
      BY <3>1, <3>2, <3>3 DEF SeenInv, Seen
  <2>5. CASE checkBuf_NoRetBuf(c) \/ i2cirq_FinishNotified(c) \/ i2cirq_NoRequest(c)
    BY <2>5 DEF checkBuf_NoRetBuf, i2cirq_FinishNotified, i2cirq_NoRequest
  <2> QED
    BY <1>4, <2>1, <2>2, <2>3, <2>4, <2>5 DEF DriverCall
<1> QED
  BY <1>3, <1>4 DEF DriverStep, DriverNext

LEMMA SeenNext == CustodyInv /\ SeenInv /\ [Next]_vars => SeenInv'
<1> SUFFICES ASSUME CustodyInv, SeenInv, [Next]_vars PROVE SeenInv'
  OBVIOUS
<1>1. CASE DriverStep
  BY <1>1, SeenDriver
<1>2. CASE ServerStep
  BY <1>2, SeenServer
<1>3. CASE (\E b \in Bus : HwStep(b)) \/ UNCHANGED vars
  <2>1. /\ UNCHANGED <<reqUsed, ifState, driverCalls, driverUp, pc>>
        /\ driverWord \subseteq driverWord'
    BY <1>3 DEF HwStep, HwNext, HwDone, HwNack, HwTimeout, notify_driver, vars,
                transportVars, reqVars, driverVars, serverVars, wordVars
  <2> QED
    BY <2>1 DEF SeenInv, Seen, Noted, Looks, CallsAhead
<1> QED
  BY <1>1, <1>2, <1>3 DEF Next

\* A request that the server has queued is never forgotten: its bus is busy with the
\* notification noted down, or the driver is still to look at its ring; for every
\* program and number of buffers.
THEOREM SystemNoRequestForgotten == Spec => []NoRequestForgotten
<1>1. SeenInv => NoRequestForgotten
  BY DEF SeenInv, Seen, Noted, Looks, NoRequestForgotten, reqBufEmpty
<1>2. CustodyInv /\ SeenInv /\ [Next]_vars => CustodyInv' /\ SeenInv'
  BY CustodyNext, SeenNext
<1> QED
  BY <1>1, <1>2, CustodyInit, SeenInit, PTL DEF Spec

-----------------------------------------------------------------------------
\* No push while the driver has a ring to look at.  A notification of the server
\* comes with pc at "allocate", and the server waits there until it is dealt with.

RingLook == SERVER_NOTIFY_ID \in driverWord \/ \E c \in driverCalls : c.name = "checkBuf"

PushInv == driverUp /\ RingLook => pc = "allocate"

LEMMA PushServer ==
  ASSUME PushInv, ServerStep
  PROVE  PushInv'
<1> SUFFICES ASSUME driverUp', RingLook' PROVE pc' = "allocate"
  BY DEF PushInv
<1>1. driverUp /\ driverCalls' = driverCalls
  BY DEF ServerStep, driverVars
<1>2. driverWord = {} /\ driverCalls = {}
  BY <1>1 DEF ServerStep, DriverRuns
<1>3. CASE notify
  BY <1>3 DEF notify
<1>4. CASE allocate \/ initDone \/ publish \/ ServerWake \/ skipBus \/ checkBus \/ collect \/ release
  <2>1. driverWord' = driverWord
    BY <1>4 DEF allocate, initDone, publish, ServerWake, skipBus, checkBus, collect, release,
                wordVars
  <2> QED
    BY <1>1, <1>2, <2>1 DEF RingLook
<1> QED
  BY <1>3, <1>4 DEF ServerStep, ServerNext

\* Only the server's channel stands for calls of checkBuf.
LEMMA CheckBufChannel ==
  ASSUME NEW channel \in DriverChannel, NEW c \in notified(channel), c.name = "checkBuf"
  PROVE  channel = SERVER_NOTIFY_ID
<1> USE DEF SERVER_NOTIFY_ID, IRQ_I2C_M2, IRQ_I2C_M2_TO, IRQ_I2C_M3, IRQ_I2C_M3_TO
<1> SUFFICES ASSUME channel # SERVER_NOTIFY_ID PROVE FALSE
  OBVIOUS
<1>1. channel \in {2, 3, 4, 5}
  BY DEF DriverChannel
<1>2. \E b \in Bus, timeout \in BOOLEAN : c = Call(channel, "i2cirq", b, timeout)
  BY <1>1 DEF notified, serverNotify, Bus
<1> QED
  BY <1>2 DEF Call

LEMMA PushDriver ==
  ASSUME PushInv, DriverStep, driverWord \subseteq DriverChannel
  PROVE  PushInv'
<1> SUFFICES ASSUME driverUp', RingLook' PROVE RingLook /\ driverUp
  BY DEF PushInv, DriverStep, serverVars
<1>1. CASE DriverWake
  <2>1. PICK c \in driverCalls' : c.name = "checkBuf"
    BY <1>1 DEF DriverWake, RingLook
  <2>2. PICK channel \in driverWord : c \in notified(channel)
    BY <1>1, <2>1 DEF DriverWake
  <2> QED
    BY <1>1, <2>1, <2>2, CheckBufChannel DEF RingLook, DriverWake
<1>2. ASSUME NEW b \in Bus, DriverCall(b) PROVE RingLook /\ driverUp
  <2>1. /\ driverWord' = driverWord /\ driverUp
        /\ driverCalls' \subseteq driverCalls
    BY <1>2 DEF DriverCall, checkBuf_Nothing, checkBuf_Busy, checkBuf_Start,
                checkBuf_NoRetBuf, i2cirq_NextBatch, i2cirq_Finish, i2cirq_FinishNotified,
                i2cirq_NoRequest, Interrupted, Called, wordVars
  <2> QED
    BY <2>1 DEF RingLook
<1> QED
  BY <1>1, <1>2 DEF DriverStep, DriverNext

\* The driver's notification word holds channels of the driver.
WordInv == driverWord \subseteq DriverChannel

\* An interrupt is not taken for a notification of the server.
LEMMA PushHw ==
  ASSUME PushInv, WordInv, NEW b \in Bus, HwStep(b)
  PROVE  PushInv' /\ WordInv'
<1> USE DEF SERVER_NOTIFY_ID, IRQ_I2C_M2, IRQ_I2C_M2_TO, IRQ_I2C_M3, IRQ_I2C_M3_TO
<1>1. PICK timeout \in BOOLEAN : driverWord' = driverWord \cup {irq(b, timeout)}
  BY DEF HwStep, HwNext, HwDone, HwNack, HwTimeout, notify_driver
<1>2. irq(b, timeout) \in {2, 3, 4, 5}
  BY DEF irq
<1>3. UNCHANGED <<driverCalls, driverUp, pc>>
  BY DEF HwStep, driverVars, serverVars
<1>4. {2, 3, 4, 5} \subseteq DriverChannel
  BY DEF DriverChannel
<1>5. WordInv'
  BY <1>1, <1>2, <1>4 DEF WordInv
<1> QED
  BY <1>1, <1>2, <1>3, <1>5 DEF PushInv, RingLook

LEMMA WordNext ==
  ASSUME WordInv, DriverStep \/ ServerStep
  PROVE  WordInv'
<1>1. CASE DriverStep
  BY <1>1 DEF WordInv, DriverStep, DriverNext, DriverWake, DriverCall, checkBuf_Nothing,
              checkBuf_Busy, checkBuf_Start, checkBuf_NoRetBuf, i2cirq_NextBatch,
              i2cirq_Finish, i2cirq_FinishNotified, i2cirq_NoRequest, wordVars
<1>2. CASE ServerStep
  <2>1. SERVER_NOTIFY_ID \in DriverChannel
    BY DEF DriverChannel, SERVER_NOTIFY_ID, IRQ_I2C_M3_TO
  <2>2. CASE notify
    BY <2>1, <2>2 DEF WordInv, notify, notify_driver
  <2>3. CASE allocate \/ initDone \/ publish \/ ServerWake \/ skipBus \/ checkBus \/ collect \/ release
    BY <2>3 DEF WordInv, allocate, initDone, publish, ServerWake, skipBus, checkBus,
                collect, release, wordVars
  <2> QED
    BY <1>2, <2>2, <2>3 DEF ServerStep, ServerNext
<1> QED
  BY <1>1, <1>2

\* While the server queues a buffer, the driver has no call to make that takes one
\* off a ring, whatever interrupts come: an index that is seen before its descriptor
\* is of no consequence; for every program and number of buffers.
THEOREM SystemNoPopDuringPush == Spec => []NoPopDuringPush
<1>1. PushInv => NoPopDuringPush
  BY DEF PushInv, RingLook, NoPopDuringPush, CallsAhead
<1>2. Init => PushInv /\ WordInv
  BY DEF Init, DriverInit, PushInv, RingLook, WordInv
<1>3. PushInv /\ WordInv /\ [Next]_vars => PushInv' /\ WordInv'
  <2> SUFFICES ASSUME PushInv, WordInv, [Next]_vars PROVE PushInv' /\ WordInv'
    OBVIOUS
  <2>1. CASE DriverStep
    BY <2>1, PushDriver, WordNext DEF WordInv
  <2>2. CASE ServerStep
    BY <2>2, PushServer, WordNext
  <2>3. CASE \E b \in Bus : HwStep(b)
    BY <2>3, PushHw
  <2>4. CASE UNCHANGED vars
    BY <2>4 DEF vars, wordVars, driverVars, serverVars, PushInv, RingLook, WordInv
  <2> QED
    BY <2>1, <2>2, <2>3, <2>4 DEF Next
<1> QED
  BY <1>1, <1>2, <1>3, PTL DEF Spec

=============================================================================
