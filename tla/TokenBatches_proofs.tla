------------------------- MODULE TokenBatches_proofs -------------------------
(***************************************************************************)
(* Proofs about a request's batches, for a request of any bytes and any    *)
(* length: what i2cLoadTokens puts in the registers fits them, each batch  *)
(* uses up some of the request, all but the last as many bytes as there    *)
(* are token slots, and what is read from behind a request goes no         *)
(* further than its last written byte.                                     *)
(***************************************************************************)
EXTENDS TokenBatches, I2cTokens_proofs

\* The types of the variables that i2cLoadTokens works with.
TypeInv ==
  /\ body \in Seq(Byte)
  /\ remaining \in 0 .. Len(body)
  /\ ddr \in {0, 1}
  /\ batches \in Nat
  /\ batch.ok \in BOOLEAN
  /\ batch.list \in Seq(Oc4Token) /\ batch.wdata \in Seq(Byte)

LEMMA TypeInit == Init => TypeInv
<1> SUFFICES ASSUME Init PROVE TypeInv
  OBVIOUS
<1>1. body \in Seq(Byte)
  BY RequestsAssumption DEF Init
<1>2. PICK n \in Nat : n = Len(body)
  BY <1>1
<1>3. n \in 0 .. n
  OBVIOUS
<1>4. <<>> \in Seq(Byte) /\ <<>> \in Seq(Oc4Token)
  OBVIOUS
<1> QED
  BY <1>1, <1>2, <1>3, <1>4 DEF Init, TypeInv, NoBatch

\* The batch that a step loads, and what the step leaves of the request.
LEMMA StepLoads ==
  ASSUME TypeInv, NextBatch
  PROVE  LET b == LoadBatch(body, remaining, ddr)
         IN /\ b \in [ok : BOOLEAN, list : Seq(Oc4Token), wdata : Seq(Byte), ddr : {0, 1},
                      remaining : 0 .. Len(body)]
            /\ remaining' = b.remaining /\ ddr' = b.ddr /\ body' = body /\ batches' = batches + 1
            /\ batch'.ok = b.ok /\ batch'.list = b.list /\ batch'.wdata = b.wdata
<1>1. body \in Seq(Byte) /\ remaining \in 0 .. Len(body) /\ ddr \in {0, 1}
  BY DEF TypeInv
<1>2. PICK b : b = LoadBatch(body, remaining, ddr)
  OBVIOUS
<1>3. b \in [ok : BOOLEAN, list : Seq(Oc4Token), wdata : Seq(Byte), ddr : {0, 1}, remaining : 0 .. Len(body)]
  BY <1>1, <1>2, LoadBatchResult
<1>4. \E u : batch' = [ok |-> b.ok, list |-> b.list, wdata |-> b.wdata, unused |-> u]
  BY <1>2, Zenon DEF NextBatch
<1>5. remaining' = b.remaining /\ ddr' = b.ddr /\ body' = body /\ batches' = batches + 1
  BY <1>2, Zenon DEF NextBatch
<1> QED
  BY <1>2, <1>3, <1>4, <1>5

LEMMA TypeNext == TypeInv /\ [NextBatch]_vars => TypeInv'
<1> SUFFICES ASSUME TypeInv, [NextBatch]_vars PROVE TypeInv'
  OBVIOUS
<1>1. CASE NextBatch
  <2>1. PICK b : b = LoadBatch(body, remaining, ddr)
    OBVIOUS
  <2> QED
    BY <1>1, <2>1, StepLoads DEF TypeInv
<1>2. CASE UNCHANGED vars
  BY <1>2 DEF vars, TypeInv
<1> QED
  BY <1>1, <1>2

LEMMA TypeAlways == Spec => []TypeInv
<1> QED
  BY TypeInit, TypeNext, PTL DEF Spec

-----------------------------------------------------------------------------
\* Every batch uses up some of the request, whatever bytes it is made of, or else it
\* is not started (the "still work to do" branch of i2cirq, i2c-odroid-c4.c:603-608).
THEOREM BatchesProgress == Spec => EveryBatchProgresses
<1>1. ASSUME TypeInv, [NextBatch]_vars
      PROVE  [batch'.ok /\ remaining > 0 => remaining' < remaining]_vars
  <2>1. CASE NextBatch
    <3>1. PICK b : b = LoadBatch(body, remaining, ddr)
      OBVIOUS
    <3>2. b.ok /\ remaining > 0 => b.remaining < remaining
      BY <1>1, <3>1, LoadBatchResult DEF TypeInv
    <3>3. remaining' = b.remaining /\ batch'.ok = b.ok
      BY <1>1, <2>1, <3>1, StepLoads
    <3> QED
      BY <3>2, <3>3
  <2> QED
    BY <1>1, <2>1
<1> QED
  BY <1>1, TypeAlways, PTL DEF Spec, EveryBatchProgresses

-----------------------------------------------------------------------------
PastEndInv ==
  /\ \A k \in DOMAIN body : body[k] # PAST_END
  /\ \A k \in DOMAIN batch.wdata : batch.wdata[k] = PAST_END =>
       /\ k = Len(batch.wdata)
       /\ remaining = 0
       /\ body # <<>> /\ body[Len(body)] = I2C_TK_DAT

LEMMA PastEndInit == PastEndIsDistinct /\ Init => PastEndInv
BY DEF PastEndIsDistinct, PastEndInv, Init, NoBatch

LEMMA PastEndNext == TypeInv /\ PastEndInv /\ [NextBatch]_vars => PastEndInv'
<1> SUFFICES ASSUME TypeInv, PastEndInv, [NextBatch]_vars PROVE PastEndInv'
  OBVIOUS
<1>1. CASE NextBatch
  <2>1. PICK b : b = LoadBatch(body, remaining, ddr)
    OBVIOUS
  <2>2. \A j \in DOMAIN b.wdata : b.wdata[j] = PAST_END =>
          /\ j = Len(b.wdata)
          /\ b.remaining = 0
          /\ body # <<>> /\ body[Len(body)] = I2C_TK_DAT
    <3>1. body \in Seq(Byte) /\ remaining \in 0 .. Len(body) /\ ddr \in {0, 1}
      BY DEF TypeInv
    <3>2. \A j \in DOMAIN body : body[j] # PAST_END
      BY DEF PastEndInv
    <3> QED
      BY ONLY <2>1, <3>1, <3>2, LoadBatchResult
  <2>3. batch'.wdata = b.wdata /\ remaining' = b.remaining /\ body' = body
    BY <1>1, <2>1, StepLoads
  <2> QED
    BY <2>2, <2>3 DEF PastEndInv
<1>2. CASE UNCHANGED vars
  BY <1>2 DEF vars, PastEndInv
<1> QED
  BY <1>1, <1>2

\* Whatever the bytes of a request are, i2cLoadTokens reads at most one byte from
\* behind it, as the last one it has the list processor write (i2c-odroid-c4.c:435).
THEOREM BatchesPastEndOnlyLast ==
  ASSUME PastEndIsDistinct
  PROVE  Spec => []PastEndOnlyLast
<1>1. PastEndInv => PastEndOnlyLast
  BY DEF PastEndInv, PastEndOnlyLast, Last
<1>2. Init => PastEndInv
  BY PastEndInit
<1> QED
  BY <1>1, <1>2, TypeAlways, PastEndNext, PTL DEF Spec

-----------------------------------------------------------------------------
\* Without an empty one, the batches loaded so far used up TK_SLOTS bytes each, the
\* last one of them at least one.
UsedInv ==
  /\ body = <<>> => batches <= 1
  /\ batch.ok /\ remaining > 0 => batches * TK_SLOTS + remaining <= Len(body)
  /\ batches > 0 /\ body # <<>> => (batches - 1) * TK_SLOTS + 1 <= Len(body)

LEMMA UsedInit == Init => UsedInv
<1> SUFFICES ASSUME Init PROVE UsedInv
  OBVIOUS
<1>1. batches = 0 /\ remaining = Len(body)
  BY DEF Init
<1>2. 0 * TK_SLOTS = 0
  BY TokensAssumption
<1>3. PICK n \in Nat : n = Len(body)
  BY TypeInit DEF TypeInv
<1> QED
  BY <1>1, <1>2, <1>3 DEF UsedInv

\* A step, in numbers: n bytes, of which r and then r2 remain, after k batches.
LEMMA OneBatchMore ==
  ASSUME NEW n \in Nat, NEW r \in 0 .. n, NEW r2 \in 0 .. n, NEW k \in Nat, NEW t \in Nat,
         k = 0 \/ r > 0, r > 0 => k * t + r <= n
  PROVE  /\ n # 0 => (k + 1 - 1) * t + 1 <= n
         /\ r2 > 0 /\ r > 0 /\ r2 + t <= r => (k + 1) * t + r2 <= n
<1>1. PICK m \in Nat : m = k * t
  OBVIOUS
<1>2. (k + 1) * t = m + t /\ (k + 1 - 1) * t = m
  BY <1>1
<1>3. k = 0 => m = 0
  BY <1>1
<1> QED
  BY <1>1, <1>2, <1>3

LEMMA UsedNext ==
  TK_SLOTS = 2 * WDATA_SLOTS /\ TypeInv /\ UsedInv /\ [NextBatch]_vars => UsedInv'
<1> SUFFICES ASSUME TK_SLOTS = 2 * WDATA_SLOTS, TypeInv, UsedInv, [NextBatch]_vars PROVE UsedInv'
  OBVIOUS
<1>1. CASE NextBatch
  <2>1. PICK b : b = LoadBatch(body, remaining, ddr)
    OBVIOUS
  <2>2. /\ b.ok /\ b.remaining > 0 => b.remaining + TK_SLOTS <= remaining
        /\ b.remaining \in 0 .. Len(body)
    BY <2>1, LoadBatchResult DEF TypeInv
  <2>3. batch'.ok = b.ok /\ remaining' = b.remaining /\ body' = body /\ batches' = batches + 1
    BY <1>1, <2>1, StepLoads
  <2>4. batch.ok /\ (batches = 0 \/ remaining > 0)
    BY <1>1 DEF NextBatch
  <2>5. PICK n \in Nat, r \in Nat, r2 \in Nat, k \in Nat, t \in Nat :
          /\ n = Len(body) /\ r = remaining /\ r2 = remaining' /\ k = batches /\ t = TK_SLOTS
          /\ r \in 0 .. n /\ r2 \in 0 .. n
    BY <2>2, <2>3, TokensAssumption DEF TypeInv
  <2>6. r > 0 => k * t + r <= n
    BY <2>4, <2>5 DEF UsedInv
  <2>7. /\ n # 0 => (k + 1 - 1) * t + 1 <= n
        /\ r2 > 0 /\ r > 0 /\ r2 + t <= r => (k + 1) * t + r2 <= n
    BY <2>4, <2>5, <2>6, OneBatchMore
  <2>8. b.ok /\ r2 > 0 => r2 + t <= r /\ r > 0
    BY <2>2, <2>3, <2>5
  <2>9. n # 0 <=> body # <<>>
    BY <2>5 DEF TypeInv
  <2>10. n = 0 => k = 0
    BY <2>4, <2>5
  <2> QED
    BY <2>3, <2>5, <2>7, <2>8, <2>9, <2>10 DEF UsedInv
<1>2. CASE UNCHANGED vars
  BY <1>2 DEF vars, UsedInv
<1> QED
  BY <1>1, <1>2

\* That many slots and one byte bound the number of batches, rounded up.
LEMMA BatchesDivided ==
  ASSUME NEW n \in Nat, NEW k \in Nat \ {0}, NEW t \in Nat \ {0}, (k - 1) * t + 1 <= n
  PROVE  k <= Divided(n, t)
<1>1. PICK m \in Int : m = (k - 1) * t
  OBVIOUS
<1>2. k * t = m + t
  BY <1>1
<1>3. k * t <= n + t - 1
  BY <1>1, <1>2
<1>4. PICK a \in Nat : a = n + t - 1
  OBVIOUS
<1>5. a = t * (a \div t) + (a % t) /\ a % t \in 0 .. t - 1 /\ a \div t \in Nat
  BY <1>4
<1>6. PICK q \in Nat : q = a \div t
  BY <1>5
<1>7. k * t < (q + 1) * t
  BY <1>3, <1>4, <1>5, <1>6
<1>8. k < q + 1
  BY <1>7
<1> QED
  BY <1>4, <1>6, <1>8 DEF Divided

\* Where a batch has half as many bytes of write data as tokens, no request takes more
\* batches than its bytes fill batches of TK_SLOTS, whatever they are: each one but the
\* last is full, in its tokens or in its write data.
THEOREM BatchesBound == Spec => []BatchBound
<1>1. TypeInv /\ UsedInv => BatchBound
  <2> SUFFICES ASSUME TypeInv, UsedInv, body # <<>>
               PROVE  batches <= Divided(Len(body), TK_SLOTS)
    BY DEF UsedInv, BatchBound
  <2>1. Len(body) \in Nat /\ batches \in Nat /\ TK_SLOTS \in Nat \ {0}
    BY TokensAssumption DEF TypeInv
  <2>2. CASE batches = 0
    <3>1. PICK a \in Nat : a = Len(body) + TK_SLOTS - 1
      BY <2>1
    <3>2. a \div TK_SLOTS >= 0
      BY <2>1
    <3> QED
      BY <2>2, <3>1, <3>2 DEF Divided
  <2>3. CASE batches # 0
    <3>1. (batches - 1) * TK_SLOTS + 1 <= Len(body)
      BY <2>1, <2>3 DEF UsedInv
    <3> QED
      BY <2>1, <2>3, <3>1, BatchesDivided
  <2> QED
    BY <2>2, <2>3
<1>2. CASE TK_SLOTS = 2 * WDATA_SLOTS
  BY <1>1, <1>2, UsedInit, TypeAlways, UsedNext, PTL DEF Spec
<1>3. CASE TK_SLOTS # 2 * WDATA_SLOTS
  <2>1. BatchBound
    BY <1>3 DEF BatchBound
  <2> QED
    BY <2>1, PTL
<1> QED
  BY <1>2, <1>3

-----------------------------------------------------------------------------
\* Of such a request, the first m operations were done and the rest remains, and both
\* the loader and the list processor know the direction of the operation to come.
FormedInv ==
  formed => \E ops, m :
    /\ Transaction(ops) /\ body = Request(ops)
    /\ wire = UpTo(ops, m) /\ Remains(ops, m, remaining)
    /\ batches = 0 => remaining > 0
    /\ InDirection(ops, m, ddr) /\ InDirection(ops, m, busDdr) /\ busDdr \in {0, 1}
    /\ batch.unused = <<>>

LEMMA FormedInit == RequestsFormed /\ Init => FormedInv
<1> SUFFICES ASSUME RequestsFormed, Init, formed PROVE FormedInv
  BY DEF FormedInv
<1>1. body \in Requests /\ remaining = Len(body)
  BY DEF Init
<1>2. PICK ops : Transaction(ops) /\ body = Request(ops)
  BY <1>1 DEF RequestsFormed
<1>3. ops \in Seq(Operation)
  BY <1>2 DEF Transaction
<1>4. Remains(ops, 0, remaining) /\ remaining > 0
  BY <1>1, <1>2, <1>3, AllRemains
<1>5. wire = UpTo(ops, 0)
  <2>1. 0 \in 0 .. Len(ops)
    BY <1>3
  <2> QED
    BY <1>3, <2>1, UpToGrows DEF Init
<1>6. \A d : InDirection(ops, 0, d)
  BY DEF InDirection
<1>7. busDdr \in {0, 1} /\ batch.unused = <<>>
  BY DEF Init, NoBatch
<1> QED
  BY <1>2, <1>4, <1>5, <1>6, <1>7 DEF FormedInv

LEMMA FormedNext == TypeInv /\ FormedInv /\ [NextBatch]_vars => FormedInv'
<1> SUFFICES ASSUME TypeInv, FormedInv, [NextBatch]_vars PROVE FormedInv'
  OBVIOUS
<1>1. CASE NextBatch /\ formed
  <2>1. PICK ops, m :
          /\ Transaction(ops) /\ body = Request(ops)
          /\ wire = UpTo(ops, m) /\ Remains(ops, m, remaining)
          /\ batches = 0 => remaining > 0
          /\ InDirection(ops, m, ddr) /\ InDirection(ops, m, busDdr) /\ busDdr \in {0, 1}
    BY <1>1 DEF FormedInv
  <2>2. ops \in Seq(Operation) /\ m \in 0 .. Len(ops)
    BY <2>1 DEF Transaction, Remains
  <2>3. PICK left \in Nat \ {0} : left = remaining /\ ddr \in {0, 1} /\ left \in 0 .. Len(body)
    <3>1. batches = 0 \/ remaining > 0
      BY <1>1 DEF NextBatch
    <3> QED
      BY <2>1, <3>1 DEF TypeInv
  <2>4. PICK b : b = LoadBatch(body, left, ddr)
    OBVIOUS
  <2>5. PICK k \in Nat : /\ b.ok /\ Loaded(ops, Positions(ops), m, k, b.list, b.wdata)
                         /\ InDirection(ops, m + k, b.ddr) /\ Remains(ops, m + k, b.remaining)
    BY <2>1, <2>3, <2>4, BatchLoaded
  <2>6. b.list \in Seq(Oc4Token) /\ b.wdata \in Seq(Byte)
    BY <2>3, <2>4, LoadBatchResult DEF TypeInv
  <2>7. PICK x : x = Execute(b.list, b.wdata, busDdr)
    OBVIOUS
  <2>8. /\ x.ops = SubSeq(ops, m + 1, m + k) /\ x.wdata = <<>>
        /\ x.ddr \in {0, 1} /\ InDirection(ops, m + k, x.ddr)
    BY <2>1, <2>2, <2>5, <2>6, <2>7, BatchDone
  <2>9. /\ remaining' = b.remaining /\ ddr' = b.ddr /\ body' = body /\ formed' = formed
        /\ wire' = wire \o x.ops /\ busDdr' = x.ddr /\ batches' = batches + 1
        /\ batch'.unused = x.wdata
    BY <1>1, <2>3, <2>4, <2>5, <2>7, Zenon DEF NextBatch
  <2>10. wire' = UpTo(ops, m + k)
    <3>1. m + k <= Len(ops)
      BY <2>5 DEF Loaded
    <3> QED
      BY <2>1, <2>2, <2>8, <2>9, <3>1, UpToNext
  <2>11. batches' # 0
    BY <2>9 DEF TypeInv
  <2> QED
    BY <2>1, <2>5, <2>8, <2>9, <2>10, <2>11 DEF FormedInv
<1>2. CASE NextBatch /\ ~formed
  BY <1>2 DEF NextBatch, FormedInv
<1>3. CASE UNCHANGED vars
  BY <1>3 DEF vars, FormedInv
<1> QED
  BY <1>1, <1>2, <1>3

LEMMA FormedAlways == ASSUME RequestsFormed PROVE Spec => []FormedInv
<1>1. Init => FormedInv
  BY FormedInit
<1> QED
  BY <1>1, TypeAlways, FormedNext, PTL DEF Spec

\* For a transaction of any operations, in batches of any size: what the bus has seen,
\* written back as a request, is the part of the request that was used up, and the
\* whole of it when no byte remains, whatever direction the last request left in
\* i2c_ifState (i2cLoadTokens, i2c-odroid-c4.c:372-460).
THEOREM BatchesWireIsRequest ==
  ASSUME RequestsFormed
  PROVE  Spec => []WireIsRequest
<1>1. FormedInv => WireIsRequest
  <2> SUFFICES ASSUME FormedInv, formed
               PROVE  /\ IsPrefix(Front(Request(wire)), body)
                      /\ batches > 0 /\ remaining = 0 => Request(wire) = body
    BY DEF WireIsRequest
  <2>1. PICK ops, m : /\ Transaction(ops) /\ body = Request(ops)
                      /\ wire = UpTo(ops, m) /\ Remains(ops, m, remaining)
    BY DEF FormedInv
  <2>2. ops \in Seq(Operation) /\ m \in 0 .. Len(ops) /\ (remaining = 0 => m = Len(ops))
    BY <2>1 DEF Transaction, Remains
  <2>3. IsPrefix(Front(Request(wire)), body)
    BY <2>1, <2>2, RequestFirst
  <2>4. remaining = 0 => Request(wire) = body
    BY <2>1, <2>2, UpToGrows
  <2> QED
    BY <2>3, <2>4
<1> QED
  BY <1>1, FormedAlways, PTL

-----------------------------------------------------------------------------
\* The registers hold the batch.
FitsInv == Len(batch.list) <= TK_SLOTS /\ Len(batch.wdata) <= WDATA_SLOTS

LEMMA FitsAlways == Spec => []FitsInv
<1>1. Init => FitsInv
  BY TokensAssumption DEF Init, NoBatch, FitsInv
<1>2. TypeInv /\ FitsInv /\ [NextBatch]_vars => FitsInv'
  <2> SUFFICES ASSUME TypeInv, FitsInv, [NextBatch]_vars PROVE FitsInv'
    OBVIOUS
  <2>1. CASE NextBatch
    <3>1. PICK b : b = LoadBatch(body, remaining, ddr)
      OBVIOUS
    <3>2. Len(b.list) <= TK_SLOTS /\ Len(b.wdata) <= WDATA_SLOTS
      BY <3>1, LoadBatchResult DEF TypeInv
    <3>3. batch'.list = b.list /\ batch'.wdata = b.wdata
      BY <2>1, <3>1, StepLoads
    <3> QED
      BY <3>2, <3>3 DEF FitsInv
  <2>2. CASE UNCHANGED vars
    BY <2>2 DEF vars, FitsInv
  <2> QED
    BY <2>1, <2>2
<1> QED
  BY <1>1, <1>2, TypeAlways, PTL DEF Spec

\* Any batch of any bytes fits its registers, and one of a transaction has its write
\* data used up by its data tokens when it has been done: the loader and the list
\* processor never differ on the direction of a transaction, although each keeps its
\* own (ddr in i2c-odroid-c4.c:389,404-435).
THEOREM BatchesComplete ==
  ASSUME RequestsFormed
  PROVE  Spec => []BatchIsComplete
<1>1. FormedInv /\ FitsInv => BatchIsComplete
  BY DEF FormedInv, FitsInv, BatchIsComplete
<1> QED
  BY <1>1, FormedAlways, FitsAlways, PTL

=============================================================================
