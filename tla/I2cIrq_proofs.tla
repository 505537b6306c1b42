---------------------------- MODULE I2cIrq_proofs ----------------------------
(***************************************************************************)
(* Proofs about what happens on a bus. Where a batch ends once (LATE_IRQ = *)
(* FALSE), the bus owes the driver at most one interrupt, running, raised  *)
(* or about to be handled, which finds the request that it is about; an    *)
(* error ends its request, which is reported as failed. Where the requests *)
(* are transactions, a busy bus runs or has an interrupt to be handled,    *)
(* and what is reported as done was done, operation by operation.          *)
(***************************************************************************)
EXTENDS I2cTypes_proofs

\* The interrupts of a bus that the driver has not looked at, and those that it has
\* the handler to call for.
Raised(b) == {irq(b, FALSE), irq(b, TRUE)} \cap driverWord
Ahead(b)  == CallsAhead("i2cirq", b)

AtMostOne(S) == \A x, y \in S : x = y

\* One batch, one interrupt, one call: while it runs, none is about; and either has
\* its request.
OneIrq(b) ==
  /\ AtMostOne(Raised(b)) /\ AtMostOne(Ahead(b))
  /\ Raised(b) = {} \/ Ahead(b) = {}
  /\ hw[b].running => Raised(b) = {} /\ Ahead(b) = {}
  /\ hw[b].running \/ Raised(b) # {} \/ Ahead(b) # {} => ifState[b].current_req # NULL

Pending(b) == Raised(b) # {} \/ Ahead(b) # {}

\* Every call comes from a channel of the driver.
CallsInv == driverCalls \subseteq UNION {notified(channel) : channel \in DriverChannel}

IrqInv == CallsInv /\ \A b \in Bus : OneIrq(b)

-----------------------------------------------------------------------------
\* The calls that channels stand for.

LEMMA NotifiedCalls ==
  /\ notified(1) = {Call(1, "checkBuf", b, FALSE) : b \in Bus}
  /\ notified(2) = {Call(2, "i2cirq", 2, FALSE)}
  /\ notified(3) = {Call(3, "i2cirq", 2, TRUE)}
  /\ notified(4) = {Call(4, "i2cirq", 3, FALSE)}
  /\ notified(5) = {Call(5, "i2cirq", 3, TRUE)}
<1> USE DEF SERVER_NOTIFY_ID, IRQ_I2C_M2, IRQ_I2C_M2_TO, IRQ_I2C_M3, IRQ_I2C_M3_TO
<1>1. notified(1) = {Call(1, "checkBuf", b, FALSE) : b \in Bus}
  <2> DEFINE calls == {Call(1, "checkBuf", b, FALSE) : b \in Bus}
  <2> HIDE DEF calls
  <2>1. notified(1) = calls
    BY DEF notified, serverNotify, calls
  <2> QED
    BY <2>1 DEF calls
<1>2. notified(2) = {Call(2, "i2cirq", 2, FALSE)}
  BY DEF notified, serverNotify
<1>3. notified(3) = {Call(3, "i2cirq", 2, TRUE)}
  BY DEF notified, serverNotify
<1>4. notified(4) = {Call(4, "i2cirq", 3, FALSE)}
  BY DEF notified, serverNotify
<1>5. notified(5) = {Call(5, "i2cirq", 3, TRUE)}
  BY DEF notified, serverNotify
<1> QED
  BY <1>1, <1>2, <1>3, <1>4, <1>5

LEMMA CallFields ==
  ASSUME NEW channel, NEW name, NEW b, NEW timeout
  PROVE  /\ Call(channel, name, b, timeout).channel = channel
         /\ Call(channel, name, b, timeout).name = name
         /\ Call(channel, name, b, timeout).bus = b
         /\ Call(channel, name, b, timeout).timeout = timeout
BY DEF Call

LEMMA IrqNumbers ==
  irq(2, FALSE) = 2 /\ irq(2, TRUE) = 3 /\ irq(3, FALSE) = 4 /\ irq(3, TRUE) = 5
BY DEF irq, IRQ_I2C_M2, IRQ_I2C_M2_TO, IRQ_I2C_M3, IRQ_I2C_M3_TO

LEMMA ChannelCalls ==
  ASSUME NEW channel \in DriverChannel, NEW c \in notified(channel)
  PROVE  /\ c.channel = channel /\ c.bus \in Bus
         /\ c.name = "i2cirq" => /\ c.timeout \in BOOLEAN /\ channel = irq(c.bus, c.timeout)
                                 /\ c = Call(channel, "i2cirq", c.bus, c.timeout)
<1>1. channel \in {1, 2, 3, 4, 5}
  BY DEF DriverChannel, SERVER_NOTIFY_ID, IRQ_I2C_M3_TO
<1>2. CASE channel = 1
  <2>1. PICK b \in Bus : c = Call(1, "checkBuf", b, FALSE)
    BY <1>2, NotifiedCalls
  <2>2. c.name = "checkBuf" /\ c.channel = 1 /\ c.bus = b
    BY <2>1 DEF Call
  <2>3. c.name # "i2cirq"
    BY <2>2
  <2> QED
    BY <1>2, <2>2, <2>3
<1>3. ASSUME NEW b \in Bus, NEW t \in BOOLEAN, channel = irq(b, t), c = Call(channel, "i2cirq", b, t)
      PROVE  /\ c.channel = channel /\ c.bus \in Bus
             /\ c.timeout \in BOOLEAN /\ channel = irq(c.bus, c.timeout)
             /\ c = Call(channel, "i2cirq", c.bus, c.timeout)
  BY <1>3, CallFields
<1>4. \E b \in Bus, t \in BOOLEAN : channel # 1 => channel = irq(b, t) /\ c = Call(channel, "i2cirq", b, t)
  <2>1. 2 \in Bus /\ 3 \in Bus
    BY DEF Bus
  <2>2. CASE channel = 2
    BY <2>1, <2>2, NotifiedCalls, IrqNumbers
  <2>3. CASE channel = 3
    BY <2>1, <2>3, NotifiedCalls, IrqNumbers
  <2>4. CASE channel = 4
    BY <2>1, <2>4, NotifiedCalls, IrqNumbers
  <2>5. CASE channel = 5
    BY <2>1, <2>5, NotifiedCalls, IrqNumbers
  <2> QED
    BY <1>1, <2>1, <2>2, <2>3, <2>4, <2>5
<1> QED
  BY <1>1, <1>2, <1>3, <1>4

LEMMA IrqCalls ==
  ASSUME NEW b \in Bus, NEW timeout \in BOOLEAN
  PROVE  Call(irq(b, timeout), "i2cirq", b, timeout) \in notified(irq(b, timeout))
BY NotifiedCalls, IrqNumbers DEF Bus

\* No two buses have an interrupt in common, nor do an end and a timeout.
LEMMA IrqsDiffer ==
  ASSUME NEW b \in Bus, NEW c \in Bus, NEW t \in BOOLEAN, NEW u \in BOOLEAN,
         irq(b, t) = irq(c, u)
  PROVE  b = c /\ t = u
BY DEF Bus, irq, IRQ_I2C_M2, IRQ_I2C_M2_TO, IRQ_I2C_M3, IRQ_I2C_M3_TO

\* There is a next call as long as there are any.
LEMMA NextCall ==
  ASSUME CallsInv, driverCalls # {}
  PROVE  ThisCall \in driverCalls
<1> DEFINE key(c) == 2 * c.channel + c.bus
           keys   == {key(c) : c \in driverCalls}
<1>1. \A c \in driverCalls : c.channel \in 1 .. 5 /\ c.bus \in {2, 3}
  <2> SUFFICES ASSUME NEW c \in driverCalls PROVE c.channel \in 1 .. 5 /\ c.bus \in {2, 3}
    OBVIOUS
  <2>1. PICK channel \in DriverChannel : c \in notified(channel)
    BY DEF CallsInv
  <2>2. c.channel = channel /\ c.bus \in Bus
    BY <2>1, ChannelCalls
  <2> QED
    BY <2>2 DEF DriverChannel, Bus, SERVER_NOTIFY_ID, IRQ_I2C_M3_TO
<1>2. keys \in SUBSET Nat /\ keys # {}
  BY <1>1
<1>3. PICK k \in keys : \A j \in keys : k <= j
  <2> HIDE DEF keys
  <2> QED
    BY <1>2, LeastNat
<1>4. PICK c \in driverCalls : k = key(c)
  BY <1>3
<1>5. ASSUME NEW d \in driverCalls
      PROVE  c.channel < d.channel \/ (c.channel = d.channel /\ c.bus <= d.bus)
  <2>1. key(c) <= key(d)
    BY <1>3, <1>4
  <2>2. PICK m \in 1 .. 5, n \in 1 .. 5, b \in {2, 3}, e \in {2, 3} :
          m = c.channel /\ n = d.channel /\ b = c.bus /\ e = d.bus
    BY <1>1
  <2>3. 2 * m + b <= 2 * n + e
    BY <2>1, <2>2
  <2>4. m < n \/ (m = n /\ b <= e)
    BY <2>3
  <2> QED
    BY <2>2, <2>4
<1> QED
  BY <1>5, Zenon DEF ThisCall

\* A call that the driver makes is one that was to come, and does not come again.
LEMMA CallMade ==
  ASSUME CallsInv, NEW name, NEW c, Called(name, c)
  PROVE  /\ ThisCall \in driverCalls /\ ThisCall.name = name /\ ThisCall.bus = c
         /\ driverCalls' = driverCalls \ {ThisCall}
         /\ driverUp
BY NextCall DEF Called

-----------------------------------------------------------------------------
\* The invariant is kept.

LEMMA IrqInit == Init => IrqInv
<1> SUFFICES ASSUME Init PROVE IrqInv
  OBVIOUS
<1>1. driverCalls = {} /\ driverWord = {} /\ \A b \in Bus : ~hw[b].running
  <2>1. /\ driverCalls = {} /\ driverWord = {}
        /\ hw \in [Bus -> {HwInit(boot) : boot \in BOOT_ADDR}]
    BY DEF Init, DriverInit
  <2>2. \A boot : ~HwInit(boot).running
    BY DEF HwInit
  <2> QED
    BY <2>1, <2>2
<1> QED
  BY <1>1 DEF IrqInv, CallsInv, OneIrq, AtMostOne, Raised, Ahead, CallsAhead

LEMMA CallLeaves ==
  ASSUME IrqInv, NEW name, NEW c \in Bus, Called(name, c), NEW b \in Bus
  PROVE  /\ CallsInv'
         /\ name # "i2cirq" \/ b # c => Ahead(b)' = Ahead(b)
         /\ name = "i2cirq" /\ b = c => /\ Ahead(b)' = {} /\ Raised(b) = {} /\ ~hw[b].running
                                        /\ ifState[b].current_req # NULL
                                        /\ Ahead(b) # {}
<1>1. /\ ThisCall \in driverCalls /\ ThisCall.name = name /\ ThisCall.bus = c
      /\ driverCalls' = driverCalls \ {ThisCall}
  BY CallMade DEF IrqInv
<1>2. CallsInv'
  BY <1>1 DEF IrqInv, CallsInv
<1>3. Ahead(b)' = Ahead(b) \ {ThisCall}
  BY <1>1 DEF Ahead, CallsAhead
<1>4. ThisCall \in Ahead(b) <=> name = "i2cirq" /\ b = c
  BY <1>1 DEF Ahead, CallsAhead
<1>5. OneIrq(b)
  BY DEF IrqInv
<1> QED
  BY <1>2, <1>3, <1>4, <1>5 DEF OneIrq, AtMostOne

\* The interrupts that were raised become calls.
LEMMA IrqWake ==
  ASSUME IrqInv, WordTypes, DriverWake
  PROVE  IrqInv' /\ \A b \in Bus : Pending(b) => Pending(b)'
<1>1. /\ driverCalls = {} /\ driverWord' = {} /\ hw' = hw /\ ifState' = ifState
      /\ driverCalls' = UNION {notified(channel) : channel \in driverWord}
  BY DEF DriverWake, hwVars
<1>2. CallsInv'
  BY <1>1 DEF CallsInv, WordTypes
<1>3. ASSUME NEW b \in Bus
      PROVE  OneIrq(b)' /\ (Pending(b) => Pending(b)')
  <2>1. OneIrq(b) /\ Ahead(b) = {} /\ Raised(b)' = {}
    BY <1>1 DEF IrqInv, Ahead, CallsAhead, Raised
  <2>2. ASSUME NEW c \in Ahead(b)'
        PROVE  \E t \in BOOLEAN : irq(b, t) \in Raised(b) /\ c = Call(irq(b, t), "i2cirq", b, t)
    <3>1. c \in driverCalls' /\ c.name = "i2cirq" /\ c.bus = b
      BY <2>2 DEF Ahead, CallsAhead
    <3>2. PICK channel \in driverWord : c \in notified(channel)
      BY <1>1, <3>1
    <3>3. channel \in DriverChannel
      BY DEF WordTypes
    <3>4. c.timeout \in BOOLEAN /\ channel = irq(b, c.timeout) /\ c = Call(channel, "i2cirq", b, c.timeout)
      BY <3>1, <3>2, <3>3, ChannelCalls
    <3> QED
      BY <3>4 DEF Raised
  <2>3. AtMostOne(Ahead(b)')
    <3> SUFFICES ASSUME NEW x \in Ahead(b)', NEW y \in Ahead(b)' PROVE x = y
      BY DEF AtMostOne
    <3>1. PICK t \in BOOLEAN : irq(b, t) \in Raised(b) /\ x = Call(irq(b, t), "i2cirq", b, t)
      BY <2>2
    <3>2. PICK u \in BOOLEAN : irq(b, u) \in Raised(b) /\ y = Call(irq(b, u), "i2cirq", b, u)
      BY <2>2
    <3>3. irq(b, t) = irq(b, u)
      BY <2>1, <3>1, <3>2 DEF OneIrq, AtMostOne
    <3>4. t = u
      BY <3>3, IrqsDiffer
    <3> QED
      BY <3>1, <3>2, <3>4
  <2>4. Ahead(b)' # {} => Raised(b) # {}
    BY <2>2
  <2>5. Raised(b) # {} => Ahead(b)' # {}
    <3> SUFFICES ASSUME NEW t \in BOOLEAN, irq(b, t) \in driverWord
                 PROVE  Ahead(b)' # {}
      BY DEF Raised
    <3> DEFINE c == Call(irq(b, t), "i2cirq", b, t)
    <3>1. c \in notified(irq(b, t))
      BY IrqCalls
    <3>2. c.name = "i2cirq" /\ c.bus = b
      BY DEF Call
    <3>3. c \in driverCalls'
      BY <1>1, <3>1
    <3> HIDE DEF c
    <3> QED
      BY <3>2, <3>3 DEF Ahead, CallsAhead
  <2> QED
    BY <1>1, <2>1, <2>3, <2>4, <2>5 DEF OneIrq, AtMostOne, Pending
<1> QED
  BY <1>2, <1>3 DEF IrqInv

\* A bus that the step leaves alone, or at least does not start.
LEMMA OneIrqStays ==
  ASSUME NEW b \in Bus, OneIrq(b), Raised(b)' = Raised(b), Ahead(b)' = Ahead(b),
         hw'[b].running => hw[b].running,
         ifState[b].current_req # NULL => ifState'[b].current_req # NULL
  PROVE  OneIrq(b)' /\ (Pending(b) => Pending(b)')
<1>1. AtMostOne(Raised(b)') /\ AtMostOne(Ahead(b)')
  BY DEF OneIrq
<1> QED
  BY <1>1 DEF OneIrq, AtMostOne, Pending

\* The bus that i2cLoadTokens is called for has a request; it is started or not.
LEMMA LoadedBus ==
  ASSUME NEW c \in Bus, NEW st, DOMAIN ifState = Bus, DOMAIN st = Fields,
         HwTypes, BufferTypes, StateTyped(st), st.current_req \in ReqBufs(c),
         i2cLoadTokens(c, st)
  PROVE  /\ ifState'[c].current_req # NULL
         /\ \A b \in Bus \ {c} : ifState'[b] = ifState[b] /\ hw'[b] = hw[b]
<1>1. ifState'[c].current_req = st.current_req
  BY LoadKeepsPointers
<1>2. \A b \in Bus \ {c} : ifState'[b] = ifState[b] /\ hw'[b] = hw[b]
  BY LoadTyped
<1> QED
  BY <1>1, <1>2, BufferSets

LEMMA IrqCall ==
  ASSUME CustodyInv, TypeInv, IrqInv, NEW c \in Bus, DriverCall(c)
  PROVE  /\ IrqInv'
         /\ \A b \in Bus : \/ i2cirq_NextBatch(c) /\ b = c
                           \/ (i2cirq_Finish(c) \/ i2cirq_FinishNotified(c)) /\ b = c
                           \/ Pending(b) => Pending(b)'
<1>0. /\ DOMAIN ifState = Bus /\ \A b \in Bus : DOMAIN ifState[b] = Fields
      /\ \A b \in Bus : StateTyped(ifState[b]) /\ OneIrq(b)
      /\ HwTypes /\ BufferTypes /\ hw \in [Bus -> Registers]
  BY DEF CustodyInv, Shape, TypeInv, StateTypes, IrqInv, HwTypes
<1>1. driverWord' = driverWord
  BY DEF DriverCall, checkBuf_Nothing, checkBuf_Busy, checkBuf_Start, checkBuf_NoRetBuf,
         i2cirq_NextBatch, i2cirq_Finish, i2cirq_FinishNotified, i2cirq_NoRequest, wordVars
<1>2. \A b \in Bus : Raised(b)' = Raised(b)
  BY <1>1 DEF Raised, irq
<1>3. SUFFICES ASSUME NEW b \in Bus
               PROVE  /\ CallsInv' /\ OneIrq(b)'
                      /\ \/ i2cirq_NextBatch(c) /\ b = c
                         \/ (i2cirq_Finish(c) \/ i2cirq_FinishNotified(c)) /\ b = c
                         \/ Pending(b) => Pending(b)'
  BY DEF IrqInv, Bus
<1>4. CASE checkBuf_Nothing(c) \/ checkBuf_Busy(c) \/ checkBuf_NoRetBuf(c)
  <2>1. Called("checkBuf", c) /\ hw' = hw
    BY <1>4 DEF checkBuf_Nothing, checkBuf_Busy, checkBuf_NoRetBuf, hwVars
  <2>2. ifState'[b].current_req = ifState[b].current_req
    <3>1. \/ ifState' = ifState
          \/ \E n : ifState' = [ifState EXCEPT ![c] = [ifState[c] EXCEPT !.notified = n]]
      BY <1>4 DEF checkBuf_Nothing, checkBuf_Busy, checkBuf_NoRetBuf, Deferred
    <3> QED
      BY <1>0, <3>1 DEF Fields
  <2>3. CallsInv' /\ Ahead(b)' = Ahead(b)
    BY <2>1, CallLeaves
  <2> QED
    BY <1>0, <1>2, <2>1, <2>2, <2>3, OneIrqStays
<1>5. CASE checkBuf_Start(c)
  <2>1. PICK st : st = Begun(ifState[c], Oldest(reqUsed[c]), Oldest(retFree[c]))
    OBVIOUS
  <2>2. /\ DOMAIN st = Fields /\ StateTyped(st) /\ st.current_req \in ReqBufs(c)
    BY <1>0, <1>5, <2>1, BegunTyped
  <2>3. i2cLoadTokens(c, st) /\ Called("checkBuf", c) /\ ifState[c].current_req = NULL
    BY <1>5, <2>1 DEF checkBuf_Start, Busy
  <2>4. /\ ifState'[c].current_req # NULL
        /\ \A x \in Bus \ {c} : ifState'[x] = ifState[x] /\ hw'[x] = hw[x]
    BY <1>0, <2>2, <2>3, LoadedBus
  <2>5. CallsInv' /\ Ahead(b)' = Ahead(b)
    BY <2>3, CallLeaves
  <2>6. CASE b = c
    <3>1. Raised(b) = {} /\ Ahead(b) = {}
      BY <1>0, <2>3, <2>6 DEF OneIrq
    <3> QED
      BY <1>2, <2>4, <2>5, <2>6, <3>1 DEF OneIrq, AtMostOne, Pending
  <2>7. CASE b # c
    BY <1>0, <1>2, <2>4, <2>5, <2>7, OneIrqStays
  <2> QED
    BY <2>6, <2>7
<1>6. CASE i2cirq_NextBatch(c)
  <2>1. Interrupted(c) /\ i2cLoadTokens(c, ifState[c]) /\ Called("i2cirq", c)
    BY <1>6 DEF i2cirq_NextBatch, Interrupted
  <2>2. ifState[c].current_req \in ReqBufs(c)
    BY <1>0, <2>1, WritesTyped
  <2>3. /\ ifState'[c].current_req # NULL
        /\ \A x \in Bus \ {c} : ifState'[x] = ifState[x] /\ hw'[x] = hw[x]
    BY <1>0, <2>1, <2>2, LoadedBus
  <2>4. CASE b = c
    <3>1. CallsInv' /\ Ahead(b)' = {} /\ Raised(b) = {}
      BY <2>1, <2>4, CallLeaves
    <3> QED
      BY <1>2, <1>6, <2>3, <2>4, <3>1 DEF OneIrq, AtMostOne
  <2>5. CASE b # c
    <3>1. CallsInv' /\ Ahead(b)' = Ahead(b)
      BY <2>1, <2>5, CallLeaves
    <3> QED
      BY <1>0, <1>2, <2>3, <2>5, <3>1, OneIrqStays
  <2> QED
    BY <2>4, <2>5
<1>7. CASE i2cirq_Finish(c) \/ i2cirq_FinishNotified(c)
  <2>1. /\ Called("i2cirq", c) /\ ifState' = [ifState EXCEPT ![c] = Reset(@)]
        /\ hw' = [hw EXCEPT ![c].running = FALSE]
    BY <1>7 DEF i2cirq_Finish, i2cirq_FinishNotified, Return, Interrupted
  <2>2. CASE b = c
    <3>1. CallsInv' /\ Ahead(b)' = {} /\ Raised(b) = {}
      BY <2>1, <2>2, CallLeaves
    <3>2. ~hw'[b].running
      BY <1>0, <2>1, <2>2 DEF Registers
    <3> QED
      BY <1>2, <1>7, <2>2, <3>1, <3>2 DEF OneIrq, AtMostOne
  <2>3. CASE b # c
    <3>1. CallsInv' /\ Ahead(b)' = Ahead(b)
      BY <2>1, <2>3, CallLeaves
    <3>2. ifState'[b] = ifState[b] /\ hw'[b] = hw[b]
      BY <1>0, <2>1, <2>3
    <3> QED
      BY <1>0, <1>2, <3>1, <3>2, OneIrqStays
  <2> QED
    BY <2>2, <2>3
<1>8. CASE i2cirq_NoRequest(c)
  <2>1. Called("i2cirq", c) /\ ifState[c].current_ret = NULL
    BY <1>8 DEF i2cirq_NoRequest
  <2>2. ifState[c].current_req # NULL
    BY <2>1, CallLeaves
  <2> QED
    BY <2>1, <2>2 DEF CustodyInv, Shape
<1> QED
  BY <1>4, <1>5, <1>6, <1>7, <1>8 DEF DriverCall

LEMMA IrqHw ==
  ASSUME LATE_IRQ = FALSE, TypeInv, IrqInv, NEW c \in Bus, HwStep(c)
  PROVE  IrqInv' /\ \A b \in Bus : Pending(b) => Pending(b)'
<1>1. UNCHANGED <<ifState, driverCalls>> /\ hw \in [Bus -> Registers]
  BY DEF HwStep, driverVars, TypeInv, HwTypes
<1>2. PICK t \in BOOLEAN : /\ driverWord' = driverWord \cup {irq(c, t)}
                           /\ hw[c].running /\ ~hw'[c].running
                           /\ \A b \in Bus \ {c} : hw'[b] = hw[b]
  <2>1. CASE HwDone(c)
    BY <1>1, <2>1 DEF HwDone, notify_driver, Registers
  <2>2. CASE HwNack(c) \/ HwTimeout(c)
    <3>1. PICK t \in BOOLEAN, stalled \in BOOLEAN :
            /\ \E tok : hw' = [hw EXCEPT ![c].running = FALSE, ![c].stalled = stalled,
                                         ![c].err = TRUE, ![c].tok = tok]
            /\ driverWord' = driverWord \cup {irq(c, t)}
            /\ hw[c].running
      <4>1. CASE HwNack(c)
        <5>1. PICK tok : hw' = [hw EXCEPT ![c].running = FALSE, ![c].stalled = FALSE,
                                          ![c].err = TRUE, ![c].tok = tok]
          BY <4>1, Zenon DEF HwNack
        <5>2. driverWord' = driverWord \cup {irq(c, FALSE)} /\ hw[c].running
          BY <4>1, Zenon DEF HwNack, notify_driver
        <5> QED
          BY <5>1, <5>2, Zenon
      <4>2. CASE HwTimeout(c)
        <5>1. PICK tok : hw' = [hw EXCEPT ![c].running = FALSE, ![c].stalled = TRUE,
                                          ![c].err = TRUE, ![c].tok = tok]
          BY <4>2, Zenon DEF HwTimeout
        <5>2. driverWord' = driverWord \cup {irq(c, TRUE)} /\ hw[c].running
          BY <4>2, Zenon DEF HwTimeout, notify_driver
        <5> QED
          BY <5>1, <5>2, Zenon
      <4> QED
        BY <2>2, <4>1, <4>2
    <3>2. PICK tok : hw' = [hw EXCEPT ![c].running = FALSE, ![c].stalled = stalled,
                                      ![c].err = TRUE, ![c].tok = tok]
      BY <3>1
    <3> DEFINE new == [hw[c] EXCEPT !.running = FALSE, !.stalled = stalled, !.err = TRUE, !.tok = tok]
    <3>3. hw' = [hw EXCEPT ![c] = new]
      BY <3>2
    <3>4. ~new.running
      BY <1>1 DEF Registers
    <3> HIDE DEF new
    <3>5. ~hw'[c].running /\ \A b \in Bus \ {c} : hw'[b] = hw[b]
      BY <1>1, <3>3, <3>4
    <3> QED
      BY <3>1, <3>5
  <2> QED
    BY <2>1, <2>2 DEF HwStep, HwNext
<1>3. ASSUME NEW b \in Bus PROVE OneIrq(b)' /\ (Pending(b) => Pending(b)')
  <2>1. OneIrq(b) /\ Ahead(b)' = Ahead(b)
    BY <1>1 DEF IrqInv, Ahead, CallsAhead
  <2>2. CASE b = c
    <3>1. Raised(b) = {} /\ Ahead(b) = {} /\ ifState[b].current_req # NULL
      BY <1>2, <2>1, <2>2 DEF OneIrq
    <3>2. Raised(b)' = {irq(b, t)}
      BY <1>2, <2>2, <3>1 DEF Raised, irq
    <3> QED
      BY <1>1, <1>2, <2>1, <2>2, <3>1, <3>2 DEF OneIrq, AtMostOne, Pending
  <2>3. CASE b # c
    <3>1. irq(c, t) \notin {irq(b, FALSE), irq(b, TRUE)}
      BY <2>3, IrqsDiffer
    <3>2. Raised(b)' = Raised(b)
      BY <1>2, <3>1 DEF Raised, irq
    <3> QED
      BY <1>1, <1>2, <2>1, <2>3, <3>2, OneIrqStays
  <2> QED
    BY <2>2, <2>3
<1>4. CallsInv'
  BY <1>1 DEF IrqInv, CallsInv, notified, serverNotify
<1> QED
  BY <1>3, <1>4 DEF IrqInv

LEMMA IrqServer ==
  ASSUME IrqInv, ServerStep
  PROVE  IrqInv' /\ \A b \in Bus : Pending(b) => Pending(b)'
<1>1. UNCHANGED <<hw, ifState, driverCalls>>
  BY DEF ServerStep, hwVars, driverVars
<1>2. driverWord' \in {driverWord, driverWord \cup {SERVER_NOTIFY_ID}}
  BY DEF ServerStep, ServerNext, allocate, initDone, publish, notify, ServerWake, skipBus,
         checkBus, collect, release, wordVars, notify_driver
<1>3. ASSUME NEW b \in Bus PROVE OneIrq(b)' /\ (Pending(b) => Pending(b)')
  <2>1. SERVER_NOTIFY_ID \notin {irq(b, FALSE), irq(b, TRUE)}
    BY IrqChannel
  <2>2. Raised(b)' = Raised(b)
    BY <1>2, <2>1 DEF Raised, irq
  <2>3. OneIrq(b) /\ Ahead(b)' = Ahead(b)
    BY <1>1 DEF IrqInv, Ahead, CallsAhead
  <2> QED
    BY <1>1, <2>2, <2>3, OneIrqStays
<1>4. CallsInv'
  BY <1>1 DEF IrqInv, CallsInv, notified, serverNotify
<1> QED
  BY <1>3, <1>4 DEF IrqInv

-----------------------------------------------------------------------------
\* The theorems.

LEMMA IrqNext ==
  ASSUME LATE_IRQ = FALSE, CustodyInv, TypeInv, IrqInv, [Next]_vars
  PROVE  /\ IrqInv'
         /\ \A b \in Bus : \/ DriverStep /\ i2cirq_NextBatch(b)
                           \/ DriverStep /\ (i2cirq_Finish(b) \/ i2cirq_FinishNotified(b))
                           \/ Pending(b) => Pending(b)'
<1>1. CASE ServerStep
  BY <1>1, IrqServer
<1>2. CASE DriverStep /\ DriverWake
  BY <1>2, IrqWake DEF TypeInv
<1>3. ASSUME DriverStep, NEW c \in Bus, DriverCall(c)
      PROVE  /\ IrqInv'
             /\ \A b \in Bus : \/ DriverStep /\ i2cirq_NextBatch(b)
                               \/ DriverStep /\ (i2cirq_Finish(b) \/ i2cirq_FinishNotified(b))
                               \/ Pending(b) => Pending(b)'
  BY <1>3, IrqCall
<1>4. ASSUME NEW c \in Bus, HwStep(c)
      PROVE  IrqInv' /\ \A b \in Bus : Pending(b) => Pending(b)'
  BY <1>4, IrqHw
<1>5. CASE UNCHANGED vars
  <2>1. UNCHANGED <<hw, ifState, driverWord, driverCalls>>
    BY <1>5 DEF vars, hwVars, driverVars, wordVars
  <2>2. ASSUME NEW b \in Bus PROVE OneIrq(b)' /\ (Pending(b) => Pending(b)')
    BY <2>1, OneIrqStays DEF IrqInv, Raised, Ahead, CallsAhead, irq
  <2> QED
    BY <2>1, <2>2 DEF IrqInv, CallsInv, notified, serverNotify
<1> QED
  BY <1>1, <1>2, <1>3, <1>4, <1>5 DEF Next, DriverStep, DriverNext

LEMMA IrqAlways == ASSUME LATE_IRQ = FALSE PROVE Spec => [](CustodyInv /\ TypeInv /\ IrqInv)
<1>1. CustodyInv /\ TypeInv /\ IrqInv /\ [Next]_vars => CustodyInv' /\ TypeInv' /\ IrqInv'
  BY CustodyNext, TypesNext, IrqNext
<1> QED
  BY <1>1, CustodyInit, TypesInit, IrqInit, PTL DEF Spec

LEMMA OneOrNone ==
  ASSUME NEW S, AtMostOne(S)
  PROVE  Cardinality(S) = IF S = {} THEN 0 ELSE 1
<1>1. CASE S = {}
  BY <1>1, FS_EmptySet
<1>2. ASSUME NEW x \in S PROVE Cardinality(S) = 1
  <2>1. S = {x}
    BY DEF AtMostOne
  <2> QED
    BY <2>1, FS_Singleton
<1> QED
  BY <1>1, <1>2

LEMMA IrqsCounted ==
  ASSUME NEW raised, NEW ahead, AtMostOne(raised), AtMostOne(ahead),
         raised = {} \/ ahead = {}
  PROVE  Cardinality(raised) + Cardinality(ahead) = IF raised = {} /\ ahead = {} THEN 0 ELSE 1
<1>1. PICK m, n : m = Cardinality(raised) /\ n = Cardinality(ahead)
  OBVIOUS
<1>2. m = (IF raised = {} THEN 0 ELSE 1) /\ n = (IF ahead = {} THEN 0 ELSE 1)
  BY <1>1, OneOrNone
<1>3. m + n = IF raised = {} /\ ahead = {} THEN 0 ELSE 1
  BY <1>2
<1> QED
  BY <1>1, <1>3

\* Where a batch ends once, a bus never owes the driver more than one interrupt, and
\* when it owes one the bus has the request and the return buffer that it is about:
\* an end or a timeout is never attributed to a later batch, nor finds none.
THEOREM SystemIrqMeetsRequest == ASSUME LATE_IRQ = FALSE PROVE Spec => []IrqMeetsRequest
<1>1. ASSUME CustodyInv, IrqInv PROVE IrqMeetsRequest
  <2> SUFFICES ASSUME NEW b \in Bus,
                      NEW owed, owed = Irqs(b) + IF hw[b].running THEN 1 ELSE 0
               PROVE  owed <= 1 /\ (owed = 1 => ifState[b].current_req # NULL
                                                /\ ifState[b].current_ret # NULL)
    BY DEF IrqMeetsRequest
  <2>1. OneIrq(b)
    BY <1>1 DEF IrqInv
  <2>2. PICK n : n = Irqs(b)
    OBVIOUS
  <2>3. n = IF Pending(b) THEN 1 ELSE 0
    BY <2>1, <2>2, IrqsCounted DEF Irqs, Raised, Ahead, OneIrq, Pending
  <2>4. owed \in {0, 1} /\ (owed = 1 => hw[b].running \/ Pending(b))
    BY <2>1, <2>2, <2>3 DEF OneIrq, Pending
  <2>5. owed = 1 => ifState[b].current_req # NULL
    BY <2>1, <2>4 DEF OneIrq, Pending
  <2> QED
    BY <1>1, <2>4, <2>5 DEF CustodyInv, Shape
<1> QED
  BY <1>1, IrqAlways, PTL

\* Where a batch ends once, an error that the list processor has left when its
\* interrupt is handled ends the request: i2cirq loads no other batch of it, and its
\* one return is an error, a timeout exactly if it was the timeout interrupt.
THEOREM SystemErrorsReported == ASSUME LATE_IRQ = FALSE PROVE Spec => ErrorsReported
<1>1. ASSUME CustodyInv, TypeInv, IrqInv, [Next]_vars,
             NEW b \in Bus, Irqs(b) = 1, Irqs(b)' = 0, hw[b].err, driverUp
      PROVE  /\ ifState'[b].current_req = NULL /\ ~hw'[b].running
             /\ Len(retUsed'[b]) = Len(retUsed[b]) + 1
             /\ LET err == retBuf'[ifState[b].current_ret].err
                IN /\ err \in {I2C_ERR_TIMEOUT, I2C_ERR_NACK, I2C_ERR_NOREAD}
                   /\ err = I2C_ERR_TIMEOUT <=> ThisCall.timeout
                   /\ err = I2C_ERR_NOREAD => hw[b].tok = OC4_I2C_TK_ADDRR
  <2>1. OneIrq(b) /\ OneIrq(b)'
    BY <1>1, IrqNext DEF IrqInv
  <2>2. Pending(b)
    <3>1. PICK raised, ahead : raised = Raised(b) /\ ahead = Ahead(b)
      OBVIOUS
    <3>2. Cardinality(raised) + Cardinality(ahead) = 1
      BY <1>1, <3>1 DEF Irqs, Raised, Ahead
    <3>3. AtMostOne(raised) /\ AtMostOne(ahead) /\ (raised = {} \/ ahead = {})
      BY <2>1, <3>1 DEF OneIrq
    <3>4. ~(raised = {} /\ ahead = {})
      BY <3>2, <3>3, IrqsCounted
    <3> QED
      BY <3>1, <3>4 DEF Pending
  <2>3. ~Pending(b)'
    <3>1. PICK raised, ahead : raised = Raised(b)' /\ ahead = Ahead(b)'
      OBVIOUS
    <3>2. Cardinality(raised) + Cardinality(ahead) = 0
      BY <1>1, <3>1 DEF Irqs, Raised, Ahead
    <3>3. AtMostOne(raised) /\ AtMostOne(ahead) /\ (raised = {} \/ ahead = {})
      BY <2>1, <3>1 DEF OneIrq, AtMostOne
    <3>4. raised = {} /\ ahead = {}
      BY <3>2, <3>3, IrqsCounted
    <3> QED
      BY <3>1, <3>4 DEF Pending
  <2>4. Interrupted(b) /\ DriverStep /\ (RequestOver(b) => Return(b))
    BY <1>1, <2>2, <2>3, IrqNext DEF i2cirq_NextBatch, i2cirq_Finish, i2cirq_FinishNotified
  <2>5. i2cGetError(hw[b]) < 0 /\ i2cGetError(hw[b]) # -I2C_TK_ADDRR /\ hw \in [Bus -> Registers]
    BY <1>1, ErrorRange DEF TypeInv, HwTypes
  <2>6. Return(b) /\ ~i2cirq_NextBatch(b)
    BY <2>4, <2>5 DEF RequestOver, i2cirq_NextBatch
  <2>7. CustodyInv /\ HwTypes /\ BufferTypes
    BY <1>1 DEF TypeInv
  <2>8. /\ ifState[b].current_req # NULL /\ ifState[b].current_ret # NULL
        /\ ifState[b].current_ret \in RetBufs(b)
        /\ retBuf'[ifState[b].current_ret].err =
             IF ThisCall.timeout THEN I2C_ERR_TIMEOUT ELSE I2C_ERR_NACK
    <3>1. ~(i2cGetError(hw[b]) >= 0)
      <4>1. i2cGetError(hw[b]) \in -96 .. 0
        BY <1>1, ErrorRange DEF TypeInv, HwTypes
      <4> QED
        BY <2>5, <4>1
    <3> QED
      BY <2>4, <2>5, <2>7, <3>1, WritesTyped
  <2>9. ifState'[b].current_req = NULL /\ ~hw'[b].running
    <3>1. DOMAIN ifState = Bus /\ DOMAIN ifState[b] = Fields
      BY <2>7 DEF CustodyInv, Shape
    <3>2. hw[b] \in Registers
      BY <2>5
    <3> QED
      BY <2>5, <2>6, <3>1, <3>2 DEF Return, Reset, Fields, Registers
  <2>10. Len(retUsed'[b]) = Len(retUsed[b]) + 1
    <3>1. PICK ret, ring : ret = ifState[b].current_ret /\ ring = retUsed[b]
      OBVIOUS
    <3>2. ring \in Seq(RetBufs(b)) /\ ~Full(ring)
      <4>1. Kept(retFree[b], retUsed[b], ServerRet(b), {ret}, RetBufs(b), driverUp)
        BY <2>7, <2>8, <3>1 DEF CustodyInv, Custody, KeptRet, DriverRet
      <4>2. Kept(retUsed[b], retFree[b], {ret}, ServerRet(b), RetBufs(b), driverUp)
        BY <1>1, <4>1, KeptSymmetric
      <4> QED
        BY <1>1, <3>1, <4>2, Give, BufferSets DEF Kept
    <3>3. retUsed'[b] = Append(ring, ret)
      BY <2>6, <2>7, <2>8, <3>1, <3>2 DEF Return, pushRetBuf, Enqueued, CustodyInv, Shape
    <3>4. Len(Append(ring, ret)) = Len(ring) + 1
      BY <3>2
    <3> QED
      BY <3>1, <3>3, <3>4
  <2>11. \A err : err = (IF ThisCall.timeout THEN I2C_ERR_TIMEOUT ELSE I2C_ERR_NACK) =>
                 /\ err \in {I2C_ERR_TIMEOUT, I2C_ERR_NACK, I2C_ERR_NOREAD}
                 /\ err = I2C_ERR_TIMEOUT <=> ThisCall.timeout
                 /\ ~(err = I2C_ERR_NOREAD)
    BY DEF I2C_ERR_TIMEOUT, I2C_ERR_NACK, I2C_ERR_NOREAD
  <2> QED
    BY <2>8, <2>9, <2>10, <2>11
<1>2. ASSUME CustodyInv, TypeInv, IrqInv, [Next]_vars
      PROVE  \A b \in Bus :
               Irqs(b) = 1 /\ Irqs(b)' = 0 /\ hw[b].err /\ driverUp =>
                 /\ ifState'[b].current_req = NULL /\ ~hw'[b].running
                 /\ Len(retUsed'[b]) = Len(retUsed[b]) + 1
                 /\ LET err == retBuf'[ifState[b].current_ret].err
                    IN /\ err \in {I2C_ERR_TIMEOUT, I2C_ERR_NACK, I2C_ERR_NOREAD}
                       /\ err = I2C_ERR_TIMEOUT <=> ThisCall.timeout
                       /\ err = I2C_ERR_NOREAD => hw[b].tok = OC4_I2C_TK_ADDRR
  BY <1>1, <1>2
<1> QED
  BY <1>2, IrqAlways, PTL DEF ErrorsReported, Spec

-----------------------------------------------------------------------------
\* What a step does to one bus, late interrupts or not.

\* The bus goes on as it is; it may get an interrupt that it is no harm to have.
QuietBus(b) ==
  /\ ifState'[b].current_req = ifState[b].current_req
  /\ ifState'[b].remaining = ifState[b].remaining /\ ifState'[b].ddr = ifState[b].ddr
  /\ hw'[b] = hw[b] /\ wire'[b] = wire[b]
  /\ ifState[b].current_req # NULL =>
       reqBuf'[ifState[b].current_req] = reqBuf[ifState[b].current_req]
  /\ Pending(b) => Pending(b)'

\* i2cLoadTokens is called for it, with a state st of a request.
LoadCalled(b, st) ==
  /\ i2cLoadTokens(b, st) /\ reqBuf' = reqBuf
  /\ DOMAIN st = Fields /\ StateTyped(st)
  /\ st.current_req \in ReqBufs(b) /\ reqBuf[st.current_req] \in Wanted(b)

StartBus(b) ==
  /\ wire'[b] = <<>>
  /\ \E st : LoadCalled(b, st) /\ st.remaining = Len(reqBuf[st.current_req].body)

BatchBus(b) ==
  /\ wire'[b] = wire[b]
  /\ LoadCalled(b, ifState[b]) /\ i2cirq_NextBatch(b)

EndBus(b) == ifState'[b].current_req = NULL

\* Its list processor is done, with or without an error.
HwBus(b) ==
  /\ ifState' = ifState /\ reqBuf' = reqBuf
  /\ HwNext(b) /\ Pending(b)'

BusStep(b) == QuietBus(b) \/ StartBus(b) \/ BatchBus(b) \/ EndBus(b) \/ HwBus(b)

\* An interrupt that was raised is not lost when the driver takes the word.
LEMMA WakeKeeps ==
  ASSUME DriverWake, NEW b \in Bus, Pending(b)
  PROVE  Pending(b)'
<1>1. /\ driverCalls = {} /\ driverCalls' = UNION {notified(channel) : channel \in driverWord}
  BY DEF DriverWake
<1>2. PICK t \in BOOLEAN : irq(b, t) \in driverWord
  BY <1>1 DEF Pending, Raised, Ahead, CallsAhead
<1> DEFINE c == Call(irq(b, t), "i2cirq", b, t)
<1>3. c \in notified(irq(b, t))
  BY IrqCalls
<1>4. c.name = "i2cirq" /\ c.bus = b
  BY DEF Call
<1>5. c \in driverCalls'
  BY <1>1, <1>2, <1>3
<1> HIDE DEF c
<1> QED
  BY <1>4, <1>5 DEF Pending, Ahead, CallsAhead


\* A call for bus c does not forget an interrupt of bus b.
LEMMA CallKeeps ==
  ASSUME NEW name, NEW c \in Bus, Called(name, c), NEW b \in Bus, name # "i2cirq" \/ b # c,
         driverWord' = driverWord, Pending(b)
  PROVE  Pending(b)'
<1>1. ThisCall \notin Ahead(b) /\ driverCalls' = driverCalls \ {ThisCall}
  BY DEF Called, Ahead, CallsAhead
<1>2. Ahead(b)' = Ahead(b) /\ Raised(b)' = Raised(b)
  BY <1>1 DEF Ahead, CallsAhead, Raised, irq
<1> QED
  BY <1>2 DEF Pending

LEMMA CallWord ==
  ASSUME NEW c \in Bus, DriverCall(c)
  PROVE  driverWord' = driverWord
BY DEF DriverCall, checkBuf_Nothing, checkBuf_Busy, checkBuf_Start, checkBuf_NoRetBuf,
       i2cirq_NextBatch, i2cirq_Finish, i2cirq_FinishNotified, i2cirq_NoRequest, wordVars

\* A call for the other bus.
LEMMA OtherBusCall ==
  ASSUME CustodyInv, TypeInv, DOMAIN wire = Bus, NEW c \in Bus, DriverStep, DriverCall(c),
         NEW b \in Bus \ {c}
  PROVE  QuietBus(b)
<1>0. /\ DOMAIN ifState = Bus /\ DOMAIN ifState[c] = Fields /\ StateTyped(ifState[c])
      /\ HwTypes /\ BufferTypes /\ DOMAIN hw = Bus
  BY DEF CustodyInv, Shape, TypeInv, StateTypes, HwTypes
<1>1. reqBuf' = reqBuf /\ driverWord' = driverWord
  BY DriverReads, CallWord
<1>2. Pending(b) => Pending(b)'
  <2>1. \E name : Called(name, c)
    BY DEF DriverCall, checkBuf_Nothing, checkBuf_Busy, checkBuf_Start, checkBuf_NoRetBuf,
           i2cirq_NextBatch, i2cirq_Finish, i2cirq_FinishNotified, i2cirq_NoRequest, Interrupted
  <2> QED
    BY <1>1, <2>1, CallKeeps
<1>3. ifState'[b] = ifState[b] /\ hw'[b] = hw[b] /\ wire'[b] = wire[b]
  <2>1. CASE checkBuf_Start(c)
    <3>1. PICK st : st = Begun(ifState[c], Oldest(reqUsed[c]), Oldest(retFree[c]))
      OBVIOUS
    <3>2. /\ DOMAIN st = Fields /\ StateTyped(st) /\ st.current_req \in ReqBufs(c)
      BY <1>0, <2>1, <3>1, BegunTyped
    <3>3. i2cLoadTokens(c, st) /\ wire' = [wire EXCEPT ![c] = <<>>]
      BY <2>1, <3>1 DEF checkBuf_Start
    <3> QED
      BY <1>0, <3>2, <3>3, LoadTyped
  <2>2. CASE i2cirq_NextBatch(c)
    <3>1. Interrupted(c) /\ i2cLoadTokens(c, ifState[c]) /\ wire' = wire
      BY <2>2 DEF i2cirq_NextBatch
    <3>2. ifState[c].current_req \in ReqBufs(c)
      BY <1>0, <3>1, WritesTyped
    <3> QED
      BY <1>0, <3>1, <3>2, LoadTyped
  <2>3. CASE checkBuf_Nothing(c) \/ checkBuf_Busy(c) \/ checkBuf_NoRetBuf(c)
    BY <1>0, <2>3 DEF checkBuf_Nothing, checkBuf_Busy, checkBuf_NoRetBuf, hwVars
  <2>4. CASE i2cirq_Finish(c) \/ i2cirq_FinishNotified(c) \/ i2cirq_NoRequest(c)
    BY <1>0, <2>4 DEF i2cirq_Finish, i2cirq_FinishNotified, i2cirq_NoRequest, Return
  <2> QED
    BY <2>1, <2>2, <2>3, <2>4 DEF DriverCall
<1> QED
  BY <1>1, <1>2, <1>3 DEF QuietBus

LEMMA OwnBusCall ==
  ASSUME CustodyInv, TypeInv, ContentInv, DOMAIN wire = Bus, NEW c \in Bus, DriverStep, DriverCall(c)
  PROVE  BusStep(c)
<1>0. /\ DOMAIN ifState = Bus /\ DOMAIN ifState[c] = Fields /\ StateTyped(ifState[c])
      /\ HwTypes /\ BufferTypes
      /\ reqBuf' = reqBuf /\ driverWord' = driverWord
  BY DriverReads, CallWord DEF CustodyInv, Shape, TypeInv, StateTypes
<1>1. CASE checkBuf_Nothing(c) \/ checkBuf_Busy(c) \/ checkBuf_NoRetBuf(c)
  <2>1. Called("checkBuf", c) /\ hw' = hw /\ wire' = wire
    BY <1>1 DEF checkBuf_Nothing, checkBuf_Busy, checkBuf_NoRetBuf, hwVars
  <2>2. /\ ifState'[c].current_req = ifState[c].current_req
        /\ ifState'[c].remaining = ifState[c].remaining /\ ifState'[c].ddr = ifState[c].ddr
    BY <1>0, <1>1 DEF checkBuf_Nothing, checkBuf_Busy, checkBuf_NoRetBuf, Deferred, Fields
  <2>3. Pending(c) => Pending(c)'
    BY <1>0, <2>1, CallKeeps
  <2> QED
    BY <1>0, <2>1, <2>2, <2>3 DEF BusStep, QuietBus
<1>2. CASE checkBuf_Start(c)
  <2>1. PICK st, req : /\ req = Oldest(reqUsed[c])
                       /\ st = Begun(ifState[c], req, Oldest(retFree[c]))
    OBVIOUS
  <2>2. /\ DOMAIN st = Fields /\ StateTyped(st) /\ st.current_req = req /\ req \in ReqBufs(c)
        /\ st.remaining = Len(reqBuf[req].body)
    BY <1>0, <1>2, <2>1, BegunTyped
  <2>3. i2cLoadTokens(c, st) /\ ~Empty(reqUsed[c]) /\ wire'[c] = <<>>
    BY <1>2, <2>1 DEF checkBuf_Start, reqBufEmpty
  <2>4. req \in Queued(c)
    <3>1. PICK ring \in Seq(ReqBufs(c)) : ring = reqUsed[c] /\ IsInjective(ring)
      BY DEF CustodyInv, Custody, KeptReq, Kept
    <3>2. Oldest(ring) \in ToSet(ring)
      BY <2>3, <3>1, DequeuedRing
    <3> QED
      BY <2>1, <3>1, <3>2 DEF Queued
  <2> QED
    BY <1>0, <2>2, <2>3, <2>4 DEF ContentInv, BusStep, StartBus, LoadCalled
<1>3. CASE i2cirq_NextBatch(c)
  <2>1. Interrupted(c) /\ i2cLoadTokens(c, ifState[c]) /\ wire' = wire
    BY <1>3 DEF i2cirq_NextBatch
  <2>2. ifState[c].current_req \in ReqBufs(c) /\ ifState[c].current_req # NULL
    BY <1>0, <2>1, WritesTyped
  <2>3. reqBuf[ifState[c].current_req] \in Wanted(c)
    BY <2>2 DEF ContentInv, Queued, DriverReq
  <2> QED
    BY <1>0, <1>3, <2>1, <2>2, <2>3 DEF BusStep, BatchBus, LoadCalled
<1>4. CASE i2cirq_Finish(c) \/ i2cirq_FinishNotified(c)
  BY <1>0, <1>4 DEF i2cirq_Finish, i2cirq_FinishNotified, Return, Reset, Fields, BusStep, EndBus
<1>5. CASE i2cirq_NoRequest(c)
  BY <1>5 DEF i2cirq_NoRequest, CustodyInv, Shape, BusStep, EndBus
<1> QED
  BY <1>1, <1>2, <1>3, <1>4, <1>5 DEF DriverCall

LEMMA BusHw ==
  ASSUME TypeInv, DOMAIN wire = Bus, NEW c \in Bus, HwStep(c), NEW b \in Bus
  PROVE  BusStep(b)
<1>1. ifState' = ifState /\ reqBuf' = reqBuf /\ driverCalls' = driverCalls /\ DOMAIN hw = Bus /\ HwNext(c)
  BY DEF HwStep, driverVars, transportVars, reqVars, TypeInv, HwTypes
<1>2. PICK t \in BOOLEAN : driverWord' = driverWord \cup {irq(c, t)}
  BY <1>1 DEF HwNext, HwDone, HwNack, HwTimeout, notify_driver
<1>3. CASE b = c
  <2>1. Pending(b)'
    BY <1>2, <1>3 DEF Pending, Raised, irq
  <2> QED
    BY <1>1, <1>3, <2>1 DEF BusStep, HwBus
<1>4. CASE b # c
  <2>1. hw'[b] = hw[b] /\ wire'[b] = wire[b]
    <3>1. CASE HwDone(c)
      BY <1>1, <1>4, <3>1 DEF HwDone
    <3>2. CASE HwNack(c) \/ HwTimeout(c)
      BY <1>1, <1>4, <3>2 DEF HwNack, HwTimeout
    <3> QED
      BY <1>1, <3>1, <3>2 DEF HwNext
  <2>2. Pending(b) => Pending(b)'
    BY <1>1, <1>2 DEF Pending, Raised, Ahead, CallsAhead, irq
  <2> QED
    BY <1>1, <2>1, <2>2 DEF BusStep, QuietBus
<1> QED
  BY <1>3, <1>4

LEMMA BusServer ==
  ASSUME CustodyInv, TypeInv, ServerStep, NEW b \in Bus
  PROVE  QuietBus(b)
<1>1. UNCHANGED <<hw, wire, ifState, driverCalls>>
  BY DEF ServerStep, hwVars, driverVars
<1>2. driverWord' \in {driverWord, driverWord \cup {SERVER_NOTIFY_ID}}
  BY DEF ServerStep, ServerNext, allocate, initDone, publish, notify, ServerWake, skipBus,
         checkBus, collect, release, wordVars, notify_driver
<1>3. Pending(b) => Pending(b)'
  BY <1>1, <1>2 DEF Pending, Raised, Ahead, CallsAhead, irq
<1>4. reqBuf'[ifState[b].current_req] = reqBuf[ifState[b].current_req]
  <2>1. CASE publish
    <3>1. PICK r \in [bus : Int, client : Byte, addr : Byte, body : Seq(Byte)] : r = Program[cur]
      BY <2>1, FilledApart
    <3>2. reqBuf' = [reqBuf EXCEPT ![buf] = [client |-> r.client, addr |-> r.addr, body |-> r.body]]
      BY <2>1, <3>1 DEF publish, allocReqBuf_Fill
    <3> QED
      BY <2>1, <3>2, FilledApart
  <2>2. CASE ~publish
    BY <2>2 DEF ServerStep, ServerNext, allocate, initDone, notify, ServerWake, skipBus,
                checkBus, collect, release, transportVars, reqVars, retVars
  <2> QED
    BY <2>1, <2>2
<1> QED
  BY <1>1, <1>3, <1>4 DEF QuietBus

LEMMA BusNext ==
  ASSUME CustodyInv, TypeInv, ContentInv, DOMAIN wire = Bus, [Next]_vars
  PROVE  DOMAIN wire' = Bus /\ \A b \in Bus : BusStep(b)
<1>1. CASE DriverStep
  <2>1. CASE DriverWake
    <3>1. UNCHANGED <<reqBuf, hw, wire, ifState>>
      BY <2>1 DEF DriverWake, transportVars, reqVars, hwVars
    <3> QED
      BY <2>1, <3>1, WakeKeeps DEF BusStep, QuietBus
  <2>2. ASSUME NEW c \in Bus, DriverCall(c) PROVE DOMAIN wire' = Bus /\ \A b \in Bus : BusStep(b)
    <3>1. wire' = wire \/ wire' = [wire EXCEPT ![c] = <<>>]
      BY <2>2 DEF DriverCall, checkBuf_Nothing, checkBuf_Busy, checkBuf_Start, checkBuf_NoRetBuf,
                  i2cirq_NextBatch, i2cirq_Finish, i2cirq_FinishNotified, i2cirq_NoRequest, hwVars
    <3> QED
      BY <1>1, <2>2, <3>1, OtherBusCall, OwnBusCall DEF BusStep
  <2> QED
    BY <1>1, <2>1, <2>2 DEF DriverStep, DriverNext
<1>2. CASE ServerStep
  BY <1>2, BusServer DEF BusStep, ServerStep, hwVars
<1>3. ASSUME NEW c \in Bus, HwStep(c) PROVE DOMAIN wire' = Bus /\ \A b \in Bus : BusStep(b)
  <2>1. wire' = wire \/ \E w : wire' = [wire EXCEPT ![c] = w]
    BY <1>3 DEF HwStep, HwNext, HwDone, HwNack, HwTimeout
  <2> QED
    BY <1>3, <2>1, BusHw
<1>4. CASE UNCHANGED vars
  BY <1>4 DEF vars, transportVars, reqVars, hwVars, driverVars, wordVars, BusStep, QuietBus,
              Pending, Raised, Ahead, CallsAhead, irq
<1> QED
  BY <1>1, <1>2, <1>3, <1>4 DEF Next

-----------------------------------------------------------------------------
\* Programs of transactions, to addresses of seven bits.

\* The state st of an interface, after n operations of a request.
After(ops, n, st) ==
  Remains(ops, n, st.remaining) /\ InDirection(ops, n, st.ddr)

\* i2cLoadTokens, with something of such a request left, starts a batch of the
\* operations that come next.
LEMMA LoadStarts ==
  ASSUME ProgramFormed, TypeInv, DOMAIN ifState = Bus, NEW c \in Bus, NEW st, LoadCalled(c, st),
         st.remaining # 0,
         NEW ops, Transaction(ops), reqBuf[st.current_req].body = Request(ops),
         NEW n, After(ops, n, st)
  PROVE  /\ ifState'[c].current_req = st.current_req
         /\ hw'[c].running /\ hw'[c].ddr = hw[c].ddr
         /\ \E k \in Nat : /\ Loaded(ops, Positions(ops), n, k, hw'[c].list, hw'[c].wdata)
                           /\ After(ops, n + k, ifState'[c])
<1>1. PICK r : r = reqBuf[st.current_req]
  OBVIOUS
<1>2. r.addr <= 127 /\ r.body = Request(ops) /\ r.addr \in Byte /\ st.current_req # NULL
  BY <1>1, OwnBuffers, BufferSets DEF LoadCalled, ProgramFormed, TypeInv, BufferTypes, Request_t
<1>3. PICK left \in Nat \ {0}, ddr \in {0, 1} : left = st.remaining /\ ddr = st.ddr
  BY DEF LoadCalled, StateTyped, IfState
<1>4. PICK b : b = LoadBatch(Request(ops), left, ddr)
  OBVIOUS
<1>5. PICK k \in Nat : /\ b.ok /\ Loaded(ops, Positions(ops), n, k, b.list, b.wdata)
                       /\ InDirection(ops, n + k, b.ddr) /\ Remains(ops, n + k, b.remaining)
  BY <1>3, <1>4, BatchLoaded DEF After
<1>6. PICK a : a = slaveAddr(hw[c].addr, r.addr)
  OBVIOUS
<1>7. ~(r.addr > 127)
  <2>1. PICK a1 \in 0 .. 255 : a1 = r.addr
    BY <1>2 DEF Byte
  <2>2. a1 <= 127
    BY <1>2, <2>1
  <2>3. ~(a1 > 127)
    BY <2>2
  <2> QED
    BY <2>1, <2>3
<1>8. /\ ifState' = [ifState EXCEPT ![c] = [st EXCEPT !.remaining = b.remaining, !.ddr = b.ddr]]
      /\ hw' = [hw EXCEPT ![c].addr = a, ![c].list = b.list, ![c].wdata = b.wdata,
                          ![c].running = b.ok, ![c].stalled = FALSE]
  BY <1>1, <1>2, <1>3, <1>4, <1>6, <1>7, Zenon DEF LoadCalled, i2cLoadTokens
<1> DEFINE up  == [st EXCEPT !.remaining = b.remaining, !.ddr = b.ddr]
           reg == [hw[c] EXCEPT !.addr = a, !.list = b.list, !.wdata = b.wdata,
                                !.running = b.ok, !.stalled = FALSE]
<1>9. ifState'[c] = up /\ hw' = [hw EXCEPT ![c] = reg]
  BY <1>8
<1>10. hw \in [Bus -> Registers] /\ hw[c] \in Registers
  BY DEF TypeInv, HwTypes
<1>11. /\ up.remaining = b.remaining /\ up.ddr = b.ddr /\ up.current_req = st.current_req
       /\ reg.list = b.list /\ reg.wdata = b.wdata /\ reg.running = b.ok /\ reg.ddr = hw[c].ddr
  BY <1>10 DEF Registers, LoadCalled, Fields
<1> HIDE DEF up, reg
<1>12. hw'[c] = reg
  BY <1>9, <1>10
<1> QED
  BY <1>5, <1>9, <1>11, <1>12 DEF After

\* A request that begins, or goes on with what is left, is one that LoadStarts is about.
LEMMA StartFormed ==
  ASSUME ProgramFormed, NEW b \in Bus, NEW st, LoadCalled(b, st),
         st.remaining = Len(reqBuf[st.current_req].body)
  PROVE  \E ops : /\ Transaction(ops) /\ reqBuf[st.current_req].body = Request(ops)
                  /\ After(ops, 0, st) /\ st.remaining # 0
<1>1. PICK ops : Transaction(ops) /\ reqBuf[st.current_req].body = Request(ops)
  BY DEF LoadCalled, ProgramFormed
<1>2. ops \in Seq(Operation)
  BY <1>1 DEF Transaction
<1>3. Remains(ops, 0, st.remaining) /\ st.remaining # 0
  BY <1>1, <1>2, AllRemains
<1>4. InDirection(ops, 0, st.ddr)
  BY DEF InDirection
<1> QED
  BY <1>1, <1>3, <1>4 DEF After

\* A bus that has a request knows how far it is with it, and will hear of it.
OnItsWay(b) ==
  ifState[b].current_req # NULL =>
    /\ \E ops, n : /\ Transaction(ops) /\ reqBuf[ifState[b].current_req].body = Request(ops)
                   /\ After(ops, n, ifState[b])
    /\ hw[b].running \/ Pending(b)

WayInv == \A b \in Bus : OnItsWay(b)

LEMMA WayNext ==
  ASSUME ProgramFormed, CustodyInv, TypeInv, WayInv, NEW b \in Bus, BusStep(b)
  PROVE  OnItsWay(b)'
<1>0. DOMAIN ifState = Bus /\ OnItsWay(b)
  BY DEF CustodyInv, Shape, WayInv
<1>1. ASSUME NEW st, LoadCalled(b, st), st.remaining # 0,
             NEW ops, Transaction(ops), reqBuf[st.current_req].body = Request(ops),
             NEW n, After(ops, n, st)
      PROVE  OnItsWay(b)'
  <2>1. ifState'[b].current_req = st.current_req /\ hw'[b].running /\ reqBuf' = reqBuf
    BY <1>0, <1>1, LoadStarts DEF LoadCalled
  <2>2. PICK k \in Nat : After(ops, n + k, ifState'[b])
    BY <1>0, <1>1, LoadStarts
  <2> QED
    BY <1>1, <2>1, <2>2 DEF OnItsWay, After
<1>2. CASE QuietBus(b)
  <2> SUFFICES ASSUME ifState'[b].current_req # NULL
               PROVE  /\ \E ops, n : /\ Transaction(ops) /\ After(ops, n, ifState'[b])
                                     /\ reqBuf'[ifState'[b].current_req].body = Request(ops)
                      /\ hw'[b].running \/ Pending(b)'
    BY DEF OnItsWay, After
  <2>1. PICK ops, n : /\ Transaction(ops) /\ reqBuf[ifState[b].current_req].body = Request(ops)
                      /\ After(ops, n, ifState[b])
    BY <1>0, <1>2 DEF QuietBus, OnItsWay
  <2>2. After(ops, n, ifState'[b])
    BY <1>2, <2>1 DEF QuietBus, After
  <2> QED
    BY <1>0, <1>2, <2>1, <2>2 DEF QuietBus, OnItsWay
<1>3. CASE StartBus(b)
  <2>1. PICK st : LoadCalled(b, st) /\ st.remaining = Len(reqBuf[st.current_req].body)
    BY <1>3 DEF StartBus
  <2>2. PICK ops : /\ Transaction(ops) /\ reqBuf[st.current_req].body = Request(ops)
                   /\ After(ops, 0, st) /\ st.remaining # 0
    BY <2>1, StartFormed
  <2> QED
    BY <1>1, <2>1, <2>2
<1>4. CASE BatchBus(b)
  <2>1. LoadCalled(b, ifState[b]) /\ ifState[b].current_req # NULL /\ ifState[b].remaining # 0
    BY <1>4, BufferSets DEF BatchBus, LoadCalled, i2cirq_NextBatch, RequestOver
  <2>2. PICK ops, n : /\ Transaction(ops) /\ reqBuf[ifState[b].current_req].body = Request(ops)
                      /\ After(ops, n, ifState[b])
    BY <1>0, <2>1 DEF OnItsWay
  <2> QED
    BY <1>1, <2>1, <2>2
<1>5. CASE EndBus(b)
  BY <1>5 DEF EndBus, OnItsWay
<1>6. CASE HwBus(b)
  BY <1>0, <1>6 DEF HwBus, OnItsWay, After
<1> QED
  BY <1>2, <1>3, <1>4, <1>5, <1>6 DEF BusStep

LEMMA CallsNext ==
  ASSUME TypeInv, CallsInv, [Next]_vars
  PROVE  CallsInv'
<1>1. driverCalls' \subseteq driverCalls \/ driverCalls' = UNION {notified(channel) : channel \in driverWord}
  <2>1. CASE DriverStep
    BY <2>1 DEF DriverStep, DriverNext, DriverWake, DriverCall, checkBuf_Nothing, checkBuf_Busy,
                checkBuf_Start, checkBuf_NoRetBuf, i2cirq_NextBatch, i2cirq_Finish,
                i2cirq_FinishNotified, i2cirq_NoRequest, Interrupted, Called
  <2>2. CASE ~DriverStep
    BY <2>2 DEF Next, ServerStep, HwStep, driverVars, vars
  <2> QED
    BY <2>1, <2>2
<1> QED
  BY <1>1 DEF TypeInv, WordTypes, CallsInv

WorkInv == CustodyInv /\ TypeInv /\ ContentInv /\ DOMAIN wire = Bus

LEMMA WorkInit == Init => WorkInv
BY CustodyInit, TypesInit, ContentInit DEF Init, DriverInit, WorkInv

LEMMA WorkNext == WorkInv /\ [Next]_vars => WorkInv' /\ \A b \in Bus : BusStep(b)
BY CustodyNext, TypesNext, ContentNext, BusNext DEF WorkInv

\* An interrupt that is about is counted.
LEMMA PendingCounted ==
  ASSUME CallsInv, NEW b \in Bus, Pending(b)
  PROVE  Irqs(b) > 0
<1>1. Raised(b) \subseteq {irq(b, FALSE), irq(b, TRUE)}
  BY DEF Raised
<1>2. Ahead(b) \subseteq {Call(irq(b, FALSE), "i2cirq", b, FALSE), Call(irq(b, TRUE), "i2cirq", b, TRUE)}
  <2> SUFFICES ASSUME NEW c \in Ahead(b)
               PROVE  \E t \in BOOLEAN : c = Call(irq(b, t), "i2cirq", b, t)
    OBVIOUS
  <2>1. PICK channel \in DriverChannel : c \in notified(channel)
    BY DEF CallsInv, Ahead, CallsAhead
  <2> QED
    BY <2>1, ChannelCalls DEF Ahead, CallsAhead
<1>3. ASSUME NEW x, NEW y, NEW S, S \subseteq {x, y}
      PROVE  Cardinality(S) \in Nat /\ (S # {} => Cardinality(S) # 0)
  <2>1. IsFiniteSet({x, y})
    <3>1. {x, y} = {x} \cup {y}
      OBVIOUS
    <3>2. IsFiniteSet({x})
      BY FS_Singleton
    <3> QED
      BY <3>1, <3>2, FS_AddElement
  <2>2. IsFiniteSet(S)
    BY <1>3, <2>1, FS_Subset
  <2> QED
    BY <2>2, FS_EmptySet, FS_CardinalityType
<1>4. PICK i, j : i = Cardinality(Raised(b)) /\ j = Cardinality(Ahead(b))
  OBVIOUS
<1>5. i \in Nat /\ j \in Nat /\ (i # 0 \/ j # 0)
  <2>1. i \in Nat /\ (Raised(b) # {} => i # 0)
    BY <1>1, <1>3, <1>4
  <2>2. j \in Nat /\ (Ahead(b) # {} => j # 0)
    BY <1>2, <1>3, <1>4
  <2> QED
    BY <2>1, <2>2 DEF Pending
<1>6. i + j > 0
  BY <1>5
<1> QED
  BY <1>4, <1>6 DEF Irqs, Raised, Ahead

\* A bus that has a request never waits for nothing: its list processor runs, or an
\* interrupt is raised or about to be handled, whatever ends early, late or twice, for
\* a program of transactions to addresses of seven bits.  (i2cLoadTokens starts nothing
\* for a bad address or a bad token, and its result is not looked at.)
THEOREM SystemNoBusStuck == ASSUME ProgramFormed PROVE Spec => []NoBusStuck
<1>1. Init => WorkInv /\ CallsInv /\ WayInv
  <2> SUFFICES ASSUME Init PROVE CallsInv /\ WayInv
    BY WorkInit
  <2> QED
    BY DEF Init, DriverInit, Idle, CallsInv, WayInv, OnItsWay
<1>2. WorkInv /\ CallsInv /\ WayInv /\ [Next]_vars => WorkInv' /\ CallsInv' /\ WayInv'
  <2> SUFFICES ASSUME WorkInv, CallsInv, WayInv, [Next]_vars PROVE CallsInv' /\ WayInv'
    BY WorkNext
  <2>1. \A b \in Bus : OnItsWay(b)'
    BY WorkNext, WayNext DEF WorkInv
  <2>2. WayInv'
    BY <2>1 DEF WayInv, Bus
  <2> QED
    BY <2>2, CallsNext DEF WorkInv
<1>3. CallsInv /\ WayInv => NoBusStuck
  BY PendingCounted DEF WayInv, OnItsWay, NoBusStuck
<1> QED
  BY <1>1, <1>2, <1>3, PTL DEF Spec

-----------------------------------------------------------------------------
\* What the bus has seen of the request.

\* The first n operations, and the list processor's direction is theirs.
Saw(b, ops, n) ==
  wire[b] = UpTo(ops, n) /\ InDirection(ops, n, hw[b].ddr)

\* The request of bus b is that of these operations.
Asks(b, ops) ==
  Transaction(ops) /\ reqBuf[ifState[b].current_req].body = Request(ops)

\* A batch of k operations after the first m is in the registers.
UnderWay(b) ==
  \E ops, m, k :
    /\ Asks(b, ops) /\ m \in 0 .. Len(ops) /\ k \in Nat
    /\ Loaded(ops, Positions(ops), m, k, hw[b].list, hw[b].wdata)
    /\ Saw(b, ops, m) /\ After(ops, m + k, ifState[b])

\* No batch is, and what was loaded has been done, unless there was an error.
Halted(b) ==
  \E ops, n : /\ Asks(b, ops) /\ After(ops, n, ifState[b])
              /\ hw[b].err \/ Saw(b, ops, n)

DoneBus(b) ==
  ifState[b].current_req # NULL => IF hw[b].running THEN UnderWay(b) ELSE Halted(b)

DoneInv == \A b \in Bus : DoneBus(b)

LEMMA DoneLoad ==
  ASSUME ProgramFormed, TypeInv, DOMAIN ifState = Bus, NEW b \in Bus, NEW st, LoadCalled(b, st),
         st.remaining # 0,
         NEW ops, Transaction(ops), reqBuf[st.current_req].body = Request(ops),
         NEW n, After(ops, n, st),
         wire'[b] = UpTo(ops, n), InDirection(ops, n, hw[b].ddr)
  PROVE  DoneBus(b)'
<1>1. /\ ifState'[b].current_req = st.current_req /\ reqBuf' = reqBuf
      /\ hw'[b].running /\ hw'[b].ddr = hw[b].ddr
  BY LoadStarts DEF LoadCalled
<1>2. PICK k \in Nat : /\ Loaded(ops, Positions(ops), n, k, hw'[b].list, hw'[b].wdata)
                       /\ After(ops, n + k, ifState'[b])
  BY LoadStarts
<1>3. n \in 0 .. Len(ops)
  BY DEF After, Remains
<1>4. UnderWay(b)'
  BY <1>1, <1>2, <1>3 DEF UnderWay, Asks, Saw, After
<1> QED
  BY <1>1, <1>4 DEF DoneBus

LEMMA DoneQuiet ==
  ASSUME NEW b \in Bus, DoneBus(b), QuietBus(b)
  PROVE  DoneBus(b)'
<1> SUFFICES ASSUME ifState'[b].current_req # NULL
             PROVE  IF hw'[b].running THEN UnderWay(b)' ELSE Halted(b)'
  BY DEF DoneBus
<1>1. /\ ifState[b].current_req # NULL /\ hw'[b] = hw[b] /\ wire'[b] = wire[b]
      /\ \A ops : Asks(b, ops) => Asks(b, ops)'
      /\ \A ops, n : After(ops, n, ifState[b]) => After(ops, n, ifState'[b])
  BY DEF QuietBus, Asks, After
<1>2. CASE hw[b].running
  <2>1. PICK ops, m, k : /\ Asks(b, ops) /\ m \in 0 .. Len(ops) /\ k \in Nat
                         /\ Loaded(ops, Positions(ops), m, k, hw[b].list, hw[b].wdata)
                         /\ Saw(b, ops, m) /\ After(ops, m + k, ifState[b])
    BY <1>1, <1>2 DEF DoneBus, UnderWay
  <2>2. Asks(b, ops)' /\ Saw(b, ops, m)' /\ After(ops, m + k, ifState'[b])
    BY <1>1, <2>1 DEF Saw
  <2>3. UnderWay(b)'
    BY <1>1, <2>1, <2>2 DEF UnderWay, After
  <2> QED
    BY <1>1, <1>2, <2>3
<1>3. CASE ~hw[b].running
  <2>1. PICK ops, n : /\ Asks(b, ops) /\ After(ops, n, ifState[b])
                      /\ hw[b].err \/ Saw(b, ops, n)
    BY <1>1, <1>3 DEF DoneBus, Halted
  <2>2. Asks(b, ops)' /\ After(ops, n, ifState'[b]) /\ (hw'[b].err \/ Saw(b, ops, n)')
    BY <1>1, <2>1 DEF Saw
  <2>3. Halted(b)'
    BY <2>2 DEF Halted, After
  <2> QED
    BY <1>1, <1>3, <2>3
<1> QED
  BY <1>2, <1>3

LEMMA DoneHw ==
  ASSUME LATE_IRQ = FALSE, TypeInv, DOMAIN wire = Bus, NEW b \in Bus, DoneBus(b), HwBus(b)
  PROVE  DoneBus(b)'
<1> SUFFICES ASSUME ifState[b].current_req # NULL
             PROVE  ~hw'[b].running /\ Halted(b)'
  BY DEF DoneBus, HwBus
<1>1. ifState' = ifState /\ reqBuf' = reqBuf /\ HwNext(b) /\ hw[b].running
  BY DEF HwBus, HwNext, HwDone, HwNack, HwTimeout
<1>2. PICK ops, m, k : /\ Asks(b, ops) /\ m \in 0 .. Len(ops) /\ k \in Nat
                       /\ Loaded(ops, Positions(ops), m, k, hw[b].list, hw[b].wdata)
                       /\ Saw(b, ops, m) /\ After(ops, m + k, ifState[b])
  BY <1>1 DEF DoneBus, UnderWay
<1>3. hw \in [Bus -> Registers] /\ hw[b] \in Registers
  BY DEF TypeInv, HwTypes
<1>4. Asks(b, ops)' /\ After(ops, m + k, ifState[b])'
  BY <1>1, <1>2 DEF Asks, After
<1>5. CASE HwDone(b)
  <2>1. PICK list \in Seq(Oc4Token), wdata \in Seq(Byte), ddr \in {0, 1} :
          list = hw[b].list /\ wdata = hw[b].wdata /\ ddr = hw[b].ddr
    BY <1>3 DEF Registers
  <2>2. PICK x : x = Execute(list, wdata, ddr)
    OBVIOUS
  <2>3. /\ x.ops = SubSeq(ops, m + 1, m + k) /\ InDirection(ops, m + k, x.ddr)
    BY <1>2, <2>1, <2>2, BatchDone, SMTT(30) DEF Asks, Saw
  <2>4. UpTo(ops, m) \o SubSeq(ops, m + 1, m + k) = UpTo(ops, m + k)
    <3>1. ops \in Seq(Operation) /\ m + k <= Len(ops)
      BY <1>2 DEF Asks, Transaction, Loaded
    <3> QED
      BY <1>2, <3>1, UpToNext
  <2>5. /\ hw' = [hw EXCEPT ![b].running = FALSE, ![b].stalled = FALSE, ![b].err = FALSE,
                            ![b].tok = OC4_I2C_TK_END, ![b].rd = x.reads, ![b].ddr = x.ddr]
        /\ wire' = [wire EXCEPT ![b] = @ \o x.ops]
    BY <1>5, <2>1, <2>2, Zenon DEF HwDone
  <2> DEFINE new == [hw[b] EXCEPT !.running = FALSE, !.stalled = FALSE, !.err = FALSE,
                                  !.tok = OC4_I2C_TK_END, !.rd = x.reads, !.ddr = x.ddr]
  <2>6. hw' = [hw EXCEPT ![b] = new]
    BY <2>5
  <2>7. ~new.running /\ new.ddr = x.ddr
    BY <1>3 DEF Registers
  <2> HIDE DEF new
  <2>8. ~hw'[b].running /\ hw'[b].ddr = x.ddr
    BY <1>3, <2>6, <2>7
  <2>9. wire'[b] = UpTo(ops, m + k)
    BY <1>2, <2>3, <2>4, <2>5 DEF Saw
  <2>10. Saw(b, ops, m + k)'
    BY <2>3, <2>8, <2>9 DEF Saw
  <2> QED
    BY <1>4, <2>8, <2>10 DEF Halted
<1>6. CASE HwNack(b) \/ HwTimeout(b)
  <2>1. PICK stalled, tok : hw' = [hw EXCEPT ![b].running = FALSE, ![b].stalled = stalled,
                                             ![b].err = TRUE, ![b].tok = tok]
    <3>1. CASE HwNack(b)
      BY <3>1, ZenonT(40) DEF HwNack
    <3>2. CASE HwTimeout(b)
      BY <3>2, ZenonT(40) DEF HwTimeout
    <3> QED
      BY <1>6, <3>1, <3>2
  <2> DEFINE new == [hw[b] EXCEPT !.running = FALSE, !.stalled = stalled, !.err = TRUE, !.tok = tok]
  <2>2. hw' = [hw EXCEPT ![b] = new]
    BY <2>1
  <2>3. ~new.running /\ new.err
    BY <1>3 DEF Registers
  <2> HIDE DEF new
  <2>4. ~hw'[b].running /\ hw'[b].err
    BY <1>3, <2>2, <2>3
  <2> QED
    BY <1>4, <2>4 DEF Halted
<1> QED
  BY <1>1, <1>5, <1>6 DEF HwNext

LEMMA DoneNext ==
  ASSUME LATE_IRQ = FALSE, ProgramFormed, WorkInv, IrqInv, DoneInv, NEW b \in Bus, BusStep(b)
  PROVE  DoneBus(b)'
<1>0. DOMAIN ifState = Bus /\ TypeInv /\ DOMAIN wire = Bus /\ DoneBus(b)
  BY DEF WorkInv, CustodyInv, Shape, DoneInv
<1>1. CASE StartBus(b)
  <2>1. PICK st : LoadCalled(b, st) /\ st.remaining = Len(reqBuf[st.current_req].body)
    BY <1>1 DEF StartBus
  <2>2. PICK ops : /\ Transaction(ops) /\ reqBuf[st.current_req].body = Request(ops)
                   /\ After(ops, 0, st) /\ st.remaining # 0
    BY <2>1, StartFormed
  <2>3. wire'[b] = UpTo(ops, 0)
    <3>1. ops \in Seq(Operation) /\ 0 \in 0 .. Len(ops)
      BY <2>2 DEF Transaction
    <3> QED
      BY <1>1, <3>1, UpToGrows DEF StartBus
  <2>4. InDirection(ops, 0, hw[b].ddr)
    BY DEF InDirection
  <2> QED
    BY <1>0, <2>1, <2>2, <2>3, <2>4, DoneLoad
<1>2. CASE BatchBus(b)
  <2>1. /\ LoadCalled(b, ifState[b]) /\ ifState[b].current_req # NULL /\ ifState[b].remaining # 0
        /\ Called("i2cirq", b) /\ wire'[b] = wire[b] /\ ~(i2cGetError(hw[b]) < 0)
    BY <1>2, BufferSets DEF BatchBus, LoadCalled, i2cirq_NextBatch, Interrupted, RequestOver
  <2>2. ~hw[b].running
    BY <2>1, CallLeaves
  <2>3. ~hw[b].err
    BY <1>0, <2>1, ErrorRange DEF TypeInv, HwTypes
  <2>4. PICK ops, n : Asks(b, ops) /\ After(ops, n, ifState[b]) /\ Saw(b, ops, n)
    BY <1>0, <2>1, <2>2, <2>3 DEF DoneBus, Halted
  <2> QED
    BY <1>0, <2>1, <2>4, DoneLoad DEF Asks, Saw
<1>3. CASE EndBus(b)
  BY <1>3 DEF EndBus, DoneBus
<1> QED
  BY <1>0, <1>1, <1>2, <1>3, DoneQuiet, DoneHw DEF BusStep

\* A return is queued only by the handler that finds its request over.
LEMMA Returned ==
  ASSUME CustodyInv, [Next]_vars, NEW b \in Bus, Len(retUsed'[b]) > Len(retUsed[b])
  PROVE  Interrupted(b) /\ RequestOver(b)
<1>1. PICK ring \in Seq(RetBufs(b)) : ring = retUsed[b]
  BY DEF CustodyInv, Custody, KeptRet, Kept
<1>2. DOMAIN retUsed = Bus /\ retUsed'[b] # retUsed[b]
  <2>1. ~(Len(ring) > Len(ring))
    BY <1>1
  <2> QED
    BY <1>1, <2>1 DEF CustodyInv, Shape
<1>3. CASE DriverStep
  <2>1. PICK c \in Bus : i2cirq_Finish(c) \/ i2cirq_FinishNotified(c)
    BY <1>2, <1>3 DEF DriverStep, DriverNext, DriverWake, DriverCall, checkBuf_Nothing, checkBuf_Busy,
                      checkBuf_Start, checkBuf_NoRetBuf, i2cirq_NextBatch, i2cirq_NoRequest,
                      transportVars, retVars
  <2>2. /\ Interrupted(c) /\ RequestOver(c)
        /\ retUsed' = retUsed \/ \E r : retUsed' = [retUsed EXCEPT ![c] = r]
    BY <2>1 DEF i2cirq_Finish, i2cirq_FinishNotified, Return, pushRetBuf
  <2> QED
    BY <1>2, <2>2
<1>4. CASE ServerStep
  <2>1. collect
    BY <1>2, <1>4 DEF ServerStep, ServerNext, allocate, initDone, publish, notify, ServerWake,
                      skipBus, checkBus, release, transportVars, retVars
  <2>2. retUsed' = [retUsed EXCEPT ![bus] = Dequeued(retUsed[bus])]
    BY <2>1 DEF collect, popRetBuf
  <2>3. retUsed'[b] = Dequeued(ring)
    BY <1>1, <1>2, <2>2
  <2>4. ~(Len(Dequeued(ring)) > Len(ring))
    BY <1>1 DEF Dequeued, Empty
  <2> QED
    BY <1>1, <2>3, <2>4
<1>5. CASE (\E c \in Bus : HwStep(c)) \/ UNCHANGED vars
  BY <1>2, <1>5 DEF HwStep, vars, transportVars, retVars
<1> QED
  BY <1>3, <1>4, <1>5 DEF Next

\* A request is reported as done only when the bus has seen all its operations, each
\* once and in order, in however many batches, and nothing else: for a program of
\* transactions to addresses of seven bits, where a batch ends once.
THEOREM SystemOkMeansDone ==
  ASSUME LATE_IRQ = FALSE, ProgramFormed
  PROVE  Spec => OkMeansDone
<1>1. ASSUME WorkInv, IrqInv, DoneInv, [Next]_vars,
             NEW b \in Bus, NEW state, state = ifState[b],
             Len(retUsed'[b]) > Len(retUsed[b]), retBuf'[state.current_ret].err = I2C_ERR_OK
      PROVE  Request(wire[b]) = reqBuf[state.current_req].body
  <2>1. CustodyInv /\ TypeInv /\ HwTypes /\ BufferTypes /\ DoneBus(b)
    BY <1>1 DEF WorkInv, TypeInv, DoneInv
  <2>2. Interrupted(b) /\ RequestOver(b) /\ Called("i2cirq", b)
    BY <1>1, <2>1, Returned DEF Interrupted
  <2>3. ~hw[b].running /\ state.current_req # NULL
    BY <1>1, <2>2, CallLeaves
  <2>4. i2cGetError(hw[b]) >= 0
    BY <1>1, <2>1, <2>2, WritesTyped DEF I2C_ERR_OK, I2C_ERR_TIMEOUT, I2C_ERR_NACK, I2C_ERR_NOREAD
  <2>5. ~hw[b].err /\ ~(i2cGetError(hw[b]) < 0)
    <3>1. PICK e \in -96 .. 0 : e = i2cGetError(hw[b]) /\ (hw[b].err => e < 0)
      BY <2>1, ErrorRange DEF HwTypes
    <3>2. ~(e < 0)
      BY <2>4, <3>1
    <3> QED
      BY <3>1, <3>2
  <2>6. state.remaining = 0
    BY <1>1, <2>2, <2>5 DEF RequestOver
  <2>7. PICK ops, n : Asks(b, ops) /\ After(ops, n, state) /\ Saw(b, ops, n)
    BY <1>1, <2>1, <2>3, <2>5 DEF DoneBus, Halted
  <2>8. ops \in Seq(Operation) /\ n = Len(ops)
    BY <2>6, <2>7 DEF Asks, Transaction, After, Remains
  <2>9. UpTo(ops, n) = ops
    BY <2>8, UpToGrows
  <2> QED
    BY <1>1, <2>7, <2>9 DEF Asks, Saw
<1>2. Init => WorkInv /\ IrqInv /\ DoneInv
  <2> SUFFICES ASSUME Init PROVE DoneInv
    BY WorkInit, IrqInit
  <2> QED
    BY DEF Init, DriverInit, Idle, DoneInv, DoneBus
<1>3. WorkInv /\ IrqInv /\ DoneInv /\ [Next]_vars => WorkInv' /\ IrqInv' /\ DoneInv'
  <2> SUFFICES ASSUME WorkInv, IrqInv, DoneInv, [Next]_vars PROVE IrqInv' /\ DoneInv'
    BY WorkNext
  <2>1. \A b \in Bus : DoneBus(b)'
    BY WorkNext, DoneNext
  <2>2. DoneInv'
    BY <2>1 DEF DoneInv, Bus
  <2> QED
    BY <2>2, IrqNext DEF WorkInv
<1>4. ASSUME WorkInv, IrqInv, DoneInv, [Next]_vars
      PROVE  \A b \in Bus :
               LET state == ifState[b]
               IN Len(retUsed'[b]) > Len(retUsed[b]) /\ retBuf'[state.current_ret].err = I2C_ERR_OK
                    => Request(wire[b]) = reqBuf[state.current_req].body
  BY <1>1, <1>4
<1> QED
  BY <1>2, <1>3, <1>4, PTL DEF OkMeansDone, Spec

=============================================================================
