--------------------------- MODULE I2cTypes_proofs ---------------------------
(***************************************************************************)
(* Proofs about the contents of the system's variables. Buffers, interface *)
(* states, registers and words hold what their declarations say; in        *)
(* particular no more bytes remain of a request than it has, so that       *)
(* i2cLoadTokens starts inside it. A queued request is one that the        *)
(* program asks for, and the list processor sends its address, but for one *)
(* bit that may stay in the register from boot or an earlier request.      *)
(***************************************************************************)
EXTENDS I2cService_proofs, I2cTokens_proofs

\* The registers of an interface: an error bit comes with the token it is about.
Registers ==
  [running : BOOLEAN, stalled : BOOLEAN, err : BOOLEAN, tok : Oc4Token, rd : Nat,
   addr : Byte, list : Seq(Oc4Token), wdata : Seq(Byte), ddr : {0, 1}, boot : Byte]

HwTypes ==
  /\ hw \in [Bus -> Registers]
  /\ \A b \in Bus : hw[b].err => hw[b].tok # OC4_I2C_TK_END

BufferTypes ==
  reqBuf \in [AllReqBufs -> Request_t] /\ retBuf \in [AllRetBufs -> Return_t]

\* An interface state: no more bytes remain than the request has.
IfState ==
  [current_req : AllReqBufs \cup {NULL}, current_ret : AllRetBufs \cup {NULL},
   remaining : Nat, notified : {0, 1}, ddr : {0, 1}]

StateTyped(st) ==
  /\ st \in IfState
  /\ st.current_req # NULL => st.remaining \in 0 .. Len(reqBuf[st.current_req].body)

StateTypes == \A b \in Bus : StateTyped(ifState[b])

WordTypes == driverWord \subseteq DriverChannel /\ serverWord \subseteq ServerChannel

PlaceTypes ==
  /\ cur \in 1 .. Len(Program) + 1
  /\ pc \in {"publish", "notify"} => cur <= Len(Program)
  /\ bus \in Bus
  /\ buf \in AllReqBufs \cup AllRetBufs \cup {NULL}

TypeInv == HwTypes /\ BufferTypes /\ StateTypes /\ WordTypes /\ PlaceTypes

LEMMA TypesInit == Init => TypeInv
<1> SUFFICES ASSUME Init PROVE TypeInv
  OBVIOUS
<1> USE DEF Init, i2cTransportInit, DriverInit, ServerInit
<1>0. <<>> \in Seq(Byte) /\ <<>> \in Seq(Oc4Token) /\ 0 \in Byte /\ 0 \in Oc4Token
  BY DEF Byte, Oc4Token
<1>1. HwTypes
  <2>1. \A boot \in BOOT_ADDR : HwInit(boot) \in Registers /\ ~HwInit(boot).err
    BY <1>0, BootAddrAssumption DEF HwInit, Registers
  <2>2. hw \in [Bus -> {HwInit(boot) : boot \in BOOT_ADDR}]
    OBVIOUS
  <2> QED
    BY <2>1, <2>2 DEF HwTypes
<1>2. BufferTypes
  BY <1>0 DEF BufferTypes, Request_t, Return_t
<1>3. StateTypes
  BY DEF StateTypes, StateTyped, IfState, Idle
<1>4. WordTypes
  BY DEF WordTypes
<1>5. PlaceTypes
  BY ProgramAssumption DEF PlaceTypes, Bus
<1> QED
  BY <1>1, <1>2, <1>3, <1>4, <1>5 DEF TypeInv

-----------------------------------------------------------------------------
\* Loading a batch.

LEMMA ResultTyped ==
  ASSUME NEW body \in Seq(Byte), NEW remaining \in 0 .. Len(body), NEW ddr \in {0, 1}
  PROVE  LoadBatch(body, remaining, ddr) \in
           [ok : BOOLEAN, list : Seq(Oc4Token), wdata : Seq(Byte), ddr : {0, 1},
            remaining : 0 .. Len(body)]
BY LoadBatchResult

LEMMA AddressTyped ==
  ASSUME NEW reg \in Byte, NEW addr \in Byte
  PROVE  slaveAddr(reg, addr) \in Byte
<1>1. addr % 64 \in 0 .. 63
  BY DEF Byte
<1> QED
  BY <1>1 DEF slaveAddr, Byte

LEMMA LoadTyped ==
  ASSUME NEW c \in Bus, NEW st, DOMAIN ifState = Bus, DOMAIN st = Fields,
         HwTypes, BufferTypes, StateTyped(st), st.current_req \in ReqBufs(c),
         i2cLoadTokens(c, st)
  PROVE  /\ HwTypes' /\ StateTyped(ifState'[c])
         /\ \A b \in Bus \ {c} : ifState'[b] = ifState[b] /\ hw'[b] = hw[b]
<1> DEFINE req == reqBuf[st.current_req]
           up(b)  == [st EXCEPT !.remaining = b.remaining, !.ddr = b.ddr]
           reg(b) == [hw EXCEPT ![c].addr = slaveAddr(@, req.addr),
                                ![c].list = b.list, ![c].wdata = b.wdata,
                                ![c].running = b.ok, ![c].stalled = FALSE]
<1>1. st.current_req \in AllReqBufs /\ st.current_req # NULL
  BY OwnBuffers, BufferSets
<1>2. req \in Request_t /\ req.body \in Seq(Byte) /\ req.addr \in Byte
  BY <1>1 DEF BufferTypes, Request_t
<1>3. st.remaining \in 0 .. Len(req.body) /\ st.ddr \in {0, 1} /\ st.notified \in {0, 1}
  BY <1>1 DEF StateTyped, IfState
<1>4. PICK b : b = LoadBatch(req.body, st.remaining, st.ddr)
  OBVIOUS
<1>5. b \in [ok : BOOLEAN, list : Seq(Oc4Token), wdata : Seq(Byte), ddr : {0, 1},
             remaining : 0 .. Len(req.body)]
  BY <1>2, <1>3, <1>4, ResultTyped
<1>6. \/ ifState' = [ifState EXCEPT ![c] = st] /\ hw' = [hw EXCEPT ![c].running = FALSE]
      \/ ifState' = [ifState EXCEPT ![c] = up(b)] /\ hw' = reg(b)
  BY <1>4, Zenon DEF i2cLoadTokens
<1>7. slaveAddr(hw[c].addr, req.addr) \in Byte
  BY <1>2, AddressTyped DEF HwTypes, Registers
<1> HIDE DEF req
<1>8. /\ ifState'[c] \in {st, up(b)}
      /\ \A x \in Bus \ {c} : ifState'[x] = ifState[x]
  BY <1>6
<1>9. /\ up(b).current_req = st.current_req /\ up(b).remaining = b.remaining
      /\ up(b).ddr = b.ddr /\ up(b).notified = st.notified
  BY DEF Fields
<1>10. StateTyped(ifState'[c])
  <2> HIDE DEF up
  <2>1. StateTyped(st)
    OBVIOUS
  <2>2. PICK n \in Nat : n = Len(req.body)
    BY <1>2
  <2>3. b.remaining \in 0 .. n /\ b.remaining \in Nat /\ b.ddr \in {0, 1}
    BY <1>5, <2>2
  <2>4. up(b) \in IfState
    BY <2>1, <2>3 DEF up, StateTyped, IfState
  <2>5. StateTyped(up(b))
    BY <1>9, <2>2, <2>3, <2>4 DEF StateTyped, req
  <2> QED
    BY <1>8, <2>1, <2>5
<1>11. HwTypes' /\ \A x \in Bus \ {c} : hw'[x] = hw[x]
  <2>1. CASE hw' = [hw EXCEPT ![c].running = FALSE]
    BY <2>1, ZenonT(40) DEF HwTypes, Registers
  <2>2. CASE hw' = reg(b)
    <3> DEFINE new == [hw[c] EXCEPT !.addr = slaveAddr(hw[c].addr, req.addr), !.list = b.list,
                                    !.wdata = b.wdata, !.running = b.ok, !.stalled = FALSE]
    <3>1. hw' = [hw EXCEPT ![c] = new]
      BY <2>2
    <3>2. hw[c] \in Registers
      BY DEF HwTypes
    <3>3. new \in Registers /\ new.err = hw[c].err /\ new.tok = hw[c].tok
      BY <1>5, <1>7, <3>2 DEF Registers
    <3> HIDE DEF new
    <3> QED
      BY <3>1, <3>3 DEF HwTypes
  <2> QED
    BY <1>6, <2>1, <2>2
<1> QED
  BY <1>8, <1>10, <1>11

-----------------------------------------------------------------------------
\* The server's steps.

LEMMA PlaceServer ==
  ASSUME CustodyInv, TypeInv, ServerNext
  PROVE  PlaceTypes'
<1>0. /\ cur \in 1 .. Len(Program) + 1 /\ bus \in Bus /\ Len(Program) \in Nat
      /\ pc \in {"publish", "notify"} => cur <= Len(Program)
      /\ buf \in AllReqBufs \cup AllRetBufs \cup {NULL}
  BY ProgramAssumption DEF TypeInv, PlaceTypes
<1>1. CASE initDone \/ ServerWake \/ skipBus \/ checkBus \/ release
  BY <1>0, <1>1 DEF PlaceTypes, initDone, ServerWake, skipBus, checkBus, release, NextBus, Bus,
                    AllReqBufs, AllRetBufs, ReqBufs, RetBufs, reqBase, retBase
<1>2. CASE publish
  BY <1>0, <1>2 DEF PlaceTypes, publish, AllReqBufs, AllRetBufs, ReqBufs, RetBufs, reqBase, retBase
<1>3. CASE notify
  <2>1. cur' = cur + 1 /\ pc' = "allocate" /\ pc = "notify" /\ bus' = bus /\ buf' = buf
    BY <1>3 DEF notify
  <2>2. cur' \in 1 .. Len(Program) + 1
    BY <1>0, <2>1
  <2> QED
    BY <1>0, <2>1, <2>2 DEF PlaceTypes, AllReqBufs, AllRetBufs, ReqBufs, RetBufs, reqBase, retBase
<1>4. CASE allocate
  <2>0. PICK c : c = Program[cur].bus
    OBVIOUS
  <2>1. c \in Bus /\ ~Empty(reqFree[c]) /\ buf' = Oldest(reqFree[c]) /\ cur <= Len(Program)
        /\ cur' = cur /\ bus' = bus
    BY <1>4, <2>0 DEF allocate, allocReqBuf_Refuses
  <2>2. PICK ring \in Seq(ReqBufs(c)) : ring = reqFree[c]
    BY <2>1 DEF CustodyInv, Custody, KeptReq, Kept
  <2>3. ring # <<>> => Head(ring) \in ReqBufs(c)
    OBVIOUS
  <2>4. buf' \in AllReqBufs
    BY <2>1, <2>2, <2>3, OwnBuffers DEF Empty, Oldest
  <2> QED
    BY <1>0, <2>1, <2>4 DEF PlaceTypes, AllReqBufs, AllRetBufs, ReqBufs, RetBufs, reqBase, retBase
<1>5. CASE collect
  <2>0. PICK c \in Bus : c = bus
    BY <1>0
  <2>1. buf' = Oldest(retUsed[c]) /\ cur' = cur /\ bus' = bus /\ pc' \in {"fault", "release"}
    BY <1>5, <2>0 DEF collect
  <2>2. PICK ring \in Seq(RetBufs(c)) : ring = retUsed[c]
    BY DEF CustodyInv, Custody, KeptRet, Kept
  <2>3. ring # <<>> => Head(ring) \in RetBufs(c)
    OBVIOUS
  <2>4. buf' \in AllRetBufs \cup {NULL}
    BY <2>1, <2>2, <2>3, OwnBuffers DEF Empty, Oldest
  <2> QED
    BY <1>0, <2>1, <2>4 DEF PlaceTypes, AllReqBufs, AllRetBufs, ReqBufs, RetBufs, reqBase, retBase
<1> QED
  BY <1>1, <1>2, <1>3, <1>4, <1>5 DEF ServerNext

\* A request that the server fills in is not one that the driver works on.
LEMMA FilledApart ==
  ASSUME CustodyInv, TypeInv, publish
  PROVE  /\ Program[cur] \in [bus : Int, client : Byte, addr : Byte, body : Seq(Byte)]
         /\ Program[cur].bus \in Bus /\ buf \in ReqBufs(Program[cur].bus)
         /\ \A b \in Bus : buf # ifState[b].current_req
<1>0. PICK r : r = Program[cur]
  OBVIOUS
<1>1. pc = "publish" /\ r.bus \in Bus
  BY <1>0 DEF publish, CustodyInv, ServerAt
<1>2. cur \in 1 .. Len(Program)
  BY <1>1, ProgramAssumption DEF TypeInv, PlaceTypes
<1>3. r \in [bus : Int, client : Byte, addr : Byte, body : Seq(Byte)]
  <2> DEFINE S == [bus : Int, client : 0 .. 255, addr : 0 .. 255, body : Seq(0 .. 255)]
  <2>1. Program \in Seq(S)
    BY ProgramAssumption
  <2> HIDE DEF S
  <2>2. Program[cur] \in S
    BY <1>2, <2>1
  <2> QED
    BY <1>0, <2>2 DEF S, Byte
<1>4. ServerReq(r.bus) = {buf}
  BY <1>0, <1>1 DEF ServerReq
<1>5. buf \in ReqBufs(r.bus)
  BY <1>1, <1>4 DEF CustodyInv, Custody, KeptReq, Kept
<1>6. ASSUME NEW b \in Bus PROVE buf # ifState[b].current_req
  <2>1. CASE b = r.bus
    <3>1. buf \notin DriverReq(b) /\ buf # NULL
      BY <1>1, <1>4, <1>5, <2>1, BufferSets DEF CustodyInv, Custody, KeptReq, Kept
    <3> QED
      BY <3>1 DEF DriverReq
  <2>2. CASE b # r.bus
    <3>1. ifState[b].current_req # NULL => ifState[b].current_req \in ReqBufs(b)
      BY DEF CustodyInv, Custody, KeptReq, Kept, DriverReq
    <3> QED
      BY <1>1, <1>5, <2>2, <3>1, BusesApart, BufferSets
  <2> QED
    BY <2>1, <2>2
<1> QED
  BY <1>0, <1>1, <1>3, <1>5, <1>6

LEMMA TypesServer ==
  ASSUME CustodyInv, TypeInv, UNCHANGED <<hwVars, driverVars>>, ServerNext
  PROVE  TypeInv'
<1>1. PlaceTypes'
  BY PlaceServer
<1>2. HwTypes'
  BY DEF TypeInv, HwTypes, hwVars
<1>3. WordTypes'
  <2>1. SERVER_NOTIFY_ID \in DriverChannel
    BY DEF DriverChannel, SERVER_NOTIFY_ID, IRQ_I2C_M3_TO
  <2>2. driverWord' \in {driverWord, driverWord \cup {SERVER_NOTIFY_ID}}
        /\ serverWord' \in {serverWord, {}}
    BY DEF ServerNext, allocate, initDone, publish, notify, ServerWake, skipBus, checkBus,
           collect, release, wordVars, notify_driver
  <2> QED
    BY <2>1, <2>2 DEF TypeInv, WordTypes
<1>4. ifState' = ifState
  BY DEF driverVars
<1>5. CASE publish
  <2>1. PICK r \in [bus : Int, client : Byte, addr : Byte, body : Seq(Byte)] : r = Program[cur]
    BY <1>5, FilledApart
  <2>2. /\ reqBuf' = [reqBuf EXCEPT ![buf] = [client |-> r.client, addr |-> r.addr, body |-> r.body]]
        /\ retBuf' = retBuf
    BY <1>5, <2>1 DEF publish, allocReqBuf_Fill, retVars
  <2>3. [client |-> r.client, addr |-> r.addr, body |-> r.body] \in Request_t
    BY DEF Request_t
  <2>4. BufferTypes'
    BY <2>2, <2>3 DEF TypeInv, BufferTypes, AllReqBufs, AllRetBufs, ReqBufs, RetBufs, reqBase, retBase
  <2>5. \A b \in Bus : reqBuf'[ifState[b].current_req] = reqBuf[ifState[b].current_req]
    BY <1>5, <2>2, FilledApart
  <2>6. StateTypes'
    BY <1>4, <2>5 DEF TypeInv, StateTypes, StateTyped
  <2> QED
    BY <1>1, <1>2, <1>3, <2>4, <2>6 DEF TypeInv
<1>6. CASE ~publish
  <2>1. reqBuf' = reqBuf /\ retBuf' = retBuf
    BY <1>6 DEF ServerNext, allocate, initDone, notify, ServerWake, skipBus, checkBus,
                collect, release, transportVars, reqVars, retVars
  <2>2. BufferTypes' /\ StateTypes'
    BY <1>4, <2>1 DEF TypeInv, BufferTypes, StateTypes, StateTyped, AllReqBufs, AllRetBufs,
                      ReqBufs, RetBufs, reqBase, retBase
  <2> QED
    BY <1>1, <1>2, <1>3, <2>2 DEF TypeInv
<1> QED
  BY <1>5, <1>6

-----------------------------------------------------------------------------
\* The driver's steps.

\* What an interrupt has the handler write.
LEMMA ErrorRange ==
  ASSUME NEW h \in Registers, h.err => h.tok # OC4_I2C_TK_END
  PROVE  /\ i2cGetError(h) \in -96 .. 0
         /\ h.err => i2cGetError(h) < 0 /\ i2cGetError(h) # -I2C_TK_ADDRR
         /\ ~h.err => i2cGetError(h) = 0
<1>1. h.tok \in 0 .. 6 /\ h.rd \in Nat /\ h.err \in BOOLEAN
  BY DEF Registers, Oc4Token
<1>2. (h.rd * 256) % 256 = 0
  <2>1. PICK n \in Nat : n = h.rd
    BY <1>1
  <2>2. (n * 256) % 256 = 0
    OBVIOUS
  <2> QED
    BY <2>1, <2>2
<1>3. PICK tok \in 0 .. 6 : tok = h.tok
  BY <1>1
<1>4. (tok * 16) % 256 = tok * 16
  OBVIOUS
<1>5. CASE h.err
  <2>1. tok # 0
    BY <1>3, <1>5 DEF OC4_I2C_TK_END
  <2>2. i2cGetError(h) = -(tok * 16)
    BY <1>3, <1>4, <1>5 DEF i2cGetError
  <2> QED
    BY <1>5, <2>1, <2>2 DEF I2C_TK_ADDRR
<1>6. CASE ~h.err
  BY <1>2, <1>6 DEF i2cGetError
<1> QED
  BY <1>1, <1>5, <1>6

LEMMA ReportedTyped ==
  ASSUME NEW ret \in Return_t, NEW err \in -96 .. 0, NEW timeout
  PROVE  /\ Reported(ret, err, timeout) \in Return_t
         /\ Reported(ret, err, timeout).err =
              IF err >= 0 THEN I2C_ERR_OK
              ELSE IF timeout THEN I2C_ERR_TIMEOUT
              ELSE IF err = -I2C_TK_ADDRR THEN I2C_ERR_NOREAD
              ELSE I2C_ERR_NACK
<1> DEFINE e == IF err >= 0 THEN I2C_ERR_OK
                ELSE IF timeout THEN I2C_ERR_TIMEOUT
                ELSE IF err = -I2C_TK_ADDRR THEN I2C_ERR_NOREAD
                ELSE I2C_ERR_NACK
<1>1. e \in 0 .. 3
  BY DEF I2C_ERR_OK, I2C_ERR_TIMEOUT, I2C_ERR_NACK, I2C_ERR_NOREAD
<1>2. (IF err < 0 THEN -err ELSE 0) \in Byte
  BY DEF Byte
<1>3. (IF err > 0 THEN err ELSE ret.data) \in Nat
  BY DEF Return_t
<1>4. Reported(ret, err, timeout) =
        [ret EXCEPT !.err = e, !.err_tk = IF err < 0 THEN -err ELSE 0,
                    !.data = IF err > 0 THEN err ELSE ret.data]
  BY Zenon DEF Reported
<1> HIDE DEF e
<1>5. Reported(ret, err, timeout) \in Return_t /\ Reported(ret, err, timeout).err = e
  BY <1>1, <1>2, <1>3, <1>4 DEF Return_t
<1> QED
  BY <1>5 DEF e

LEMMA WritesTyped ==
  ASSUME CustodyInv, HwTypes, BufferTypes, NEW c \in Bus, Interrupted(c)
  PROVE  /\ ifState[c].current_req \in ReqBufs(c) /\ ifState[c].current_ret \in RetBufs(c)
         /\ ifState[c].current_req # NULL /\ ifState[c].current_ret # NULL
         /\ retBuf' \in [AllRetBufs -> Return_t]
         /\ retBuf'[ifState[c].current_ret].err =
              IF i2cGetError(hw[c]) >= 0 THEN I2C_ERR_OK
              ELSE IF ThisCall.timeout THEN I2C_ERR_TIMEOUT
              ELSE IF i2cGetError(hw[c]) = -I2C_TK_ADDRR THEN I2C_ERR_NOREAD
              ELSE I2C_ERR_NACK
<1>1. PICK ret : ret = ifState[c].current_ret
  OBVIOUS
<1>2. PICK new : new = Reported(retBuf[ret], i2cGetError(hw[c]), ThisCall.timeout)
  OBVIOUS
<1>3. ret # NULL /\ retBuf' = [retBuf EXCEPT ![ret] = new]
  BY <1>1, <1>2 DEF Interrupted
<1>4. ifState[c].current_req # NULL
  BY <1>1, <1>3 DEF CustodyInv, Shape
<1>5. ifState[c].current_req \in ReqBufs(c) /\ ret \in RetBufs(c)
  BY <1>1, <1>3, <1>4 DEF CustodyInv, Custody, KeptReq, KeptRet, Kept, DriverReq, DriverRet
<1>6. ret \in AllRetBufs /\ retBuf[ret] \in Return_t
  BY <1>5, OwnBuffers DEF BufferTypes
<1>7. i2cGetError(hw[c]) \in -96 .. 0
  BY ErrorRange DEF HwTypes
<1>8. /\ new \in Return_t
      /\ new.err = IF i2cGetError(hw[c]) >= 0 THEN I2C_ERR_OK
                   ELSE IF ThisCall.timeout THEN I2C_ERR_TIMEOUT
                   ELSE IF i2cGetError(hw[c]) = -I2C_TK_ADDRR THEN I2C_ERR_NOREAD
                   ELSE I2C_ERR_NACK
  <2>1. PICK err \in -96 .. 0, old \in Return_t : err = i2cGetError(hw[c]) /\ old = retBuf[ret]
    BY <1>6, <1>7
  <2>0. PICK timeout : timeout = ThisCall.timeout
    OBVIOUS
  <2>2. new = Reported(old, err, timeout)
    BY <1>2, <2>0, <2>1
  <2>3. /\ Reported(old, err, timeout) \in Return_t
        /\ Reported(old, err, timeout).err =
             IF err >= 0 THEN I2C_ERR_OK
             ELSE IF timeout THEN I2C_ERR_TIMEOUT
             ELSE IF err = -I2C_TK_ADDRR THEN I2C_ERR_NOREAD
             ELSE I2C_ERR_NACK
    BY ReportedTyped
  <2> QED
    BY <2>0, <2>1, <2>2, <2>3
<1>9. retBuf' \in [AllRetBufs -> Return_t] /\ retBuf'[ret] = new
  BY <1>3, <1>6, <1>8 DEF BufferTypes
<1> QED
  BY <1>1, <1>3, <1>4, <1>5, <1>8, <1>9

\* The request that checkBuf begins.
LEMMA BegunTyped ==
  ASSUME CustodyInv, BufferTypes, NEW c \in Bus, StateTyped(ifState[c]), checkBuf_Start(c)
  PROVE  LET req == Oldest(reqUsed[c])
             ret == Oldest(retFree[c])
             st  == Begun(ifState[c], req, ret)
         IN /\ req \in ReqBufs(c) /\ req # NULL /\ ret \in RetBufs(c) /\ ret # NULL
            /\ DOMAIN st = Fields /\ StateTyped(st)
            /\ st.current_req = req /\ st.current_ret = ret /\ st.notified = 0
            /\ st.remaining = Len(reqBuf[req].body)
            /\ retBuf' \in [AllRetBufs -> Return_t]
<1>1. PICK req, ret : req = Oldest(reqUsed[c]) /\ ret = Oldest(retFree[c])
  OBVIOUS
<1>2. /\ reqUsed[c] # <<>> /\ ret # NULL
      /\ retBuf' = [retBuf EXCEPT ![ret] = Marked(@, reqBuf[req])]
  BY <1>1 DEF checkBuf_Start, reqBufEmpty, Empty
<1>3. req \in ReqBufs(c)
  <2>1. PICK ring \in Seq(ReqBufs(c)) : ring = reqUsed[c]
    BY DEF CustodyInv, Custody, KeptReq, Kept
  <2>2. ring # <<>> => Head(ring) \in ReqBufs(c)
    OBVIOUS
  <2> QED
    BY <1>1, <1>2, <2>1, <2>2 DEF Oldest, Empty
<1>4. ret \in RetBufs(c)
  <2>1. PICK ring \in Seq(RetBufs(c)) : ring = retFree[c]
    BY DEF CustodyInv, Custody, KeptRet, Kept
  <2>2. ring # <<>> => Head(ring) \in RetBufs(c)
    OBVIOUS
  <2> QED
    BY <1>1, <1>2, <2>1, <2>2 DEF Oldest, Empty
<1>5. req \in AllReqBufs /\ reqBuf[req] \in Request_t /\ ret \in AllRetBufs /\ retBuf[ret] \in Return_t
  BY <1>3, <1>4, OwnBuffers DEF BufferTypes
<1>6. PICK st : st = Begun(ifState[c], req, ret)
  OBVIOUS
<1>7. /\ DOMAIN st = Fields /\ st.current_req = req /\ st.current_ret = ret /\ st.notified = 0
      /\ st.remaining = Len(reqBuf[req].body) /\ st.ddr = ifState[c].ddr
  BY <1>6 DEF Begun, CustodyInv, Shape, Fields
<1>8. Len(reqBuf[req].body) \in Nat
  BY <1>5 DEF Request_t
<1>9. StateTyped(st)
  <2>1. PICK n \in Nat : n = Len(reqBuf[req].body)
    BY <1>8
  <2>2. n \in 0 .. n
    OBVIOUS
  <2> QED
    BY <1>3, <1>4, <1>6, <1>7, <2>1, <2>2, OwnBuffers DEF StateTyped, IfState, Begun
<1>10. Marked(retBuf[ret], reqBuf[req]) \in Return_t
  BY <1>5 DEF Marked, Return_t, Request_t
<1>11. retBuf' \in [AllRetBufs -> Return_t]
  BY <1>2, <1>5, <1>10 DEF BufferTypes
<1>12. req # NULL
  BY <1>3, BufferSets
<1> QED
  BY <1>1, <1>2, <1>3, <1>4, <1>6, <1>7, <1>9, <1>11, <1>12

LEMMA TypesDriver ==
  ASSUME CustodyInv, TypeInv, DriverStep
  PROVE  TypeInv'
<1>1. PlaceTypes'
  BY DEF TypeInv, PlaceTypes, DriverStep, serverVars, AllReqBufs, AllRetBufs, ReqBufs, RetBufs,
         reqBase, retBase
<1>2. WordTypes'
  <2>1. DRIVER_NOTIFY_ID \in ServerChannel
    BY DEF ServerChannel
  <2>2. driverWord' \in {driverWord, {}} /\ serverWord' \in {serverWord, serverWord \cup {DRIVER_NOTIFY_ID}}
    BY DEF DriverStep, DriverNext, DriverWake, DriverCall, checkBuf_Nothing, checkBuf_Busy,
           checkBuf_Start, checkBuf_NoRetBuf, i2cirq_NextBatch, i2cirq_Finish,
           i2cirq_FinishNotified, i2cirq_NoRequest, wordVars, Return, notify_server
  <2> QED
    BY <2>1, <2>2 DEF TypeInv, WordTypes
<1>3. reqBuf' = reqBuf
  BY DEF DriverStep, DriverNext, DriverWake, DriverCall, checkBuf_Nothing, checkBuf_Busy,
         checkBuf_Start, checkBuf_NoRetBuf, i2cirq_NextBatch, i2cirq_Finish,
         i2cirq_FinishNotified, i2cirq_NoRequest, transportVars, reqVars
<1>4. /\ DOMAIN ifState = Bus /\ \A b \in Bus : DOMAIN ifState[b] = Fields /\ StateTyped(ifState[b])
  BY DEF CustodyInv, Shape, TypeInv, StateTypes
<1>5. SUFFICES retBuf' \in [AllRetBufs -> Return_t] /\ HwTypes' /\ \A b \in Bus : StateTyped(ifState'[b])
  <2>1. BufferTypes' <=> reqBuf' \in [AllReqBufs -> Request_t] /\ retBuf' \in [AllRetBufs -> Return_t]
    BY DEF BufferTypes, AllReqBufs, AllRetBufs, ReqBufs, RetBufs, reqBase, retBase
  <2>2. (\A b \in Bus : StateTyped(ifState'[b])) => StateTypes'
    BY <1>3 DEF StateTypes, StateTyped
  <2> QED
    BY <1>1, <1>2, <1>3, <2>1, <2>2 DEF TypeInv, BufferTypes
<1>6. CASE DriverWake
  BY <1>4, <1>6 DEF DriverWake, transportVars, retVars, hwVars, TypeInv, BufferTypes, HwTypes
<1>7. ASSUME NEW c \in Bus, DriverCall(c)
      PROVE  retBuf' \in [AllRetBufs -> Return_t] /\ HwTypes' /\ \A b \in Bus : StateTyped(ifState'[b])
  <2>1. CASE checkBuf_Nothing(c) \/ checkBuf_Busy(c)
    <3>1. /\ retBuf' = retBuf /\ hw' = hw
          /\ \E n \in {0, 1} : ifState' = [ifState EXCEPT ![c] = [ifState[c] EXCEPT !.notified = n]]
      BY <2>1 DEF checkBuf_Nothing, checkBuf_Busy, Deferred, transportVars, retVars, hwVars
    <3>2. ASSUME NEW n \in {0, 1} PROVE StateTyped([ifState[c] EXCEPT !.notified = n])
      BY <1>4 DEF StateTyped, IfState, Fields
    <3>3. \A b \in Bus : StateTyped(ifState'[b])
      BY <1>4, <3>1, <3>2
    <3> QED
      BY <3>1, <3>3 DEF TypeInv, BufferTypes, HwTypes
  <2>2. CASE checkBuf_Start(c)
    <3>1. PICK st : st = Begun(ifState[c], Oldest(reqUsed[c]), Oldest(retFree[c]))
      OBVIOUS
    <3>2. /\ DOMAIN st = Fields /\ StateTyped(st) /\ st.current_req \in ReqBufs(c)
          /\ retBuf' \in [AllRetBufs -> Return_t]
      BY <1>4, <2>2, <3>1, BegunTyped DEF TypeInv
    <3>3. i2cLoadTokens(c, st)
      BY <2>2, <3>1 DEF checkBuf_Start
    <3>4. HwTypes' /\ StateTyped(ifState'[c]) /\ \A b \in Bus \ {c} : ifState'[b] = ifState[b]
      BY <1>4, <3>2, <3>3, LoadTyped DEF TypeInv
    <3> QED
      BY <1>4, <3>2, <3>4
  <2>3. CASE i2cirq_NextBatch(c)
    <3>1. Interrupted(c) /\ i2cLoadTokens(c, ifState[c])
      BY <2>3 DEF i2cirq_NextBatch
    <3>2. ifState[c].current_req \in ReqBufs(c) /\ retBuf' \in [AllRetBufs -> Return_t]
      BY <3>1, WritesTyped DEF TypeInv
    <3>3. HwTypes' /\ StateTyped(ifState'[c]) /\ \A b \in Bus \ {c} : ifState'[b] = ifState[b]
      BY <1>4, <3>1, <3>2, LoadTyped DEF TypeInv
    <3> QED
      BY <1>4, <3>2, <3>3
  <2>4. CASE i2cirq_Finish(c) \/ i2cirq_FinishNotified(c)
    <3>1. /\ Interrupted(c)
          /\ ifState' = [ifState EXCEPT ![c] = Reset(@)]
          /\ hw' = [hw EXCEPT ![c].running = FALSE]
      BY <2>4 DEF i2cirq_Finish, i2cirq_FinishNotified, Return
    <3>2. retBuf' \in [AllRetBufs -> Return_t]
      BY <3>1, WritesTyped DEF TypeInv
    <3>3. StateTyped(Reset(ifState[c]))
      BY <1>4 DEF StateTyped, IfState, Reset, Fields
    <3>4. \A b \in Bus : StateTyped(ifState'[b])
      BY <1>4, <3>1, <3>3
    <3>5. HwTypes'
      BY <3>1, ZenonT(40) DEF TypeInv, HwTypes, Registers
    <3> QED
      BY <3>2, <3>4, <3>5
  <2>5. CASE i2cirq_NoRequest(c)
    <3>1. retBuf' = retBuf /\ ifState' = ifState /\ hw' = [hw EXCEPT ![c].running = FALSE]
      BY <2>5 DEF i2cirq_NoRequest, transportVars, retVars
    <3>2. HwTypes'
      BY <3>1, ZenonT(40) DEF TypeInv, HwTypes, Registers
    <3> QED
      BY <1>4, <3>1, <3>2 DEF TypeInv, BufferTypes
  <2>6. CASE checkBuf_NoRetBuf(c)
    BY <1>4, <2>6 DEF checkBuf_NoRetBuf, retVars, hwVars, TypeInv, BufferTypes, HwTypes
  <2> QED
    BY <1>7, <2>1, <2>2, <2>3, <2>4, <2>5, <2>6 DEF DriverCall
<1> QED
  BY <1>6, <1>7 DEF DriverStep, DriverNext

-----------------------------------------------------------------------------
\* The list processors' steps.

LEMMA IrqChannel ==
  ASSUME NEW b \in Bus, NEW timeout \in BOOLEAN
  PROVE  irq(b, timeout) \in DriverChannel /\ irq(b, timeout) # SERVER_NOTIFY_ID
BY DEF irq, DriverChannel, SERVER_NOTIFY_ID, IRQ_I2C_M2, IRQ_I2C_M2_TO, IRQ_I2C_M3, IRQ_I2C_M3_TO

LEMMA TypesHw ==
  ASSUME TypeInv, NEW c \in Bus, HwStep(c)
  PROVE  TypeInv'
<1>1. /\ UNCHANGED <<reqBuf, retBuf, ifState, serverWord>> /\ UNCHANGED <<pc, cur, bus, buf>>
      /\ \E timeout \in BOOLEAN : driverWord' = driverWord \cup {irq(c, timeout)}
  <2>1. UNCHANGED <<reqBuf, retBuf, ifState, serverWord>> /\ UNCHANGED <<pc, cur, bus, buf>>
    BY DEF HwStep, transportVars, reqVars, retVars, driverVars, serverVars
  <2>2. \E timeout \in BOOLEAN : driverWord' = driverWord \cup {irq(c, timeout)}
    BY DEF HwStep, HwNext, HwDone, HwNack, HwTimeout, notify_driver
  <2> QED
    BY <2>1, <2>2
<1>2. BufferTypes' /\ StateTypes' /\ PlaceTypes'
  BY <1>1 DEF TypeInv, BufferTypes, StateTypes, StateTyped, PlaceTypes, AllReqBufs, AllRetBufs,
              ReqBufs, RetBufs, reqBase, retBase
<1>3. WordTypes'
  BY <1>1, IrqChannel DEF TypeInv, WordTypes
<1>4. hw \in [Bus -> Registers] /\ hw[c] \in Registers
  BY DEF TypeInv, HwTypes
<1>5. hw[c].list \in Seq(Oc4Token) /\ hw[c].wdata \in Seq(Byte) /\ hw[c].ddr \in {0, 1}
  BY <1>4 DEF Registers
<1>6. \A tok \in ToSet(Live(hw[c].list)) : tok \in Oc4Token \ {OC4_I2C_TK_END}
  <2>1. PICK q \in Seq(Oc4Token \ {OC4_I2C_TK_END}) : q = Live(hw[c].list)
    BY <1>5, LiveTokens
  <2> QED
    BY <2>1 DEF ToSet
<1>7. CASE HwDone(c)
  <2>1. PICK x : x = Execute(hw[c].list, hw[c].wdata, hw[c].ddr)
    OBVIOUS
  <2>2. x \in ExecState
    BY <1>5, <2>1, ExecuteResult
  <2>3. x.reads \in Nat /\ x.ddr \in {0, 1}
    BY <2>2 DEF ExecState
  <2> DEFINE new == [hw[c] EXCEPT !.running = FALSE, !.stalled = FALSE, !.err = FALSE,
                                  !.tok = OC4_I2C_TK_END, !.rd = x.reads, !.ddr = x.ddr]
  <2>4. hw' = [hw EXCEPT ![c] = new]
    <3>1. hw' = [hw EXCEPT ![c].running = FALSE, ![c].stalled = FALSE, ![c].err = FALSE,
                           ![c].tok = OC4_I2C_TK_END, ![c].rd = x.reads, ![c].ddr = x.ddr]
      BY <1>7, <2>1, Zenon DEF HwDone
    <3> QED
      BY <3>1
  <2>5. new \in Registers /\ ~new.err
    <3>1. OC4_I2C_TK_END \in Oc4Token
      BY DEF Oc4Token, OC4_I2C_TK_END
    <3>2. PICK reads \in Nat, ddr \in {0, 1} : reads = x.reads /\ ddr = x.ddr
      BY <2>3
    <3> QED
      BY <1>4, <3>1, <3>2 DEF Registers
  <2> HIDE DEF new
  <2>6. HwTypes'
    BY <1>4, <2>4, <2>5 DEF TypeInv, HwTypes
  <2> QED
    BY <1>2, <1>3, <2>6 DEF TypeInv
<1>8. CASE HwNack(c) \/ HwTimeout(c)
  <2>1. PICK tok \in Oc4Token \ {OC4_I2C_TK_END}, r \in BOOLEAN, stalled \in BOOLEAN :
          hw' = [hw EXCEPT ![c].running = r, ![c].stalled = stalled, ![c].err = TRUE, ![c].tok = tok]
    <3>1. CASE HwNack(c)
      BY <1>6, <3>1 DEF HwNack
    <3>2. CASE HwTimeout(c)
      BY <1>6, <3>2, LateIrqAssumption DEF HwTimeout
    <3> QED
      BY <1>8, <3>1, <3>2
  <2> DEFINE new == [hw[c] EXCEPT !.running = r, !.stalled = stalled, !.err = TRUE, !.tok = tok]
  <2>2. hw' = [hw EXCEPT ![c] = new]
    BY <2>1
  <2>3. new \in Registers /\ new.tok # OC4_I2C_TK_END
    BY <1>4 DEF Registers
  <2> HIDE DEF new
  <2>4. HwTypes'
    BY <1>4, <2>2, <2>3 DEF TypeInv, HwTypes
  <2> QED
    BY <1>2, <1>3, <2>4 DEF TypeInv
<1> QED
  BY <1>7, <1>8 DEF HwStep, HwNext

-----------------------------------------------------------------------------
\* The theorem.

LEMMA TypesNext == CustodyInv /\ TypeInv /\ [Next]_vars => TypeInv'
<1> SUFFICES ASSUME CustodyInv, TypeInv, [Next]_vars PROVE TypeInv'
  OBVIOUS
<1>1. CASE DriverStep
  BY <1>1, TypesDriver
<1>2. CASE ServerStep
  BY <1>2, TypesServer DEF ServerStep
<1>3. CASE \E b \in Bus : HwStep(b)
  BY <1>3, TypesHw
<1>4. CASE UNCHANGED vars
  <2>1. UNCHANGED <<reqBuf, retBuf, ifState, hw, driverWord, serverWord, pc, cur, bus, buf>>
    BY <1>4 DEF vars, transportVars, reqVars, retVars, hwVars, wordVars, driverVars, serverVars
  <2> QED
    BY <2>1 DEF TypeInv, HwTypes, BufferTypes, StateTypes, StateTyped, WordTypes, PlaceTypes,
                AllReqBufs, AllRetBufs, ReqBufs, RetBufs, reqBase, retBase
<1> QED
  BY <1>1, <1>2, <1>3, <1>4 DEF Next

LEMMA TypesAlways == Spec => [](CustodyInv /\ TypeInv)
<1>1. CustodyInv /\ TypeInv /\ [Next]_vars => CustodyInv' /\ TypeInv'
  BY CustodyNext, TypesNext
<1> QED
  BY <1>1, CustodyInit, TypesInit, PTL DEF Spec

\* Every variable of the system holds what its declaration says, and every pointer a
\* buffer of the right kind and bus, or null: for any program of requests, whatever
\* bytes they are made of, and late interrupts or not.
THEOREM SystemTypeOK == Spec => []TypeOK
<1>1. ASSUME CustodyInv, TypeInv PROVE TypeOK
  <2>1. TransportTypeOK
    BY <1>1 DEF CustodyInv, Shape, Custody, KeptReq, KeptRet, Kept, TypeInv, BufferTypes,
                TransportTypeOK
  <2>2. ASSUME NEW b \in Bus PROVE ifState[b] \in State_t(b)
    <3>1. /\ ifState[b].current_req \in ReqBufs(b) \cup {NULL}
          /\ ifState[b].current_ret \in RetBufs(b) \cup {NULL}
      BY <1>1 DEF CustodyInv, Custody, KeptReq, KeptRet, Kept, DriverReq, DriverRet
    <3>2. StateTyped(ifState[b])
      BY <1>1 DEF TypeInv, StateTypes
    <3> QED
      BY <3>1, <3>2 DEF StateTyped, IfState, State_t
  <2> QED
    BY <1>1, <2>1, <2>2 DEF CustodyInv, Shape, ServerAt, TypeInv, WordTypes, PlaceTypes, TypeOK
<1> QED
  BY <1>1, TypesAlways, PTL

-----------------------------------------------------------------------------
\* What is queued is what the program asks for.

\* The request buffers that have been published and not yet given back.
Queued(b) == ToSet(reqUsed[b]) \cup DriverReq(b)

ContentInv == \A b \in Bus : \A x \in Queued(b) : reqBuf[x] \in Wanted(b)

LEMMA ContentStays ==
  ASSUME ContentInv, reqBuf' = reqBuf, \A b \in Bus : Queued(b)' \subseteq Queued(b)
  PROVE  ContentInv'
BY DEF ContentInv, Wanted

LEMMA ContentInit == Init => ContentInv
<1> SUFFICES ASSUME Init, NEW b \in Bus PROVE Queued(b) = {}
  BY DEF ContentInv
<1> QED
  BY DEF Init, i2cTransportInit, DriverInit, Idle, Queued, DriverReq, ToSet

LEMMA ContentPublish ==
  ASSUME CustodyInv, TypeInv, ContentInv, UNCHANGED ifState, publish
  PROVE  ContentInv'
<1>1. PICK r \in [bus : Int, client : Byte, addr : Byte, body : Seq(Byte)] : r = Program[cur]
  BY FilledApart
<1>2. PICK x : x = buf
  OBVIOUS
<1>3. /\ r.bus \in Bus /\ x \in ReqBufs(r.bus) /\ x \in AllReqBufs
      /\ \A b \in Bus : x # ifState[b].current_req
  BY <1>1, <1>2, FilledApart, OwnBuffers
<1>4. PICK new : new = [client |-> r.client, addr |-> r.addr, body |-> r.body]
  OBVIOUS
<1>5. reqBuf' = [reqBuf EXCEPT ![x] = new]
      /\ reqUsed' = [reqUsed EXCEPT ![r.bus] = Enqueued(reqUsed[r.bus], x)]
  BY <1>1, <1>2, <1>4 DEF publish, allocReqBuf_Fill, allocReqBuf_Queue
<1>6. new \in Wanted(r.bus)
  <2>1. cur \in DOMAIN Program
    <3>1. pc = "publish"
      BY DEF publish
    <3>2. cur \in 1 .. Len(Program) /\ DOMAIN Program = 1 .. Len(Program)
      BY <3>1, ProgramAssumption DEF TypeInv, PlaceTypes
    <3> QED
      BY <3>2
  <2> QED
    BY <1>1, <1>4, <2>1 DEF Wanted
<1>7. DOMAIN reqUsed = Bus /\ DOMAIN ifState = Bus /\ reqBuf \in [AllReqBufs -> Request_t]
      /\ \A b \in Bus : reqUsed[b] \in Seq(ReqBufs(b))
  BY DEF CustodyInv, Shape, Custody, KeptReq, Kept, TypeInv, BufferTypes
<1>8. ASSUME NEW b \in Bus, NEW y \in Queued(b)' PROVE reqBuf'[y] \in Wanted(b)
  <2>1. \/ b = r.bus /\ y = x
        \/ y \in Queued(b) /\ (b # r.bus \/ y # x)
    <3>1. y \in ToSet(reqUsed'[b]) \/ y \in DriverReq(b)
      BY <1>8 DEF Queued, DriverReq
    <3>2. CASE b = r.bus
      <4>1. reqUsed'[b] = Enqueued(reqUsed[b], x)
        BY <1>5, <1>7, <3>2
      <4>2. PICK ring \in Seq(ReqBufs(b)) : ring = reqUsed[b]
        BY <1>7
      <4>3. ToSet(Enqueued(ring, x)) \subseteq ToSet(ring) \cup {x}
        BY <1>3, <3>2, <4>2 DEF Enqueued, ToSet
      <4> QED
        BY <3>1, <3>2, <4>1, <4>2, <4>3 DEF Queued
    <3>3. CASE b # r.bus
      BY <1>5, <1>7, <3>1, <3>3 DEF Queued
    <3> QED
      BY <3>2, <3>3
  <2>2. CASE b = r.bus /\ y = x
    BY <1>3, <1>5, <1>6, <1>7, <2>2
  <2>3. CASE y \in Queued(b) /\ y # x
    BY <1>5, <1>7, <2>3 DEF ContentInv
  <2>4. CASE y \in Queued(b) /\ b # r.bus
    <3>1. y \in ReqBufs(b)
      BY <1>7, <2>4 DEF CustodyInv, Custody, KeptReq, Kept, Queued, ToSet
    <3>2. y # x
      BY <1>3, <2>4, <3>1, BusesApart
    <3> QED
      BY <2>4, <3>2, <2>3
  <2> QED
    BY <2>1, <2>2, <2>3, <2>4
<1> QED
  BY <1>8 DEF ContentInv, Wanted

LEMMA ContentServer ==
  ASSUME CustodyInv, TypeInv, ContentInv, ServerStep
  PROVE  ContentInv'
<1>1. UNCHANGED ifState
  BY DEF ServerStep, driverVars
<1>2. CASE publish
  BY <1>1, <1>2, ContentPublish
<1>3. CASE ~publish
  <2>1. reqBuf' = reqBuf /\ reqUsed' = reqUsed
    BY <1>3 DEF ServerStep, ServerNext, allocate, initDone, notify, ServerWake, skipBus,
                checkBus, collect, release, transportVars, reqVars, retVars
  <2> QED
    BY <1>1, <2>1, ContentStays DEF Queued, DriverReq
<1> QED
  BY <1>2, <1>3

\* The driver takes requests off the used ring, works on them and gives them back.
LEMMA QueuedCall ==
  ASSUME CustodyInv, TypeInv, NEW c \in Bus, DriverCall(c), NEW b \in Bus
  PROVE  Queued(b)' \subseteq Queued(b)
<1>1. /\ DOMAIN ifState = Bus /\ DOMAIN reqUsed = Bus /\ DOMAIN ifState[c] = Fields
      /\ \A x \in Bus : reqUsed[x] \in Seq(ReqBufs(x)) /\ IsInjective(reqUsed[x])
  BY DEF CustodyInv, Shape, Custody, KeptReq, Kept
<1>2. CASE checkBuf_Start(c)
  <2>1. PICK st, req : /\ req = Oldest(reqUsed[c])
                       /\ st = Begun(ifState[c], req, Oldest(retFree[c]))
    OBVIOUS
  <2>2. DOMAIN st = Fields /\ st.current_req = req /\ req \in ReqBufs(c)
    BY <1>2, <2>1, BegunTyped DEF TypeInv, StateTypes
  <2>3. i2cLoadTokens(c, st) /\ popReqBuf(c) /\ ~Empty(reqUsed[c])
    BY <1>2, <2>1 DEF checkBuf_Start, reqBufEmpty
  <2>4. ifState'[c].current_req = req /\ \A x \in Bus \ {c} : ifState'[x] = ifState[x]
    BY <1>1, <2>2, <2>3, LoadKeepsPointers
  <2>5. PICK ring \in Seq(ReqBufs(c)) : ring = reqUsed[c] /\ IsInjective(ring)
    BY <1>1
  <2>6. Oldest(ring) \in ToSet(ring) /\ ToSet(Dequeued(ring)) \subseteq ToSet(ring)
    BY <2>3, <2>5, DequeuedRing
  <2>7. reqUsed' = [reqUsed EXCEPT ![c] = Dequeued(ring)]
    BY <2>3, <2>5 DEF popReqBuf
  <2> QED
    BY <1>1, <2>1, <2>4, <2>5, <2>6, <2>7 DEF Queued, DriverReq
<1>3. CASE checkBuf_NoRetBuf(c)
  <2>1. popReqBuf(c) /\ ~Empty(reqUsed[c]) /\ ifState' = ifState
    BY <1>3 DEF checkBuf_NoRetBuf, reqBufEmpty
  <2>2. PICK ring \in Seq(ReqBufs(c)) : ring = reqUsed[c] /\ IsInjective(ring)
    BY <1>1
  <2>3. ToSet(Dequeued(ring)) \subseteq ToSet(ring)
    BY <2>1, <2>2, DequeuedRing
  <2> QED
    BY <1>1, <2>1, <2>2, <2>3 DEF Queued, DriverReq, popReqBuf
<1>4. CASE checkBuf_Nothing(c) \/ checkBuf_Busy(c)
  BY <1>1, <1>4 DEF checkBuf_Nothing, checkBuf_Busy, Deferred, transportVars, reqVars, Queued,
                    DriverReq, Fields
<1>5. CASE i2cirq_NextBatch(c)
  <2>1. i2cLoadTokens(c, ifState[c]) /\ reqUsed' = reqUsed
    BY <1>5 DEF i2cirq_NextBatch, reqVars
  <2>2. /\ ifState'[c].current_req = ifState[c].current_req
        /\ \A x \in Bus \ {c} : ifState'[x] = ifState[x]
    BY <1>1, <2>1, LoadKeepsPointers
  <2> QED
    BY <2>1, <2>2 DEF Queued, DriverReq
<1>6. CASE i2cirq_Finish(c) \/ i2cirq_FinishNotified(c)
  <2>1. reqUsed' = reqUsed /\ ifState' = [ifState EXCEPT ![c] = Reset(ifState[c])]
    BY <1>6 DEF i2cirq_Finish, i2cirq_FinishNotified, Return
  <2>2. Reset(ifState[c]).current_req = NULL
    BY <1>1 DEF Reset, Fields
  <2> QED
    BY <1>1, <2>1, <2>2 DEF Queued, DriverReq
<1>7. CASE i2cirq_NoRequest(c)
  BY <1>7 DEF i2cirq_NoRequest, transportVars, reqVars, Queued, DriverReq
<1> QED
  BY <1>2, <1>3, <1>4, <1>5, <1>6, <1>7 DEF DriverCall

LEMMA DriverReads ==
  ASSUME DriverStep
  PROVE  reqBuf' = reqBuf
BY DEF DriverStep, DriverNext, DriverWake, DriverCall, checkBuf_Nothing, checkBuf_Busy,
       checkBuf_Start, checkBuf_NoRetBuf, i2cirq_NextBatch, i2cirq_Finish,
       i2cirq_FinishNotified, i2cirq_NoRequest, transportVars, reqVars

LEMMA ContentNext == CustodyInv /\ TypeInv /\ ContentInv /\ [Next]_vars => ContentInv'
<1> SUFFICES ASSUME CustodyInv, TypeInv, ContentInv, [Next]_vars PROVE ContentInv'
  OBVIOUS
<1>1. CASE DriverStep
  <2>1. CASE DriverWake
    BY <2>1, ContentStays DEF DriverWake, transportVars, reqVars, Queued, DriverReq
  <2>2. ASSUME NEW c \in Bus, DriverCall(c) PROVE ContentInv'
    BY <1>1, <2>2, QueuedCall, DriverReads, ContentStays
  <2> QED
    BY <1>1, <2>1, <2>2 DEF DriverStep, DriverNext
<1>2. CASE ServerStep
  BY <1>2, ContentServer
<1>3. CASE (\E b \in Bus : HwStep(b)) \/ UNCHANGED vars
  <2>1. UNCHANGED <<reqBuf, reqUsed, ifState>>
    BY <1>3 DEF HwStep, vars, transportVars, reqVars, driverVars
  <2> QED
    BY <2>1, ContentStays DEF Queued, DriverReq
<1> QED
  BY <1>1, <1>2, <1>3 DEF Next

LEMMA ContentAlways == Spec => [](CustodyInv /\ TypeInv /\ ContentInv)
<1>1. CustodyInv /\ TypeInv /\ ContentInv /\ [Next]_vars => CustodyInv' /\ TypeInv' /\ ContentInv'
  BY CustodyNext, TypesNext, ContentNext
<1> QED
  BY <1>1, CustodyInit, TypesInit, ContentInit, PTL DEF Spec

-----------------------------------------------------------------------------
\* The address register. It is changed in place, and only its top bit may stay from
\* what was there: from the boot loader, or from an earlier request of the bus.

\* The top bit may have been set before the present request of bus b.
Old(b) == hw[b].boot >= 128 \/ \E a \in Answered(b) : a.addr \in 64 .. 127

\* What the register sends for a request to addr.
Sent(h, addr, old) == Target(h) = addr \/ (addr < 64 /\ Target(h) = addr + 64 /\ old)

Addressed(b) ==
  LET req == ifState[b].current_req
  IN /\ hw[b].addr >= 128 => Old(b) \/ (req # NULL /\ reqBuf[req].addr \in 64 .. 127)
     /\ hw[b].running => req # NULL /\ Sent(hw[b], reqBuf[req].addr, Old(b))

Collected == DOMAIN collected = Bus /\ \A b \in Bus : collected[b] \in Seq(Return_t)

AddressInv == Marks /\ Collected /\ \A b \in Bus : Addressed(b)

LEMMA AddressInit == Init => AddressInv
<1> SUFFICES ASSUME Init PROVE AddressInv
  OBVIOUS
<1>1. Marks
  BY DEF Init, DriverInit, Idle, Marks
<1>2. ASSUME NEW b \in Bus PROVE Addressed(b)
  <2>1. PICK boot : hw[b] = HwInit(boot)
    BY DEF Init, DriverInit
  <2>2. hw[b].addr = hw[b].boot /\ ~hw[b].running
    BY <2>1 DEF HwInit
  <2> QED
    BY <2>2 DEF Addressed, Old
<1>3. Collected
  <2>1. <<>> \in Seq(Return_t)
    OBVIOUS
  <2> QED
    BY <2>1 DEF Init, ServerInit, Collected
<1> QED
  BY <1>1, <1>2, <1>3 DEF AddressInv

\* Seven bits of address, one bit up, and the top bit of what was there.
LEMMA SlaveAddr ==
  ASSUME NEW reg \in Byte, NEW addr \in 0 .. 127
  PROVE  /\ \/ slaveAddr(reg, addr) \div 2 = addr
            \/ addr < 64 /\ reg >= 128 /\ slaveAddr(reg, addr) \div 2 = addr + 64
         /\ slaveAddr(reg, addr) >= 128 => reg >= 128 \/ addr >= 64
<1>1. CASE addr >= 64
  <2>1. addr % 64 = addr - 64
    BY <1>1
  <2>2. slaveAddr(reg, addr) = 2 * addr
    BY <1>1, <2>1 DEF slaveAddr
  <2> QED
    BY <1>1, <2>2
<1>2. CASE addr < 64 /\ ~(reg >= 128)
  <2>1. addr % 64 = addr
    BY <1>2
  <2>2. slaveAddr(reg, addr) = 2 * addr
    BY <1>2, <2>1 DEF slaveAddr
  <2> QED
    BY <1>2, <2>2
<1>3. CASE addr < 64 /\ reg >= 128
  <2>1. addr % 64 = addr
    BY <1>3
  <2>2. slaveAddr(reg, addr) = 2 * (addr + 64)
    BY <1>3, <2>1 DEF slaveAddr
  <2> QED
    BY <1>3, <2>2
<1> QED
  BY <1>1, <1>2, <1>3

-----------------------------------------------------------------------------
\* The answers of a bus only become more.

\* A step that moves no answer and writes to no buffer that holds one.
LEMMA AnswersKept ==
  ASSUME NEW b \in Bus, collected' = collected, ToSet(retUsed[b]) \subseteq ToSet(retUsed'[b]),
         \A x \in ToSet(retUsed[b]) : retBuf'[x] = retBuf[x]
  PROVE  Answered(b) \subseteq Answered(b)'
BY DEF Answered

\* What the lemmas about the handler say of the ring's positions, of its buffers.
LEMMA RingOfAnswers ==
  ASSUME CustodyInv,
         \A b \in Bus, k \in Nat :
           k \in DOMAIN retUsed[b] => retBuf'[retUsed[b][k]] = retBuf[retUsed[b][k]]
  PROVE  \A b \in Bus : \A x \in ToSet(retUsed[b]) : retBuf'[x] = retBuf[x]
<1>1. \A b \in Bus : DOMAIN retUsed[b] \subseteq Nat
  BY WaitingFacts
<1> QED
  BY <1>1 DEF ToSet

LEMMA TypedBuffers == ASSUME BufferTypes PROVE Buffers
<1>1. \A m \in Return_t : DOMAIN m = RetFields
  BY DEF Return_t, RetFields
<1> QED
  BY <1>1 DEF BufferTypes, Buffers

\* A return that the server takes was queued, and is kept among the collected ones.
LEMMA AnswersCollect ==
  ASSUME CustodyInv, BufferTypes, Collected, collect
  PROVE  Collected' /\ \A b \in Bus : Answered(b) \subseteq Answered(b)'
<1>1. PICK c : c = bus
  OBVIOUS
<1>2. /\ c \in Bus /\ DOMAIN retUsed = Bus /\ retBuf' = retBuf /\ ~Empty(retUsed[c])
      /\ DOMAIN collected = Bus /\ \A b \in Bus : collected[b] \in Seq(Return_t)
  BY <1>1 DEF collect, CustodyInv, Shape, ServerAt, Collected
<1>3. PICK ring \in Seq(RetBufs(c)) : ring = retUsed[c] /\ IsInjective(ring)
  BY <1>2 DEF CustodyInv, Custody, KeptRet, Kept
<1>4. PICK old \in Seq(Return_t) : old = collected[c]
  BY <1>2
<1>5. PICK ret : ret = Oldest(ring)
  OBVIOUS
<1>6. ret \in RetBufs(c) /\ ToSet(Dequeued(ring)) = ToSet(ring) \ {ret}
  BY <1>2, <1>3, <1>5, DequeuedRing
<1>7. ret # NULL /\ retBuf[ret] \in Return_t
  BY <1>2, <1>6, BufferSets, OwnBuffers DEF BufferTypes
<1>8. PICK m \in Return_t : m = retBuf[ret]
  BY <1>7
<1>9. /\ retUsed' = [retUsed EXCEPT ![c] = Dequeued(ring)]
      /\ collected' = [collected EXCEPT ![c] = Append(old, m)]
  BY <1>1, <1>3, <1>4, <1>5, <1>7, <1>8 DEF collect, popRetBuf
<1>10. ToSet(old) \cup {m} \subseteq ToSet(Append(old, m)) /\ Append(old, m) \in Seq(Return_t)
  <2>1. /\ Append(old, m) \in Seq(Return_t) /\ Len(Append(old, m)) = Len(old) + 1
        /\ Append(old, m)[Len(old) + 1] = m
        /\ \A k \in 1 .. Len(old) : Append(old, m)[k] = old[k]
    OBVIOUS
  <2>2. /\ DOMAIN Append(old, m) = 1 .. Len(old) + 1 /\ DOMAIN old = 1 .. Len(old)
        /\ Len(old) \in Nat
    BY <2>1
  <2> QED
    BY <2>1, <2>2 DEF ToSet
<1>11. Collected'
  BY <1>2, <1>9, <1>10 DEF Collected
<1>12. ASSUME NEW b \in Bus PROVE Answered(b) \subseteq Answered(b)'
  <2>1. CASE b = c
    <3>1. retUsed'[c] = Dequeued(ring) /\ collected'[c] = Append(old, m)
      BY <1>2, <1>9
    <3> QED
      BY <1>2, <1>3, <1>4, <1>6, <1>8, <1>10, <2>1, <3>1 DEF Answered
  <2>2. CASE b # c
    BY <1>2, <1>9, <2>2 DEF Answered
  <2> QED
    BY <2>1, <2>2
<1> QED
  BY <1>11, <1>12

-----------------------------------------------------------------------------
\* The driver's calls.

\* Nothing is loaded.
LEMMA AddressKept ==
  ASSUME NEW b \in Bus, Addressed(b), Answered(b) \subseteq Answered(b)',
         hw'[b].boot = hw[b].boot, hw'[b].addr = hw[b].addr, hw'[b].running => hw[b].running,
         ifState'[b].current_req = ifState[b].current_req,
         ifState[b].current_req # NULL =>
           reqBuf'[ifState[b].current_req] = reqBuf[ifState[b].current_req]
  PROVE  Addressed(b)'
<1>1. Old(b) => Old(b)'
  BY DEF Old
<1>2. Target(hw'[b]) = Target(hw[b])
  BY DEF Target
<1> QED
  BY <1>1, <1>2 DEF Addressed, Sent

LEMMA AddressLoad ==
  ASSUME NEW c \in Bus, NEW st, DOMAIN ifState = Bus, DOMAIN st = Fields,
         HwTypes, BufferTypes, StateTyped(st), st.current_req \in ReqBufs(c),
         i2cLoadTokens(c, st), reqBuf' = reqBuf, Answered(c) \subseteq Answered(c)',
         Addressed(c), ifState[c].current_req \in {NULL, st.current_req}
  PROVE  Addressed(c)'
<1>1. PICK r : r = reqBuf[st.current_req]
  OBVIOUS
<1>2. r.addr \in Byte /\ hw[c] \in Registers /\ hw \in [Bus -> Registers]
      /\ hw[c].addr \in Byte /\ st.current_req # NULL
  BY <1>1, OwnBuffers, BufferSets DEF BufferTypes, Request_t, HwTypes, Registers
<1>3. ifState'[c].current_req = st.current_req
  BY LoadKeepsPointers
<1>4. hw[c].addr >= 128 => Old(c) \/ r.addr \in 64 .. 127
  BY <1>1 DEF Addressed
<1>5. CASE r.addr > 127
  <2>1. hw' = [hw EXCEPT ![c].running = FALSE]
    BY <1>1, <1>5 DEF i2cLoadTokens
  <2>2. hw'[c].addr = hw[c].addr /\ hw'[c].boot = hw[c].boot /\ ~hw'[c].running
    BY <1>2, <2>1 DEF Registers
  <2> QED
    BY <1>1, <1>2, <1>3, <1>4, <2>2 DEF Addressed, Old
<1>6. CASE ~(r.addr > 127)
  <2>1. PICK new : new = slaveAddr(hw[c].addr, r.addr)
    OBVIOUS
  <2>2. hw'[c].addr = new /\ hw'[c].boot = hw[c].boot
    <3>1. PICK b : b = LoadBatch(r.body, st.remaining, st.ddr)
      OBVIOUS
    <3>2. hw' = [hw EXCEPT ![c].addr = new, ![c].list = b.list, ![c].wdata = b.wdata,
                           ![c].running = b.ok, ![c].stalled = FALSE]
      BY <1>1, <1>6, <2>1, <3>1, Zenon DEF i2cLoadTokens
    <3> DEFINE h == [hw[c] EXCEPT !.addr = new, !.list = b.list, !.wdata = b.wdata,
                                  !.running = b.ok, !.stalled = FALSE]
    <3>3. hw' = [hw EXCEPT ![c] = h]
      BY <3>2
    <3>4. h.addr = new /\ h.boot = hw[c].boot
      BY <1>2 DEF Registers
    <3> HIDE DEF h
    <3> QED
      BY <1>2, <3>3, <3>4
  <2>3. Old(c) => Old(c)'
    BY <2>2 DEF Old
  <2>4. PICK reg \in Byte, addr \in 0 .. 127 : reg = hw[c].addr /\ addr = r.addr
    <3>1. PICK a \in 0 .. 255 : a = r.addr
      BY <1>2 DEF Byte
    <3>2. a \in 0 .. 127
      BY <1>6, <3>1
    <3> QED
      BY <1>2, <3>1, <3>2
  <2>5. /\ new \div 2 = addr \/ (addr < 64 /\ reg >= 128 /\ new \div 2 = addr + 64)
        /\ new >= 128 => reg >= 128 \/ addr >= 64
    BY <2>1, <2>4, SlaveAddr
  <2>6. addr < 64 /\ reg >= 128 => Old(c)
    BY <1>4, <2>4
  <2>7. Sent(hw'[c], addr, Old(c)')
    BY <2>2, <2>3, <2>5, <2>6 DEF Sent, Target
  <2>8. new >= 128 => Old(c)' \/ addr \in 64 .. 127
    BY <1>4, <2>3, <2>4, <2>5
  <2> QED
    BY <1>1, <1>2, <1>3, <2>2, <2>4, <2>7, <2>8 DEF Addressed
<1> QED
  BY <1>5, <1>6

LEMMA AddressStart ==
  ASSUME CustodyInv, TypeInv, AddressInv, UNCHANGED <<reqBuf, serverVars>>,
         NEW c \in Bus, checkBuf_Start(c)
  PROVE  Marks' /\ \A b \in Bus : Addressed(b)'
<1>1. PICK req, ret, st : /\ req = Oldest(reqUsed[c]) /\ ret = Oldest(retFree[c])
                          /\ st = Begun(ifState[c], req, ret)
  OBVIOUS
<1>2. PICK m : m = Marked(retBuf[ret], reqBuf[req])
  OBVIOUS
<1>3. /\ DOMAIN ifState = Bus /\ StateTyped(ifState[c])
      /\ HwTypes /\ BufferTypes /\ Buffers /\ Marks /\ Addressed(c)
  BY TypedBuffers DEF CustodyInv, Shape, TypeInv, StateTypes, AddressInv
<1>4. /\ DOMAIN st = Fields /\ StateTyped(st) /\ st.current_req = req /\ st.current_ret = ret
      /\ req \in ReqBufs(c) /\ ret \in RetBufs(c)
  BY <1>1, <1>3, BegunTyped
<1>5. /\ i2cLoadTokens(c, st) /\ ifState[c].current_req = NULL /\ retUsed' = retUsed
      /\ retBuf' = [retBuf EXCEPT ![ret] = m] /\ collected' = collected /\ ~Empty(retFree[c])
  BY <1>1, <1>2 DEF checkBuf_Start, Busy, serverVars, Oldest
<1>6. \A k \in DOMAIN retUsed[c] : retUsed[c][k] # ret
  <2>1. retFree[c] \in Seq(RetBufs(c)) /\ IsInjective(retFree[c])
    BY DEF CustodyInv, Custody, KeptRet, Kept
  <2>2. ret \in ToSet(retFree[c])
    BY <1>1, <1>5, <2>1, DequeuedRing
  <2> QED
    BY <2>2, WaitingApart
<1>7. DOMAIN m = RetFields /\ Caller(m) = Caller(reqBuf[req])
  <2>1. DOMAIN retBuf[ret] = RetFields
    BY <1>3, <1>4, OwnBuffers DEF Buffers
  <2> QED
    BY <1>2, <2>1 DEF Marked, RetFields, Caller
<1>8. /\ DOMAIN retBuf' = AllRetBufs /\ \A x \in AllRetBufs : DOMAIN retBuf'[x] = RetFields
      /\ retBuf'[ret] = m
      /\ \A b \in Bus, k \in Nat :
           k \in DOMAIN retUsed[b] => retBuf'[retUsed[b][k]] = retBuf[retUsed[b][k]]
      /\ \A b \in Bus \ {c} : ifState[b].current_ret # NULL =>
           retBuf'[ifState[b].current_ret] = retBuf[ifState[b].current_ret]
  <2>1. /\ Buffers /\ ret \in RetBufs(c) /\ retBuf' = [retBuf EXCEPT ![ret] = m]
        /\ DOMAIN m = RetFields /\ \A k \in DOMAIN retUsed[c] : retUsed[c][k] # ret
    BY <1>3, <1>4, <1>5, <1>6, <1>7
  <2> QED
    BY <2>1, WriteApart
<1>9. \A b \in Bus : Answered(b) \subseteq Answered(b)'
  BY <1>5, <1>8, RingOfAnswers, AnswersKept
<1>10. /\ ifState'[c].current_req = req /\ ifState'[c].current_ret = ret
       /\ \A b \in Bus \ {c} : ifState'[b] = ifState[b]
  BY <1>3, <1>4, <1>5, LoadKeepsPointers
<1>11. \A b \in Bus \ {c} : hw'[b] = hw[b]
  BY <1>3, <1>4, <1>5, LoadTyped
<1>12. Marks'
  <2> SUFFICES ASSUME NEW b \in Bus, ifState'[b].current_ret # NULL
               PROVE  Caller(retBuf'[ifState'[b].current_ret])
                        = Caller(reqBuf[ifState'[b].current_req])
    BY DEF Marks
  <2>1. CASE b = c
    BY <1>7, <1>8, <1>10, <2>1
  <2>2. CASE b # c
    BY <1>3, <1>8, <1>10, <2>2 DEF Marks
  <2> QED
    BY <2>1, <2>2
<1>13. Addressed(c)'
  BY <1>3, <1>4, <1>5, <1>9, AddressLoad
<1>14. \A b \in Bus \ {c} : Addressed(b)'
  BY <1>9, <1>10, <1>11, AddressKept DEF AddressInv
<1> QED
  BY <1>12, <1>13, <1>14

\* The handler writes to a return buffer that is no answer yet.
LEMMA AddressWrites ==
  ASSUME CustodyInv, TypeInv, AddressInv, NEW c \in Bus, Interrupted(c)
  PROVE  /\ ifState[c].current_req # NULL /\ ifState[c].current_ret # NULL
         /\ Caller(retBuf'[ifState[c].current_ret]) = Caller(reqBuf[ifState[c].current_req])
         /\ \A b \in Bus : \A x \in ToSet(retUsed[b]) : retBuf'[x] = retBuf[x]
         /\ \A b \in Bus \ {c} : ifState[b].current_ret # NULL =>
              retBuf'[ifState[b].current_ret] = retBuf[ifState[b].current_ret]
<1>1. Buffers /\ Marks
  BY TypedBuffers DEF TypeInv, AddressInv
<1> QED
  BY <1>1, InterruptWrites, RingOfAnswers

LEMMA AddressBatch ==
  ASSUME CustodyInv, TypeInv, AddressInv, UNCHANGED serverVars,
         NEW c \in Bus, i2cirq_NextBatch(c)
  PROVE  Marks' /\ \A b \in Bus : Addressed(b)'
<1>1. /\ Interrupted(c) /\ i2cLoadTokens(c, ifState[c])
      /\ UNCHANGED <<reqBuf, retUsed, collected>>
  BY DEF i2cirq_NextBatch, reqVars, serverVars
<1>2. /\ DOMAIN ifState = Bus /\ DOMAIN ifState[c] = Fields /\ StateTyped(ifState[c])
      /\ HwTypes /\ BufferTypes /\ Marks /\ Addressed(c)
  BY DEF CustodyInv, Shape, TypeInv, StateTypes, AddressInv
<1>3. ifState[c].current_req \in ReqBufs(c)
  BY <1>1, <1>2, WritesTyped
<1>4. /\ \A b \in Bus : /\ ifState'[b].current_req = ifState[b].current_req
                        /\ ifState'[b].current_ret = ifState[b].current_ret
      /\ \A b \in Bus \ {c} : hw'[b] = hw[b]
  BY <1>1, <1>2, <1>3, LoadKeepsPointers, LoadTyped
<1>5. \A b \in Bus : Answered(b) \subseteq Answered(b)'
  BY <1>1, AddressWrites, AnswersKept
<1>6. Marks'
  <2> SUFFICES ASSUME NEW b \in Bus, ifState[b].current_ret # NULL
               PROVE  Caller(retBuf'[ifState[b].current_ret])
                        = Caller(reqBuf[ifState[b].current_req])
    BY <1>1, <1>4 DEF Marks
  <2>1. CASE b = c
    BY <1>1, <2>1, AddressWrites
  <2>2. CASE b # c
    BY <1>1, <1>2, <2>2, AddressWrites DEF Marks
  <2> QED
    BY <2>1, <2>2
<1>7. Addressed(c)'
  BY <1>1, <1>2, <1>3, <1>5, AddressLoad
<1>8. \A b \in Bus \ {c} : Addressed(b)'
  BY <1>1, <1>4, <1>5, AddressKept DEF AddressInv
<1> QED
  BY <1>6, <1>7, <1>8

\* A request that is over becomes an answer, which bears its address.
LEMMA AddressFinish ==
  ASSUME CustodyInv, TypeInv, AddressInv, UNCHANGED serverVars, NEW c \in Bus,
         i2cirq_Finish(c) \/ i2cirq_FinishNotified(c)
  PROVE  Marks' /\ \A b \in Bus : Addressed(b)'
<1>1. PICK req, ret : req = ifState[c].current_req /\ ret = ifState[c].current_ret
  OBVIOUS
<1>2. Interrupted(c) /\ Return(c) /\ UNCHANGED <<reqBuf, collected>>
  BY DEF i2cirq_Finish, i2cirq_FinishNotified, serverVars
<1>3. /\ req # NULL /\ ret # NULL /\ Caller(retBuf'[ret]) = Caller(reqBuf[req])
      /\ \A b \in Bus : \A x \in ToSet(retUsed[b]) : retBuf'[x] = retBuf[x]
      /\ \A b \in Bus \ {c} : ifState[b].current_ret # NULL =>
           retBuf'[ifState[b].current_ret] = retBuf[ifState[b].current_ret]
  BY <1>1, <1>2, AddressWrites
<1>4. /\ DOMAIN retUsed = Bus /\ DOMAIN ifState = Bus /\ DOMAIN ifState[c] = Fields
      /\ hw \in [Bus -> Registers] /\ Marks
  BY DEF CustodyInv, Shape, TypeInv, HwTypes, AddressInv
<1>5. PICK ring \in Seq(RetBufs(c)) : ring = retUsed[c] /\ ~Full(ring) /\ ret \in RetBufs(c)
  <2>1. Kept(retFree[c], retUsed[c], ServerRet(c), {ret}, RetBufs(c), driverUp)
    BY <1>1, <1>3 DEF CustodyInv, Custody, KeptRet, DriverRet
  <2>2. driverUp \in BOOLEAN
    BY DEF CustodyInv, Shape
  <2>3. Kept(retUsed[c], retFree[c], {ret}, ServerRet(c), RetBufs(c), driverUp)
    BY <2>1, <2>2, KeptSymmetric
  <2> QED
    BY <2>2, <2>3, Give, BufferSets DEF Kept
<1>6. retUsed' = [retUsed EXCEPT ![c] = Append(ring, ret)]
  BY <1>1, <1>2, <1>3, <1>5 DEF Return, pushRetBuf, Enqueued
<1>7. ToSet(ring) \cup {ret} \subseteq ToSet(Append(ring, ret))
  <2>1. /\ Append(ring, ret) \in Seq(RetBufs(c)) /\ Len(Append(ring, ret)) = Len(ring) + 1
        /\ Append(ring, ret)[Len(ring) + 1] = ret
        /\ \A k \in 1 .. Len(ring) : Append(ring, ret)[k] = ring[k]
    BY <1>5
  <2>2. /\ DOMAIN Append(ring, ret) = 1 .. Len(ring) + 1 /\ DOMAIN ring = 1 .. Len(ring)
        /\ Len(ring) \in Nat
    BY <2>1
  <2> QED
    BY <2>1, <2>2 DEF ToSet
<1>8. \A b \in Bus : Answered(b) \subseteq Answered(b)'
  <2>1. retUsed'[c] = Append(ring, ret) /\ \A b \in Bus \ {c} : retUsed'[b] = retUsed[b]
    BY <1>4, <1>6
  <2>2. \A b \in Bus : ToSet(retUsed[b]) \subseteq ToSet(retUsed'[b])
    BY <1>5, <1>7, <2>1
  <2> QED
    BY <1>2, <1>3, <2>2, AnswersKept
<1>9. /\ ifState'[c].current_req = NULL /\ ifState'[c].current_ret = NULL
      /\ \A b \in Bus \ {c} : ifState'[b] = ifState[b]
  BY <1>2, <1>4 DEF Return, Reset, Fields
<1>10. /\ ~hw'[c].running /\ hw'[c].addr = hw[c].addr /\ hw'[c].boot = hw[c].boot
       /\ \A b \in Bus \ {c} : hw'[b] = hw[b]
  <2>1. hw' = [hw EXCEPT ![c].running = FALSE]
    BY <1>2 DEF Return
  <2> QED
    BY <1>4, <2>1 DEF Registers
<1>11. reqBuf[req].addr \in 64 .. 127 => \E a \in Answered(c)' : a.addr \in 64 .. 127
  <2>1. retBuf'[ret] \in Answered(c)'
    <3>1. ret \in ToSet(retUsed'[c])
      BY <1>4, <1>6, <1>7
    <3> QED
      BY <3>1 DEF Answered
  <2>2. retBuf'[ret].addr = reqBuf[req].addr
    BY <1>3 DEF Caller
  <2> QED
    BY <2>1, <2>2
<1>12. Marks'
  BY <1>2, <1>3, <1>4, <1>9 DEF Marks
<1>13. Addressed(c)'
  <2>1. hw[c].addr >= 128 => Old(c) \/ reqBuf[req].addr \in 64 .. 127
    BY <1>1 DEF AddressInv, Addressed
  <2>2. Old(c) => Old(c)'
    BY <1>8, <1>10 DEF Old
  <2>3. reqBuf[req].addr \in 64 .. 127 => Old(c)'
    BY <1>11 DEF Old
  <2> QED
    BY <1>10, <2>1, <2>2, <2>3 DEF Addressed
<1>14. \A b \in Bus \ {c} : Addressed(b)'
  BY <1>2, <1>8, <1>9, <1>10, AddressKept DEF AddressInv
<1> QED
  BY <1>12, <1>13, <1>14

\* Calls that neither load nor answer.
LEMMA AddressQuiet ==
  ASSUME CustodyInv, TypeInv, AddressInv, UNCHANGED serverVars, NEW c \in Bus,
         \/ checkBuf_Nothing(c) \/ checkBuf_Busy(c) \/ checkBuf_NoRetBuf(c)
         \/ i2cirq_NoRequest(c)
  PROVE  Marks' /\ \A b \in Bus : Addressed(b)'
<1>1. UNCHANGED <<reqBuf, retBuf, retUsed, collected>>
  BY DEF checkBuf_Nothing, checkBuf_Busy, checkBuf_NoRetBuf, i2cirq_NoRequest,
         transportVars, reqVars, retVars, serverVars
<1>2. DOMAIN ifState = Bus /\ DOMAIN ifState[c] = Fields /\ hw \in [Bus -> Registers]
  BY DEF CustodyInv, Shape, TypeInv, HwTypes
<1>3. \A b \in Bus : /\ ifState'[b].current_req = ifState[b].current_req
                     /\ ifState'[b].current_ret = ifState[b].current_ret
  <2>1. \/ ifState' = ifState
        \/ \E n : ifState' = [ifState EXCEPT ![c] = [ifState[c] EXCEPT !.notified = n]]
    BY DEF checkBuf_Nothing, checkBuf_Busy, checkBuf_NoRetBuf, i2cirq_NoRequest, Deferred
  <2> QED
    BY <1>2, <2>1 DEF Fields
<1>4. \A b \in Bus : /\ hw'[b].boot = hw[b].boot /\ hw'[b].addr = hw[b].addr
                     /\ hw'[b].running => hw[b].running
  <2>1. hw' = hw \/ hw' = [hw EXCEPT ![c].running = FALSE]
    BY DEF checkBuf_Nothing, checkBuf_Busy, checkBuf_NoRetBuf, i2cirq_NoRequest, hwVars
  <2>2. CASE hw' = hw
    BY <2>2
  <2>3. CASE hw' = [hw EXCEPT ![c].running = FALSE]
    <3>1. /\ hw'[c].boot = hw[c].boot /\ hw'[c].addr = hw[c].addr /\ ~hw'[c].running
          /\ \A b \in Bus \ {c} : hw'[b] = hw[b]
      BY <1>2, <2>3 DEF Registers
    <3> QED
      BY <3>1
  <2> QED
    BY <2>1, <2>2, <2>3
<1>5. \A b \in Bus : Answered(b) \subseteq Answered(b)'
  BY <1>1 DEF Answered
<1>6. Marks'
  BY <1>1, <1>3 DEF AddressInv, Marks
<1> QED
  BY <1>1, <1>3, <1>4, <1>5, <1>6, AddressKept DEF AddressInv

-----------------------------------------------------------------------------
\* The other steps, and the theorem.

LEMMA AddressHw ==
  ASSUME TypeInv, AddressInv, NEW c \in Bus, HwStep(c)
  PROVE  AddressInv'
<1>1. hw \in [Bus -> Registers] /\ hw[c].running
  BY DEF TypeInv, HwTypes, HwStep, HwNext, HwDone, HwNack, HwTimeout
<1>2. \E new : /\ hw' = [hw EXCEPT ![c] = new]
               /\ new.addr = hw[c].addr /\ new.boot = hw[c].boot
  <2>1. CASE HwDone(c)
    <3>1. PICK run, stalled, err, tok, rd, ddr :
            hw' = [hw EXCEPT ![c].running = run, ![c].stalled = stalled, ![c].err = err,
                             ![c].tok = tok, ![c].rd = rd, ![c].ddr = ddr]
      BY <2>1, Zenon DEF HwDone
    <3>2. PICK new : new = [hw[c] EXCEPT !.running = run, !.stalled = stalled, !.err = err,
                                         !.tok = tok, !.rd = rd, !.ddr = ddr]
      OBVIOUS
    <3>3. new.addr = hw[c].addr /\ new.boot = hw[c].boot
      BY <1>1, <3>2 DEF Registers
    <3>4. hw' = [hw EXCEPT ![c] = new]
      BY <3>1, <3>2
    <3> QED
      BY <3>3, <3>4
  <2>2. CASE HwNack(c) \/ HwTimeout(c)
    <3>1. PICK run, stalled, tok :
            hw' = [hw EXCEPT ![c].running = run, ![c].stalled = stalled,
                             ![c].err = TRUE, ![c].tok = tok]
      <4>1. CASE HwNack(c)
        BY <4>1, Zenon DEF HwNack
      <4>2. CASE HwTimeout(c)
        BY <4>2, Zenon DEF HwTimeout
      <4> QED
        BY <2>2, <4>1, <4>2
    <3>2. PICK new : new = [hw[c] EXCEPT !.running = run, !.stalled = stalled,
                                         !.err = TRUE, !.tok = tok]
      OBVIOUS
    <3>3. new.addr = hw[c].addr /\ new.boot = hw[c].boot
      BY <1>1, <3>2 DEF Registers
    <3>4. hw' = [hw EXCEPT ![c] = new]
      BY <3>1, <3>2
    <3> QED
      BY <3>3, <3>4
  <2> QED
    BY <2>1, <2>2 DEF HwStep, HwNext
<1>3. \A b \in Bus : /\ hw'[b].boot = hw[b].boot /\ hw'[b].addr = hw[b].addr
                     /\ hw'[b].running => hw[b].running
  BY <1>1, <1>2
<1>4. UNCHANGED <<reqBuf, retBuf, retUsed, ifState, collected>>
  BY DEF HwStep, transportVars, reqVars, retVars, driverVars, serverVars
<1>5. \A b \in Bus : Answered(b) \subseteq Answered(b)'
  BY <1>4 DEF Answered
<1>6. \A b \in Bus : Addressed(b)'
  BY <1>3, <1>4, <1>5, AddressKept DEF AddressInv
<1> QED
  BY <1>4, <1>6 DEF AddressInv, Marks, Collected

LEMMA AddressServer ==
  ASSUME CustodyInv, TypeInv, AddressInv, ServerStep
  PROVE  AddressInv'
<1>1. UNCHANGED <<hw, ifState>> /\ ServerNext
  BY DEF ServerStep, hwVars, driverVars
<1>2. BufferTypes /\ Marks /\ Collected
  BY DEF TypeInv, AddressInv
<1>3. CASE publish
  <2>1. PICK r \in [bus : Int, client : Byte, addr : Byte, body : Seq(Byte)] : r = Program[cur]
    BY <1>3, FilledApart
  <2>2. /\ reqBuf' = [reqBuf EXCEPT ![buf] = [client |-> r.client, addr |-> r.addr, body |-> r.body]]
        /\ UNCHANGED <<retBuf, retUsed, collected>>
    BY <1>3, <2>1 DEF publish, allocReqBuf_Fill, retVars
  <2>3. \A b \in Bus : reqBuf'[ifState[b].current_req] = reqBuf[ifState[b].current_req]
    BY <1>3, <2>2, FilledApart
  <2>4. \A b \in Bus : Answered(b) \subseteq Answered(b)'
    BY <2>2 DEF Answered
  <2>5. \A b \in Bus : Addressed(b)'
    BY <1>1, <2>3, <2>4, AddressKept DEF AddressInv
  <2> QED
    BY <1>1, <1>2, <2>2, <2>3, <2>5 DEF AddressInv, Marks, Collected
<1>4. CASE ~publish
  <2>1. reqBuf' = reqBuf /\ retBuf' = retBuf
    BY <1>1, <1>4 DEF ServerNext, allocate, initDone, notify, ServerWake, skipBus, checkBus,
                      collect, release, transportVars, reqVars, retVars
  <2>2. Collected' /\ \A b \in Bus : Answered(b) \subseteq Answered(b)'
    <3>1. CASE collect
      BY <1>2, <3>1, AnswersCollect
    <3>2. CASE ~collect
      <4>1. UNCHANGED <<retUsed, collected>>
        BY <1>1, <1>4, <3>2 DEF ServerNext, allocate, initDone, notify, ServerWake, skipBus,
                                checkBus, release, transportVars, retVars
      <4> QED
        BY <1>2, <2>1, <4>1 DEF Collected, Answered
    <3> QED
      BY <3>1, <3>2
  <2>3. \A b \in Bus : Addressed(b)'
    BY <1>1, <2>1, <2>2, AddressKept DEF AddressInv
  <2> QED
    BY <1>1, <1>2, <2>1, <2>2, <2>3 DEF AddressInv, Marks
<1> QED
  BY <1>3, <1>4

LEMMA AddressNext == CustodyInv /\ TypeInv /\ AddressInv /\ [Next]_vars => AddressInv'
<1> SUFFICES ASSUME CustodyInv, TypeInv, AddressInv, [Next]_vars PROVE AddressInv'
  OBVIOUS
<1>1. CASE (DriverWake /\ UNCHANGED serverVars) \/ UNCHANGED vars
  <2>1. UNCHANGED <<reqBuf, retBuf, retUsed, ifState, hw, collected>>
    BY <1>1 DEF DriverWake, vars, transportVars, reqVars, retVars, hwVars, driverVars, serverVars
  <2>2. \A b \in Bus : Answered(b) = Answered(b)'
    BY <2>1 DEF Answered
  <2>3. \A b \in Bus : Addressed(b)'
    BY <2>1, <2>2 DEF AddressInv, Addressed, Old
  <2>4. Marks' /\ Collected'
    BY <2>1 DEF AddressInv, Marks, Collected
  <2> QED
    BY <2>3, <2>4 DEF AddressInv
<1>2. ASSUME NEW c \in Bus, DriverCall(c), UNCHANGED serverVars, DriverStep PROVE AddressInv'
  <2>1. reqBuf' = reqBuf /\ Collected'
    BY <1>2, DriverReads DEF serverVars, AddressInv, Collected
  <2>2. Marks' /\ \A b \in Bus : Addressed(b)'
    BY <1>2, <2>1, AddressStart, AddressBatch, AddressFinish, AddressQuiet DEF DriverCall
  <2> QED
    BY <2>1, <2>2 DEF AddressInv
<1>3. CASE ServerStep
  BY <1>3, AddressServer
<1>4. CASE \E b \in Bus : HwStep(b)
  BY <1>4, AddressHw
<1> QED
  BY <1>1, <1>2, <1>3, <1>4 DEF Next, DriverStep, DriverNext

\* The address that a running list processor sends is the one of the request it works
\* on, or, for an address below 64, one 64 too high; and that only if bit 7 of the
\* address register was set at boot or by an earlier request of the bus: for every
\* program, whatever the register held at first, late interrupts or not.
THEOREM SystemOnlyBit7Stale == Spec => []OnlyBit7Stale
<1>1. ASSUME AddressInv PROVE OnlyBit7Stale
  BY <1>1 DEF AddressInv, Addressed, Sent, Old, OnlyBit7Stale
<1>2. /\ Init => CustodyInv /\ TypeInv /\ AddressInv
      /\ CustodyInv /\ TypeInv /\ AddressInv /\ [Next]_vars
           => CustodyInv' /\ TypeInv' /\ AddressInv'
  BY CustodyInit, TypesInit, AddressInit, CustodyNext, TypesNext, AddressNext
<1> QED
  BY <1>1, <1>2, PTL DEF Spec

=============================================================================
