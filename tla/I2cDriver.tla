----------------------------- MODULE I2cDriver -----------------------------
(***************************************************************************)
(* i2c-odroid-c4.c: the driver protection domain.  It has the higher       *)
(* priority, so a call that notified() makes runs to its end without the   *)
(* server in between: checkBuf for each bus after a notification of the    *)
(* server, i2cirq after an interrupt.  A write or read through a null      *)
(* pointer is a fault, after which the domain never runs again.            *)
(***************************************************************************)
EXTENDS I2cTransport, ListProcessor

VARIABLES
  ifState,       \* i2c_ifState[bus]; current_req_len is the request's length
  driverCalls,   \* calls that the notification word last taken still asks for
  driverUp       \* FALSE after a fault

driverVars == <<ifState, driverCalls, driverUp>>

-----------------------------------------------------------------------------
\* Registers.

I2C_ERR_OK      == 0
I2C_ERR_TIMEOUT == 1
I2C_ERR_NACK    == 2
I2C_ERR_NOREAD  == 3

\* The values that i2cGetError puts in a uint8_t: the token and the read count,
\* masked out of ctl but not shifted down.
i2cGetError(h) == IF h.err THEN -((h.tok * 16) % 256) ELSE (h.rd * 256) % 256

\* Bits 0 to 6 of the address register are cleared, then the address is or-ed in
\* one bit up: its own top bit meets a bit 7 that was not cleared.  (The bits from
\* 8 on are set once in setupi2c and stay.)
\* Mutant: one bit less is cleared, so that bit 6 stays as well.
slaveAddr_KeepsBit6(reg, addr) ==
  2 * (addr % 32) + (IF (reg \div 64) % 2 = 1 \/ (addr \div 32) % 2 = 1 THEN 64 ELSE 0)
                  + (IF reg >= 128 \/ addr >= 64 THEN 128 ELSE 0)

slaveAddr(reg, addr) ==
  2 * (addr % 64) + IF reg >= 128 \/ addr >= 64 THEN 128 ELSE 0

\* The 7-bit address that the list processor sends.
Target(h) == h.addr \div 2

-----------------------------------------------------------------------------
\* i2cLoadTokens for interface bus, whose state the caller has made st.  Its -1,
\* for a bad address or a bad token, leaves the list processor stopped.

i2cLoadTokens(bus, st) ==
  LET req == reqBuf[st.current_req]
      b   == LoadBatch(req.body, st.remaining, st.ddr)
  IN IF req.addr > 127
     THEN /\ ifState' = [ifState EXCEPT ![bus] = st]
          /\ hw' = [hw EXCEPT ![bus].running = FALSE]
     ELSE /\ ifState' = [ifState EXCEPT ![bus] =
                           [st EXCEPT !.remaining = b.remaining, !.ddr = b.ddr]]
          /\ hw' = [hw EXCEPT ![bus].addr = slaveAddr(@, req.addr),
                              ![bus].list = b.list, ![bus].wdata = b.wdata,
                              ![bus].running = b.ok, ![bus].stalled = FALSE]

\* init
Idle == [current_req |-> NULL, current_ret |-> NULL, remaining |-> 0,
         notified |-> 0, ddr |-> 0]

DriverInit ==
  /\ ifState = [b \in Bus |-> Idle]
  /\ driverCalls = {}
  /\ driverUp = TRUE
  /\ hw \in [Bus -> {HwInit(boot) : boot \in BOOT_ADDR}]
  /\ wire = [b \in Bus |-> <<>>]

\* Assignments to i2c_ifState[bus].  Mutants: a deferred notification not noted
\* down; the pointer to a finished request kept.
Begun(st, req, ret) ==
  [st EXCEPT !.current_req = req, !.current_ret = ret,
             !.remaining = Len(reqBuf[req].body), !.notified = 0]

Deferred_NoFlag(st) == st

Deferred(st) == [st EXCEPT !.notified = 1]

Reset_KeepsReq(st) == [st EXCEPT !.current_ret = NULL, !.remaining = 0]

Reset(st) == [st EXCEPT !.current_req = NULL, !.current_ret = NULL, !.remaining = 0]

\* The check for a request in progress.  Mutant: none.
Busy_Never(bus) == FALSE

Busy(bus) == ifState[bus].current_req # NULL

\* A return buffer marked with the caller of a request.  Mutant: not marked.
Marked_Not(ret, req) == ret

Marked(ret, req) == [ret EXCEPT !.client = req.client, !.addr = req.addr]

-----------------------------------------------------------------------------
\* The event loop, and notified(): the calls that a channel stands for.

Call(channel, name, bus, timeout) ==
  [channel |-> channel, name |-> name, bus |-> bus, timeout |-> timeout]

serverNotify == {Call(SERVER_NOTIFY_ID, "checkBuf", b, FALSE) : b \in Bus}

notified(channel) ==
  CASE channel = SERVER_NOTIFY_ID -> serverNotify
    [] channel = IRQ_I2C_M2       -> {Call(channel, "i2cirq", 2, FALSE)}
    [] channel = IRQ_I2C_M2_TO    -> {Call(channel, "i2cirq", 2, TRUE)}
    [] channel = IRQ_I2C_M3       -> {Call(channel, "i2cirq", 3, FALSE)}
    [] channel = IRQ_I2C_M3_TO    -> {Call(channel, "i2cirq", 3, TRUE)}

DriverWake ==
  /\ driverUp /\ driverCalls = {} /\ driverWord # {}
  /\ driverCalls' = UNION {notified(channel) : channel \in driverWord}
  /\ driverWord' = {}
  /\ UNCHANGED <<transportVars, hwVars, serverWord, ifState, driverUp>>

\* The next of those calls: channels in ascending order, checkBuf for bus 2 first.
ThisCall ==
  CHOOSE c \in driverCalls :
    \A d \in driverCalls : \/ c.channel < d.channel
                           \/ c.channel = d.channel /\ c.bus <= d.bus

Called(name, bus) ==
  /\ driverUp /\ driverCalls # {}
  /\ ThisCall.name = name /\ ThisCall.bus = bus
  /\ driverCalls' = driverCalls \ {ThisCall}

\* The server waits for as long as the driver has anything to do.
DriverRuns == driverUp /\ (driverCalls # {} \/ driverWord # {})

-----------------------------------------------------------------------------
\* checkBuf(bus)

checkBuf_Nothing(bus) ==
  /\ Called("checkBuf", bus)
  /\ reqBufEmpty(bus)
  /\ ifState' = [ifState EXCEPT ![bus].notified = 0]
  /\ UNCHANGED <<transportVars, hwVars, wordVars, driverUp>>

checkBuf_Busy(bus) ==
  /\ Called("checkBuf", bus)
  /\ ~reqBufEmpty(bus) /\ Busy(bus)
  /\ ifState' = [ifState EXCEPT ![bus] = Deferred(@)]
  /\ UNCHANGED <<transportVars, hwVars, wordVars, driverUp>>

\* Begin work: a request, a return buffer marked with its caller, a first batch.
checkBuf_Start(bus) ==
  LET req == Oldest(reqUsed[bus])
      ret == Oldest(retFree[bus])
  IN /\ Called("checkBuf", bus)
     /\ ~reqBufEmpty(bus) /\ ~Busy(bus)
     /\ ret # NULL
     /\ popReqBuf(bus) /\ getRetBuf(bus)
     /\ retBuf' = [retBuf EXCEPT ![ret] = Marked(@, reqBuf[req])]
     /\ i2cLoadTokens(bus, Begun(ifState[bus], req, ret))
     /\ wire' = [wire EXCEPT ![bus] = <<>>]
     /\ UNCHANGED <<reqFree, reqBuf, retUsed, wordVars, driverUp>>

\* getRetBuf has returned 0, and is written through.
checkBuf_NoRetBuf(bus) ==
  /\ Called("checkBuf", bus)
  /\ ~reqBufEmpty(bus) /\ ~Busy(bus)
  /\ Empty(retFree[bus])
  /\ popReqBuf(bus)
  /\ driverUp' = FALSE
  /\ UNCHANGED <<reqFree, reqBuf, retVars, hwVars, wordVars, ifState>>

-----------------------------------------------------------------------------
\* i2cirq(bus, timeout)

\* The return buffer's err, err_tk and data after an interrupt.
Reported(ret, err, timeout) ==
  [ret EXCEPT
     !.err    = IF err >= 0 THEN I2C_ERR_OK
                ELSE IF timeout THEN I2C_ERR_TIMEOUT
                ELSE IF err = -I2C_TK_ADDRR THEN I2C_ERR_NOREAD
                ELSE I2C_ERR_NACK,
     !.err_tk = IF err < 0 THEN -err ELSE 0,
     !.data   = IF err > 0 THEN err ELSE @]

\* The handler has its return buffer and has filled it in.
Interrupted(bus) ==
  LET ret == ifState[bus].current_ret
  IN /\ Called("i2cirq", bus)
     /\ ret # NULL
     /\ retBuf' = [retBuf EXCEPT ![ret] =
                     Reported(@, i2cGetError(hw[bus]), ThisCall.timeout)]

\* No batch to follow.  Mutants: an error ends nothing; two bytes too few are done.
RequestOver_NotOnError(bus) == ifState[bus].remaining = 0

RequestOver_Early(bus) == i2cGetError(hw[bus]) < 0 \/ ifState[bus].remaining <= 2

RequestOver(bus) == i2cGetError(hw[bus]) < 0 \/ ifState[bus].remaining = 0

\* What becomes of a request that is over.
Return(bus) ==
  /\ pushRetBuf(bus, ifState[bus].current_ret)
  /\ releaseReqBuf(bus, ifState[bus].current_req)
  /\ ifState' = [ifState EXCEPT ![bus] = Reset(@)]
  /\ hw' = [hw EXCEPT ![bus].running = FALSE]
  /\ notify_server(DRIVER_NOTIFY_ID)

\* There is more of the request to do: load it.
i2cirq_NextBatch(bus) ==
  /\ Interrupted(bus)
  /\ ~RequestOver(bus)
  /\ i2cLoadTokens(bus, ifState[bus])
  /\ UNCHANGED <<reqVars, retFree, retUsed, wire, wordVars, driverUp>>

i2cirq_Finish(bus) ==
  /\ Interrupted(bus)
  /\ RequestOver(bus)
  /\ Return(bus)
  /\ ifState[bus].notified = 0
  /\ UNCHANGED <<reqUsed, reqBuf, retFree, wire, driverWord, driverUp>>

\* The server's notification was deferred: the handler goes on to i2cLoadTokens,
\* which reads through current_req, null by now.
i2cirq_FinishNotified(bus) ==
  /\ Interrupted(bus)
  /\ RequestOver(bus)
  /\ Return(bus)
  /\ ifState[bus].notified # 0
  /\ driverUp' = FALSE
  /\ UNCHANGED <<reqUsed, reqBuf, retFree, wire, driverWord>>

\* An interrupt that finds no request: its outcome is written through null.
i2cirq_NoRequest(bus) ==
  /\ Called("i2cirq", bus)
  /\ ifState[bus].current_ret = NULL
  /\ hw' = [hw EXCEPT ![bus].running = FALSE]
  /\ driverUp' = FALSE
  /\ UNCHANGED <<transportVars, wire, wordVars, ifState>>

-----------------------------------------------------------------------------
DriverCall(bus) ==
  \/ checkBuf_Nothing(bus)
  \/ checkBuf_Busy(bus)
  \/ checkBuf_Start(bus)
  \/ checkBuf_NoRetBuf(bus)
  \/ i2cirq_NextBatch(bus)
  \/ i2cirq_Finish(bus)
  \/ i2cirq_FinishNotified(bus)
  \/ i2cirq_NoRequest(bus)

DriverNext == DriverWake \/ \E bus \in Bus : DriverCall(bus)

=============================================================================
