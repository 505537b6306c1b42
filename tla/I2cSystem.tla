----------------------------- MODULE I2cSystem -----------------------------
(***************************************************************************)
(* Server, driver and list processors together, on one core: the driver    *)
(* has priority 201 and the server 200 (i2c.system:33,57), so the server   *)
(* takes a step only when the driver waits for its next notification; the  *)
(* list processors run at any time.                                        *)
(***************************************************************************)
EXTENDS I2cDriver, I2cServer

vars == <<transportVars, hwVars, wordVars, driverVars, serverVars>>

Init ==
  /\ i2cTransportInit
  /\ driverWord = {} /\ serverWord = {}
  /\ DriverInit
  /\ ServerInit

\* Mutant: one priority for both, so the server may run when the driver should.
ServerStep_AnyTime == ServerNext /\ UNCHANGED <<hwVars, driverVars>>

ServerStep == ~DriverRuns /\ ServerNext /\ UNCHANGED <<hwVars, driverVars>>

HwStep(b) ==
  /\ HwNext(b)
  /\ UNCHANGED <<transportVars, serverWord, driverVars, serverVars>>

DriverStep == DriverNext /\ UNCHANGED serverVars

Next == DriverStep \/ ServerStep \/ \E b \in Bus : HwStep(b)

Spec == Init /\ [][Next]_vars

\* Either domain runs on when nothing of a higher priority does, and a batch that
\* was started ends, if only with a timeout.
Fairness ==
  /\ WF_vars(DriverStep)
  /\ WF_vars(ServerStep)
  /\ \A b \in Bus : WF_vars(HwStep(b))

LiveSpec == Spec /\ Fairness

-----------------------------------------------------------------------------
\* Types.

Request_t == [client : Byte, addr : Byte, body : Seq(Byte)]
Return_t  == [err : 0 .. 3, err_tk : Byte, client : Byte, addr : Byte, data : Nat]
State_t(b) == [current_req : ReqBufs(b) \cup {NULL}, current_ret : RetBufs(b) \cup {NULL},
               remaining : Nat, notified : {0, 1}, ddr : {0, 1}]

TransportTypeOK ==
  /\ \A b \in Bus : reqFree[b] \in Seq(ReqBufs(b)) /\ reqUsed[b] \in Seq(ReqBufs(b))
  /\ \A b \in Bus : retFree[b] \in Seq(RetBufs(b)) /\ retUsed[b] \in Seq(RetBufs(b))
  /\ DOMAIN reqFree = Bus /\ DOMAIN reqUsed = Bus
  /\ DOMAIN retFree = Bus /\ DOMAIN retUsed = Bus
  /\ reqBuf \in [AllReqBufs -> Request_t]
  /\ retBuf \in [AllRetBufs -> Return_t]

\* Every variable holds what its declaration says, and every pointer a buffer of
\* the right kind and bus, or null.
TypeOK ==
  /\ TransportTypeOK
  /\ DOMAIN ifState = Bus /\ \A b \in Bus : ifState[b] \in State_t(b)
  /\ driverUp \in BOOLEAN
  /\ driverWord \subseteq DriverChannel /\ serverWord \subseteq ServerChannel
  /\ pc \in {"allocate", "publish", "notify", "wait", "check", "pop", "release"}
  /\ cur \in 1 .. Len(Program) + 1
  /\ bus \in Bus
  /\ buf \in AllReqBufs \cup AllRetBufs \cup {NULL}

-----------------------------------------------------------------------------
\* Buffers.

\* The places where a request buffer of bus b can be: its two rings, in the hands
\* of the server (allocReqBuf between its two ring calls) and of the driver.
ServerReq(b) == IF pc = "publish" /\ Program[cur].bus = b THEN {buf} ELSE {}
DriverReq(b) == {ifState[b].current_req} \ {NULL}
ReqPlaces(b) == <<ToSet(reqFree[b]), ToSet(reqUsed[b]), ServerReq(b), DriverReq(b)>>

\* And a return buffer (the server has one from popRetBuf to releaseRetBuf).
ServerRet(b) == IF pc = "release" /\ bus = b THEN {buf} ELSE {}
DriverRet(b) == {ifState[b].current_ret} \ {NULL}
RetPlaces(b) == <<ToSet(retFree[b]), ToSet(retUsed[b]), ServerRet(b), DriverRet(b)>>

Apart(places) ==
  \A i, j \in DOMAIN places : i # j => places[i] \cap places[j] = {}

\* No buffer is in two places: queued twice, or queued while a domain uses it.
NoBufferTwice ==
  \A b \in Bus :
    /\ Apart(ReqPlaces(b)) /\ Apart(RetPlaces(b))
    /\ IsInjective(reqFree[b]) /\ IsInjective(reqUsed[b])
    /\ IsInjective(retFree[b]) /\ IsInjective(retUsed[b])

\* No buffer is lost, so no ring call ever fails for want of room: each one is on
\* a ring or a domain holds it, as long as the driver has not stopped with one.
NoBufferLost ==
  driverUp => \A b \in Bus : /\ UNION ToSet(ReqPlaces(b)) = ReqBufs(b)
                            /\ UNION ToSet(RetPlaces(b)) = RetBufs(b)

-----------------------------------------------------------------------------
\* Interrupts and notifications.

CallsAhead(name, b) == {c \in driverCalls : c.name = name /\ c.bus = b}

\* Interrupts raised for a bus, and not yet handled.
Irqs(b) ==
  Cardinality({irq(b, FALSE), irq(b, TRUE)} \cap driverWord)
    + Cardinality(CallsAhead("i2cirq", b))

\* "IRQ landed: i2c transaction has either completed or timed out": an interrupt
\* to come, or to be handled, is the only one and finds the request it is about.
IrqMeetsRequest ==
  \A b \in Bus :
    LET owed == Irqs(b) + IF hw[b].running THEN 1 ELSE 0
    IN driverUp => owed <= 1 /\ (owed = 1 => ifState[b].current_req # NULL
                                             /\ ifState[b].current_ret # NULL)

\* A request on a used ring is never forgotten: its bus is busy, with the deferred
\* notification noted down, or the driver is still to look at that ring.
NoRequestForgotten ==
  \A b \in Bus : driverUp /\ ~reqBufEmpty(b) =>
    \/ ifState[b].current_req # NULL /\ ifState[b].notified = 1
    \/ SERVER_NOTIFY_ID \in driverWord
    \/ CallsAhead("checkBuf", b) # {}
    \/ pc = "notify"

\* The release fence of enqueue comes after the index is moved on, not before
\* (sw_shared_ringbuffer.h:96-98), so the index may be seen first, the descriptor
\* not yet.  That harms nobody: while the server queues a buffer the driver may
\* preempt it for an interrupt, but has no call to make that looks at that ring.
NoPopDuringPush ==
  driverUp /\ pc \in {"publish", "release"} =>
    SERVER_NOTIFY_ID \notin driverWord /\ \A b \in Bus : CallsAhead("checkBuf", b) = {}

\* A busy bus makes progress: its list processor runs, or an interrupt of it is to
\* be handled.
NoBusStuck ==
  \A b \in Bus : driverUp /\ ifState[b].current_req # NULL => hw[b].running \/ Irqs(b) > 0

\* i2c-odroid-c4.c:611: "If request is completed or there was an error, return data
\* to server and notify": no request leaves its bus busy for good.
EveryRequestEnds ==
  \A b \in Bus : ifState[b].current_req # NULL ~> (ifState[b].current_req = NULL \/ ~driverUp)

\* The list processor sends the address that the request it works on names
\* ("7-bit I2C address to be used for the transaction", i2c-transport.h:72).
SendsAddress ==
  \A b \in Bus : driverUp /\ hw[b].running =>
    Target(hw[b]) = reqBuf[ifState[b].current_req].addr

\* The answers to the requests of bus b that have ended.
Answered(b) == ToSet(collected[b]) \cup {retBuf[r] : r \in ToSet(retUsed[b])}

\* The address register is changed in place, and what may leak into a request from
\* what was there before is one bit: a target of 64 or more is the one sent, and one
\* below 64 is sent as it is or 64 too high, the latter only if the boot loader left
\* bit 7 set or an earlier request of the same bus was for a target of 64 or more.
OnlyBit7Stale ==
  \A b \in Bus : driverUp /\ hw[b].running =>
    LET addr == reqBuf[ifState[b].current_req].addr
    IN \/ Target(hw[b]) = addr
       \/ /\ addr < 64 /\ Target(hw[b]) = addr + 64
          /\ hw[b].boot >= 128 \/ \E a \in Answered(b) : a.addr \in 64 .. 127

\* A request that is reported as done was done: the bus has seen the operations it
\* asked for, each once and in order, and nothing else since it was begun.
OkMeansDone ==
  [][\A b \in Bus :
       LET state == ifState[b]
       IN Len(retUsed'[b]) > Len(retUsed[b]) /\ retBuf'[state.current_ret].err = I2C_ERR_OK
            => Request(wire[b]) = reqBuf[state.current_req].body]_vars

\* An error of the list processor ends its request in the same step: nothing more of
\* it is loaded, and it is reported once, as an error, as a timeout exactly after the
\* timeout interrupt, and as "no read" only if an ADDRR was refused.  That a refused
\* ADDRR is always "no read" (i2c-odroid-c4.c:588) is not said here: the code reports
\* it as a NACK, which comes from what ErrorCodeMeaning is about.
ErrorsReported ==
  [][\A b \in Bus :
       Irqs(b) = 1 /\ Irqs(b)' = 0 /\ hw[b].err /\ driverUp =>
         /\ ifState'[b].current_req = NULL /\ ~hw'[b].running
         /\ Len(retUsed'[b]) = Len(retUsed[b]) + 1
         /\ LET err == retBuf'[ifState[b].current_ret].err
            IN /\ err \in {I2C_ERR_TIMEOUT, I2C_ERR_NACK, I2C_ERR_NOREAD}
               /\ err = I2C_ERR_TIMEOUT <=> ThisCall.timeout
               /\ err = I2C_ERR_NOREAD => hw[b].tok = OC4_I2C_TK_ADDRR]_vars

\* i2c-odroid-c4.c:625: "If the driver was notified while this transaction was in
\* progress, immediately start working on the next one."
DeferredStarts ==
  [][\A b \in Bus :
       ifState[b].notified = 1 /\ ifState[b].current_req # NULL
         /\ Len(retUsed'[b]) > Len(retUsed[b])
         => ifState'[b].current_req # NULL]_vars

\* i2c-odroid-c4.c:279-281, of i2cGetError: "non-negative numbers are a success with
\* n. bytes read / 0 if writing, while a negative value corresponds to a bus NACK at
\* a token of value -(ret)".
ErrorCodeMeaning ==
  \A b \in Bus : Irqs(b) > 0 =>
    i2cGetError(hw[b]) = IF hw[b].err THEN -hw[b].tok ELSE hw[b].rd

-----------------------------------------------------------------------------
\* Liveness.

\* README.md:59: "Once the full transaction has been processed, the server is
\* notified to return data to the client": no return stays on its used ring.
ReturnsCollected == \A b \in Bus : ~retBufEmpty(b) ~> retBufEmpty(b)

Requests(b) == Cardinality({k \in DOMAIN Program : Program[k].bus = b})

\* The server gets an answer to every request of its program.
AllAnswered == <>(\A b \in Bus : Len(collected[b]) = Requests(b))

-----------------------------------------------------------------------------
\* Refinement.

Caller(m) == [client |-> m.client, addr |-> m.addr]

AnswerOf(m) == [caller |-> Caller(m), err |-> m.err]

CurrentReq(b) ==
  IF ifState[b].current_req = NULL THEN <<>> ELSE <<ifState[b].current_req>>

WaitingReqs(b) == CurrentReq(b) \o reqUsed[b]

Service == INSTANCE I2cService WITH
  Callers  <- {Caller(Program[k]) : k \in DOMAIN Program},
  Outcomes <- {I2C_ERR_OK, I2C_ERR_TIMEOUT, I2C_ERR_NACK, I2C_ERR_NOREAD},
  waiting  <- [b \in Bus |-> [k \in DOMAIN WaitingReqs(b) |-> Caller(reqBuf[WaitingReqs(b)[k]])]],
  answers  <- [b \in Bus |-> [k \in DOMAIN retUsed[b] |-> AnswerOf(retBuf[retUsed[b][k]])]],
  taken    <- [b \in Bus |-> [k \in DOMAIN collected[b] |-> AnswerOf(collected[b][k])]]

\* Each request is answered at most once, in order, to its own client and for its
\* own address; a buffer is not used again before what it holds has been taken.
ImplementsService == Service!Spec

-----------------------------------------------------------------------------
\* Programs of which more is proved than of any: what they ask a bus for.

\* What the program puts into the buffers of a bus.
Wanted(b) ==
  {[client |-> Program[k].client, addr |-> Program[k].addr, body |-> Program[k].body] :
     k \in {j \in DOMAIN Program : Program[j].bus = b}}

\* No bus is asked for more than it has return buffers.
EnoughReturns == \A b \in Bus : Requests(b) <= I2C_BUF_COUNT

\* Every request is a transaction, to an address of seven bits.
ProgramFormed ==
  \A b \in Bus : \A x \in Wanted(b) :
    x.addr <= 127 /\ \E ops : Transaction(ops) /\ x.body = Request(ops)

=============================================================================
