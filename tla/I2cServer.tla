----------------------------- MODULE I2cServer -----------------------------
(***************************************************************************)
(* i2c.c: the server protection domain.  Its init makes the requests of a  *)
(* test program, one after the other, and its notified() collects returns. *)
(* It is preempted by the driver between any two of its accesses to the    *)
(* rings, so each of those is a step of its own.                           *)
(***************************************************************************)
EXTENDS I2cTransport, Sel4cp

CONSTANT Program   \* requests that init makes, in order

\* The buses are int, what goes into a buffer is uint8_t.
ASSUME ProgramAssumption ==
  Program \in Seq([bus : Int, client : 0 .. 255, addr : 0 .. 255, body : Seq(0 .. 255)])

VARIABLES
  pc,          \* where the server is
  cur,         \* request of Program that it is making
  bus,         \* bus that driverNotify's loop is at
  buf,         \* buffer that it holds
  collected    \* returns that driverNotify has read, for each bus (history)

serverVars == <<pc, cur, bus, buf, collected>>

ServerInit ==
  /\ pc = "allocate"
  /\ cur = 1
  /\ bus = 2
  /\ buf = NULL
  /\ collected = [b \in Bus |-> <<>>]

-----------------------------------------------------------------------------
\* init: allocReqBuf and a notification for each request.  A test program gives
\* up at the first allocReqBuf that fails.

allocate ==
  /\ pc = "allocate"
  /\ cur <= Len(Program) /\ ~allocReqBuf_Refuses(Program[cur])
  /\ buf' = Oldest(reqFree[Program[cur].bus])
  /\ allocReqBuf_Take(Program[cur].bus)
  /\ pc' = "publish"
  /\ UNCHANGED <<reqUsed, reqBuf, retVars, wordVars, cur, bus, collected>>

initDone ==
  /\ pc = "allocate"
  /\ cur <= Len(Program) => allocReqBuf_Refuses(Program[cur])
  /\ pc' = "wait"
  /\ UNCHANGED <<transportVars, wordVars, cur, bus, buf, collected>>

publish ==
  LET r == Program[cur]
  IN /\ pc = "publish"
     /\ allocReqBuf_Fill(r, buf)
     /\ allocReqBuf_Queue(r.bus, buf)
     /\ pc' = IF Full(reqUsed[r.bus]) THEN "wait" ELSE "notify"
     /\ buf' = NULL
     /\ UNCHANGED <<retVars, wordVars, cur, bus, collected>>

notify ==
  /\ pc = "notify"
  /\ notify_driver(SERVER_NOTIFY_ID)
  /\ cur' = cur + 1
  /\ pc' = "allocate"
  /\ UNCHANGED <<transportVars, serverWord, bus, buf, collected>>

-----------------------------------------------------------------------------
\* notified(DRIVER_NOTIFY_ID): driverNotify takes one return from each bus.

ServerWake ==
  /\ pc = "wait" /\ serverWord # {}
  /\ serverWord' = {}
  /\ pc' = "check" /\ bus' = 2
  /\ UNCHANGED <<transportVars, driverWord, cur, buf, collected>>

\* On to the next bus of the loop.  Mutant: the loop ends one bus early.
NextBus_OneOnly == pc' = "wait" /\ bus' = bus

NextBus ==
  /\ pc' = IF bus = 2 THEN "check" ELSE "wait"
  /\ bus' = IF bus = 2 THEN 3 ELSE bus

skipBus ==
  /\ pc = "check" /\ retBufEmpty(bus)
  /\ NextBus
  /\ UNCHANGED <<transportVars, wordVars, cur, buf, collected>>

checkBus ==
  /\ pc = "check" /\ ~retBufEmpty(bus)
  /\ pc' = "pop"
  /\ UNCHANGED <<transportVars, wordVars, cur, bus, buf, collected>>

\* popRetBuf, then the return is read; a null pointer would be a fault.
collect ==
  LET ret == Oldest(retUsed[bus])
  IN /\ pc = "pop"
     /\ popRetBuf(bus)
     /\ buf' = ret
     /\ collected' = IF ret = NULL THEN collected
                     ELSE [collected EXCEPT ![bus] = Append(@, retBuf[ret])]
     /\ pc' = IF ret = NULL THEN "fault" ELSE "release"
     /\ UNCHANGED <<reqVars, retFree, retBuf, wordVars, cur, bus>>

release ==
  /\ pc = "release"
  /\ releaseRetBuf(bus, buf)
  /\ buf' = NULL
  /\ NextBus
  /\ UNCHANGED <<reqVars, retUsed, retBuf, wordVars, cur, collected>>

-----------------------------------------------------------------------------
ServerNext ==
  \/ allocate
  \/ initDone
  \/ publish
  \/ notify
  \/ ServerWake
  \/ skipBus
  \/ checkBus
  \/ collect
  \/ release

=============================================================================
