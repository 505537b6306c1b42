------------------------------ MODULE I2cTests ------------------------------
(***************************************************************************)
(* The request programs of i2c/i2c.c: what the server's init allocates and *)
(* notifies the driver of, in order.  init calls testds3231; the other two *)
(* are there commented out.                                                *)
(***************************************************************************)
EXTENDS Integers, Sequences

LOCAL T == INSTANCE I2cTokens WITH TK_SLOTS <- 16, WDATA_SLOTS <- 8, PAST_END <- 0

LOCAL Req(addr, body) == [bus |-> 2, client |-> 1, addr |-> addr, body |-> body]

\* A written byte, and the bytes of a list of them.
LOCAL Put(byte) == <<T!I2C_TK_DAT, byte>>
LOCAL PutAll(bytes) == T!FlattenSeq([k \in DOMAIN bytes |-> Put(bytes[k])])

LOCAL StartWrite == <<T!I2C_TK_START, T!I2C_TK_ADDRW>>
LOCAL StartRead  == <<T!I2C_TK_START, T!I2C_TK_ADDRR>>
LOCAL StopEnd    == <<T!I2C_TK_STOP, T!I2C_TK_END>>

\* Set the year register of a clock, then read it back.
testds3231 ==
  << Req(104, StartWrite \o PutAll(<<6, 32, 36>>) \o StopEnd),
     Req(104, StartWrite \o Put(6) \o StartRead
                \o <<T!I2C_TK_DAT, T!I2C_TK_DATA_END>> \o StopEnd) >>

\* Write three bytes, read "three" (each data token here is followed by a byte
\* that a read does not take as its payload), write again.
test ==
  LET write == Req(36, StartWrite \o PutAll(<<3, 2, 1>>) \o StopEnd)
      read  == Req(36, StartRead \o PutAll(<<1, 2, 3>>)
                         \o <<T!I2C_TK_DATA_END>> \o StopEnd)
  IN <<write, read, write>>

\* Thirty bytes in one request.
testLong ==
  << Req(104, StartWrite
                \o PutAll(<<6>> \o [k \in 1 .. 16 |-> k] \o [k \in 1 .. 13 |-> 17 + k])
                \o StopEnd) >>

=============================================================================
