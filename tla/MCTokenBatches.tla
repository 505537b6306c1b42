--------------------------- MODULE MCTokenBatches ---------------------------
(***************************************************************************)
(* TokenBatches for TLC: every transaction of a START, an address and      *)
(* MORE_OPS operations of any kind, END terminated, and some longer        *)
(* writes, with half the register slots or fewer.  The bytes written are   *)
(* numbers of tokens (ADDRR, DAT, END) and one that is no token.  The      *)
(* requests of the test programs; and any other sequence of a few bytes.   *)
(***************************************************************************)
EXTENDS TokenBatches, I2cTests

CONSTANTS
  MORE_OPS,    \* operations of a transaction after its START and address
  MORE_BYTES   \* bytes of a request of any bytes

Data == {OC4_I2C_TK_DATA}

Payloads == {I2C_TK_END, I2C_TK_ADDRR, I2C_TK_DAT, 9}

\* Operations that may follow in a transaction whose direction is d.
Follow(d) ==
  {<<I2C_TK_START>>, <<I2C_TK_STOP>>, <<I2C_TK_DATA_END>>,
   <<I2C_TK_ADDRW>>, <<I2C_TK_ADDRR>>}
    \cup (IF d = 0 THEN Data \X Payloads ELSE {<<OC4_I2C_TK_DATA>>})

Direct(ops) ==
  FoldLeft(LAMBDA d, op : Direction(op[1], d), 0, ops)

Transactions ==
  LET upto[n \in 0 .. MORE_OPS] ==
        IF n = 0
        THEN {<< <<I2C_TK_START>>, <<a>> >> : a \in {I2C_TK_ADDRW, I2C_TK_ADDRR}}
        ELSE upto[n - 1] \cup
             UNION {{Append(ops, op) : op \in Follow(Direct(ops))} :
                      ops \in {t \in upto[n - 1] : Len(t) = n + 1}}
  IN upto[MORE_OPS]

\* Writes of up to three times the bytes that a batch has room for.
LongWrites ==
  {<<<<I2C_TK_START>>, <<I2C_TK_ADDRW>>>>
     \o [k \in 1 .. n |-> <<OC4_I2C_TK_DATA, payload>>]
     \o <<<<I2C_TK_STOP>>>> : n \in 1 .. 3 * WDATA_SLOTS, payload \in Payloads}

\* The requests of the test programs.
TestRequests == {r.body : r \in ToSet(testds3231 \o test \o testLong)}

MCRequests == {Request(ops) : ops \in Transactions \cup LongWrites} \cup TestRequests

\* Any bytes at all, up to MORE_BYTES of them.
MCAnyBytes ==
  UNION {[1 .. n -> {I2C_TK_END, I2C_TK_START, I2C_TK_ADDRW, I2C_TK_ADDRR, I2C_TK_DAT, 9}] :
           n \in 0 .. MORE_BYTES}

-----------------------------------------------------------------------------
\* What the proofs assume of the requests.

\* The operations that a request's bytes ask for.
OpsOf(request) ==
  LET from[k \in 1 .. Len(request), d \in {0, 1}] ==
        LET tok == request[k]
            dir == Direction(tok, d)
        IN CASE tok = I2C_TK_END -> <<>>
             [] tok = I2C_TK_DAT /\ dir = 0 ->
                  << <<OC4_I2C_TK_DATA, request[k + 1]>> >> \o from[k + 2, dir]
             [] tok = I2C_TK_DAT /\ dir = 1 -> << <<OC4_I2C_TK_DATA>> >> \o from[k + 1, dir]
             [] OTHER -> << <<tok>> >> \o from[k + 1, dir]
  IN from[1, 0]

ASSUME RequestsAreFormed ==
  /\ \A ops \in Transactions \cup LongWrites : Transaction(ops)
  /\ \A r \in TestRequests : Transaction(OpsOf(r)) /\ r = Request(OpsOf(r))

ASSUME PastEndIsTold == PastEndIsDistinct

=============================================================================
