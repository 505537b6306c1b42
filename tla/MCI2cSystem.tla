---------------------------- MODULE MCI2cSystem ----------------------------
(***************************************************************************)
(* I2cSystem for TLC: programs of requests.  With four token slots and two *)
(* bytes of write data a request of five operations takes two batches.     *)
(***************************************************************************)
EXTENDS I2cSystem, I2cTests

\* The byte written is the number of a token.
WriteOps ==
  << <<I2C_TK_START>>, <<I2C_TK_ADDRW>>, <<OC4_I2C_TK_DATA, I2C_TK_ADDRR>>, <<I2C_TK_STOP>> >>

ReadOps ==
  << <<I2C_TK_START>>, <<I2C_TK_ADDRR>>, <<OC4_I2C_TK_DATA>>, <<I2C_TK_DATA_END>>, <<I2C_TK_STOP>> >>

Write(b, client, addr) ==
  [bus |-> b, client |-> client, addr |-> addr, body |-> Request(WriteOps)]

Read(b, client, addr) ==
  [bus |-> b, client |-> client, addr |-> addr, body |-> Request(ReadOps)]

\* Two requests on one bus, the second to a lower target that has none of the first
\* one's bits, and one on the other.
TwoAndOne == <<Write(2, 1, 104), Write(3, 2, 36), Read(2, 3, 16)>>

\* One request on each bus.
OneEach == <<Write(2, 1, 104), Read(3, 2, 36)>>

\* Nothing but a client and an address ("Invalid request size", and started all the
\* same), and a byte that is no token after one batch of good ones.
Nothing(b, client) == [bus |-> b, client |-> client, addr |-> 36, body |-> <<>>]

BadToken(b, client) ==
  [bus |-> b, client |-> client, addr |-> 36,
   body |-> <<I2C_TK_START, I2C_TK_ADDRW, I2C_TK_DAT, 1, I2C_TK_DAT, 2, 9, I2C_TK_END>>]

\* Three on one bus, more than it has return buffers, and on the other two that no
\* client should make.
Five == <<Write(2, 1, 104), Nothing(3, 3), Read(2, 2, 80), BadToken(3, 5), Write(2, 4, 104)>>

\* Two targets on one bus, on either side of address 64.
HighThenLow == <<Write(2, 1, 104), Write(2, 2, 36)>>

\* An address of eight bits.
BadAddress == <<Write(2, 1, 200)>>

-----------------------------------------------------------------------------
\* What the proofs assume of a program, of those above that ask for it.
ASSUME SafetyProgram ==
  Program = TwoAndOne =>
    /\ EnoughReturns
    /\ Transaction(WriteOps) /\ Transaction(ReadOps)
    /\ \A b \in Bus : \A x \in Wanted(b) :
         x.addr <= 127 /\ x.body \in {Request(WriteOps), Request(ReadOps)}

ASSUME OtherPrograms == Program = Five => ~EnoughReturns

=============================================================================
