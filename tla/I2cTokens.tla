----------------------------- MODULE I2cTokens -----------------------------
(***************************************************************************)
(* Token lists: the bytes that the server puts in a request buffer, and    *)
(* how i2cLoadTokens turns the next part of them into one batch, the       *)
(* contents of an interface's token and write-data registers.              *)
(*                                                                         *)
(* The two token registers are one sequence of at most TK_SLOTS tokens,    *)
(* slots after its last one hold END (the registers are cleared first);    *)
(* the two write-data registers are one sequence of at most WDATA_SLOTS    *)
(* bytes.  The current lengths are tk_offset and wdat_offset.              *)
(***************************************************************************)
EXTENDS Integers, Sequences, SequencesExt

CONSTANTS
  TK_SLOTS,      \* tokens that the list processor holds (16 in the code)
  WDATA_SLOTS,   \* bytes of write data that it holds (8 in the code)
  PAST_END       \* the byte that follows a request in its buffer

ASSUME TokensAssumption ==
  /\ TK_SLOTS \in Nat \ {0}
  /\ WDATA_SLOTS \in Nat \ {0}
  /\ PAST_END \in 0 .. 255

Byte == 0 .. 255

\* The transport's tokens.
I2C_TK_END      == 0
I2C_TK_START    == 1
I2C_TK_ADDRW    == 2
I2C_TK_ADDRR    == 3
I2C_TK_DATA_END == 5
I2C_TK_STOP     == 6
I2C_TK_DAT      == 7

\* Mutant: no case for END.
i2c_token_t_NoEnd == {I2C_TK_START, I2C_TK_ADDRW, I2C_TK_ADDRR,
                      I2C_TK_DATA_END, I2C_TK_STOP, I2C_TK_DAT}

i2c_token_t == {I2C_TK_END, I2C_TK_START, I2C_TK_ADDRW, I2C_TK_ADDRR,
                I2C_TK_DATA_END, I2C_TK_STOP, I2C_TK_DAT}

\* The list processor's tokens: same numbers, but for data.
OC4_I2C_TK_END   == 0
OC4_I2C_TK_ADDRW == 2
OC4_I2C_TK_ADDRR == 3
OC4_I2C_TK_DATA  == 4

odroid_tok(tok) == IF tok = I2C_TK_DAT THEN OC4_I2C_TK_DATA ELSE tok

-----------------------------------------------------------------------------
\* i2cLoadTokens.  body is the request after its client and address bytes, and
\* i the loop's offset into it.

\* ddr after a token: 0 writing, 1 reading.
Direction(tok, ddr) ==
  CASE tok = I2C_TK_ADDRW -> 0
    [] tok = I2C_TK_ADDRR -> 1
    [] OTHER -> ddr

ByteAt(body, k) == IF k <= Len(body) THEN body[k] ELSE PAST_END

\* The request is used up: the slot is filled with END.
PadSlot(s) == [s EXCEPT !.list = Append(@, OC4_I2C_TK_END), !.i = @ + 1]

\* One token goes to its slot; a written byte goes along, and is skipped.
\* Mutants: the byte is not skipped and is taken for a token too; it is taken from
\* one place too far.
LoadSlot_OffByOne(body, s) ==
  LET tok     == body[s.i + 1]
      ddr     == Direction(tok, s.ddr)
      payload == IF tok = I2C_TK_DAT /\ ddr = 0 THEN <<ByteAt(body, s.i + 3)>> ELSE <<>>
  IN [s EXCEPT !.list  = Append(@, odroid_tok(tok)),
               !.wdata = @ \o payload,
               !.i     = @ + 1 + Len(payload),
               !.ddr   = ddr]

LoadSlot_PayloadParsed(body, s) ==
  LET ddr     == Direction(body[s.i + 1], s.ddr)
      payload == IF body[s.i + 1] = I2C_TK_DAT /\ ddr = 0
                   THEN <<ByteAt(body, s.i + 2)>> ELSE <<>>
  IN [s EXCEPT !.list  = Append(@, odroid_tok(body[s.i + 1])),
               !.wdata = @ \o payload,
               !.i     = @ + 1,
               !.ddr   = ddr]

LoadSlot(body, s) ==
  LET tok     == body[s.i + 1]
      ddr     == Direction(tok, s.ddr)
      payload == IF tok = I2C_TK_DAT /\ ddr = 0 THEN <<ByteAt(body, s.i + 2)>> ELSE <<>>
  IN [s EXCEPT !.list  = Append(@, odroid_tok(tok)),
               !.wdata = @ \o payload,
               !.i     = @ + 1 + Len(payload),
               !.ddr   = ddr]

\* One turn of the while loop, when its condition holds and no token was bad.
\* Mutants: one written byte too many, one too few.
LoadTurn_Overflow(body, s) ==
  IF ~s.ok \/ Len(s.wdata) > WDATA_SLOTS THEN s
  ELSE IF s.i >= Len(body) THEN PadSlot(s)
  ELSE IF body[s.i + 1] \notin i2c_token_t THEN [s EXCEPT !.ok = FALSE]
  ELSE LoadSlot(body, s)

LoadTurn_Early(body, s) ==
  IF ~s.ok \/ Len(s.wdata) >= WDATA_SLOTS - 1 THEN s
  ELSE IF s.i >= Len(body) THEN PadSlot(s)
  ELSE IF body[s.i + 1] \notin i2c_token_t THEN [s EXCEPT !.ok = FALSE]
  ELSE LoadSlot(body, s)

LoadTurn(body, s) ==
  IF ~s.ok \/ Len(s.wdata) >= WDATA_SLOTS THEN s
  ELSE IF s.i >= Len(body) THEN PadSlot(s)
  ELSE IF body[s.i + 1] \notin i2c_token_t THEN [s EXCEPT !.ok = FALSE]
  ELSE LoadSlot(body, s)

\* Op applied n times.  (The set holds each intermediate value for TLC, which
\* evaluates a parameter anew wherever it occurs in an ENABLED formula.)
Iterate(Op(_), start, n) ==
  LET after[k \in 0 .. n] ==
        IF k = 0 THEN start
        ELSE CHOOSE t \in {Op(s) : s \in {after[k - 1]}} : TRUE
  IN after[n]

\* What i2cLoadTokens leaves: ok is FALSE where it returns -1 for a bad token.
\* Every turn that fills a slot moves tk_offset on by one, so the loop takes at
\* most TK_SLOTS turns.  Mutant: every batch starts over at the first token.
LoadFrom(body, offset, remaining, ddr) ==
  LET start == [i |-> offset, list |-> <<>>, wdata |-> <<>>, ddr |-> ddr, ok |-> TRUE]
      last  == Iterate(LAMBDA s : LoadTurn(body, s), start, TK_SLOTS)
      left  == Len(body) - last.i
  IN [ok |-> last.ok, list |-> last.list, wdata |-> last.wdata, ddr |-> last.ddr,
      remaining |-> IF ~last.ok THEN remaining ELSE IF left > 0 THEN left ELSE 0]

LoadBatch_StartOver(body, remaining, ddr) == LoadFrom(body, 0, remaining, ddr)

LoadBatch(body, remaining, ddr) ==
  LoadFrom(body, Len(body) - remaining, remaining, ddr)

-----------------------------------------------------------------------------
\* The list processor: what a batch does on the bus.  An operation is a token
\* with, for a written byte, that byte: the next of the write data, or 0 from the
\* cleared registers where there is none.

\* The slots up to the first END.
Live(list) ==
  LET ends == {k \in 1 .. Len(list) : list[k] = OC4_I2C_TK_END}
  IN SubSeq(list, 1, IF ends = {} THEN Len(list) ELSE Min(ends) - 1)

Operate(tok, s) ==
  LET ddr   == Direction(tok, s.ddr)
      write == tok = OC4_I2C_TK_DATA /\ ddr = 0
      read  == tok = OC4_I2C_TK_DATA /\ ddr = 1
  IN [ddr   |-> ddr,
      ops   |-> Append(s.ops, IF write THEN <<tok, Head(Append(s.wdata, 0))>> ELSE <<tok>>),
      wdata |-> IF write /\ s.wdata # <<>> THEN Tail(s.wdata) ELSE s.wdata,
      reads |-> s.reads + IF read THEN 1 ELSE 0]

\* Operations done, direction left and bytes read by a batch that succeeds.
Execute(list, wdata, ddr) ==
  LET todo == Live(list)
      start == [ddr |-> ddr, ops |-> <<>>, wdata |-> wdata, reads |-> 0]
  IN Iterate(LAMBDA s : Operate(todo[Len(s.ops) + 1], s), start, Len(todo))

\* The bytes that ask for a sequence of operations: the request format.
OpBytes(op) ==
  <<IF op[1] = OC4_I2C_TK_DATA THEN I2C_TK_DAT ELSE op[1]>> \o Tail(op)

Request(ops) == FlattenSeq([k \in DOMAIN ops |-> OpBytes(ops[k])]) \o <<I2C_TK_END>>

-----------------------------------------------------------------------------
\* Operations that a client may ask for: each transfer of data says first in which
\* direction it goes.

Oc4Token == 0 .. 6

\* An operation: a token, and the byte if it writes one.
Operation ==
  {op \in Seq(Byte) : /\ Len(op) \in {1, 2} /\ op[1] \in Oc4Token \ {OC4_I2C_TK_END}
                      /\ Len(op) = 2 => op[1] = OC4_I2C_TK_DATA}

Address == {OC4_I2C_TK_ADDRW, OC4_I2C_TK_ADDRR}

\* The last address among the first k operations is the j-th one.
Facing(ops, j, k) ==
  /\ j \in 1 .. k /\ ops[j][1] \in Address
  /\ \A i \in j + 1 .. k : ops[i][1] \notin Address

\* A byte comes with each data token after an address to write to, and with no other.
Transaction(ops) ==
  /\ ops \in Seq(Operation)
  /\ \A k \in 1 .. Len(ops) : ops[k][1] = OC4_I2C_TK_DATA =>
       \E j \in 1 .. k : /\ Facing(ops, j, k)
                         /\ Len(ops[k]) = 2 <=> ops[j][1] = OC4_I2C_TK_ADDRW

=============================================================================
