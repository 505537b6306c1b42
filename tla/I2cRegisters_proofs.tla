------------------------- MODULE I2cRegisters_proofs -------------------------
(***************************************************************************)
(* Proofs about I2cRegisters for every content of the registers at boot,   *)
(* every set of registers that take no write, every batch and address.     *)
(***************************************************************************)
EXTENDS I2cRegisters, TLAPS

-----------------------------------------------------------------------------
\* Sets of bits.

\* The values that are shifted in, as sets of bits.
LEMMA ShiftedValues ==
  /\ Shl(GPIO_PM5_X_I2C, 4) = {4} /\ Shl(GPIO_PM5_X_I2C, 8) = {8}
  /\ Shl(GPIO_PE_A_I2C, 24) = {24, 25} /\ Shl(GPIO_PE_A_I2C, 28) = {28, 29}
  /\ Shl(ds, GPIO_DS_2B_X17_SHIFT) = {2, 3} /\ Shl(ds, GPIO_DS_2B_X18_SHIFT) = {4, 5}
  /\ Shl(ds, GPIO_DS_5A_A14_SHIFT) = {28, 29} /\ Shl(ds, GPIO_DS_5A_A15_SHIFT) = {30, 31}
  /\ Shl(div_h, REG_CTRL_CLKDIV_SHIFT) = {13, 15, 16, 19}
  /\ Shl(div_l, REG_ADDR_SCLDELAY_SHFT) = {18, 20, 21, 22}
  BY DEF Shl, GPIO_PM5_X_I2C, GPIO_PE_A_I2C, ds, div_h, div_l, GPIO_DS_2B_X17_SHIFT,
         GPIO_DS_2B_X18_SHIFT, GPIO_DS_5A_A14_SHIFT, GPIO_DS_5A_A15_SHIFT,
         REG_CTRL_CLKDIV_SHIFT, REG_ADDR_SCLDELAY_SHFT

\* The masks of neighbouring fields.
LEMMA Masks ==
  /\ GPIO_PM5_X17 \cup GPIO_PM5_X18 = 4 .. 11
  /\ GPIO_PE_A14 \cup GPIO_PE_A15 = 24 .. 31
  /\ GPIO_DS_2B_X17 \cup GPIO_DS_2B_X18 = 0 .. 3
  /\ GPIO_DS_5A_A14 \cup GPIO_DS_5A_A15 = 28 .. 31
  BY DEF GPIO_PM5_X17, GPIO_PM5_X18, GPIO_PE_A14, GPIO_PE_A15, GPIO_DS_2B_X17,
         GPIO_DS_2B_X18, GPIO_DS_5A_A14, GPIO_DS_5A_A15

\* What can be done with words.
LEMMA Words ==
  ASSUME NEW w \in Word, NEW v \in Word, NEW m
  PROVE  w \cup v \in Word /\ w \ m \in Word
  BY DEF Word

LEMMA ShiftedWords ==
  /\ Shl(GPIO_PM5_X_I2C, 4) \in Word /\ Shl(GPIO_PM5_X_I2C, 8) \in Word
  /\ Shl(GPIO_PE_A_I2C, 24) \in Word /\ Shl(GPIO_PE_A_I2C, 28) \in Word
  /\ Shl(ds, GPIO_DS_2B_X17_SHIFT) \in Word /\ Shl(ds, GPIO_DS_2B_X18_SHIFT) \in Word
  /\ Shl(ds, GPIO_DS_5A_A14_SHIFT) \in Word /\ Shl(ds, GPIO_DS_5A_A15_SHIFT) \in Word
  /\ Shl(div_h, REG_CTRL_CLKDIV_SHIFT) \in Word
  /\ Shl(div_l, REG_ADDR_SCLDELAY_SHFT) \in Word
  /\ I2C_CLK81_BIT \in Word /\ REG_CTRL_START \in Word
  /\ REG_CTRL_CNTL_JIC \in Word /\ REG_ADDR_SCLDELAY_ENABLE \in Word
<1>1. \A n \in 0 .. 31 : n \in Bits
  BY DEF Bits
<1> QED
  BY <1>1, ShiftedValues DEF Word, I2C_CLK81_BIT, REG_CTRL_START, REG_CTRL_CNTL_JIC,
                            REG_ADDR_SCLDELAY_ENABLE

\* The place of a bit of the d-th token, or byte, of a register.
LEMMA TokenBit ==
  ASSUME NEW d \in 0 .. 7, NEW i \in 0 .. 3
  PROVE  i + 4 * d \in 0 .. 31
  OBVIOUS

LEMMA ByteBit ==
  ASSUME NEW d \in 0 .. 3, NEW i \in 0 .. 7
  PROVE  i + 8 * d \in 0 .. 31
  OBVIOUS

\* What is packed into a register fits it, for tokens and for bytes.
LEMMA PackedTokens ==
  ASSUME NEW slots \in Seq(SUBSET (0 .. 3)), NEW first \in {0, 8}
  PROVE  Packed(slots, 4, first) \in Word
<1> SUFFICES ASSUME NEW x \in Packed(slots, 4, first)
             PROVE  x \in 0 .. 31
  BY DEF Word, Bits
<1>1. PICK k \in first .. first + (32 \div 4) - 1 :
        k < Len(slots) /\ x \in Shl(slots[k + 1], 4 * (k - first))
  BY DEF Packed
<1>2. PICK j \in slots[k + 1] : x = j + 4 * (k - first)
  BY <1>1 DEF Shl
<1>3. 32 \div 4 = 8
  OBVIOUS
<1>4. k - first \in 0 .. 7 /\ j \in 0 .. 3
  BY <1>1, <1>3
<1> QED
  BY <1>2, <1>4, TokenBit

LEMMA PackedData ==
  ASSUME NEW slots \in Seq(SUBSET (0 .. 7)), NEW first \in {0, 4}
  PROVE  Packed(slots, 8, first) \in Word
<1> SUFFICES ASSUME NEW x \in Packed(slots, 8, first)
             PROVE  x \in 0 .. 31
  BY DEF Word, Bits
<1>1. PICK k \in first .. first + (32 \div 8) - 1 :
        k < Len(slots) /\ x \in Shl(slots[k + 1], 8 * (k - first))
  BY DEF Packed
<1>2. PICK j \in slots[k + 1] : x = j + 8 * (k - first)
  BY <1>1 DEF Shl
<1>3. 32 \div 8 = 4
  OBVIOUS
<1>4. k - first \in 0 .. 3 /\ j \in 0 .. 7
  BY <1>1, <1>3
<1> QED
  BY <1>2, <1>4, ByteBit

\* A register pair gives back the tokens that were packed into it, and END after.
LEMMA UnpackTokens ==
  ASSUME NEW list \in Seq(SUBSET (0 .. 3)), NEW k \in 0 .. 15
  PROVE  DumpSlot(Packed(list, 4, 0), Packed(list, 4, 8), 4, k) =
           IF k < Len(list) THEN list[k + 1] ELSE {}
<1> DEFINE first == IF k < 8 THEN 0 ELSE 8
           slot == IF k < Len(list) THEN list[k + 1] ELSE {}
<1>1. slot \subseteq 0 .. 3
  OBVIOUS
<1>2. k % 8 = k - first /\ 32 \div 4 = 8
  OBVIOUS
<1>3. DumpSlot(Packed(list, 4, 0), Packed(list, 4, 8), 4, k) =
        {i \in 0 .. 3 : 4 * (k - first) + i \in Packed(list, 4, first)}
  BY <1>2 DEF DumpSlot
<1>4. ASSUME NEW i \in 0 .. 3
      PROVE  4 * (k - first) + i \in Packed(list, 4, first) <=> i \in slot
  <2>1. ASSUME i \in slot PROVE 4 * (k - first) + i \in Packed(list, 4, first)
    <3>1. k \in first .. first + (32 \div 4) - 1 /\ k < Len(list) /\ i \in list[k + 1]
      BY <1>2, <2>1
    <3>2. i + 4 * (k - first) \in Shl(list[k + 1], 4 * (k - first))
      BY <3>1 DEF Shl
    <3> QED
      BY <3>1, <3>2 DEF Packed
  <2>2. ASSUME 4 * (k - first) + i \in Packed(list, 4, first) PROVE i \in slot
    <3>1. PICK l \in first .. first + (32 \div 4) - 1 :
            l < Len(list) /\ 4 * (k - first) + i \in Shl(list[l + 1], 4 * (l - first))
      BY <2>2 DEF Packed
    <3>2. PICK j \in list[l + 1] : 4 * (k - first) + i = j + 4 * (l - first)
      BY <3>1 DEF Shl
    <3>3. l + 1 \in 1 .. Len(list) /\ j \in 0 .. 3
      BY <1>2, <3>1
    <3>4. l = k /\ j = i
      BY <3>2, <3>3
    <3> QED
      BY <3>1, <3>4
  <2> QED
    BY <2>1, <2>2
<1> QED
  BY <1>1, <1>3, <1>4

\* And the bytes.
LEMMA UnpackData ==
  ASSUME NEW wdata \in Seq(SUBSET (0 .. 7)), NEW k \in 0 .. 7
  PROVE  DumpSlot(Packed(wdata, 8, 0), Packed(wdata, 8, 4), 8, k) =
           IF k < Len(wdata) THEN wdata[k + 1] ELSE {}
<1> DEFINE first == IF k < 4 THEN 0 ELSE 4
           slot == IF k < Len(wdata) THEN wdata[k + 1] ELSE {}
<1>1. slot \subseteq 0 .. 7
  OBVIOUS
<1>2. k % 4 = k - first /\ 32 \div 8 = 4
  OBVIOUS
<1>3. DumpSlot(Packed(wdata, 8, 0), Packed(wdata, 8, 4), 8, k) =
        {i \in 0 .. 7 : 8 * (k - first) + i \in Packed(wdata, 8, first)}
  BY <1>2 DEF DumpSlot
<1>4. ASSUME NEW i \in 0 .. 7
      PROVE  8 * (k - first) + i \in Packed(wdata, 8, first) <=> i \in slot
  <2>1. ASSUME i \in slot PROVE 8 * (k - first) + i \in Packed(wdata, 8, first)
    <3>1. k \in first .. first + (32 \div 8) - 1 /\ k < Len(wdata) /\ i \in wdata[k + 1]
      BY <1>2, <2>1
    <3>2. i + 8 * (k - first) \in Shl(wdata[k + 1], 8 * (k - first))
      BY <3>1 DEF Shl
    <3> QED
      BY <3>1, <3>2 DEF Packed
  <2>2. ASSUME 8 * (k - first) + i \in Packed(wdata, 8, first) PROVE i \in slot
    <3>1. PICK l \in first .. first + (32 \div 8) - 1 :
            l < Len(wdata) /\ 8 * (k - first) + i \in Shl(wdata[l + 1], 8 * (l - first))
      BY <2>2 DEF Packed
    <3>2. PICK j \in wdata[l + 1] : 8 * (k - first) + i = j + 8 * (l - first)
      BY <3>1 DEF Shl
    <3>3. l + 1 \in 1 .. Len(wdata) /\ j \in 0 .. 7
      BY <1>2, <3>1
    <3>4. l = k /\ j = i
      BY <3>2, <3>3
    <3> QED
      BY <3>1, <3>4
  <2> QED
    BY <2>1, <2>2
<1> QED
  BY <1>1, <1>3, <1>4

-----------------------------------------------------------------------------
\* Types.

RegistersTyped == TypeOK /\ loaded \in [Bus -> {<<>>} \cup {<<batch>> : batch \in Batches}]

LEMMA TypedInit == Init => RegistersTyped
  BY RegistersAssumption DEF Init, RegistersTyped, TypeOK

\* What setupi2c writes to a register is a word, whether or not it is taken.
LEMMA PadWords ==
  ASSUME TypeOK, NEW p \in Pads, NEW w \in Word
  PROVE  Written(p, w) \in Word
  BY DEF TypeOK, Written

\* A 7-bit address fits its register one bit up.
LEMMA AddressBits ==
  ASSUME NEW addr \in Addresses
  PROVE  Shl(addr, 1) \subseteq 0 .. 31
<1>1. \A k \in addr : k \in 0 .. 6
  BY RegistersAssumption
<1>2. \A k \in 0 .. 6 : k + 1 \in 0 .. 31
  OBVIOUS
<1>3. ASSUME NEW x \in Shl(addr, 1) PROVE x \in 0 .. 31
  <2>1. PICK k \in addr : x = k + 1
    BY <1>3 DEF Shl
  <2> QED
    BY <1>1, <1>2, <2>1
<1> QED
  BY <1>3

\* So are the bits that the list processor may set.
LEMMA StatusWord ==
  ASSUME NEW status \in Statuses
  PROVE  status \in Word
<1>1. \A k \in status : k \in 2 .. 11
  BY RegistersAssumption
<1>2. \A k \in 2 .. 11 : k \in Bits
  BY DEF Bits
<1> QED
  BY <1>1, <1>2 DEF Word

LEMMA TypedNext == RegistersTyped /\ [Next]_vars => RegistersTyped'
<1> SUFFICES ASSUME RegistersTyped, [Next]_vars PROVE RegistersTyped'
  OBVIOUS
<1> USE DEF RegistersTyped, TypeOK
<1>1. CASE pinmux
  <2>1. /\ pad["pinmux5"] \cup Shl(GPIO_PM5_X_I2C, 4) \cup Shl(GPIO_PM5_X_I2C, 8) \in Word
        /\ pad["pinmuxE"] \cup Shl(GPIO_PE_A_I2C, 24) \cup Shl(GPIO_PE_A_I2C, 28) \in Word
    BY Words, ShiftedWords DEF Pads
  <2> QED
    BY <1>1, <2>1, PadWords DEF pinmux, Goto, Complaint, Pads
<1>2. CASE strength
  <2>1. \A m : \A v1, v2, w \in Word : (w \ m) \cup (v1 \cup v2) \in Word
    BY Words
  <2> QED
    BY <1>2, <2>1, PadWords, ShiftedWords DEF strength, Goto, Complaint, Pads
<1>3. CASE bias
  <2>1. \A m : \A w \in Word : w \ m \in Word
    BY DEF Word
  <2> QED
    BY <1>3, <2>1, PadWords DEF bias, Goto, Complaint, Pads
<1>4. CASE clock
  <2>1. \A w \in Word : Ungated(w) \in Word
    BY Words, ShiftedWords DEF Ungated
  <2> QED
    BY <1>4, <2>1, PadWords DEF clock, Goto, Complaint, Pads
<1>5. CASE fields
  <2>1. \A w \in Word : ControlWord(w) \in Word /\ AddressWord(w) \in Word
    BY Words, ShiftedWords DEF ControlWord, AddressWord
  <2> QED
    BY <1>5, <2>1 DEF fields, Goto, If_t
<1>6. ASSUME NEW b \in Bus, i2cLoadTokens(b) PROVE RegistersTyped'
  <2>1. PICK batch \in Batches, addr \in Addresses, started \in BOOLEAN :
          /\ ifm' = [ifm EXCEPT ![b] =
                       [ctl      |-> IF started THEN i2cStart(@.ctl) ELSE @.ctl,
                        addr     |-> SlaveAddr(@.addr, addr),
                        tk_list0 |-> Packed(batch.list, 4, 0),
                        tk_list1 |-> Packed(batch.list, 4, 8),
                        wdata0   |-> Packed(batch.wdata, 8, 0),
                        wdata1   |-> Packed(batch.wdata, 8, 4)]]
          /\ loaded' = [loaded EXCEPT ![b] = <<batch>>]
    BY <1>6 DEF i2cLoadTokens
  <2>2. \A w \in Word : i2cStart(w) \in Word
    BY DEF Word, Bits, i2cStart, REG_CTRL_START
  <2>3. \A w \in Word : SlaveAddr(w, addr) \in Word
    <3>1. Shl(addr, 1) \subseteq 0 .. 31
      BY AddressBits
    <3>2. Shl(addr, 1) \in Word
      BY <3>1 DEF Word, Bits
    <3> QED
      BY <3>2, Words DEF SlaveAddr
  <2>4. /\ Packed(batch.list, 4, 0) \in Word /\ Packed(batch.list, 4, 8) \in Word
        /\ Packed(batch.wdata, 8, 0) \in Word /\ Packed(batch.wdata, 8, 4) \in Word
    BY PackedTokens, PackedData, RegistersAssumption
  <2>5. ifm' \in [Bus -> If_t]
    BY <2>1, <2>2, <2>3, <2>4 DEF If_t
  <2> QED
    BY <1>6, <2>1, <2>5 DEF i2cLoadTokens
<1>7. ASSUME NEW b \in Bus, i2cHalt(b) PROVE RegistersTyped'
  <2>1. \A w \in Word : w \ REG_CTRL_START \in Word
    BY DEF Word
  <2> QED
    BY <1>7, <2>1 DEF i2cHalt, If_t
<1>8. ASSUME NEW b \in Bus, HwStatus(b) PROVE RegistersTyped'
  <2>1. \A w \in Word, status \in Statuses : (w \ (2 .. 11)) \cup status \in Word
    BY Words, StatusWord
  <2> QED
    BY <1>8, <2>1 DEF HwStatus, If_t
<1>9. CASE UNCHANGED vars
  BY <1>9 DEF vars
<1> QED
  BY <1>1, <1>2, <1>3, <1>4, <1>5, <1>6, <1>7, <1>8, <1>9 DEF Next

\* Every register keeps to its 32 bits, whatever is written, loaded or reported.
THEOREM RegistersTypeCorrect == Spec => []TypeOK
<1>1. RegistersTyped => TypeOK
  BY DEF RegistersTyped
<1> QED
  BY <1>1, TypedInit, TypedNext, PTL DEF Spec

LEMMA TypedAlways == Spec => []RegistersTyped
  BY TypedInit, TypedNext, PTL DEF Spec

-----------------------------------------------------------------------------
\* The fields that setupi2c has set in an interface.

CtlSet  == REG_CTRL_CLKDIV_MASK \cup {1, 22, 31}
AddrSet == (8 .. 13) \cup (16 .. 24) \cup {28}

LEMMA FieldsSet ==
  ASSUME NEW w
  PROVE  /\ ControlWord(w) \cap CtlSet = {13, 15, 16, 19, 31}
         /\ AddressWord(w) \cap AddrSet = {18, 20, 21, 22, 28}
<1>1. /\ ControlWord(w) = ((w \ ({22} \cup {1} \cup (12 .. 21))) \cup {31}) \cup {13, 15, 16, 19}
      /\ CtlSet = (12 .. 21) \cup {1, 22, 31}
  BY ShiftedValues DEF ControlWord, CtlSet, REG_CTRL_MANUAL, REG_CTRL_ACK_IGNORE,
                       REG_CTRL_CLKDIV_MASK, REG_CTRL_CNTL_JIC
<1>2. AddressWord(w) =
        ((w \ ((11 .. 13) \cup (8 .. 10) \cup (16 .. 24))) \cup {18, 20, 21, 22}) \cup {28}
  BY ShiftedValues DEF AddressWord, REG_ADDR_SCLFILTER, REG_ADDR_SDAFILTER, SCLDELAY,
                       REG_ADDR_SCLDELAY_ENABLE
<1>3. ControlWord(w) \cap CtlSet = {13, 15, 16, 19, 31}
  BY <1>1
<1>4. AddressWord(w) \cap AddrSet = {18, 20, 21, 22, 28}
  BY <1>2 DEF AddrSet
<1> QED
  BY <1>3, <1>4

\* Starting, halting, reporting and addressing leave those fields alone.
LEMMA StartLeft ==
  ASSUME NEW w
  PROVE  /\ i2cStart(w) \cap CtlSet = w \cap CtlSet
         /\ (w \ REG_CTRL_START) \cap CtlSet = w \cap CtlSet
  BY DEF i2cStart, REG_CTRL_START, CtlSet, REG_CTRL_CLKDIV_MASK

LEMMA StatusLeft ==
  ASSUME NEW w, NEW status \in Statuses
  PROVE  ((w \ (2 .. 11)) \cup status) \cap CtlSet = w \cap CtlSet
<1>1. \A k \in status : k \in 2 .. 11
  BY RegistersAssumption
<1> QED
  BY <1>1 DEF CtlSet, REG_CTRL_CLKDIV_MASK

LEMMA AddressLeft ==
  ASSUME NEW w, NEW addr \in Addresses
  PROVE  SlaveAddr(w, addr) \cap AddrSet = w \cap AddrSet
<1>1. \A k \in addr : k \in 0 .. 6
  BY RegistersAssumption
<1>2. \A k \in 0 .. 6 : k + 1 \in 1 .. 7
  OBVIOUS
<1>3. \A k \in Shl(addr, 1) : k \in 1 .. 7
  BY <1>1, <1>2 DEF Shl
<1> QED
  BY <1>3 DEF SlaveAddr, AddrSet

Configured(b) ==
  /\ ifm[b].ctl \cap CtlSet = {13, 15, 16, 19, 31}
  /\ ifm[b].addr \cap AddrSet = {18, 20, 21, 22, 28}

ConfigInv == step = "running" => \A b \in Bus : Configured(b)

\* Only fields leads to "running", and nothing leads away from it.
LEMMA ConfigNext == RegistersTyped /\ ConfigInv /\ [Next]_vars => ConfigInv'
<1> SUFFICES ASSUME RegistersTyped, ConfigInv, [Next]_vars, step' = "running",
                    NEW c \in Bus
             PROVE  Configured(c)'
  BY DEF ConfigInv
<1>0. ifm \in [Bus -> If_t]
  BY DEF RegistersTyped, TypeOK
<1>1. CASE pinmux \/ strength \/ bias \/ clock
  BY <1>1 DEF pinmux, strength, bias, clock, Goto
<1>2. CASE fields
  <2>1. /\ ifm'[c].ctl = ControlWord(ifm[c].ctl)
        /\ ifm'[c].addr = AddressWord(ifm[c].addr)
    BY <1>0, <1>2 DEF fields, If_t
  <2> QED
    BY <2>1, FieldsSet DEF Configured
<1>3. ASSUME NEW b \in Bus, i2cLoadTokens(b) PROVE Configured(c)'
  <2>1. PICK batch \in Batches, addr \in Addresses, started \in BOOLEAN :
          ifm' = [ifm EXCEPT ![b] =
                   [ctl      |-> IF started THEN i2cStart(@.ctl) ELSE @.ctl,
                    addr     |-> SlaveAddr(@.addr, addr),
                    tk_list0 |-> Packed(batch.list, 4, 0),
                    tk_list1 |-> Packed(batch.list, 4, 8),
                    wdata0   |-> Packed(batch.wdata, 8, 0),
                    wdata1   |-> Packed(batch.wdata, 8, 4)]]
    BY <1>3 DEF i2cLoadTokens
  <2>2. step = "running"
    BY <1>3 DEF i2cLoadTokens
  <2>3. Configured(c)
    BY <2>2 DEF ConfigInv
  <2>4. CASE b = c
    <3>1. /\ ifm'[c].ctl = ifm[c].ctl \/ ifm'[c].ctl = i2cStart(ifm[c].ctl)
          /\ ifm'[c].addr = SlaveAddr(ifm[c].addr, addr)
      BY <1>0, <2>1, <2>4
    <3>2. ifm'[c].ctl \cap CtlSet = ifm[c].ctl \cap CtlSet
      BY <3>1, StartLeft
    <3>3. SlaveAddr(ifm[c].addr, addr) \cap AddrSet = ifm[c].addr \cap AddrSet
      BY AddressLeft
    <3> QED
      BY <2>3, <3>1, <3>2, <3>3 DEF Configured
  <2>5. CASE b # c
    BY <1>0, <2>1, <2>3, <2>5 DEF Configured
  <2> QED
    BY <2>4, <2>5
<1>4. ASSUME NEW b \in Bus, i2cHalt(b) PROVE Configured(c)'
  <2>1. step = "running" /\ ifm' = [ifm EXCEPT ![b].ctl = @ \ REG_CTRL_START]
    BY <1>4 DEF i2cHalt
  <2>2. ifm'[c].addr = ifm[c].addr
    BY <1>0, <2>1 DEF If_t
  <2>3. ifm'[c].ctl = ifm[c].ctl \/ ifm'[c].ctl = ifm[c].ctl \ REG_CTRL_START
    BY <1>0, <2>1 DEF If_t
  <2>4. ifm'[c].ctl \cap CtlSet = ifm[c].ctl \cap CtlSet
    BY <2>3, StartLeft
  <2>5. Configured(c)
    BY <2>1 DEF ConfigInv
  <2> QED
    BY <2>2, <2>4, <2>5 DEF Configured
<1>5. ASSUME NEW b \in Bus, HwStatus(b) PROVE Configured(c)'
  <2>1. PICK status \in Statuses : ifm' = [ifm EXCEPT ![b].ctl = (@ \ (2 .. 11)) \cup status]
    BY <1>5 DEF HwStatus
  <2>2. ifm'[c].addr = ifm[c].addr
    BY <1>0, <2>1 DEF If_t
  <2>3. ifm'[c].ctl = ifm[c].ctl \/ ifm'[c].ctl = (ifm[c].ctl \ (2 .. 11)) \cup status
    BY <1>0, <2>1 DEF If_t
  <2>4. step = "running"
    BY <1>5 DEF HwStatus
  <2>5. ifm'[c].ctl \cap CtlSet = ifm[c].ctl \cap CtlSet
    BY <2>3, StatusLeft
  <2>6. Configured(c)
    BY <2>4 DEF ConfigInv
  <2> QED
    BY <2>2, <2>5, <2>6 DEF Configured
<1>6. CASE UNCHANGED vars
  BY <1>6 DEF vars, ConfigInv, Configured
<1> QED
  BY <1>1, <1>2, <1>3, <1>4, <1>5, <1>6 DEF Next

\* Once setupi2c has set them, the clock divider, the delay, the filters and the mode
\* of both interfaces stay as they are, whatever is loaded, started, halted and
\* reported; for every content of the registers at boot.
THEOREM RegistersConfigKept == Spec => []ConfigKept
<1>1. ConfigInv => ConfigKept
  BY DEF ConfigInv, Configured, ConfigKept, CtlSet, AddrSet
<1>2. Init => ConfigInv
  BY DEF Init, ConfigInv
<1> QED
  BY <1>1, <1>2, TypedInit, TypedNext, ConfigNext, PTL DEF Spec

-----------------------------------------------------------------------------
\* The token and data registers hold the batch last loaded.

Loaded(b) ==
  loaded[b] # <<>> =>
    /\ ifm[b].tk_list0 = Packed(loaded[b][1].list, 4, 0)
    /\ ifm[b].tk_list1 = Packed(loaded[b][1].list, 4, 8)
    /\ ifm[b].wdata0 = Packed(loaded[b][1].wdata, 8, 0)
    /\ ifm[b].wdata1 = Packed(loaded[b][1].wdata, 8, 4)

LoadedInv == /\ \A b \in Bus : Loaded(b)
             /\ step # "running" => \A b \in Bus : loaded[b] = <<>>

LEMMA LoadedNext == RegistersTyped /\ LoadedInv /\ [Next]_vars => LoadedInv'
<1> SUFFICES ASSUME RegistersTyped, LoadedInv, [Next]_vars PROVE LoadedInv'
  OBVIOUS
<1>0. ifm \in [Bus -> If_t] /\ DOMAIN loaded = Bus
  BY DEF RegistersTyped, TypeOK
<1>1. CASE pinmux \/ strength \/ bias \/ clock \/ UNCHANGED vars
  BY <1>1 DEF pinmux, strength, bias, clock, Goto, vars, LoadedInv, Loaded
<1>2. CASE fields
  BY <1>2 DEF fields, Goto, LoadedInv, Loaded
<1>3. ASSUME NEW b \in Bus, i2cLoadTokens(b) PROVE LoadedInv'
  <2>1. PICK batch \in Batches, addr \in Addresses, started \in BOOLEAN :
          /\ ifm' = [ifm EXCEPT ![b] =
                      [ctl      |-> IF started THEN i2cStart(@.ctl) ELSE @.ctl,
                       addr     |-> SlaveAddr(@.addr, addr),
                       tk_list0 |-> Packed(batch.list, 4, 0),
                       tk_list1 |-> Packed(batch.list, 4, 8),
                       wdata0   |-> Packed(batch.wdata, 8, 0),
                       wdata1   |-> Packed(batch.wdata, 8, 4)]]
          /\ loaded' = [loaded EXCEPT ![b] = <<batch>>]
    BY <1>3 DEF i2cLoadTokens
  <2>2. Loaded(b)'
    <3>1. loaded'[b] = <<batch>>
      BY <1>0, <2>1
    <3>2. loaded'[b][1] = batch
      BY <3>1
    <3>3. /\ ifm'[b].tk_list0 = Packed(batch.list, 4, 0)
          /\ ifm'[b].tk_list1 = Packed(batch.list, 4, 8)
          /\ ifm'[b].wdata0 = Packed(batch.wdata, 8, 0)
          /\ ifm'[b].wdata1 = Packed(batch.wdata, 8, 4)
      BY <1>0, <2>1
    <3> QED
      BY <3>2, <3>3 DEF Loaded
  <2>3. ASSUME NEW c \in Bus, c # b PROVE Loaded(c)'
    <3>1. ifm'[c] = ifm[c] /\ loaded'[c] = loaded[c]
      BY <1>0, <2>1, <2>3
    <3> QED
      BY <3>1 DEF LoadedInv, Loaded
  <2>4. step' = "running"
    BY <1>3 DEF i2cLoadTokens
  <2> QED
    BY <2>2, <2>3, <2>4 DEF LoadedInv
<1>4. ASSUME NEW b \in Bus, i2cHalt(b) \/ HwStatus(b) PROVE LoadedInv'
  <2>1. /\ UNCHANGED <<step, loaded>>
        /\ \E w : ifm' = [ifm EXCEPT ![b].ctl = w]
    BY <1>4 DEF i2cHalt, HwStatus
  <2>2. ASSUME NEW c \in Bus
        PROVE  /\ ifm'[c].tk_list0 = ifm[c].tk_list0 /\ ifm'[c].tk_list1 = ifm[c].tk_list1
               /\ ifm'[c].wdata0 = ifm[c].wdata0 /\ ifm'[c].wdata1 = ifm[c].wdata1
    BY <1>0, <2>1 DEF If_t
  <2> QED
    BY <2>1, <2>2 DEF LoadedInv, Loaded
<1> QED
  BY <1>1, <1>2, <1>3, <1>4 DEF Next

\* What i2cDump prints of an interface, and the list processor does, is the batch
\* that was loaded, slot for slot, with END and zero bytes in the slots left over;
\* for every batch and every content of the registers before.
THEOREM RegistersDumpShowsBatch == Spec => []DumpShowsBatch
<1>1. RegistersTyped /\ LoadedInv => DumpShowsBatch
  <2> SUFFICES ASSUME RegistersTyped, LoadedInv, NEW b \in Bus, loaded[b] # <<>>
               PROVE  LET batch == loaded[b][1]
                          tok(k)  == DumpSlot(ifm[b].tk_list0, ifm[b].tk_list1, 4, k)
                          data(k) == DumpSlot(ifm[b].wdata0, ifm[b].wdata1, 8, k)
                      IN /\ \A k \in 0 .. 15 :
                              tok(k) = IF k < Len(batch.list) THEN batch.list[k + 1] ELSE {}
                         /\ \A k \in 0 .. 7 :
                              data(k) = IF k < Len(batch.wdata) THEN batch.wdata[k + 1] ELSE {}
    BY DEF DumpShowsBatch
  <2>1. PICK batch \in Batches : loaded[b] = <<batch>>
    BY DEF RegistersTyped
  <2>2. loaded[b][1] = batch
    BY <2>1
  <2>3. batch.list \in Seq(SUBSET (0 .. 3)) /\ batch.wdata \in Seq(SUBSET (0 .. 7))
    BY RegistersAssumption
  <2>4. /\ ifm[b].tk_list0 = Packed(batch.list, 4, 0)
        /\ ifm[b].tk_list1 = Packed(batch.list, 4, 8)
        /\ ifm[b].wdata0 = Packed(batch.wdata, 8, 0)
        /\ ifm[b].wdata1 = Packed(batch.wdata, 8, 4)
    BY <2>2 DEF LoadedInv, Loaded
  <2> QED
    BY <2>2, <2>3, <2>4, UnpackTokens, UnpackData
<1>2. Init => LoadedInv
  BY DEF Init, LoadedInv, Loaded
<1> QED
  BY <1>1, <1>2, TypedInit, TypedNext, LoadedNext, PTL DEF Spec

-----------------------------------------------------------------------------
\* The other bits of the pin and clock registers.

\* It is enough that what is written keeps them.
LEMMA WrittenKeeps ==
  ASSUME OthersKept, NEW p \in Pads, NEW w, w \ Own[p] = pad[p] \ Own[p]
  PROVE  Written(p, w) \ Own[p] = boot[p] \ Own[p]
  BY DEF OthersKept, Written

LEMMA OthersNext == RegistersTyped /\ OthersKept /\ [Next]_vars => OthersKept'
<1> SUFFICES ASSUME RegistersTyped, OthersKept, [Next]_vars PROVE OthersKept'
  OBVIOUS
<1>0. DOMAIN pad = Pads
  BY DEF RegistersTyped, TypeOK
<1>1. CASE pinmux
  <2> DEFINE x == pad["pinmux5"] \cup Shl(GPIO_PM5_X_I2C, 4) \cup Shl(GPIO_PM5_X_I2C, 8)
             a == pad["pinmuxE"] \cup Shl(GPIO_PE_A_I2C, 24) \cup Shl(GPIO_PE_A_I2C, 28)
  <2>1. /\ x \ Own["pinmux5"] = pad["pinmux5"] \ Own["pinmux5"]
        /\ a \ Own["pinmuxE"] = pad["pinmuxE"] \ Own["pinmuxE"]
    BY ShiftedValues, Masks DEF Own
  <2>2. pad' = [pad EXCEPT !["pinmux5"] = Written("pinmux5", x),
                           !["pinmuxE"] = Written("pinmuxE", a)] /\ boot' = boot
    BY <1>1 DEF pinmux
  <2> HIDE DEF x, a
  <2> QED
    BY <1>0, <2>1, <2>2, WrittenKeeps DEF OthersKept, Pads
<1>2. CASE strength
  <2> DEFINE x == (pad["ds2b"] \ (GPIO_DS_2B_X17 \cup GPIO_DS_2B_X18))
                    \cup (Shl(ds, GPIO_DS_2B_X17_SHIFT) \cup Shl(ds, GPIO_DS_2B_X18_SHIFT))
             a == (pad["ds5a"] \ (GPIO_DS_5A_A14 \cup GPIO_DS_5A_A15))
                    \cup (Shl(ds, GPIO_DS_5A_A14_SHIFT) \cup Shl(ds, GPIO_DS_5A_A15_SHIFT))
  <2>1. /\ x \ Own["ds2b"] = pad["ds2b"] \ Own["ds2b"]
        /\ a \ Own["ds5a"] = pad["ds5a"] \ Own["ds5a"]
    BY ShiftedValues, Masks DEF Own
  <2>2. pad' = [pad EXCEPT !["ds2b"] = Written("ds2b", x),
                           !["ds5a"] = Written("ds5a", a)] /\ boot' = boot
    BY <1>2 DEF strength
  <2> HIDE DEF x, a
  <2> QED
    BY <1>0, <2>1, <2>2, WrittenKeeps DEF OthersKept, Pads
<1>3. CASE bias
  <2>1. pad' = [pad EXCEPT !["bias2"] = Written("bias2", pad["bias2"] \ BIAS_X),
                           !["bias5"] = Written("bias5", pad["bias5"] \ BIAS_A)] /\ boot' = boot
    BY <1>3 DEF bias
  <2>2. /\ (pad["bias2"] \ BIAS_X) \ Own["bias2"] = pad["bias2"] \ Own["bias2"]
        /\ (pad["bias5"] \ BIAS_A) \ Own["bias5"] = pad["bias5"] \ Own["bias5"]
    BY DEF Own
  <2> QED
    BY <1>0, <2>1, <2>2, WrittenKeeps DEF OthersKept, Pads
<1>4. CASE clock
  <2>1. pad' = [pad EXCEPT !["clk81"] = Written("clk81", Ungated(pad["clk81"]))] /\ boot' = boot
    BY <1>4 DEF clock
  <2>2. Ungated(pad["clk81"]) \ Own["clk81"] = pad["clk81"] \ Own["clk81"]
    BY DEF Own, Ungated
  <2> QED
    BY <1>0, <2>1, <2>2, WrittenKeeps DEF OthersKept, Pads
<1>5. CASE fields \/ (\E b \in Bus : i2cLoadTokens(b) \/ i2cHalt(b) \/ HwStatus(b)) \/ UNCHANGED vars
  BY <1>5 DEF fields, i2cLoadTokens, i2cHalt, HwStatus, vars, OthersKept
<1> QED
  BY <1>1, <1>2, <1>3, <1>4, <1>5 DEF Next

\* The bits of other pins and clocks keep what the boot loader left there, whatever
\* that is and whichever registers take no write.
THEOREM RegistersOthersKept == Spec => []OthersKept
<1>1. Init => OthersKept
  BY DEF Init, OthersKept
<1> QED
  BY <1>1, TypedInit, TypedNext, OthersNext, PTL DEF Spec

-----------------------------------------------------------------------------
\* Checks.

Seen(p) == p \in told

\* The field mask of register p, one of the two in own, holds val.
PinSet(p, own, mask, val) ==
  \/ Seen(p)
  \/ boot[p] \cap mask # {}
  \/ p \in stuck /\ boot[p] \cap own # {}
  \/ pad[p] \cap mask = val

PinsInv ==
  /\ PinSet("pinmux5", 4 .. 11, 4 .. 7, {4})
  /\ PinSet("pinmux5", 4 .. 11, 8 .. 11, {8})
  /\ PinSet("pinmuxE", 24 .. 31, 24 .. 27, {24, 25})
  /\ PinSet("pinmuxE", 24 .. 31, 28 .. 31, {28, 29})

StrengthInv ==
  Seen("ds2b") /\ (Seen("ds5a") \/ pad["ds5a"] \cap (28 .. 31) = 28 .. 31)

BiasInv == /\ Seen("bias2") \/ pad["bias2"] \cap BIAS_X = {}
           /\ Seen("bias5") \/ pad["bias5"] \cap BIAS_A = {}

ClockInv == Seen("clk81") \/ pad["clk81"] \cap {9} = {9}

\* What the checks done so far have made sure of.
ToldInv ==
  /\ step = "pinmux" => pad = boot
  /\ step \notin {"pinmux"} => PinsInv
  /\ step \notin {"pinmux", "strength"} => StrengthInv
  /\ step \notin {"pinmux", "strength", "bias"} => BiasInv
  /\ step \notin {"pinmux", "strength", "bias", "clock"} => ClockInv

LEMMA ToldPinmux ==
  ASSUME RegistersTyped, ToldInv, pinmux
  PROVE  PinsInv'
<1> DEFINE x == pad["pinmux5"] \cup {4} \cup {8}
           a == pad["pinmuxE"] \cup {24, 25} \cup {28, 29}
<1>1. /\ pad = boot /\ boot' = boot /\ stuck' = stuck
      /\ pad' = [pad EXCEPT !["pinmux5"] = Written("pinmux5", x),
                            !["pinmuxE"] = Written("pinmuxE", a)]
      /\ told' = told
           \cup Complaint("pinmux5", Written("pinmux5", x) \cap (4 .. 11) = {})
           \cup Complaint("pinmuxE", Written("pinmuxE", a) \cap (24 .. 31) = {})
  BY ShiftedValues, Masks DEF pinmux, Goto, ToldInv
<1>2. DOMAIN pad = Pads
  BY DEF RegistersTyped, TypeOK
<1>3. /\ pad'["pinmux5"] = IF "pinmux5" \in stuck THEN boot["pinmux5"] ELSE x
      /\ pad'["pinmuxE"] = IF "pinmuxE" \in stuck THEN boot["pinmuxE"] ELSE a
  BY <1>1, <1>2 DEF Pads, Written
<1>4. /\ Seen("pinmux5")' \/ pad'["pinmux5"] \cap (4 .. 11) # {}
      /\ Seen("pinmuxE")' \/ pad'["pinmuxE"] \cap (24 .. 31) # {}
  BY <1>1, <1>2 DEF Pads, Seen, Complaint
<1>5. PinSet("pinmux5", 4 .. 11, 4 .. 7, {4})' /\ PinSet("pinmux5", 4 .. 11, 8 .. 11, {8})'
  <2>1. CASE "pinmux5" \in stuck
    BY <1>1, <1>3, <1>4, <2>1 DEF PinSet
  <2>2. CASE "pinmux5" \notin stuck
    <3>1. pad'["pinmux5"] = boot["pinmux5"] \cup {4} \cup {8}
      BY <1>1, <1>3, <2>2
    <3>2. ASSUME boot["pinmux5"] \cap (4 .. 7) = {} PROVE pad'["pinmux5"] \cap (4 .. 7) = {4}
      <4>1. \A k \in boot["pinmux5"] : k \notin 4 .. 7
        BY <3>2
      <4> QED
        BY <3>1, <4>1
    <3>3. ASSUME boot["pinmux5"] \cap (8 .. 11) = {} PROVE pad'["pinmux5"] \cap (8 .. 11) = {8}
      <4>1. \A k \in boot["pinmux5"] : k \notin 8 .. 11
        BY <3>3
      <4> QED
        BY <3>1, <4>1
    <3> QED
      BY <1>1, <3>2, <3>3 DEF PinSet
  <2> QED
    BY <2>1, <2>2
<1>6. PinSet("pinmuxE", 24 .. 31, 24 .. 27, {24, 25})' /\ PinSet("pinmuxE", 24 .. 31, 28 .. 31, {28, 29})'
  <2>1. CASE "pinmuxE" \in stuck
    BY <1>1, <1>3, <1>4, <2>1 DEF PinSet
  <2>2. CASE "pinmuxE" \notin stuck
    <3>1. pad'["pinmuxE"] = boot["pinmuxE"] \cup {24, 25} \cup {28, 29}
      BY <1>1, <1>3, <2>2
    <3>2. ASSUME boot["pinmuxE"] \cap (24 .. 27) = {} PROVE pad'["pinmuxE"] \cap (24 .. 27) = {24, 25}
      <4>1. \A k \in boot["pinmuxE"] : k \notin 24 .. 27
        BY <3>2
      <4> QED
        BY <3>1, <4>1
    <3>3. ASSUME boot["pinmuxE"] \cap (28 .. 31) = {} PROVE pad'["pinmuxE"] \cap (28 .. 31) = {28, 29}
      <4>1. \A k \in boot["pinmuxE"] : k \notin 28 .. 31
        BY <3>3
      <4> QED
        BY <3>1, <4>1
    <3> QED
      BY <1>1, <3>2, <3>3 DEF PinSet
  <2> QED
    BY <2>1, <2>2
<1> QED
  BY <1>5, <1>6 DEF PinsInv

LEMMA ToldStrength ==
  ASSUME RegistersTyped, strength
  PROVE  StrengthInv'
<1> DEFINE x == (pad["ds2b"] \ (0 .. 3)) \cup ({2, 3} \cup {4, 5})
           a == (pad["ds5a"] \ (28 .. 31)) \cup ({28, 29} \cup {30, 31})
<1>1. /\ pad' = [pad EXCEPT !["ds2b"] = Written("ds2b", x), !["ds5a"] = Written("ds5a", a)]
      /\ told' = told
           \cup Complaint("ds2b", Written("ds2b", x) \cap (0 .. 3) # {2, 3} \cup {4, 5})
           \cup Complaint("ds5a", Written("ds5a", a) \cap (28 .. 31) # {28, 29} \cup {30, 31})
  BY ShiftedValues, Masks DEF strength
<1>2. DOMAIN pad = Pads
  BY DEF RegistersTyped, TypeOK
<1> HIDE DEF x, a
<1>3. Seen("ds2b")'
  <2>1. \A w : w \cap (0 .. 3) # {2, 3} \cup {4, 5}
    OBVIOUS
  <2> QED
    BY <1>1, <2>1 DEF Complaint, Seen
<1>4. Seen("ds5a")' \/ pad'["ds5a"] \cap (28 .. 31) = {28, 29} \cup {30, 31}
  BY <1>1, <1>2 DEF Pads, Seen, Complaint
<1>5. {28, 29} \cup {30, 31} = 28 .. 31
  OBVIOUS
<1> QED
  BY <1>3, <1>4, <1>5 DEF StrengthInv

LEMMA ToldBias ==
  ASSUME RegistersTyped, bias
  PROVE  BiasInv'
  BY DEF RegistersTyped, TypeOK, bias, Pads, Complaint, Seen, BiasInv

LEMMA ToldClock ==
  ASSUME RegistersTyped, clock
  PROVE  ClockInv'
<1> DEFINE c == Written("clk81", Ungated(pad["clk81"]))
<1>1. /\ pad' = [pad EXCEPT !["clk81"] = c]
      /\ Complaint("clk81", c \cap {9} = {}) \subseteq told'
  BY DEF clock, I2C_CLK81_BIT
<1>2. pad'["clk81"] = c
  BY <1>1 DEF RegistersTyped, TypeOK, Pads
<1> HIDE DEF c
<1> QED
  BY <1>1, <1>2 DEF Complaint, Seen, ClockInv

LEMMA ToldNext == RegistersTyped /\ ToldInv /\ [Next]_vars => ToldInv'
<1> SUFFICES ASSUME RegistersTyped, ToldInv, [Next]_vars PROVE ToldInv'
  OBVIOUS
<1>0. DOMAIN pad = Pads
  BY DEF RegistersTyped, TypeOK
<1>1. CASE pinmux
  BY <1>1, ToldPinmux DEF pinmux, Goto, ToldInv
<1>2. CASE strength
  <2>1. /\ pad'["pinmux5"] = pad["pinmux5"] /\ pad'["pinmuxE"] = pad["pinmuxE"]
        /\ boot' = boot /\ stuck' = stuck /\ told \subseteq told'
        /\ step = "strength" /\ step' = "bias"
    BY <1>0, <1>2 DEF strength, Goto, Pads
  <2> QED
    BY <1>2, <2>1, ToldStrength DEF ToldInv, PinsInv, PinSet, Seen
<1>3. CASE bias
  <2>1. /\ pad'["pinmux5"] = pad["pinmux5"] /\ pad'["pinmuxE"] = pad["pinmuxE"]
        /\ pad'["ds5a"] = pad["ds5a"]
        /\ boot' = boot /\ stuck' = stuck /\ told \subseteq told'
        /\ step = "bias" /\ step' = "clock"
    BY <1>0, <1>3 DEF bias, Goto, Pads
  <2> QED
    BY <1>3, <2>1, ToldBias DEF ToldInv, PinsInv, PinSet, StrengthInv, Seen
<1>4. CASE clock
  <2>1. /\ pad'["pinmux5"] = pad["pinmux5"] /\ pad'["pinmuxE"] = pad["pinmuxE"]
        /\ pad'["ds5a"] = pad["ds5a"]
        /\ pad'["bias2"] = pad["bias2"] /\ pad'["bias5"] = pad["bias5"]
        /\ boot' = boot /\ stuck' = stuck /\ told \subseteq told'
        /\ step = "clock" /\ step' = "fields"
    BY <1>0, <1>4 DEF clock, Goto, Pads
  <2> QED
    BY <1>4, <2>1, ToldClock DEF ToldInv, PinsInv, PinSet, StrengthInv, BiasInv, Seen
<1>5. CASE fields
  <2>1. /\ pad' = pad /\ boot' = boot /\ stuck' = stuck /\ told' = told
        /\ step = "fields" /\ step' = "running"
    BY <1>5 DEF fields, Goto
  <2> QED
    BY <2>1 DEF ToldInv, PinsInv, PinSet, StrengthInv, BiasInv, ClockInv, Seen
<1>6. CASE (\E b \in Bus : i2cLoadTokens(b) \/ i2cHalt(b) \/ HwStatus(b)) \/ UNCHANGED vars
  <2>1. UNCHANGED <<pad, boot, stuck, told, step>>
    BY <1>6 DEF i2cLoadTokens, i2cHalt, HwStatus, vars
  <2> QED
    BY <2>1 DEF ToldInv, PinsInv, PinSet, StrengthInv, BiasInv, ClockInv, Seen
<1> QED
  BY <1>1, <1>2, <1>3, <1>4, <1>5, <1>6 DEF Next

\* The lowest bit of a mask.
LEMMA LowestBit ==
  ASSUME NEW M \in SUBSET Int, NEW m \in M, \A i \in M : m <= i
  PROVE  Lowest(M) = m
<1>1. \A k \in M : (\A i \in M : k <= i) => k = m
  OBVIOUS
<1> QED
  BY <1>1 DEF Lowest

LEMMA Lowests ==
  /\ Lowest(GPIO_PM5_X17) = 4 /\ Lowest(GPIO_PM5_X18) = 8
  /\ Lowest(GPIO_PE_A14) = 24 /\ Lowest(GPIO_PE_A15) = 28
  /\ Lowest(GPIO_DS_5A_A14) = 28 /\ Lowest(GPIO_DS_5A_A15) = 30
  /\ Lowest(I2C_CLK81_BIT) = 9
<1>1. Lowest(GPIO_PM5_X17) = 4
  <2>1. GPIO_PM5_X17 \in SUBSET Int /\ 4 \in GPIO_PM5_X17 /\ \A i \in GPIO_PM5_X17 : 4 <= i
    BY DEF GPIO_PM5_X17
  <2> QED
    BY <2>1, LowestBit
<1>2. Lowest(GPIO_PM5_X18) = 8
  <2>1. GPIO_PM5_X18 \in SUBSET Int /\ 8 \in GPIO_PM5_X18 /\ \A i \in GPIO_PM5_X18 : 8 <= i
    BY DEF GPIO_PM5_X18
  <2> QED
    BY <2>1, LowestBit
<1>3. Lowest(GPIO_PE_A14) = 24
  <2>1. GPIO_PE_A14 \in SUBSET Int /\ 24 \in GPIO_PE_A14 /\ \A i \in GPIO_PE_A14 : 24 <= i
    BY DEF GPIO_PE_A14
  <2> QED
    BY <2>1, LowestBit
<1>4. Lowest(GPIO_PE_A15) = 28
  <2>1. GPIO_PE_A15 \in SUBSET Int /\ 28 \in GPIO_PE_A15 /\ \A i \in GPIO_PE_A15 : 28 <= i
    BY DEF GPIO_PE_A15
  <2> QED
    BY <2>1, LowestBit
<1>5. Lowest(GPIO_DS_5A_A14) = 28
  <2>1. GPIO_DS_5A_A14 \in SUBSET Int /\ 28 \in GPIO_DS_5A_A14 /\ \A i \in GPIO_DS_5A_A14 : 28 <= i
    BY DEF GPIO_DS_5A_A14
  <2> QED
    BY <2>1, LowestBit
<1>6. Lowest(GPIO_DS_5A_A15) = 30
  <2>1. GPIO_DS_5A_A15 \in SUBSET Int /\ 30 \in GPIO_DS_5A_A15 /\ \A i \in GPIO_DS_5A_A15 : 30 <= i
    BY DEF GPIO_DS_5A_A15
  <2> QED
    BY <2>1, LowestBit
<1>7. Lowest(I2C_CLK81_BIT) = 9
  <2>1. I2C_CLK81_BIT \in SUBSET Int /\ 9 \in I2C_CLK81_BIT /\ \A i \in I2C_CLK81_BIT : 9 <= i
    BY DEF I2C_CLK81_BIT
  <2> QED
    BY <2>1, LowestBit
<1> QED
  BY <1>1, <1>2, <1>3, <1>4, <1>5, <1>6, <1>7

\* No register ends up without the value meant for it in silence, but for a pin that
\* had a function before, and for the pins of a register that takes no write and held
\* a function of either; for every content at boot and every faulty register.
THEOREM RegistersFailuresTold == Spec => []FailuresTold
<1>1. ToldInv => FailuresTold
  <2> SUFFICES ASSUME ToldInv, step = "running" PROVE FailuresTold
    BY DEF FailuresTold
  <2>0. PinsInv /\ StrengthInv /\ BiasInv /\ ClockInv
    BY DEF ToldInv
  <2>1. ASSUME NEW f \in OtherFields, ~Holds(f) PROVE f.pad \in told
    <3>1. CASE f = Field_t("ds2b", GPIO_DS_2B_X17, ds) \/ f = Field_t("ds2b", GPIO_DS_2B_X18, ds)
      BY <2>0, <3>1 DEF Field_t, StrengthInv, Seen
    <3>2. CASE f = Field_t("ds5a", GPIO_DS_5A_A14, ds)
      <4>1. Shl(f.val, Lowest(f.mask)) = {28, 29}
        <5>1. f.mask = GPIO_DS_5A_A14 /\ f.val = ds
          BY <3>2 DEF Field_t
        <5> QED
          BY <5>1, Lowests, ShiftedValues DEF GPIO_DS_5A_A14_SHIFT
      <4> QED
        BY <2>0, <2>1, <3>2, <4>1 DEF Field_t, StrengthInv, Seen, Holds, GPIO_DS_5A_A14
    <3>3. CASE f = Field_t("ds5a", GPIO_DS_5A_A15, ds)
      <4>1. Shl(f.val, Lowest(f.mask)) = {30, 31}
        <5>1. f.mask = GPIO_DS_5A_A15 /\ f.val = ds
          BY <3>3 DEF Field_t
        <5> QED
          BY <5>1, Lowests, ShiftedValues DEF GPIO_DS_5A_A15_SHIFT
      <4> QED
        BY <2>0, <2>1, <3>3, <4>1 DEF Field_t, StrengthInv, Seen, Holds, GPIO_DS_5A_A15
    <3>4. CASE f = Field_t("bias2", BIAS_X, {}) \/ f = Field_t("bias5", BIAS_A, {})
      <4>1. Shl(f.val, Lowest(f.mask)) = {}
        BY <3>4 DEF Field_t, Shl
      <4> QED
        BY <2>0, <2>1, <3>4, <4>1 DEF Field_t, BiasInv, Seen, Holds
    <3>5. CASE f = Field_t("clk81", I2C_CLK81_BIT, {0})
      <4>1. Shl(f.val, Lowest(f.mask)) = {9}
        BY <3>5, Lowests DEF Field_t, Shl
      <4> QED
        BY <2>0, <2>1, <3>5, <4>1 DEF Field_t, ClockInv, Seen, Holds, I2C_CLK81_BIT
    <3> QED
      BY <3>1, <3>2, <3>3, <3>4, <3>5 DEF OtherFields
  <2>2. ASSUME NEW f \in PinFields, ~Holds(f), f.pad \notin told
        PROVE  \/ boot[f.pad] \cap f.mask # {}
               \/ f.pad \in stuck /\ boot[f.pad] \cap Own[f.pad] # {}
    <3>0. Own["pinmux5"] = 4 .. 11 /\ Own["pinmuxE"] = 24 .. 31
      BY Masks DEF Own
    <3>1. CASE f = Field_t("pinmux5", GPIO_PM5_X17, GPIO_PM5_X_I2C)
      <4>1. Shl(f.val, Lowest(f.mask)) = {4}
        <5>1. f.mask = GPIO_PM5_X17 /\ f.val = GPIO_PM5_X_I2C
          BY <3>1 DEF Field_t
        <5> QED
          BY <5>1, Lowests, ShiftedValues
      <4> QED
        BY <2>0, <2>2, <3>0, <3>1, <4>1 DEF Field_t, PinsInv, PinSet, Seen, Holds, GPIO_PM5_X17
    <3>2. CASE f = Field_t("pinmux5", GPIO_PM5_X18, GPIO_PM5_X_I2C)
      <4>1. Shl(f.val, Lowest(f.mask)) = {8}
        <5>1. f.mask = GPIO_PM5_X18 /\ f.val = GPIO_PM5_X_I2C
          BY <3>2 DEF Field_t
        <5> QED
          BY <5>1, Lowests, ShiftedValues
      <4> QED
        BY <2>0, <2>2, <3>0, <3>2, <4>1 DEF Field_t, PinsInv, PinSet, Seen, Holds, GPIO_PM5_X18
    <3>3. CASE f = Field_t("pinmuxE", GPIO_PE_A14, GPIO_PE_A_I2C)
      <4>1. Shl(f.val, Lowest(f.mask)) = {24, 25}
        <5>1. f.mask = GPIO_PE_A14 /\ f.val = GPIO_PE_A_I2C
          BY <3>3 DEF Field_t
        <5> QED
          BY <5>1, Lowests, ShiftedValues
      <4> QED
        BY <2>0, <2>2, <3>0, <3>3, <4>1 DEF Field_t, PinsInv, PinSet, Seen, Holds, GPIO_PE_A14
    <3>4. CASE f = Field_t("pinmuxE", GPIO_PE_A15, GPIO_PE_A_I2C)
      <4>1. Shl(f.val, Lowest(f.mask)) = {28, 29}
        <5>1. f.mask = GPIO_PE_A15 /\ f.val = GPIO_PE_A_I2C
          BY <3>4 DEF Field_t
        <5> QED
          BY <5>1, Lowests, ShiftedValues
      <4> QED
        BY <2>0, <2>2, <3>0, <3>4, <4>1 DEF Field_t, PinsInv, PinSet, Seen, Holds, GPIO_PE_A15
    <3> QED
      BY <3>1, <3>2, <3>3, <3>4 DEF PinFields
  <2> QED
    BY <2>1, <2>2 DEF FailuresTold
<1>2. Init => ToldInv
  BY DEF Init, ToldInv
<1> QED
  BY <1>1, <1>2, TypedInit, TypedNext, ToldNext, PTL DEF Spec

=============================================================================
