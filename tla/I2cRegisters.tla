---------------------------- MODULE I2cRegisters ----------------------------
(***************************************************************************)
(* The driver and the words it reads and writes: pin, clock and interface  *)
(* registers, which setupi2c sets up field by field and i2cLoadTokens,     *)
(* i2cStart and i2cHalt go on to change.  A 32-bit word is the set of its  *)
(* one bits, so that | is union, & ~ is difference, and a mask is a set.   *)
(***************************************************************************)
EXTENDS Integers, Sequences

CONSTANTS
  BootPads,    \* what the pin and clock registers may hold at first
  Faults,      \* sets of pin and clock registers that do not take a write
  BootIfs,     \* what an interface's registers may hold at first
  Batches,     \* batches of tokens and write data, each the set of its one bits
  Addresses,   \* addresses of requests
  Statuses     \* what the list processor may put in its fields of ctl

Bits == 0 .. 31
Word == SUBSET Bits
Bus  == {2, 3}
Pads == {"pinmux5", "pinmuxE", "ds2b", "ds5a", "bias2", "bias5", "clk81"}

If_t == [ctl : Word, addr : Word, tk_list0 : Word, tk_list1 : Word,
         wdata0 : Word, wdata1 : Word]

ASSUME RegistersAssumption ==
  /\ BootPads \subseteq [Pads -> Word]
  /\ BootIfs \subseteq If_t
  /\ Faults \subseteq SUBSET Pads
  /\ \A batch \in Batches :
       /\ batch.list \in Seq(SUBSET (0 .. 3)) /\ Len(batch.list) <= 16
       /\ batch.wdata \in Seq(SUBSET (0 .. 7)) /\ Len(batch.wdata) <= 8
  /\ Addresses \subseteq SUBSET (0 .. 6)
  /\ Statuses \subseteq SUBSET (2 .. 11)

\* Masks, shifts and values of gpio.h, clk.h and odroidc4-i2c-mem.h.
GPIO_PM5_X17 == 4 .. 7
GPIO_PM5_X18 == 8 .. 11
GPIO_PM5_X_I2C == {0}            \* 1
GPIO_PE_A14 == 24 .. 27
GPIO_PE_A15 == 28 .. 31
GPIO_PE_A_I2C == {0, 1}          \* 3
GPIO_DS_2B_X17 == 2 .. 3
GPIO_DS_2B_X18 == 0 .. 1
GPIO_DS_2B_X17_SHIFT == 2
GPIO_DS_2B_X18_SHIFT == 4
GPIO_DS_5A_A14 == 28 .. 29
GPIO_DS_5A_A15 == 30 .. 31
GPIO_DS_5A_A14_SHIFT == 28
\* Mutant: the shift of one field used for its neighbour.
GPIO_DS_5A_A15_SHIFT_OfA14 == 28
GPIO_DS_5A_A15_SHIFT == 30
I2C_CLK81_BIT == {9}
REG_CTRL_START == {0}
REG_CTRL_ACK_IGNORE == {1}
REG_CTRL_MANUAL == {22}
REG_CTRL_CNTL_JIC == {31}
REG_CTRL_CLKDIV_SHIFT == 12
REG_CTRL_CLKDIV_MASK == 12 .. 21
REG_ADDR_SDAFILTER == 8 .. 10
REG_ADDR_SCLFILTER == 11 .. 13
REG_ADDR_SCLDELAY_SHFT == 16
REG_ADDR_SCLDELAY_ENABLE == {28}

ds    == {0, 1}                  \* 3
div_h == {1, 3, 4, 7}            \* 154
div_l == {2, 4, 5, 6}            \* 116

BIAS_X == {17, 18}
BIAS_A == {14, 15}
SCLDELAY == 16 .. 24             \* 0x1FF << REG_ADDR_SCLDELAY_SHFT

Shl(w, n) == {k + n : k \in w}

VARIABLES
  pad,      \* pin and clock registers
  ifm,      \* registers of the two interfaces
  step,     \* where setupi2c is, then "running"
  told,     \* registers that a check of setupi2c has complained of
  stuck,    \* registers that do not take what is written to them
  boot,     \* what the pin and clock registers held at first (history)
  loaded    \* batch last loaded on each interface (history)

vars == <<pad, ifm, step, told, stuck, boot, loaded>>

Init ==
  /\ pad \in BootPads /\ boot = pad
  /\ ifm \in [Bus -> BootIfs]
  /\ stuck \in Faults
  /\ step = "pinmux"
  /\ told = {}
  /\ loaded = [b \in Bus |-> <<>>]

-----------------------------------------------------------------------------
\* setupi2c.  Each register is read again after it was written, and a check that
\* fails is only printed.

Written(p, w) == IF p \in stuck THEN pad[p] ELSE w

Complaint(p, fails) == IF fails THEN {p} ELSE {}

Goto(from, to) == step = from /\ step' = to

\* Enable i2cm2 and i2cm3: the function is or-ed into the field.
pinmux ==
  LET x == Written("pinmux5", pad["pinmux5"] \cup Shl(GPIO_PM5_X_I2C, 4)
                                             \cup Shl(GPIO_PM5_X_I2C, 8))
      a == Written("pinmuxE", pad["pinmuxE"] \cup Shl(GPIO_PE_A_I2C, 24)
                                             \cup Shl(GPIO_PE_A_I2C, 28))
  IN /\ Goto("pinmux", "strength")
     /\ pad' = [pad EXCEPT !["pinmux5"] = x, !["pinmuxE"] = a]
     /\ told' = told
          \cup Complaint("pinmux5", x \cap (GPIO_PM5_X17 \cup GPIO_PM5_X18) = {})
          \cup Complaint("pinmuxE", a \cap (GPIO_PE_A14 \cup GPIO_PE_A15) = {})
     /\ UNCHANGED <<ifm, stuck, boot, loaded>>

\* Set GPIO drive strength.
strength ==
  LET m2  == GPIO_DS_2B_X17 \cup GPIO_DS_2B_X18
      m3  == GPIO_DS_5A_A14 \cup GPIO_DS_5A_A15
      ds2 == Shl(ds, GPIO_DS_2B_X17_SHIFT) \cup Shl(ds, GPIO_DS_2B_X18_SHIFT)
      ds3 == Shl(ds, GPIO_DS_5A_A14_SHIFT) \cup Shl(ds, GPIO_DS_5A_A15_SHIFT)
      x   == Written("ds2b", (pad["ds2b"] \ m2) \cup ds2)
      a   == Written("ds5a", (pad["ds5a"] \ m3) \cup ds3)
  IN /\ Goto("strength", "bias")
     /\ pad' = [pad EXCEPT !["ds2b"] = x, !["ds5a"] = a]
     /\ told' = told \cup Complaint("ds2b", x \cap m2 # ds2)
                     \cup Complaint("ds5a", a \cap m3 # ds3)
     /\ UNCHANGED <<ifm, stuck, boot, loaded>>

\* Disable bias.
bias ==
  LET x == Written("bias2", pad["bias2"] \ BIAS_X)
      a == Written("bias5", pad["bias5"] \ BIAS_A)
  IN /\ Goto("bias", "clock")
     /\ pad' = [pad EXCEPT !["bias2"] = x, !["bias5"] = a]
     /\ told' = told \cup Complaint("bias2", x \cap BIAS_X # {})
                     \cup Complaint("bias5", a \cap BIAS_A # {})
     /\ UNCHANGED <<ifm, stuck, boot, loaded>>

\* Enable i2c by removing the clock gate.
\* Mutant: the gate's bit overwrites those of the other clocks.
Ungated_Overwrites(w) == I2C_CLK81_BIT

Ungated(w) == w \cup I2C_CLK81_BIT

clock ==
  LET c == Written("clk81", Ungated(pad["clk81"]))
  IN /\ Goto("clock", "fields")
     /\ pad' = [pad EXCEPT !["clk81"] = c]
     /\ told' = told
          \cup Complaint("clk81", c \cap I2C_CLK81_BIT = {})
          \cup Complaint("pinmux5", pad["pinmux5"] \cap (GPIO_PM5_X17 \cup GPIO_PM5_X18) = {})
     /\ UNCHANGED <<ifm, stuck, boot, loaded>>

\* Initialise the fields of both interfaces, but for the list processor's.
ControlWord(w) ==
  ((w \ (REG_CTRL_MANUAL \cup REG_CTRL_ACK_IGNORE \cup REG_CTRL_CLKDIV_MASK))
     \cup REG_CTRL_CNTL_JIC) \cup Shl(div_h, REG_CTRL_CLKDIV_SHIFT)

AddressWord(w) ==
  (w \ (REG_ADDR_SCLFILTER \cup REG_ADDR_SDAFILTER \cup SCLDELAY))
     \cup Shl(div_l, REG_ADDR_SCLDELAY_SHFT) \cup REG_ADDR_SCLDELAY_ENABLE

fields ==
  /\ Goto("fields", "running")
  /\ ifm' = [b \in Bus |-> [ifm[b] EXCEPT !.ctl = ControlWord(@), !.addr = AddressWord(@)]]
  /\ UNCHANGED <<pad, told, stuck, boot, loaded>>

-----------------------------------------------------------------------------
\* What the driver does to the registers of an interface afterwards.

\* Slots from first on, packed into one word, the first at the low end.
\* Mutant: the second register is filled with the offsets of the first.
Packed_NoRestart(slots, width, first) ==
  UNION {Shl(slots[k + 1], width * k) :
           k \in {i \in first .. first + (32 \div width) - 1 : i < Len(slots)}}

Packed(slots, width, first) ==
  UNION {Shl(slots[k + 1], width * (k - first)) :
           k \in {i \in first .. first + (32 \div width) - 1 : i < Len(slots)}}

\* Mutant: the whole register is cleared for the new address.
SlaveAddr_Cleared(w, addr) == Shl(addr, 1)

SlaveAddr(w, addr) == (w \ (0 .. 6)) \cup Shl(addr, 1)

i2cStart(w) == (w \ REG_CTRL_START) \cup REG_CTRL_START

\* The batch is what was loaded up to a bad token when started is FALSE.
i2cLoadTokens(b) ==
  /\ step = "running"
  /\ \E batch \in Batches, addr \in Addresses, started \in BOOLEAN :
       /\ ifm' = [ifm EXCEPT ![b] =
                    [ctl      |-> IF started THEN i2cStart(@.ctl) ELSE @.ctl,
                     addr     |-> SlaveAddr(@.addr, addr),
                     tk_list0 |-> Packed(batch.list, 4, 0),
                     tk_list1 |-> Packed(batch.list, 4, 8),
                     wdata0   |-> Packed(batch.wdata, 8, 0),
                     wdata1   |-> Packed(batch.wdata, 8, 4)]]
       /\ loaded' = [loaded EXCEPT ![b] = <<batch>>]
  /\ UNCHANGED <<pad, step, told, stuck, boot>>

i2cHalt(b) ==
  /\ step = "running"
  /\ ifm' = [ifm EXCEPT ![b].ctl = @ \ REG_CTRL_START]
  /\ UNCHANGED <<pad, step, told, stuck, boot, loaded>>

\* The list processor sets status, error, current token and read count.
HwStatus(b) ==
  /\ step = "running"
  /\ REG_CTRL_START \subseteq ifm[b].ctl
  /\ \E status \in Statuses : ifm' = [ifm EXCEPT ![b].ctl = (@ \ (2 .. 11)) \cup status]
  /\ UNCHANGED <<pad, step, told, stuck, boot, loaded>>

Next ==
  \/ pinmux \/ strength \/ bias \/ clock \/ fields
  \/ \E b \in Bus : i2cLoadTokens(b) \/ i2cHalt(b) \/ HwStatus(b)

Spec == Init /\ [][Next]_vars

-----------------------------------------------------------------------------
\* i2cDump: slot k of a pair of registers, as it is taken apart for printing.

DumpSlot(w0, w1, width, k) ==
  LET n == 32 \div width
      w == IF k < n THEN w0 ELSE w1
  IN {i \in 0 .. width - 1 : width * (k % n) + i \in w}

-----------------------------------------------------------------------------
\* Properties.

TypeOK ==
  /\ pad \in [Pads -> Word]
  /\ ifm \in [Bus -> If_t]
  /\ step \in {"pinmux", "strength", "bias", "clock", "fields", "running"}
  /\ told \subseteq Pads /\ stuck \subseteq Pads
  /\ boot \in [Pads -> Word]

\* What setupi2c means the fields of the pins and of the clock to hold.
Field_t(p, mask, val) == [pad |-> p, mask |-> mask, val |-> val]

PinFields == {Field_t("pinmux5", GPIO_PM5_X17, GPIO_PM5_X_I2C),
              Field_t("pinmux5", GPIO_PM5_X18, GPIO_PM5_X_I2C),
              Field_t("pinmuxE", GPIO_PE_A14, GPIO_PE_A_I2C),
              Field_t("pinmuxE", GPIO_PE_A15, GPIO_PE_A_I2C)}

OtherFields == {Field_t("ds2b", GPIO_DS_2B_X17, ds), Field_t("ds2b", GPIO_DS_2B_X18, ds),
                Field_t("ds5a", GPIO_DS_5A_A14, ds), Field_t("ds5a", GPIO_DS_5A_A15, ds),
                Field_t("bias2", BIAS_X, {}), Field_t("bias5", BIAS_A, {}),
                Field_t("clk81", I2C_CLK81_BIT, {0})}

Lowest(mask) == CHOOSE k \in mask : \A i \in mask : k <= i

Holds(f) == pad[f.pad] \cap f.mask = Shl(f.val, Lowest(f.mask))

\* The bits of each register that setupi2c may change: its fields, and in DS_2B also
\* bits 4 and 5, where a shift that does not belong to its mask puts X18's strength.
Own == [pinmux5 |-> GPIO_PM5_X17 \cup GPIO_PM5_X18,
        pinmuxE |-> GPIO_PE_A14 \cup GPIO_PE_A15,
        ds2b    |-> GPIO_DS_2B_X17 \cup GPIO_DS_2B_X18 \cup {4, 5},
        ds5a    |-> GPIO_DS_5A_A14 \cup GPIO_DS_5A_A15,
        bias2   |-> BIAS_X,
        bias5   |-> BIAS_A,
        clk81   |-> I2C_CLK81_BIT]

\* A register that ends up without the value meant for it has been complained of.
\* Only a pin's function may be wrong in silence, and only where the boot loader had
\* left a function: for that pin, because none is cleared; or, in a register that does
\* not take the write, for either of the two pins, because the check asks for any bit
\* of their two fields.
FailuresTold ==
  step = "running" =>
    /\ \A f \in OtherFields : ~Holds(f) => f.pad \in told
    /\ \A f \in PinFields :
         ~Holds(f) => \/ f.pad \in told
                      \/ boot[f.pad] \cap f.mask # {}
                      \/ f.pad \in stuck /\ boot[f.pad] \cap Own[f.pad] # {}

\* i2c-odroid-c4.c:179, "Check register updated": a check complains only of a
\* register that did not take its value.
NoFalseAlarm == told \subseteq stuck

\* The registers are shared with other pins and clocks: bits outside the fields keep
\* what the boot loader left there.
OthersKept == \A p \in Pads : pad[p] \ Own[p] = boot[p] \ Own[p]

\* Whatever is loaded, started, halted and reported later, the fields that setupi2c
\* has set stay: clock divider and delay, filters off, no manual mode.
ConfigKept ==
  step = "running" => \A b \in Bus :
    /\ ifm[b].ctl \cap (REG_CTRL_CLKDIV_MASK \cup {1, 22, 31}) = {13, 15, 16, 19, 31}
    /\ ifm[b].addr \cap ((8 .. 13) \cup (16 .. 24) \cup {28}) = {18, 20, 21, 22, 28}

\* A batch in the registers is the batch that was loaded, slot for slot, with END in
\* the slots left over: what i2cDump prints, and what the list processor does.
DumpShowsBatch ==
  \A b \in Bus : loaded[b] # <<>> =>
    LET batch == loaded[b][1]
        tok(k)  == DumpSlot(ifm[b].tk_list0, ifm[b].tk_list1, 4, k)
        data(k) == DumpSlot(ifm[b].wdata0, ifm[b].wdata1, 8, k)
    IN /\ \A k \in 0 .. 15 : tok(k) = IF k < Len(batch.list) THEN batch.list[k + 1] ELSE {}
       /\ \A k \in 0 .. 7 : data(k) = IF k < Len(batch.wdata) THEN batch.wdata[k + 1] ELSE {}

=============================================================================
