--------------------------- MODULE ListProcessor ---------------------------
(***************************************************************************)
(* The two i2c interfaces, as the driver sees them: registers that it      *)
(* reads and writes, and interrupts.  Not under src/: modelled from        *)
(* i2c_if_t, from what i2cStart, i2cHalt, i2cGetError and i2cirq do with   *)
(* the registers, and from README.md:104-143.                              *)
(*                                                                         *)
(* A batch that is started ends in one of three ways: done, a byte that    *)
(* is not acknowledged, or a timeout, which has its own interrupt and also *)
(* sets the error bit (i2cirq looks for a timeout only with that bit set). *)
(***************************************************************************)
EXTENDS I2cTokens, Sel4cp

CONSTANTS
  LATE_IRQ,    \* may a batch that timed out still end, before it is halted?
  BOOT_ADDR    \* what bits 0 to 7 of an address register may hold at first

ASSUME LateIrqAssumption == LATE_IRQ \in BOOLEAN
ASSUME BootAddrAssumption == BOOT_ADDR \subseteq Byte

VARIABLES
  hw,     \* registers of each interface
  wire    \* operations done on each bus for the request it works on (history)

hwVars == <<hw, wire>>

\* Fields of the registers: of ctl the start bit (and whether the list processor
\* is running), the error bit, the current token and the read count; the address
\* register, of which setupi2c sets fields from bit 8 on and leaves bits 0 to 7 as
\* they are; the tokens and write data; and the list processor's direction.  boot is
\* what the address register held at first (history).
HwInit(boot) ==
  [running |-> FALSE, stalled |-> FALSE, err |-> FALSE, tok |-> 0, rd |-> 0,
   addr |-> boot, list |-> <<>>, wdata |-> <<>>, ddr |-> 0, boot |-> boot]

irq(bus, timeout) ==
  IF bus = 2 THEN IF timeout THEN IRQ_I2C_M2_TO ELSE IRQ_I2C_M2
             ELSE IF timeout THEN IRQ_I2C_M3_TO ELSE IRQ_I2C_M3

\* Tokens whose byte the target must acknowledge.
Acknowledged == {OC4_I2C_TK_ADDRW, OC4_I2C_TK_ADDRR, OC4_I2C_TK_DATA}

HwDone(bus) ==
  LET x == Execute(hw[bus].list, hw[bus].wdata, hw[bus].ddr)
  IN /\ hw[bus].running
     /\ hw' = [hw EXCEPT ![bus].running = FALSE, ![bus].stalled = FALSE,
                         ![bus].err = FALSE, ![bus].tok = OC4_I2C_TK_END,
                         ![bus].rd = x.reads, ![bus].ddr = x.ddr]
     /\ wire' = [wire EXCEPT ![bus] = @ \o x.ops]
     /\ notify_driver(irq(bus, FALSE))

HwNack(bus) ==
  /\ hw[bus].running
  /\ \E tok \in Acknowledged \cap ToSet(Live(hw[bus].list)) :
       hw' = [hw EXCEPT ![bus].running = FALSE, ![bus].stalled = FALSE,
                        ![bus].err = TRUE, ![bus].tok = tok]
  /\ notify_driver(irq(bus, FALSE))
  /\ UNCHANGED wire

HwTimeout(bus) ==
  /\ hw[bus].running /\ ~hw[bus].stalled
  /\ \E tok \in ToSet(Live(hw[bus].list)) :
       hw' = [hw EXCEPT ![bus].running = LATE_IRQ, ![bus].stalled = TRUE,
                        ![bus].err = TRUE, ![bus].tok = tok]
  /\ notify_driver(irq(bus, TRUE))
  /\ UNCHANGED wire

HwNext(bus) == HwDone(bus) \/ HwNack(bus) \/ HwTimeout(bus)

=============================================================================
