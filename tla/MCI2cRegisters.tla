--------------------------- MODULE MCI2cRegisters ---------------------------
(***************************************************************************)
(* I2cRegisters for TLC.  All pin and clock registers hold the same word   *)
(* at first: no bit, every bit, one bit of every field or of its           *)
(* neighbour, or a function of pins X18 and A15 only.  The batches fill    *)
(* both registers of a pair, leave gaps (END and zero bytes) and end       *)
(* within a register.                                                      *)
(***************************************************************************)
EXTENDS I2cRegisters

Even == {k \in Bits : k % 2 = 0}
Odd  == {k \in Bits : k % 2 = 1}

MCBootPads == {[p \in Pads |-> w] : w \in {{}, Bits, Even, Odd, (8 .. 11) \cup (28 .. 31)}}

\* No register, any one of them, or all of them fail to take what is written.
MCFaults == {{}, Pads} \cup {{p} : p \in Pads}

MCBootIfs ==
  {[ctl |-> w, addr |-> w, tk_list0 |-> w, tk_list1 |-> w, wdata0 |-> w, wdata1 |-> w] :
     w \in {{}, Bits}}

\* Numbers 0 to 15 as tokens, and data bytes with both ends of a byte set.
Nibble(n) == {k \in 0 .. 3 : (n \div 2^k) % 2 = 1}

MCBatches ==
  {[list |-> [k \in 1 .. 16 |-> Nibble(k - 1)], wdata |-> [k \in 1 .. 8 |-> {k - 1}]],
   [list |-> [k \in 1 .. 9 |-> 0 .. 3], wdata |-> <<{0, 7}, {}, 0 .. 7, {0}, {7}>>]}

MCAddresses == {{}, 0 .. 6}

MCStatuses == {{}, 2 .. 11}

=============================================================================
