---------------------------- MODULE MCRingBuffer ----------------------------
(***************************************************************************)
(* RingBuffer for TLC.  Two descriptors that differ in both fields make a  *)
(* torn descriptor visible; the indices wrap after two laps of the ring.   *)
(***************************************************************************)
EXTENDS RingBuffer

MCDescs == {[encoded_addr |-> 1, len |-> 1], [encoded_addr |-> 2, len |-> 2]}

=============================================================================
