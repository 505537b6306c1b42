---------------------------- MODULE TokenBatches ----------------------------
(***************************************************************************)
(* One request on one interface, batch after batch, each one succeeding:   *)
(* i2cLoadTokens loads the next part of the request, the list processor    *)
(* does it on the bus, the interrupt handler comes back for more as long   *)
(* as bytes remain.  Nobody checks what a client puts in a request, so it  *)
(* may be any bytes: a bad token ends the loading and starts nothing.      *)
(***************************************************************************)
EXTENDS I2cTokens

CONSTANTS
  Requests,   \* request bodies, each one the form of some operations
  AnyBytes    \* request bodies of any bytes: no END, unknown tokens, or nothing

ASSUME RequestsAssumption == Requests \cup AnyBytes \subseteq Seq(Byte)

VARIABLES
  body,        \* the request, without its client and address bytes
  formed,      \* was it chosen as the form of some operations? (history)
  remaining,   \* i2c_ifState[bus].remaining
  ddr,         \* i2c_ifState[bus].ddr, as the previous request left it at first
  batch,       \* the batch last loaded: whether it was started, its registers, the
               \* write data that the list processor did not use
  batches,     \* batches loaded so far
  wire,        \* operations done on the bus so far (history)
  busDdr       \* direction that the list processor is in

vars == <<body, formed, remaining, ddr, batch, batches, wire, busDdr>>

NoBatch == [ok |-> TRUE, list |-> <<>>, wdata |-> <<>>, unused |-> <<>>]

Init ==
  /\ \/ formed = TRUE /\ body \in Requests
     \/ formed = FALSE /\ body \in AnyBytes
  /\ remaining = Len(body)
  /\ ddr \in {0, 1}
  /\ busDdr \in {0, 1}
  /\ batch = NoBatch
  /\ batches = 0
  /\ wire = <<>>

NextBatch ==
  /\ batches = 0 \/ remaining > 0
  /\ batch.ok
  /\ LET b == LoadBatch(body, remaining, ddr)
         x == Execute(b.list, b.wdata, busDdr)
     IN /\ remaining' = b.remaining
        /\ ddr' = b.ddr
        /\ batch' = [ok |-> b.ok, list |-> b.list, wdata |-> b.wdata,
                     unused |-> IF b.ok THEN x.wdata ELSE <<>>]
        /\ wire' = IF b.ok THEN wire \o x.ops ELSE wire
        /\ busDdr' = IF b.ok THEN x.ddr ELSE busDdr
  /\ batches' = batches + 1
  /\ UNCHANGED <<body, formed>>

Spec == Init /\ [][NextBatch]_vars

-----------------------------------------------------------------------------
\* Properties.

Divided(n, k) == (n + k - 1) \div k

\* Splitting into batches loses, repeats and reorders nothing: what the bus has
\* seen, written back as a request, is the part of the request that was used up,
\* and the whole of it when no byte remains.  A payload byte is never taken for a
\* token nor a token for a payload, whatever direction the last request left.
WireIsRequest ==
  formed =>
    /\ IsPrefix(Front(Request(wire)), body)
    /\ batches > 0 /\ remaining = 0 => Request(wire) = body

\* Any batch fits its registers, and one of a request's operations has its write
\* data used up by its data tokens when it has been done, although the loader and
\* the list processor each keep their own idea of the direction between batches.
BatchIsComplete ==
  /\ Len(batch.list) <= TK_SLOTS
  /\ Len(batch.wdata) <= WDATA_SLOTS
  /\ formed => batch.unused = <<>>

\* Each batch but the last uses up as many bytes as there are token slots: either
\* all slots are filled, or all write data, and then each byte had a token too.
BatchBound ==
  TK_SLOTS = 2 * WDATA_SLOTS =>
    batches <= IF body = <<>> THEN 1 ELSE Divided(Len(body), TK_SLOTS)

\* i2c-odroid-c4.c:435 reads the byte after a data token without asking whether the
\* request has one.  Whatever the bytes are, at most one byte from behind the request
\* is read, as the last one written, and only for a request that ends in the token.
PastEndOnlyLast ==
  \A k \in DOMAIN batch.wdata : batch.wdata[k] = PAST_END =>
    k = Len(batch.wdata) /\ remaining = 0 /\ Last(body) = I2C_TK_DAT

\* Every batch uses up some of the request, whatever bytes it is made of, or else is
\* not started: the handler's "still work to do" loop (i2cirq loading again while
\* bytes remain) comes to an end.
EveryBatchProgresses == [][batch'.ok /\ remaining > 0 => remaining' < remaining]_vars

-----------------------------------------------------------------------------
\* What is assumed of the requests where the proofs need it.

\* PAST_END stands for the byte behind the request, so it is to be told apart from
\* those of the request.
PastEndIsDistinct ==
  \A r \in Requests \cup AnyBytes : \A k \in DOMAIN r : r[k] # PAST_END

\* The requests that are the form of some operations: each one is a transaction.
RequestsFormed == \A r \in Requests : \E ops : Transaction(ops) /\ r = Request(ops)

=============================================================================
