----------------------------- MODULE I2cService -----------------------------
(***************************************************************************)
(* What the driver and the transport promise the server, bus by bus: a     *)
(* request that was handed over is answered once, with the client and the  *)
(* address it was made for, in the order of the requests of that bus, and  *)
(* a bus answers whatever the other one does.  I2cSystem.tla implements    *)
(* it.                                                                     *)
(***************************************************************************)
EXTENDS Integers, Sequences

CONSTANTS
  Bus,
  Callers,    \* client and address of a request
  Outcomes    \* error codes of an answer

VARIABLES
  waiting,    \* callers of the requests not answered yet, oldest first
  answers,    \* answers that the server has not taken yet, oldest first
  taken       \* answers that it has taken

serviceVars == <<waiting, answers, taken>>

Init ==
  /\ waiting = [b \in Bus |-> <<>>]
  /\ answers = [b \in Bus |-> <<>>]
  /\ taken = [b \in Bus |-> <<>>]

Ask(b, caller) ==
  /\ waiting' = [waiting EXCEPT ![b] = Append(@, caller)]
  /\ UNCHANGED <<answers, taken>>

Give(b, err) ==
  /\ waiting[b] # <<>>
  /\ answers' = [answers EXCEPT ![b] = Append(@, [caller |-> Head(waiting[b]), err |-> err])]
  /\ waiting' = [waiting EXCEPT ![b] = Tail(@)]
  /\ UNCHANGED taken

Take(b) ==
  /\ answers[b] # <<>>
  /\ taken' = [taken EXCEPT ![b] = Append(@, Head(answers[b]))]
  /\ answers' = [answers EXCEPT ![b] = Tail(@)]
  /\ UNCHANGED waiting

Next ==
  \E b \in Bus :
    \/ \E caller \in Callers : Ask(b, caller)
    \/ \E err \in Outcomes : Give(b, err)
    \/ Take(b)

Spec == Init /\ [][Next]_serviceVars

=============================================================================
