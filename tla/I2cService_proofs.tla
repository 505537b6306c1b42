------------------------- MODULE I2cService_proofs -------------------------
(***************************************************************************)
(* Proved of I2cSystem: the driver and the transport implement I2cService, *)
(* for every number of buffers and every program that asks no bus for more *)
(* requests than it has return buffers.  (A server that makes more of them *)
(* before it collects any return finds checkBuf without a return buffer:   *)
(* the driver takes the request off its ring and stops, and that request   *)
(* is lost.)                                                               *)
(***************************************************************************)
EXTENDS I2cSystem_proofs

-----------------------------------------------------------------------------
\* Sequences written as functions.

\* Append to a sequence whose elements are of no particular set.
LEMMA AppendMapped ==
  ASSUME NEW n \in Nat, NEW s, s = [k \in 1 .. n |-> s[k]], NEW e
  PROVE  /\ Append(s, e) = [k \in 1 .. n + 1 |-> IF k = n + 1 THEN e ELSE s[k]]
         /\ Len(s) = n /\ Len(Append(s, e)) = n + 1
<1> DEFINE S == {s[k] : k \in 1 .. n} \cup {e}
<1>1. s \in [1 .. n -> S]
  <2>1. \A k \in 1 .. n : s[k] \in S
    OBVIOUS
  <2> HIDE DEF S
  <2> QED
    BY <2>1
<1>2. e \in S
  OBVIOUS
<1> HIDE DEF S
<1>3. s \in Seq(S) /\ Len(s) = n
  BY <1>1
<1>4. /\ Append(s, e) \in Seq(S) /\ Len(Append(s, e)) = n + 1
      /\ \A k \in 1 .. n : Append(s, e)[k] = s[k]
      /\ Append(s, e)[n + 1] = e
  BY <1>2, <1>3
<1>5. \A k \in 1 .. n + 1 : Append(s, e)[k] = IF k = n + 1 THEN e ELSE s[k]
  BY <1>4
<1>6. Append(s, e) = [k \in 1 .. n + 1 |-> Append(s, e)[k]]
  BY <1>4
<1> QED
  BY <1>3, <1>4, <1>5, <1>6

\* Head and tail of such a sequence.
LEMMA TailMapped ==
  ASSUME NEW n \in Nat \ {0}, NEW s, s = [k \in 1 .. n |-> s[k]]
  PROVE  /\ s # <<>>
         /\ Head(s) = s[1]
         /\ Tail(s) = [k \in 1 .. n - 1 |-> s[k + 1]]
<1> DEFINE S == {s[k] : k \in 1 .. n}
<1>1. s \in [1 .. n -> S]
  <2>1. \A k \in 1 .. n : s[k] \in S
    OBVIOUS
  <2> HIDE DEF S
  <2> QED
    BY <2>1
<1> HIDE DEF S
<1>2. s \in Seq(S) /\ Len(s) = n
  BY <1>1
<1>3. s # <<>> /\ Head(s) = s[1]
  BY <1>2
<1>4. /\ Tail(s) \in Seq(S) /\ Len(Tail(s)) = n - 1
      /\ \A k \in 1 .. n - 1 : Tail(s)[k] = s[k + 1]
  BY <1>2, <1>3
<1>5. Tail(s) = [k \in 1 .. n - 1 |-> Tail(s)[k]]
  BY <1>4
<1> QED
  BY <1>3, <1>4, <1>5

-----------------------------------------------------------------------------
\* The abstract variables, bus by bus, and the abstract actions in terms of them.

Waiting(b) == [k \in DOMAIN WaitingReqs(b) |-> Caller(reqBuf[WaitingReqs(b)[k]])]
Answers(b) == [k \in DOMAIN retUsed[b] |-> AnswerOf(retBuf[retUsed[b][k]])]
Taken(b)   == [k \in DOMAIN collected[b] |-> AnswerOf(collected[b][k])]

Outcome == {I2C_ERR_OK, I2C_ERR_TIMEOUT, I2C_ERR_NACK, I2C_ERR_NOREAD}

SameWaiting(c) == \A b \in Bus \ {c} : Waiting(b)' = Waiting(b)
SameAnswers(c) == \A b \in Bus \ {c} : Answers(b)' = Answers(b)
SameTaken(c)   == \A b \in Bus \ {c} : Taken(b)' = Taken(b)

\* A step that leaves the abstract variables of each bus alone.
LEMMA ServiceStutters ==
  ASSUME \A b \in Bus : /\ Waiting(b)' = Waiting(b) /\ Answers(b)' = Answers(b)
                        /\ Taken(b)' = Taken(b)
  PROVE  UNCHANGED Service!serviceVars
  BY DEF Service!serviceVars, Waiting, Answers, Taken

LEMMA ServiceAsks ==
  ASSUME NEW c \in Bus, NEW k \in DOMAIN Program,
         SameWaiting(c), Waiting(c)' = Append(Waiting(c), Caller(Program[k])),
         \A b \in Bus : Answers(b)' = Answers(b) /\ Taken(b)' = Taken(b)
  PROVE  Service!Next
<1>1. Service!Ask(c, Caller(Program[k]))
  BY ZenonT(40) DEF Service!Ask, SameWaiting, Waiting, Answers, Taken
<1> QED
  BY <1>1 DEF Service!Next

LEMMA ServiceGives ==
  ASSUME NEW c \in Bus, NEW err \in Outcome,
         Waiting(c) # <<>>,
         SameWaiting(c), Waiting(c)' = Tail(Waiting(c)),
         SameAnswers(c),
         Answers(c)' = Append(Answers(c), [caller |-> Head(Waiting(c)), err |-> err]),
         \A b \in Bus : Taken(b)' = Taken(b)
  PROVE  Service!Next
<1> DEFINE w == [b \in Bus |-> Waiting(b)]
           a == [b \in Bus |-> Answers(b)]
           t == [b \in Bus |-> Taken(b)]
<1>1. w[c] = Waiting(c) /\ w' = [w EXCEPT ![c] = Tail(Waiting(c))]
  BY DEF SameWaiting
<1>2. a' = [a EXCEPT ![c] = Append(Answers(c), [caller |-> Head(Waiting(c)), err |-> err])]
      /\ a[c] = Answers(c)
  BY DEF SameAnswers
<1>3. t' = t
  OBVIOUS
<1> HIDE DEF w, a, t
<1>4. /\ w[c] # <<>>
      /\ a' = [a EXCEPT ![c] = Append(@, [caller |-> Head(w[c]), err |-> err])]
      /\ w' = [w EXCEPT ![c] = Tail(@)]
      /\ UNCHANGED t
  BY <1>1, <1>2, <1>3
<1>5. Service!Give(c, err)
  BY <1>4 DEF Service!Give, w, a, t, Waiting, Answers, Taken
<1> QED
  BY <1>5 DEF Service!Next, Outcome

LEMMA ServiceTakes ==
  ASSUME NEW c \in Bus,
         Answers(c) # <<>>,
         SameAnswers(c), Answers(c)' = Tail(Answers(c)),
         SameTaken(c), Taken(c)' = Append(Taken(c), Head(Answers(c))),
         \A b \in Bus : Waiting(b)' = Waiting(b)
  PROVE  Service!Next
<1> DEFINE w == [b \in Bus |-> Waiting(b)]
           a == [b \in Bus |-> Answers(b)]
           t == [b \in Bus |-> Taken(b)]
<1>1. w' = w
  OBVIOUS
<1>2. a[c] = Answers(c) /\ a' = [a EXCEPT ![c] = Tail(Answers(c))]
  BY DEF SameAnswers
<1>3. t[c] = Taken(c) /\ t' = [t EXCEPT ![c] = Append(Taken(c), Head(Answers(c)))]
  BY DEF SameTaken
<1> HIDE DEF w, a, t
<1>4. /\ a[c] # <<>>
      /\ t' = [t EXCEPT ![c] = Append(@, Head(a[c]))]
      /\ a' = [a EXCEPT ![c] = Tail(@)]
      /\ UNCHANGED w
  BY <1>1, <1>2, <1>3
<1>5. Service!Take(c)
  BY <1>4 DEF Service!Take, w, a, t, Waiting, Answers, Taken
<1> QED
  BY <1>5 DEF Service!Next

-----------------------------------------------------------------------------
\* The inductive invariant, on top of the custody of the buffers.

RetFields == {"err", "err_tk", "client", "addr", "data"}

Buffers ==
  /\ DOMAIN reqBuf = AllReqBufs /\ DOMAIN retBuf = AllRetBufs
  /\ \A x \in AllRetBufs : DOMAIN retBuf[x] = RetFields

\* The return buffer of a request in progress bears the request's caller.
Marks ==
  \A b \in Bus : ifState[b].current_ret # NULL =>
    Caller(retBuf[ifState[b].current_ret]) = Caller(reqBuf[ifState[b].current_req])

History ==
  /\ DOMAIN collected = Bus
  /\ \A b \in Bus : /\ Len(collected[b]) \in Nat
                    /\ collected[b] = [k \in 1 .. Len(collected[b]) |-> collected[b][k]]

\* Requests of bus b that the server has queued.
Published == IF pc = "notify" THEN cur ELSE cur - 1
Asked(b)  == {k \in 1 .. Published : Program[k].bus = b}

ProgramAt ==
  /\ cur \in 1 .. Len(Program) + 1
  /\ pc \in {"publish", "notify"} => cur <= Len(Program)
  /\ pc = "release" => Len(collected[bus]) > 0

\* Each of them waits, is in progress, or has an answer, collected or not.
Balance(b) ==
  Len(WaitingReqs(b)) + Len(retUsed[b]) + Len(collected[b]) = Cardinality(Asked(b))

ServiceInv ==
  /\ Buffers /\ Marks /\ History /\ ProgramAt
  /\ \A b \in Bus : Balance(b)

Refines == ServiceInv' /\ [Service!Next]_(Service!serviceVars)

-----------------------------------------------------------------------------
\* Facts about the buffers.

\* The buses share no buffer.
LEMMA BusesApart ==
  ASSUME NEW b \in Bus, NEW c \in Bus, b # c
  PROVE  /\ ReqBufs(b) \cap ReqBufs(c) = {}
         /\ RetBufs(b) \cap RetBufs(c) = {}
<1>1. /\ reqBase(2) = 0 /\ retBase(2) = I2C_BUF_COUNT
      /\ reqBase(3) = 2 * I2C_BUF_COUNT /\ retBase(3) = 3 * I2C_BUF_COUNT
      /\ I2C_BUF_COUNT \in Nat
  BY TransportAssumption DEF reqBase, retBase
<1>2. ReqBufs(2) \cap ReqBufs(3) = {}
  BY <1>1 DEF ReqBufs
<1>3. RetBufs(2) \cap RetBufs(3) = {}
  BY <1>1 DEF RetBufs
<1> QED
  BY <1>2, <1>3 DEF Bus

LEMMA OwnBuffers ==
  ASSUME NEW b \in Bus
  PROVE  ReqBufs(b) \subseteq AllReqBufs /\ RetBufs(b) \subseteq AllRetBufs
  BY DEF Bus, AllReqBufs, AllRetBufs

\* Requests that wait: the one in progress, and those on the used ring.
LEMMA WaitingFacts ==
  ASSUME CustodyInv, NEW b \in Bus
  PROVE  /\ reqUsed[b] \in Seq(ReqBufs(b)) /\ retUsed[b] \in Seq(RetBufs(b))
         /\ WaitingReqs(b) \in Seq(ReqBufs(b))
         /\ ifState[b].current_req = NULL => WaitingReqs(b) = reqUsed[b]
         /\ ifState[b].current_req # NULL =>
              /\ ifState[b].current_req \in ReqBufs(b)
              /\ ifState[b].current_ret \in RetBufs(b)
              /\ Len(WaitingReqs(b)) = Len(reqUsed[b]) + 1
              /\ WaitingReqs(b)[1] = ifState[b].current_req
              /\ \A k \in 1 .. Len(reqUsed[b]) : WaitingReqs(b)[k + 1] = reqUsed[b][k]
<1>1. reqUsed[b] \in Seq(ReqBufs(b)) /\ retUsed[b] \in Seq(RetBufs(b))
  BY DEF CustodyInv, Custody, KeptReq, KeptRet, Kept
<1>2. CASE ifState[b].current_req = NULL
  <2>1. WaitingReqs(b) = reqUsed[b]
    BY <1>1, <1>2 DEF WaitingReqs, CurrentReq
  <2> QED
    BY <1>1, <1>2, <2>1
<1>3. CASE ifState[b].current_req # NULL
  <2> DEFINE req == ifState[b].current_req
  <2>1. req \in ReqBufs(b) /\ ifState[b].current_ret \in RetBufs(b)
    BY <1>3 DEF CustodyInv, Shape, Custody, KeptReq, KeptRet, Kept, DriverReq, DriverRet
  <2>2. WaitingReqs(b) = <<req>> \o reqUsed[b]
    BY <1>3 DEF WaitingReqs, CurrentReq
  <2> HIDE DEF req
  <2>3. /\ WaitingReqs(b) \in Seq(ReqBufs(b))
        /\ Len(WaitingReqs(b)) = Len(reqUsed[b]) + 1
        /\ WaitingReqs(b)[1] = req
        /\ \A k \in 1 .. Len(reqUsed[b]) : WaitingReqs(b)[k + 1] = reqUsed[b][k]
    BY <1>1, <2>1, <2>2
  <2> QED
    BY <1>1, <1>3, <2>1, <2>3 DEF req
<1> QED
  BY <1>2, <1>3

\* No buffer that waits is in the server's hands, and no answer in the driver's.
LEMMA WaitingApart ==
  ASSUME CustodyInv, NEW b \in Bus
  PROVE  /\ \A k \in DOMAIN WaitingReqs(b) : WaitingReqs(b)[k] \notin ServerReq(b)
         /\ \A k \in DOMAIN retUsed[b] : /\ retUsed[b][k] \notin DriverRet(b)
                                         /\ retUsed[b][k] \notin ToSet(retFree[b])
<1>1. /\ ToSet(reqUsed[b]) \cap ServerReq(b) = {} /\ DriverReq(b) \cap ServerReq(b) = {}
      /\ ToSet(retUsed[b]) \cap DriverRet(b) = {}
      /\ ToSet(retUsed[b]) \cap ToSet(retFree[b]) = {}
  BY DEF CustodyInv, Custody, KeptReq, KeptRet, Kept
<1>2. \A k \in DOMAIN WaitingReqs(b) :
        WaitingReqs(b)[k] \in ToSet(reqUsed[b]) \cup DriverReq(b)
  <2>1. CASE ifState[b].current_req = NULL
    BY <2>1, WaitingFacts DEF ToSet
  <2>2. CASE ifState[b].current_req # NULL
    <3> SUFFICES ASSUME NEW k \in DOMAIN WaitingReqs(b)
                 PROVE  WaitingReqs(b)[k] \in ToSet(reqUsed[b]) \cup DriverReq(b)
      OBVIOUS
    <3>1. CASE k = 1
      BY <2>2, <3>1, WaitingFacts DEF DriverReq
    <3>2. CASE k # 1
      <4>1. /\ DOMAIN reqUsed[b] = 1 .. Len(reqUsed[b]) /\ Len(reqUsed[b]) \in Nat
            /\ DOMAIN WaitingReqs(b) = 1 .. Len(reqUsed[b]) + 1
            /\ \A j \in 1 .. Len(reqUsed[b]) : WaitingReqs(b)[j + 1] = reqUsed[b][j]
        BY <2>2, WaitingFacts
      <4>2. PICK j \in 1 .. Len(reqUsed[b]) : k = j + 1
        <5>1. k - 1 \in 1 .. Len(reqUsed[b]) /\ k = (k - 1) + 1
          BY <3>2, <4>1
        <5> QED
          BY <5>1
      <4> QED
        BY <4>1, <4>2 DEF ToSet
    <3> QED
      BY <3>1, <3>2
  <2> QED
    BY <2>1, <2>2
<1> QED
  BY <1>1, <1>2 DEF ToSet

-----------------------------------------------------------------------------
\* What a step that leaves the abstract variables alone has to leave alone.

LEMMA WaitingStays ==
  ASSUME NEW b \in Bus,
         ifState'[b].current_req = ifState[b].current_req, reqUsed'[b] = reqUsed[b],
         \A k \in DOMAIN WaitingReqs(b) :
           Caller(reqBuf'[WaitingReqs(b)[k]]) = Caller(reqBuf[WaitingReqs(b)[k]])
  PROVE  WaitingReqs(b)' = WaitingReqs(b) /\ Waiting(b)' = Waiting(b)
<1>1. WaitingReqs(b)' = WaitingReqs(b)
  BY DEF WaitingReqs, CurrentReq
<1> QED
  BY <1>1 DEF Waiting

LEMMA AnswersStay ==
  ASSUME NEW b \in Bus, retUsed'[b] = retUsed[b],
         \A k \in DOMAIN retUsed[b] :
           AnswerOf(retBuf'[retUsed[b][k]]) = AnswerOf(retBuf[retUsed[b][k]])
  PROVE  Answers(b)' = Answers(b)
  BY DEF Answers

\* A step that moves nothing but free buffers, words, registers and the server's
\* place, and hands over no request.
LEMMA Quiet ==
  ASSUME ServiceInv,
         UNCHANGED <<reqBuf, retBuf, reqUsed, retUsed, collected>>,
         \A b \in Bus : /\ ifState'[b].current_req = ifState[b].current_req
                        /\ ifState'[b].current_ret = ifState[b].current_ret,
         ProgramAt', Published' = Published
  PROVE  Refines
<1>1. Buffers' /\ Marks' /\ History'
  BY DEF ServiceInv, Buffers, Marks, History
<1>2. ASSUME NEW b \in Bus
      PROVE  /\ WaitingReqs(b)' = WaitingReqs(b) /\ Waiting(b)' = Waiting(b)
             /\ Answers(b)' = Answers(b) /\ Taken(b)' = Taken(b)
             /\ Asked(b)' = Asked(b)
  <2>1. WaitingReqs(b)' = WaitingReqs(b) /\ Waiting(b)' = Waiting(b)
    BY WaitingStays
  <2>2. Answers(b)' = Answers(b) /\ Taken(b)' = Taken(b) /\ Asked(b)' = Asked(b)
    BY DEF Answers, Taken, Asked
  <2> QED
    BY <2>1, <2>2
<1>3. ASSUME NEW b \in Bus PROVE Balance(b)'
  BY <1>2 DEF ServiceInv, Balance
<1>4. UNCHANGED Service!serviceVars
  BY <1>2, ServiceStutters
<1> QED
  BY <1>1, <1>3, <1>4 DEF ServiceInv, Refines

-----------------------------------------------------------------------------
\* The server's actions.

LEMMA ServiceServerQuiet ==
  ASSUME CustodyInv, ServiceInv, UNCHANGED driverVars,
         \/ allocate \/ initDone \/ notify \/ ServerWake
         \/ skipBus \/ checkBus \/ release
  PROVE  Refines
<1>1. UNCHANGED <<reqBuf, retBuf, reqUsed, retUsed, collected, ifState>>
  BY DEF allocate, initDone, notify, ServerWake, skipBus, checkBus, release,
         transportVars, reqVars, retVars, driverVars
<1>2. cur \in Nat /\ Len(Program) \in Nat
  BY ProgramAssumption DEF ServiceInv, ProgramAt
<1>3. ProgramAt' /\ Published' = Published
  <2>1. CASE allocate \/ initDone \/ ServerWake \/ skipBus \/ checkBus \/ release
    <3>1. cur' = cur /\ pc' # "notify" /\ pc # "notify" /\ pc' # "release"
      BY <2>1 DEF allocate, initDone, ServerWake, skipBus, checkBus, release, NextBus
    <3>2. pc' = "publish" => cur <= Len(Program)
      BY <2>1 DEF allocate, initDone, ServerWake, skipBus, checkBus, release, NextBus
    <3> QED
      BY <3>1, <3>2 DEF ServiceInv, ProgramAt, Published
  <2>2. CASE notify
    <3>1. pc = "notify" /\ cur' = cur + 1 /\ pc' = "allocate"
      BY <2>2 DEF notify
    <3>2. cur \in 1 .. Len(Program)
      BY <3>1 DEF ServiceInv, ProgramAt
    <3>3. cur' \in 1 .. Len(Program) + 1 /\ cur' - 1 = cur
      BY <1>2, <3>1, <3>2
    <3> QED
      BY <3>1, <3>3 DEF ProgramAt, Published
  <2> QED
    BY <2>1, <2>2
<1> QED
  BY <1>1, <1>3, Quiet

\* publish: the request is asked for, whose caller the buffer bears from then on.
LEMMA ServicePublish ==
  ASSUME CustodyInv, ServiceInv, UNCHANGED driverVars, publish
  PROVE  Refines
<1>0. PICK r : r = Program[cur]
  OBVIOUS
<1> DEFINE c == r.bus
<1>1. /\ pc = "publish" /\ c \in Bus /\ buf \in ReqBufs(c) /\ ServerReq(c) = {buf}
      /\ UNCHANGED <<retBuf, retUsed, collected, ifState, cur, bus>>
      /\ reqBuf' = [reqBuf EXCEPT ![buf] = [client |-> r.client, addr |-> r.addr, body |-> r.body]]
  BY <1>0 DEF publish, allocReqBuf_Fill, retVars, driverVars, CustodyInv, ServerAt, Custody,
              KeptReq, Kept, ServerReq
<1>2. /\ cur \in DOMAIN Program /\ cur \in Nat \ {0} /\ Len(Program) \in Nat
      /\ DOMAIN Program = 1 .. Len(Program)
  BY <1>1, ProgramAssumption DEF ServiceInv, ProgramAt
<1>3. CustodyInv' /\ pc' = "notify"
  BY ServerPublish
<1>4. /\ reqUsed'[c] = Append(reqUsed[c], buf)
      /\ \A b \in Bus \ {c} : reqUsed'[b] = reqUsed[b]
  <2>1. ~Full(reqUsed[c])
    BY <1>0, <1>1, <1>3 DEF publish
  <2> QED
    BY <1>0, <1>1, <2>1 DEF publish, allocReqBuf_Queue, Enqueued, CustodyInv, Shape
<1>5. /\ DOMAIN reqBuf' = AllReqBufs /\ reqBuf'[buf].client = r.client
      /\ reqBuf'[buf].addr = r.addr
      /\ \A x : x # buf => reqBuf'[x] = reqBuf[x]
  <2>1. buf \in AllReqBufs
    BY <1>1, OwnBuffers
  <2> QED
    BY <1>1, <2>1 DEF ServiceInv, Buffers
<1>6. Caller(reqBuf'[buf]) = Caller(r)
  BY <1>5 DEF Caller
<1> HIDE DEF c
<1>7. ASSUME NEW b \in Bus, NEW k \in DOMAIN WaitingReqs(b)
      PROVE  WaitingReqs(b)[k] # buf
  <2>1. CASE b = c
    BY <1>1, <2>1, WaitingApart
  <2>2. CASE b # c
    <3>1. WaitingReqs(b)[k] \in ReqBufs(b)
      BY WaitingFacts
    <3> QED
      BY <1>1, <2>2, <3>1, BusesApart
  <2> QED
    BY <2>1, <2>2
<1>8. ASSUME NEW b \in Bus \ {c}
      PROVE  WaitingReqs(b)' = WaitingReqs(b) /\ Waiting(b)' = Waiting(b)
  BY <1>1, <1>4, <1>5, <1>7, WaitingStays
<1>9. WaitingReqs(c)' = Append(WaitingReqs(c), buf)
  <2>1. CurrentReq(c)' = CurrentReq(c)
    BY <1>1 DEF CurrentReq
  <2>2. CurrentReq(c) \in Seq(ReqBufs(c)) /\ reqUsed[c] \in Seq(ReqBufs(c))
    BY <1>1, WaitingFacts DEF CurrentReq
  <2>3. CurrentReq(c) \o Append(reqUsed[c], buf) = Append(CurrentReq(c) \o reqUsed[c], buf)
    BY <1>1, <2>2
  <2> QED
    BY <1>4, <2>1, <2>3 DEF WaitingReqs
<1>10. Waiting(c)' = Append(Waiting(c), Caller(r)) /\ Len(WaitingReqs(c)') = Len(WaitingReqs(c)) + 1
  <2> DEFINE n == Len(WaitingReqs(c))
  <2>1. /\ n \in Nat /\ DOMAIN WaitingReqs(c) = 1 .. n
        /\ WaitingReqs(c) \in Seq(ReqBufs(c))
    BY <1>1, WaitingFacts
  <2>2. /\ DOMAIN WaitingReqs(c)' = 1 .. n + 1
        /\ Len(WaitingReqs(c)') = n + 1
        /\ WaitingReqs(c)'[n + 1] = buf
        /\ \A k \in 1 .. n : WaitingReqs(c)'[k] = WaitingReqs(c)[k]
    BY <1>1, <1>9, <2>1
  <2> HIDE DEF n
  <2>3. \A k \in 1 .. n : reqBuf'[WaitingReqs(c)[k]] = reqBuf[WaitingReqs(c)[k]]
    BY <1>1, <1>5, <1>7, <2>1
  <2>4. Waiting(c) = [k \in 1 .. n |-> Caller(reqBuf[WaitingReqs(c)[k]])]
    BY <2>1 DEF Waiting
  <2>5. Waiting(c)' = [k \in 1 .. n + 1 |-> IF k = n + 1 THEN Caller(r) ELSE Waiting(c)[k]]
    <3>1. Waiting(c)' = [k \in 1 .. n + 1 |-> Caller(reqBuf'[WaitingReqs(c)'[k]])]
      BY <2>2 DEF Waiting
    <3>2. ASSUME NEW k \in 1 .. n + 1
          PROVE  Caller(reqBuf'[WaitingReqs(c)'[k]])
                   = IF k = n + 1 THEN Caller(r) ELSE Waiting(c)[k]
      BY <1>6, <2>1, <2>2, <2>3, <2>4
    <3> QED
      BY <3>1, <3>2
  <2>6. Append(Waiting(c), Caller(r))
          = [k \in 1 .. n + 1 |-> IF k = n + 1 THEN Caller(r) ELSE Waiting(c)[k]]
    <3>1. Waiting(c) = [k \in 1 .. n |-> Waiting(c)[k]]
      BY <2>4
    <3> QED
      BY <2>1, <3>1, AppendMapped
  <2> QED
    BY <2>2, <2>5, <2>6 DEF n
<1>11. \A b \in Bus : Answers(b)' = Answers(b) /\ Taken(b)' = Taken(b)
  BY <1>1 DEF Answers, Taken
<1>12. Service!Next
  BY <1>0, <1>1, <1>2, <1>8, <1>10, <1>11, ServiceAsks DEF SameWaiting
<1>13. Buffers' /\ History' /\ ProgramAt'
  BY <1>1, <1>2, <1>3, <1>5 DEF ServiceInv, Buffers, History, ProgramAt
<1>14. Marks'
  <2> SUFFICES ASSUME NEW b \in Bus, ifState[b].current_ret # NULL
               PROVE  Caller(retBuf[ifState[b].current_ret])
                        = Caller(reqBuf'[ifState[b].current_req])
    BY <1>1 DEF Marks
  <2>1. ifState[b].current_req # NULL
    BY DEF CustodyInv, Shape
  <2>2. 1 \in DOMAIN WaitingReqs(b) /\ WaitingReqs(b)[1] = ifState[b].current_req
    BY <2>1, WaitingFacts
  <2> QED
    BY <1>5, <1>7, <2>2 DEF ServiceInv, Marks
<1>15. ASSUME NEW b \in Bus PROVE Balance(b)'
  <2>1. Asked(b) = {k \in 1 .. cur - 1 : Program[k].bus = b}
    BY <1>1 DEF Asked, Published
  <2>2. Asked(b)' = {k \in 1 .. cur : Program[k].bus = b}
    BY <1>1, <1>3 DEF Asked, Published
  <2>3. IsFiniteSet(Asked(b)) /\ Cardinality(Asked(b)) \in Nat /\ cur \notin Asked(b)
    <3>1. IsFiniteSet(1 .. cur - 1) /\ cur \notin 1 .. cur - 1
      <4>1. 1 \in Int /\ cur - 1 \in Int
        BY <1>2
      <4>2. IsFiniteSet(1 .. cur - 1)
        BY <4>1, FS_Interval
      <4> QED
        BY <1>2, <4>2
    <3> QED
      BY <2>1, <3>1, FS_Subset, FS_CardinalityType
  <2>4. CASE b = c
    <3>1. Asked(b)' = Asked(b) \cup {cur}
      <4>1. 1 .. cur = (1 .. cur - 1) \cup {cur}
        BY <1>2
      <4> QED
        BY <1>0, <2>1, <2>2, <2>4, <4>1 DEF c
    <3>2. Cardinality(Asked(b)') = Cardinality(Asked(b)) + 1
      BY <2>3, <3>1, FS_AddElement
    <3>3. Len(WaitingReqs(b)) \in Nat /\ Len(retUsed[b]) \in Nat /\ Len(collected[b]) \in Nat
      BY WaitingFacts DEF ServiceInv, History
    <3> DEFINE w == Len(WaitingReqs(b))   w1 == Len(WaitingReqs(b))'
               u == Len(retUsed[b])       u1 == Len(retUsed[b])'
               t == Len(collected[b])     t1 == Len(collected[b])'
               n == Cardinality(Asked(b)) n1 == Cardinality(Asked(b))'
    <3>4. /\ w1 = w + 1 /\ u1 = u /\ t1 = t /\ n1 = n + 1
          /\ w \in Nat /\ u \in Nat /\ t \in Nat /\ n \in Nat
      BY <1>1, <1>10, <2>3, <2>4, <3>2, <3>3
    <3>5. w + u + t = n
      BY DEF ServiceInv, Balance
    <3> HIDE DEF w, w1, u, u1, t, t1, n, n1
    <3>6. w1 + u1 + t1 = n1
      BY <3>4, <3>5
    <3> QED
      BY <3>6 DEF Balance, w1, u1, t1, n1
  <2>5. CASE b # c
    <3>1. Asked(b)' = Asked(b)
      <4>1. 1 .. cur = (1 .. cur - 1) \cup {cur}
        BY <1>2
      <4> QED
        BY <1>0, <2>1, <2>2, <2>5, <4>1 DEF c
    <3> QED
      BY <1>1, <1>8, <2>5, <3>1 DEF ServiceInv, Balance
  <2> QED
    BY <2>4, <2>5
<1> QED
  BY <1>12, <1>13, <1>14, <1>15 DEF ServiceInv, Refines

\* collect: the oldest answer of the bus is taken.
LEMMA ServiceCollect ==
  ASSUME CustodyInv, ServiceInv, UNCHANGED driverVars, collect
  PROVE  Refines
<1>0. PICK c : c = bus
  OBVIOUS
<1> DEFINE n   == Len(retUsed[c])
           t   == Len(collected[c])
           ret == retUsed[c][1]
           m   == retBuf[ret]
<1>1. /\ c \in Bus /\ pc = "pop" /\ ~Empty(retUsed[c])
      /\ retUsed[c] \in Seq(RetBufs(c)) /\ retUsed[c] # <<>>
      /\ DOMAIN retUsed = Bus
      /\ UNCHANGED <<reqUsed, reqBuf, retBuf, ifState, cur, bus>>
  BY <1>0, WaitingFacts DEF collect, CustodyInv, Shape, ServerAt, reqVars, driverVars, Empty
<1>2. n \in Nat \ {0} /\ DOMAIN retUsed[c] = 1 .. n /\ Oldest(retUsed[c]) = ret /\ ret \in RetBufs(c)
  BY <1>1 DEF Oldest
<1>3. ret # NULL
  BY <1>1, <1>2, BufferSets
<1>4. /\ retUsed' = [retUsed EXCEPT ![c] = Tail(@)]
      /\ collected' = [collected EXCEPT ![c] = Append(@, m)]
      /\ pc' = "release"
  BY <1>0, <1>1, <1>2, <1>3 DEF collect, popRetBuf, Dequeued
<1>5. /\ DOMAIN Tail(retUsed[c]) = 1 .. n - 1 /\ Len(Tail(retUsed[c])) = n - 1
      /\ \A k \in 1 .. n - 1 : Tail(retUsed[c])[k] = retUsed[c][k + 1]
  BY <1>1, <1>2
<1>6. DOMAIN collected = Bus /\ t \in Nat /\ collected[c] = [k \in 1 .. t |-> collected[c][k]]
  BY <1>1 DEF ServiceInv, History
<1> HIDE DEF n, t, m, ret
<1>7. /\ Append(collected[c], m) = [k \in 1 .. t + 1 |-> IF k = t + 1 THEN m ELSE collected[c][k]]
      /\ Len(Append(collected[c], m)) = t + 1
  BY <1>6, AppendMapped
<1>8. /\ retUsed'[c] = Tail(retUsed[c]) /\ collected'[c] = Append(collected[c], m)
      /\ DOMAIN collected' = Bus
      /\ \A b \in Bus \ {c} : retUsed'[b] = retUsed[b] /\ collected'[b] = collected[b]
  BY <1>1, <1>4, <1>6
<1>9. Answers(c) = [k \in 1 .. n |-> AnswerOf(retBuf[retUsed[c][k]])]
  BY <1>2 DEF Answers
<1>10. /\ Answers(c) # <<>>
       /\ Head(Answers(c)) = AnswerOf(m)
       /\ Tail(Answers(c)) = [k \in 1 .. n - 1 |-> AnswerOf(retBuf[retUsed[c][k + 1]])]
  <2>1. Answers(c) = [k \in 1 .. n |-> Answers(c)[k]]
    BY <1>9
  <2>2. /\ Answers(c) # <<>> /\ Head(Answers(c)) = Answers(c)[1]
        /\ Tail(Answers(c)) = [k \in 1 .. n - 1 |-> Answers(c)[k + 1]]
    BY <1>2, <2>1, TailMapped
  <2>3. Answers(c)[1] = AnswerOf(m)
    BY <1>2, <1>9 DEF m, ret
  <2>4. \A k \in 1 .. n - 1 : Answers(c)[k + 1] = AnswerOf(retBuf[retUsed[c][k + 1]])
    BY <1>2, <1>9
  <2> QED
    BY <2>2, <2>3, <2>4
<1>11. Answers(c)' = Tail(Answers(c))
  <2>1. Answers(c)' = [k \in 1 .. n - 1 |-> AnswerOf(retBuf[Tail(retUsed[c])[k]])]
    BY <1>1, <1>5, <1>8 DEF Answers
  <2> QED
    BY <1>5, <1>10, <2>1
<1>12. Taken(c)' = Append(Taken(c), AnswerOf(m))
  <2>1. Taken(c) = [k \in 1 .. t |-> AnswerOf(collected[c][k])]
    BY <1>6 DEF Taken
  <2>2. Append(Taken(c), AnswerOf(m))
          = [k \in 1 .. t + 1 |-> IF k = t + 1 THEN AnswerOf(m) ELSE Taken(c)[k]]
    <3>1. Taken(c) = [k \in 1 .. t |-> Taken(c)[k]]
      BY <2>1
    <3> QED
      BY <1>6, <3>1, AppendMapped
  <2>3. Taken(c)' = [k \in 1 .. t + 1 |-> AnswerOf(Append(collected[c], m)[k])]
    BY <1>7, <1>8 DEF Taken
  <2>4. ASSUME NEW k \in 1 .. t + 1
        PROVE  AnswerOf(Append(collected[c], m)[k])
                 = IF k = t + 1 THEN AnswerOf(m) ELSE Taken(c)[k]
    BY <1>6, <1>7, <2>1
  <2> QED
    BY <2>2, <2>3, <2>4
<1>13. ASSUME NEW b \in Bus
       PROVE  /\ WaitingReqs(b)' = WaitingReqs(b) /\ Waiting(b)' = Waiting(b)
              /\ Asked(b)' = Asked(b)
  <2>1. Asked(b)' = Asked(b)
    BY <1>1, <1>4 DEF Asked, Published
  <2> QED
    BY <1>1, <2>1, WaitingStays
<1>14. SameAnswers(c) /\ SameTaken(c)
  BY <1>1, <1>8 DEF SameAnswers, SameTaken, Answers, Taken
<1>15. Service!Next
  BY <1>1, <1>10, <1>11, <1>12, <1>13, <1>14, ServiceTakes
<1>16. Buffers' /\ Marks'
  BY <1>1 DEF ServiceInv, Buffers, Marks
<1>17. History'
  <2>1. /\ Len(collected'[c]) = t + 1
        /\ collected'[c] = [k \in 1 .. t + 1 |-> collected'[c][k]]
    BY <1>7, <1>8
  <2>2. t + 1 \in Nat
    BY <1>6
  <2> QED
    BY <1>8, <2>1, <2>2 DEF ServiceInv, History
<1>18. ProgramAt'
  <2>1. Len(collected'[c]) > 0
    BY <1>6, <1>7, <1>8
  <2> QED
    BY <1>0, <1>1, <1>4, <2>1 DEF ServiceInv, ProgramAt
<1>19. ASSUME NEW b \in Bus PROVE Balance(b)'
  <2>1. CASE b # c
    BY <1>8, <1>13, <2>1 DEF ServiceInv, Balance
  <2>2. CASE b = c
    <3> DEFINE w == Len(WaitingReqs(b))   w1 == Len(WaitingReqs(b))'
               u1 == Len(retUsed[b])'     t1 == Len(collected[b])'
               a == Cardinality(Asked(b)) a1 == Cardinality(Asked(b))'
    <3>1. w1 = w /\ u1 = n - 1 /\ t1 = t + 1 /\ a1 = a /\ w \in Nat
      <4>1. w1 = w /\ a1 = a
        BY <1>13
      <4>2. w \in Nat
        BY WaitingFacts
      <4>3. u1 = n - 1
        BY <1>5, <1>8, <2>2
      <4>4. t1 = t + 1
        BY <1>7, <1>8, <2>2
      <4> QED
        BY <4>1, <4>2, <4>3, <4>4
    <3>2. w + n + t = a
      BY <2>2 DEF ServiceInv, Balance, n, t
    <3> HIDE DEF w, w1, u1, t1, a, a1
    <3>3. w1 + u1 + t1 = a1
      BY <1>2, <1>6, <3>1, <3>2
    <3> QED
      BY <3>3 DEF Balance, w1, u1, t1, a1
  <2> QED
    BY <2>1, <2>2
<1> QED
  BY <1>15, <1>16, <1>17, <1>18, <1>19 DEF ServiceInv, Refines

-----------------------------------------------------------------------------
\* The driver's actions, and the list processors'.

\* What each of them leaves to the server.
LEMMA ServerPlace ==
  ASSUME ServiceInv, UNCHANGED serverVars
  PROVE  /\ History' /\ ProgramAt' /\ Published' = Published
         /\ \A b \in Bus : Taken(b)' = Taken(b) /\ Asked(b)' = Asked(b)
<1>1. UNCHANGED <<pc, cur, bus, buf, collected>>
  BY DEF serverVars
<1> QED
  BY <1>1 DEF ServiceInv, History, ProgramAt, Published, Taken, Asked

LEMMA ServiceDriverQuiet ==
  ASSUME CustodyInv, ServiceInv, UNCHANGED serverVars, NEW c \in Bus,
         \/ DriverWake \/ checkBuf_Nothing(c) \/ checkBuf_Busy(c) \/ i2cirq_NoRequest(c)
  PROVE  Refines
<1>1. UNCHANGED <<reqBuf, retBuf, reqUsed, retUsed, collected>>
  BY DEF DriverWake, checkBuf_Nothing, checkBuf_Busy, i2cirq_NoRequest, transportVars, reqVars,
         retVars, serverVars
<1>2. ASSUME NEW b \in Bus
      PROVE  /\ ifState'[b].current_req = ifState[b].current_req
             /\ ifState'[b].current_ret = ifState[b].current_ret
  <2>1. DOMAIN ifState = Bus /\ DOMAIN ifState[b] = Fields
    BY DEF CustodyInv, Shape
  <2>2. CASE DriverWake \/ i2cirq_NoRequest(c)
    BY <2>2 DEF DriverWake, i2cirq_NoRequest
  <2>3. CASE checkBuf_Nothing(c) \/ checkBuf_Busy(c)
    <3>1. \E n : ifState' = [ifState EXCEPT ![c] = [ifState[c] EXCEPT !.notified = n]]
      BY <2>3 DEF checkBuf_Nothing, checkBuf_Busy, Deferred
    <3> QED
      BY <2>1, <3>1 DEF Fields
  <2> QED
    BY <2>2, <2>3
<1> QED
  BY <1>1, <1>2, ServerPlace, Quiet

LEMMA ServiceNothing ==
  ASSUME ServiceInv, UNCHANGED <<transportVars, driverVars, serverVars>>
  PROVE  Refines
<1>1. UNCHANGED <<reqBuf, retBuf, reqUsed, retUsed, collected, ifState>>
  BY DEF transportVars, reqVars, retVars, driverVars, serverVars
<1> QED
  BY <1>1, ServerPlace, Quiet

\* The outcome of a batch does not touch the caller that the buffer is marked with.
LEMMA ReportedCaller ==
  ASSUME NEW ret, DOMAIN ret = RetFields, NEW err, NEW timeout
  PROVE  /\ DOMAIN Reported(ret, err, timeout) = RetFields
         /\ Caller(Reported(ret, err, timeout)) = Caller(ret)
         /\ Reported(ret, err, timeout).err \in Outcome
<1>1. Reported(ret, err, timeout).err
        = IF err >= 0 THEN I2C_ERR_OK
          ELSE IF timeout THEN I2C_ERR_TIMEOUT
          ELSE IF err = -I2C_TK_ADDRR THEN I2C_ERR_NOREAD
          ELSE I2C_ERR_NACK
  BY DEF Reported, RetFields
<1>2. Reported(ret, err, timeout).err \in Outcome
  BY <1>1 DEF Outcome
<1>3. /\ DOMAIN Reported(ret, err, timeout) = RetFields
      /\ Caller(Reported(ret, err, timeout)) = Caller(ret)
  BY DEF Reported, RetFields, Caller
<1> QED
  BY <1>2, <1>3

\* A return buffer of bus c that is in no used ring is written: no answer changes, nor
\* what another bus's return buffer says.
LEMMA WriteApart ==
  ASSUME CustodyInv, Buffers, NEW c \in Bus, NEW ret \in RetBufs(c), NEW m,
         DOMAIN m = RetFields,
         \A k \in DOMAIN retUsed[c] : retUsed[c][k] # ret,
         retBuf' = [retBuf EXCEPT ![ret] = m]
  PROVE  /\ DOMAIN retBuf' = AllRetBufs /\ \A x \in AllRetBufs : DOMAIN retBuf'[x] = RetFields
         /\ retBuf'[ret] = m
         /\ \A b \in Bus, k \in Nat :
              k \in DOMAIN retUsed[b] => retBuf'[retUsed[b][k]] = retBuf[retUsed[b][k]]
         /\ \A b \in Bus \ {c} : ifState[b].current_ret # NULL =>
              retBuf'[ifState[b].current_ret] = retBuf[ifState[b].current_ret]
<1>1. ret \in AllRetBufs
  BY OwnBuffers
<1>2. /\ DOMAIN retBuf' = AllRetBufs /\ retBuf'[ret] = m
      /\ \A x \in AllRetBufs : DOMAIN retBuf'[x] = RetFields
      /\ \A x : x # ret => retBuf'[x] = retBuf[x]
  BY <1>1 DEF Buffers
<1>3. ASSUME NEW b \in Bus, NEW k \in Nat, k \in DOMAIN retUsed[b]
      PROVE  retUsed[b][k] # ret
  <2>1. CASE b = c
    BY <1>3, <2>1
  <2>2. CASE b # c
    <3>1. retUsed[b][k] \in RetBufs(b)
      BY <1>3, WaitingFacts
    <3> QED
      BY <2>2, <3>1, BusesApart
  <2> QED
    BY <2>1, <2>2
<1>4. ASSUME NEW b \in Bus \ {c}, ifState[b].current_ret # NULL
      PROVE  ifState[b].current_ret # ret
  <2>1. ifState[b].current_ret \in RetBufs(b)
    BY <1>4, WaitingFacts DEF CustodyInv, Shape
  <2> QED
    BY <2>1, BusesApart
<1> QED
  BY <1>2, <1>3, <1>4

\* What the handler's report leaves of the buffers.
LEMMA InterruptWrites ==
  ASSUME CustodyInv, Buffers, Marks, NEW c \in Bus, Interrupted(c)
  PROVE  LET req == ifState[c].current_req
             ret == ifState[c].current_ret
         IN /\ req # NULL /\ ret # NULL
            /\ DOMAIN retBuf' = AllRetBufs
            /\ \A x \in AllRetBufs : DOMAIN retBuf'[x] = RetFields
            /\ Caller(retBuf'[ret]) = Caller(reqBuf[req])
            /\ retBuf'[ret].err \in Outcome
            /\ \A b \in Bus, k \in Nat :
                 k \in DOMAIN retUsed[b] => retBuf'[retUsed[b][k]] = retBuf[retUsed[b][k]]
            /\ \A b \in Bus \ {c} : ifState[b].current_ret # NULL =>
                 retBuf'[ifState[b].current_ret] = retBuf[ifState[b].current_ret]
<1> DEFINE req == ifState[c].current_req
           ret == ifState[c].current_ret
           m   == Reported(retBuf[ret], i2cGetError(hw[c]), ThisCall.timeout)
<1>1. ret # NULL /\ retBuf' = [retBuf EXCEPT ![ret] = m]
  BY DEF Interrupted
<1>2. req # NULL
  BY <1>1 DEF CustodyInv, Shape
<1>3. ret \in RetBufs(c) /\ ret \in AllRetBufs
  BY <1>2, WaitingFacts, OwnBuffers
<1>4. \A k \in DOMAIN retUsed[c] : retUsed[c][k] # ret
  BY <1>1, WaitingApart DEF DriverRet
<1>5. DOMAIN m = RetFields /\ Caller(m) = Caller(retBuf[ret]) /\ m.err \in Outcome
  <2>1. DOMAIN retBuf[ret] = RetFields
    BY <1>3 DEF Buffers
  <2> QED
    BY <2>1, ReportedCaller
<1>6. Caller(retBuf[ret]) = Caller(reqBuf[req])
  BY <1>1 DEF Marks
<1> HIDE DEF m, ret, req
<1>7. /\ DOMAIN retBuf' = AllRetBufs /\ \A x \in AllRetBufs : DOMAIN retBuf'[x] = RetFields
      /\ retBuf'[ret] = m
      /\ \A b \in Bus, k \in Nat :
           k \in DOMAIN retUsed[b] => retBuf'[retUsed[b][k]] = retBuf[retUsed[b][k]]
      /\ \A b \in Bus \ {c} : ifState[b].current_ret # NULL =>
           retBuf'[ifState[b].current_ret] = retBuf[ifState[b].current_ret]
  BY <1>1, <1>3, <1>4, <1>5, WriteApart
<1> QED
  BY <1>1, <1>2, <1>5, <1>6, <1>7 DEF ret, req

\* Loading another batch of the request in progress changes nothing of it.
LEMMA ServiceNextBatch ==
  ASSUME CustodyInv, ServiceInv, UNCHANGED serverVars, NEW c \in Bus, i2cirq_NextBatch(c)
  PROVE  Refines
<1>1. /\ Interrupted(c) /\ i2cLoadTokens(c, ifState[c])
      /\ UNCHANGED <<reqBuf, reqUsed, retUsed>>
  BY DEF i2cirq_NextBatch, reqVars
<1>2. ASSUME NEW b \in Bus
      PROVE  /\ ifState'[b].current_req = ifState[b].current_req
             /\ ifState'[b].current_ret = ifState[b].current_ret
  BY <1>1, LoadKeepsPointers DEF CustodyInv, Shape
<1>3. ASSUME NEW b \in Bus
      PROVE  WaitingReqs(b)' = WaitingReqs(b) /\ Waiting(b)' = Waiting(b)
  BY <1>1, <1>2, WaitingStays
<1>4. ASSUME NEW b \in Bus PROVE Answers(b)' = Answers(b)
  <2>1. DOMAIN retUsed[b] \subseteq Nat
    BY WaitingFacts
  <2> QED
    BY <1>1, <2>1, InterruptWrites, AnswersStay DEF ServiceInv
<1>5. Buffers'
  BY <1>1, InterruptWrites DEF ServiceInv, Buffers
<1>6. Marks'
  <2> SUFFICES ASSUME NEW b \in Bus, ifState[b].current_ret # NULL
               PROVE  Caller(retBuf'[ifState[b].current_ret])
                        = Caller(reqBuf[ifState[b].current_req])
    BY <1>1, <1>2 DEF Marks
  <2>1. CASE b = c
    BY <1>1, <2>1, InterruptWrites DEF ServiceInv
  <2>2. CASE b # c
    BY <1>1, <2>2, InterruptWrites DEF ServiceInv, Marks
  <2> QED
    BY <2>1, <2>2
<1>7. History' /\ ProgramAt' /\ \A b \in Bus : Taken(b)' = Taken(b) /\ Asked(b)' = Asked(b)
  BY ServerPlace
<1>8. ASSUME NEW b \in Bus PROVE Balance(b)'
  BY <1>1, <1>3, <1>7 DEF ServiceInv, Balance, serverVars
<1>9. UNCHANGED Service!serviceVars
  BY <1>3, <1>4, <1>7, ServiceStutters
<1> QED
  BY <1>5, <1>6, <1>7, <1>8, <1>9 DEF ServiceInv, Refines

\* The oldest waiting request becomes the one in progress, and still waits.
LEMMA ServiceStart ==
  ASSUME CustodyInv, ServiceInv, UNCHANGED serverVars, NEW c \in Bus, checkBuf_Start(c)
  PROVE  Refines
<1> DEFINE req == Oldest(reqUsed[c])
           ret == Oldest(retFree[c])
           m   == Marked(retBuf[ret], reqBuf[req])
           st  == Begun(ifState[c], req, ret)
<1>1. /\ ~Empty(reqUsed[c]) /\ ~Empty(retFree[c])
      /\ reqUsed' = [reqUsed EXCEPT ![c] = Dequeued(@)]
      /\ retBuf' = [retBuf EXCEPT ![ret] = m]
      /\ ifState[c].current_req = NULL
      /\ i2cLoadTokens(c, st)
      /\ UNCHANGED <<reqBuf, retUsed>>
  BY DEF checkBuf_Start, reqBufEmpty, popReqBuf, Busy, Oldest
<1>2. DOMAIN st = Fields /\ st.current_req = req /\ st.current_ret = ret
  BY DEF Begun, Fields, CustodyInv, Shape
<1>3. /\ reqUsed[c] \in Seq(ReqBufs(c)) /\ reqUsed[c] # <<>> /\ DOMAIN reqUsed = Bus
      /\ req = reqUsed[c][1] /\ Dequeued(reqUsed[c]) = Tail(reqUsed[c])
  BY <1>1, WaitingFacts DEF Oldest, Dequeued, Empty, CustodyInv, Shape
<1>4. ret \in RetBufs(c) /\ \A k \in DOMAIN retUsed[c] : retUsed[c][k] # ret
  <2>1. retFree[c] \in Seq(RetBufs(c)) /\ IsInjective(retFree[c])
    BY DEF CustodyInv, Custody, KeptRet, Kept
  <2>2. ret \in ToSet(retFree[c]) /\ ret \in RetBufs(c)
    BY <1>1, <2>1, DequeuedRing
  <2> QED
    BY <2>2, WaitingApart
<1>5. DOMAIN m = RetFields /\ Caller(m) = Caller(reqBuf[req])
  <2>1. DOMAIN retBuf[ret] = RetFields
    BY <1>4, OwnBuffers DEF ServiceInv, Buffers
  <2> QED
    BY <2>1 DEF Marked, RetFields, Caller
<1>6. req # NULL
  <2>1. req \in ReqBufs(c)
    BY <1>3
  <2> QED
    BY <2>1, BufferSets
<1> HIDE DEF m, st, req, ret
<1>7. /\ DOMAIN retBuf' = AllRetBufs /\ \A x \in AllRetBufs : DOMAIN retBuf'[x] = RetFields
      /\ retBuf'[ret] = m
      /\ \A b \in Bus, k \in Nat :
           k \in DOMAIN retUsed[b] => retBuf'[retUsed[b][k]] = retBuf[retUsed[b][k]]
      /\ \A b \in Bus \ {c} : ifState[b].current_ret # NULL =>
           retBuf'[ifState[b].current_ret] = retBuf[ifState[b].current_ret]
  BY <1>1, <1>4, <1>5, WriteApart DEF ServiceInv
<1>8. /\ ifState'[c].current_req = req /\ ifState'[c].current_ret = ret
      /\ \A b \in Bus \ {c} : ifState'[b] = ifState[b]
  BY <1>1, <1>2, LoadKeepsPointers DEF CustodyInv, Shape
<1>9. ASSUME NEW b \in Bus
      PROVE  WaitingReqs(b)' = WaitingReqs(b) /\ Waiting(b)' = Waiting(b)
  <2>1. CASE b # c
    <3>1. reqUsed'[b] = reqUsed[b]
      BY <1>1, <1>3, <2>1
    <3> QED
      BY <1>1, <1>8, <2>1, <3>1, WaitingStays
  <2>2. CASE b = c
    <3>1. WaitingReqs(c) = reqUsed[c]
      BY <1>1, WaitingFacts
    <3>2. WaitingReqs(c)' = <<req>> \o Tail(reqUsed[c])
      <4>1. reqUsed'[c] = Tail(reqUsed[c])
        BY <1>1, <1>3
      <4> QED
        BY <1>6, <1>8, <4>1 DEF WaitingReqs, CurrentReq
    <3>3. reqUsed[c] = <<reqUsed[c][1]>> \o Tail(reqUsed[c])
      BY <1>3
    <3>4. WaitingReqs(c)' = WaitingReqs(c)
      BY <1>3, <3>1, <3>2, <3>3
    <3>5. Waiting(c)' = Waiting(c)
      BY <1>1, <3>4 DEF Waiting
    <3> QED
      BY <2>2, <3>4, <3>5
  <2> QED
    BY <2>1, <2>2
<1>10. ASSUME NEW b \in Bus PROVE Answers(b)' = Answers(b)
  <2>1. DOMAIN retUsed[b] \subseteq Nat
    BY WaitingFacts
  <2> QED
    BY <1>1, <1>7, <2>1, AnswersStay
<1>11. Buffers'
  BY <1>1, <1>7 DEF ServiceInv, Buffers
<1>12. Marks'
  <2> SUFFICES ASSUME NEW b \in Bus, ifState'[b].current_ret # NULL
               PROVE  Caller(retBuf'[ifState'[b].current_ret])
                        = Caller(reqBuf[ifState'[b].current_req])
    BY <1>1 DEF Marks
  <2>1. CASE b = c
    BY <1>5, <1>7, <1>8, <2>1
  <2>2. CASE b # c
    BY <1>7, <1>8, <2>2 DEF ServiceInv, Marks
  <2> QED
    BY <2>1, <2>2
<1>13. History' /\ ProgramAt' /\ \A b \in Bus : Taken(b)' = Taken(b) /\ Asked(b)' = Asked(b)
  BY ServerPlace
<1>14. ASSUME NEW b \in Bus PROVE Balance(b)'
  BY <1>1, <1>9, <1>13 DEF ServiceInv, Balance, serverVars
<1>15. UNCHANGED Service!serviceVars
  BY <1>9, <1>10, <1>13, ServiceStutters
<1> QED
  BY <1>11, <1>12, <1>13, <1>14, <1>15 DEF ServiceInv, Refines

\* With no more requests than return buffers, one is free for every request that
\* waits: those in use are answers, and the server has asked for each of them.
LEMMA ReturnForRequest ==
  ASSUME CustodyInv, ServiceInv, EnoughReturns, NEW c \in Bus, driverUp,
         ifState[c].current_req = NULL, Empty(retFree[c])
  PROVE  Empty(reqUsed[c])
<1> DEFINE used == ToSet(retUsed[c])
           n    == Len(retUsed[c])
           t    == Len(collected[c])
           w    == Len(reqUsed[c])
           a    == Cardinality(Asked(c))
<1>1. /\ retUsed[c] \in Seq(RetBufs(c)) /\ n \in Nat /\ DOMAIN retUsed[c] = 1 .. n
      /\ reqUsed[c] \in Seq(ReqBufs(c)) /\ w \in Nat
      /\ t \in Nat
  BY WaitingFacts DEF ServiceInv, History
<1>2. RetBufs(c) = used \cup ServerRet(c)
  <2>1. DriverRet(c) = {} /\ ToSet(retFree[c]) = {}
    BY DEF DriverRet, CustodyInv, Shape, Empty, ToSet
  <2> QED
    BY <2>1 DEF CustodyInv, Custody, KeptRet, Kept
<1>3. IsFiniteSet(used) /\ Cardinality(used) \in Nat /\ Cardinality(used) <= n
  <2>1. IsFiniteSet(1 .. n) /\ Cardinality(1 .. n) = n
    <3>1. 1 \in Int /\ n \in Int
      BY <1>1
    <3>2. /\ IsFiniteSet(1 .. n)
          /\ Cardinality(1 .. n) = IF 1 > n THEN 0 ELSE n - 1 + 1
      BY ONLY <3>1, FS_Interval
    <3> QED
      BY <1>1, <3>2
  <2>2. retUsed[c] \in Surjection(1 .. n, used)
    BY <1>1 DEF Surjection, ToSet
  <2>3. IsFiniteSet(used) /\ Cardinality(used) <= Cardinality(1 .. n)
    BY <2>1, <2>2, FS_Surjection
  <2> QED
    BY <2>1, <2>3, FS_CardinalityType
<1>4. Cardinality(RetBufs(c)) = I2C_BUF_COUNT /\ I2C_BUF_COUNT \in Nat
  <2> DEFINE lo == retBase(c) + 1
             hi == retBase(c) + I2C_BUF_COUNT
  <2>1. I2C_BUF_COUNT \in Nat \ {0} /\ retBase(c) \in Nat
    BY TransportAssumption DEF Bus, retBase
  <2>2. lo \in Int /\ hi \in Int /\ hi - lo + 1 = I2C_BUF_COUNT /\ ~(lo > hi)
    BY <2>1
  <2> HIDE DEF lo, hi
  <2>3. Cardinality(lo .. hi) = IF lo > hi THEN 0 ELSE hi - lo + 1
    BY ONLY <2>2, FS_Interval
  <2> QED
    BY <2>1, <2>2, <2>3 DEF lo, hi, RetBufs
<1>5. I2C_BUF_COUNT <= n + t
  <2>1. CASE ServerRet(c) = {}
    <3>1. I2C_BUF_COUNT = Cardinality(used)
      BY <1>2, <1>4, <2>1
    <3> HIDE DEF used, n, t
    <3> QED
      BY <1>1, <1>3, <1>4, <3>1
  <2>2. CASE ServerRet(c) # {}
    <3>1. ServerRet(c) = {buf} /\ t > 0
      BY <2>2 DEF ServerRet, ServiceInv, ProgramAt
    <3> HIDE DEF used, n, t
    <3>2. Cardinality(used \cup {buf})
            = IF buf \in used THEN Cardinality(used) ELSE Cardinality(used) + 1
      BY <1>3, FS_AddElement
    <3>3. Cardinality(used \cup {buf}) = I2C_BUF_COUNT
      BY <1>2, <1>4, <3>1
    <3> QED
      BY <1>1, <1>3, <1>4, <3>1, <3>2, <3>3
  <2> QED
    BY <2>1, <2>2
<1>6. a \in Nat /\ a <= I2C_BUF_COUNT
  <2> DEFINE all == {k \in DOMAIN Program : Program[k].bus = c}
  <2>1. DOMAIN Program = 1 .. Len(Program) /\ Len(Program) \in Nat
    BY ProgramAssumption
  <2>2. Asked(c) \subseteq all
    BY <2>1 DEF Asked, Published, ServiceInv, ProgramAt
  <2>3. IsFiniteSet(all)
    <3>1. 1 \in Int /\ Len(Program) \in Int
      BY <2>1
    <3>2. IsFiniteSet(1 .. Len(Program))
      BY <3>1, FS_Interval
    <3> QED
      BY <2>1, <3>2, FS_Subset
  <2>4. Cardinality(Asked(c)) <= Cardinality(all) /\ IsFiniteSet(Asked(c))
    BY <2>2, <2>3, FS_Subset
  <2>5. Cardinality(all) \in Nat /\ Cardinality(Asked(c)) \in Nat
    BY <2>3, <2>4, FS_CardinalityType
  <2>6. Cardinality(all) <= I2C_BUF_COUNT
    BY DEF EnoughReturns, Requests
  <2> HIDE DEF all
  <2> QED
    BY <1>4, <2>4, <2>5, <2>6
<1>7. w + n + t = a
  <2>1. WaitingReqs(c) = reqUsed[c]
    BY WaitingFacts
  <2> QED
    BY <2>1 DEF ServiceInv, Balance
<1> HIDE DEF n, t, w, a
<1>8. w = 0
  BY <1>1, <1>4, <1>5, <1>6, <1>7
<1> QED
  BY <1>1, <1>8 DEF w, Empty

\* A request that is over is answered, with its own caller, and no longer waits.
LEMMA ServiceFinish ==
  ASSUME CustodyInv, ServiceInv, UNCHANGED serverVars, NEW c \in Bus,
         i2cirq_Finish(c) \/ i2cirq_FinishNotified(c)
  PROVE  Refines
<1> DEFINE req == ifState[c].current_req
           ret == ifState[c].current_ret
           n   == Len(retUsed[c])
           w   == Len(reqUsed[c])
<1>1. /\ Interrupted(c) /\ Return(c)
      /\ UNCHANGED <<reqUsed, reqBuf>>
  BY DEF i2cirq_Finish, i2cirq_FinishNotified
<1>2. /\ req # NULL /\ ret # NULL
      /\ DOMAIN retBuf' = AllRetBufs /\ \A x \in AllRetBufs : DOMAIN retBuf'[x] = RetFields
      /\ Caller(retBuf'[ret]) = Caller(reqBuf[req])
      /\ retBuf'[ret].err \in Outcome
      /\ \A b \in Bus, k \in Nat :
           k \in DOMAIN retUsed[b] => retBuf'[retUsed[b][k]] = retBuf[retUsed[b][k]]
      /\ \A b \in Bus \ {c} : ifState[b].current_ret # NULL =>
           retBuf'[ifState[b].current_ret] = retBuf[ifState[b].current_ret]
  BY <1>1, InterruptWrites DEF ServiceInv
<1>3. /\ retUsed[c] \in Seq(RetBufs(c)) /\ ret \in RetBufs(c)
      /\ n \in Nat /\ DOMAIN retUsed[c] = 1 .. n /\ w \in Nat
      /\ DOMAIN retUsed = Bus /\ DOMAIN ifState = Bus /\ DOMAIN ifState[c] = Fields
  BY <1>2, WaitingFacts DEF CustodyInv, Shape
<1>4. ~Full(retUsed[c])
  <2>1. Kept(retFree[c], retUsed[c], ServerRet(c), {ret}, RetBufs(c), driverUp)
    BY <1>2 DEF CustodyInv, Custody, KeptRet, DriverRet
  <2>2. driverUp \in BOOLEAN
    BY DEF CustodyInv, Shape
  <2>3. Kept(retUsed[c], retFree[c], {ret}, ServerRet(c), RetBufs(c), driverUp)
    BY <2>1, <2>2, KeptSymmetric
  <2> QED
    BY <2>2, <2>3, Give, BufferSets
<1>5. /\ retUsed'[c] = Append(retUsed[c], ret)
      /\ \A b \in Bus \ {c} : retUsed'[b] = retUsed[b]
  BY <1>1, <1>2, <1>3, <1>4 DEF Return, pushRetBuf, Enqueued
<1>6. /\ DOMAIN retUsed'[c] = 1 .. n + 1 /\ Len(retUsed'[c]) = n + 1
      /\ retUsed'[c][n + 1] = ret
      /\ \A k \in 1 .. n : retUsed'[c][k] = retUsed[c][k]
  BY <1>3, <1>5
<1>7. /\ ifState'[c].current_req = NULL /\ ifState'[c].current_ret = NULL
      /\ \A b \in Bus \ {c} : ifState'[b] = ifState[b]
  BY <1>1, <1>3 DEF Return, Reset, Fields
<1>8. ASSUME NEW b \in Bus \ {c}
      PROVE  /\ WaitingReqs(b)' = WaitingReqs(b) /\ Waiting(b)' = Waiting(b)
             /\ Answers(b)' = Answers(b)
  <2>1. WaitingReqs(b)' = WaitingReqs(b) /\ Waiting(b)' = Waiting(b)
    BY <1>1, <1>7, WaitingStays
  <2>2. DOMAIN retUsed[b] \subseteq Nat
    BY WaitingFacts
  <2>3. Answers(b)' = Answers(b)
    BY <1>2, <1>5, <2>2, AnswersStay
  <2> QED
    BY <2>1, <2>3
<1>9. /\ Len(WaitingReqs(c)) = w + 1 /\ DOMAIN WaitingReqs(c) = 1 .. w + 1
      /\ WaitingReqs(c)[1] = req
      /\ \A k \in 1 .. w : WaitingReqs(c)[k + 1] = reqUsed[c][k]
      /\ DOMAIN reqUsed[c] = 1 .. w
  BY <1>2, WaitingFacts
<1>10. WaitingReqs(c)' = reqUsed[c]
  <2>1. WaitingReqs(c)' = <<>> \o reqUsed[c]
    BY <1>1, <1>7 DEF WaitingReqs, CurrentReq
  <2> QED
    BY <2>1, WaitingFacts
<1> HIDE DEF req, ret, n, w
<1>11. /\ Waiting(c) # <<>>
       /\ Head(Waiting(c)) = Caller(reqBuf[req])
       /\ Waiting(c)' = Tail(Waiting(c))
  <2>1. Waiting(c) = [k \in 1 .. w + 1 |-> Caller(reqBuf[WaitingReqs(c)[k]])]
    BY <1>9 DEF Waiting
  <2>2. PICK m \in Nat \ {0} : m = w + 1
    BY <1>3
  <2>3. /\ Waiting(c) # <<>> /\ Head(Waiting(c)) = Waiting(c)[1]
        /\ Tail(Waiting(c)) = [k \in 1 .. m - 1 |-> Waiting(c)[k + 1]]
    <3>1. Waiting(c) = [k \in 1 .. m |-> Waiting(c)[k]]
      BY <2>1, <2>2
    <3> QED
      BY <3>1, TailMapped
  <2>4. Waiting(c)[1] = Caller(reqBuf[req])
    BY <1>3, <1>9, <2>1
  <2>5. Tail(Waiting(c)) = [k \in 1 .. w |-> Waiting(c)[k + 1]]
    <3>1. m - 1 = w
      BY <1>3, <2>2
    <3> QED
      BY <2>3, <3>1
  <2>6. \A k \in 1 .. w : Waiting(c)[k + 1] = Caller(reqBuf[reqUsed[c][k]])
    BY <1>3, <1>9, <2>1
  <2>7. Waiting(c)' = [k \in 1 .. w |-> Caller(reqBuf[reqUsed[c][k]])]
    BY <1>1, <1>9, <1>10 DEF Waiting
  <2> QED
    BY <2>3, <2>4, <2>5, <2>6, <2>7
<1>12. AnswerOf(retBuf'[ret]) = [caller |-> Caller(reqBuf[req]), err |-> retBuf'[ret].err]
  BY <1>2 DEF AnswerOf
<1>13. Answers(c)' = Append(Answers(c), AnswerOf(retBuf'[ret]))
  <2>1. Answers(c) = [k \in 1 .. n |-> AnswerOf(retBuf[retUsed[c][k]])]
    BY <1>3 DEF Answers
  <2>2. Append(Answers(c), AnswerOf(retBuf'[ret]))
          = [k \in 1 .. n + 1 |-> IF k = n + 1 THEN AnswerOf(retBuf'[ret]) ELSE Answers(c)[k]]
    <3>1. Answers(c) = [k \in 1 .. n |-> Answers(c)[k]]
      BY <2>1
    <3> QED
      BY <1>3, <3>1, AppendMapped
  <2>3. Answers(c)' = [k \in 1 .. n + 1 |-> AnswerOf(retBuf'[retUsed'[c][k]])]
    BY <1>6 DEF Answers
  <2>4. ASSUME NEW k \in 1 .. n + 1
        PROVE  AnswerOf(retBuf'[retUsed'[c][k]])
                 = IF k = n + 1 THEN AnswerOf(retBuf'[ret]) ELSE Answers(c)[k]
    <3>1. CASE k = n + 1
      BY <1>6, <3>1
    <3>2. CASE k # n + 1
      <4>1. k \in 1 .. n /\ k \in Nat /\ k \in DOMAIN retUsed[c]
        BY <1>3, <3>2
      <4>2. retBuf'[retUsed'[c][k]] = retBuf[retUsed[c][k]]
        BY <1>2, <1>6, <4>1
      <4> QED
        BY <2>1, <3>2, <4>1, <4>2
    <3> QED
      BY <3>1, <3>2
  <2> QED
    BY <2>2, <2>3, <2>4
<1>14. History' /\ ProgramAt' /\ \A b \in Bus : Taken(b)' = Taken(b) /\ Asked(b)' = Asked(b)
  BY ServerPlace
<1>15. Service!Next
  <2>1. PICK err \in Outcome : err = retBuf'[ret].err
    BY <1>2
  <2>2. Answers(c)' = Append(Answers(c), [caller |-> Head(Waiting(c)), err |-> err])
    BY <1>11, <1>12, <1>13, <2>1
  <2> QED
    BY <1>8, <1>11, <1>14, <2>2, ServiceGives DEF SameWaiting, SameAnswers
<1>16. Buffers'
  BY <1>1, <1>2 DEF ServiceInv, Buffers
<1>17. Marks'
  BY <1>1, <1>2, <1>7 DEF ServiceInv, Marks
<1>18. ASSUME NEW b \in Bus PROVE Balance(b)'
  <2>1. CASE b # c
    BY <1>5, <1>8, <1>14, <2>1 DEF ServiceInv, Balance, serverVars
  <2>2. CASE b = c
    <3> DEFINE w1 == Len(WaitingReqs(b))'
               u1 == Len(retUsed[b])'
               t  == Len(collected[b])    t1 == Len(collected[b])'
               a  == Cardinality(Asked(b)) a1 == Cardinality(Asked(b))'
    <3>1. w1 = w
      BY <1>10, <2>2 DEF w
    <3>2. u1 = n + 1
      BY <1>6, <2>2
    <3>3. t1 = t /\ t \in Nat
      BY DEF ServiceInv, History, serverVars
    <3>4. a1 = a
      BY <1>14
    <3>5. w + 1 + n + t = a
      BY <1>9, <2>2 DEF ServiceInv, Balance, n
    <3> HIDE DEF w1, u1, t, t1, a, a1
    <3>6. w1 + u1 + t1 = a1
      BY <1>3, <3>1, <3>2, <3>3, <3>4, <3>5
    <3> QED
      BY <3>6 DEF Balance, w1, u1, t1, a1
  <2> QED
    BY <2>1, <2>2
<1> QED
  BY <1>14, <1>15, <1>16, <1>17, <1>18 DEF ServiceInv, Refines

-----------------------------------------------------------------------------
\* The theorem.

LEMMA ServiceInit == Init => ServiceInv /\ Service!Init
<1> SUFFICES ASSUME Init PROVE ServiceInv /\ Service!Init
  OBVIOUS
<1> USE DEF Init, i2cTransportInit, DriverInit, ServerInit
<1>1. Buffers
  BY DEF Buffers, RetFields
<1>2. Marks
  BY DEF Marks, Idle
<1>3. ASSUME NEW b \in Bus
      PROVE  /\ WaitingReqs(b) = <<>> /\ retUsed[b] = <<>> /\ collected[b] = <<>>
             /\ Asked(b) = {}
  BY DEF WaitingReqs, CurrentReq, Idle, Asked, Published
<1>4. Len(<<>>) = 0 /\ <<>> = [k \in 1 .. 0 |-> <<>>[k]] /\ Cardinality({}) = 0
  BY FS_EmptySet
<1>5. History
  BY <1>3, <1>4 DEF History
<1>6. ProgramAt
  <2>1. Len(Program) \in Nat
    BY ProgramAssumption
  <2> QED
    BY <2>1 DEF ProgramAt
<1>7. ASSUME NEW b \in Bus PROVE Balance(b)
  <2>1. /\ Len(WaitingReqs(b)) = 0 /\ Len(retUsed[b]) = 0 /\ Len(collected[b]) = 0
        /\ Cardinality(Asked(b)) = 0
    BY <1>3, <1>4
  <2> QED
    BY ONLY <2>1 DEF Balance
<1>8. ASSUME NEW b \in Bus
      PROVE  Waiting(b) = <<>> /\ Answers(b) = <<>> /\ Taken(b) = <<>>
  BY <1>3 DEF Waiting, Answers, Taken
<1>9. Service!Init
  BY <1>8 DEF Service!Init, Waiting, Answers, Taken
<1> QED
  BY <1>1, <1>2, <1>5, <1>6, <1>7, <1>9 DEF ServiceInv

LEMMA ServiceNext ==
  ASSUME EnoughReturns, CustodyInv, ServiceInv, [Next]_vars
  PROVE  Refines
<1>1. CASE DriverStep
  <2>1. UNCHANGED serverVars
    BY <1>1 DEF DriverStep
  <2>2. CASE DriverWake
    <3>1. 2 \in Bus
      BY DEF Bus
    <3> QED
      BY <2>1, <2>2, <3>1, ServiceDriverQuiet
  <2>3. ASSUME NEW c \in Bus, DriverCall(c) PROVE Refines
    <3>1. CASE checkBuf_Nothing(c) \/ checkBuf_Busy(c) \/ i2cirq_NoRequest(c)
      BY <2>1, <3>1, ServiceDriverQuiet
    <3>2. CASE checkBuf_Start(c)
      BY <2>1, <3>2, ServiceStart
    <3>3. CASE checkBuf_NoRetBuf(c)
      BY <3>3, ReturnForRequest DEF checkBuf_NoRetBuf, Called, reqBufEmpty, Busy
    <3>4. CASE i2cirq_NextBatch(c)
      BY <2>1, <3>4, ServiceNextBatch
    <3>5. CASE i2cirq_Finish(c) \/ i2cirq_FinishNotified(c)
      BY <2>1, <3>5, ServiceFinish
    <3> QED
      BY <2>3, <3>1, <3>2, <3>3, <3>4, <3>5 DEF DriverCall
  <2> QED
    BY <1>1, <2>2, <2>3 DEF DriverStep, DriverNext
<1>2. CASE ServerStep
  <2>1. UNCHANGED driverVars
    BY <1>2 DEF ServerStep
  <2>2. CASE allocate \/ initDone \/ notify \/ ServerWake \/ skipBus \/ checkBus \/ release
    BY <2>1, <2>2, ServiceServerQuiet
  <2>3. CASE publish
    BY <2>1, <2>3, ServicePublish
  <2>4. CASE collect
    BY <2>1, <2>4, ServiceCollect
  <2> QED
    BY <1>2, <2>2, <2>3, <2>4 DEF ServerStep, ServerNext
<1>3. CASE \E b \in Bus : HwStep(b)
  BY <1>3, ServiceNothing DEF HwStep
<1>4. CASE UNCHANGED vars
  BY <1>4, ServiceNothing DEF vars
<1> QED
  BY <1>1, <1>2, <1>3, <1>4 DEF Next

\* Each request is answered at most once, in the order of the requests of its bus, to
\* its own client and for its own address, whatever the interrupts (late ones too),
\* the interleaving and the contents of the requests; as long as the program has for
\* each bus no more requests than the bus has return buffers.
THEOREM SystemImplementsService ==
  ASSUME EnoughReturns
  PROVE  Spec => ImplementsService
<1>1. CustodyInv /\ ServiceInv /\ [Next]_vars
        => CustodyInv' /\ ServiceInv' /\ [Service!Next]_(Service!serviceVars)
  BY CustodyNext, ServiceNext DEF Refines
<1> QED
  BY <1>1, CustodyInit, ServiceInit, PTL DEF Spec, ImplementsService, Service!Spec

=============================================================================
