-------------------------- MODULE I2cTokens_proofs --------------------------
(***************************************************************************)
(* Lemmas about i2cLoadTokens and the list processor: what LoadBatch and   *)
(* Execute return, for every request, wherever its next batch starts.      *)
(* Both are iterations, whose values are proved by the least number for    *)
(* which a statement about them fails.                                     *)
(***************************************************************************)
EXTENDS I2cTokens, WellFoundedInduction, SequenceTheorems, TLAPS

\* A set of numbers has a least one.
LEMMA LeastNat ==
  ASSUME NEW T \in SUBSET Nat, T # {}
  PROVE  \E n \in T : \A m \in T : n <= m
<1> DEFINE R == OpToRel(<, Nat)
<1>1. IsWellFoundedOn(R, Nat)
  BY NatLessThanWellFounded
<1>2. \A x, y \in Nat : y < x => <<y, x>> \in R
  BY Zenon DEF OpToRel
<1> HIDE DEF R
<1>3. PICK x \in T : \A y \in T : ~(<<y, x>> \in R)
  BY <1>1, WFMin
<1>4. ASSUME NEW m \in T PROVE ~(m < x)
  BY <1>2, <1>3, Zenon
<1>5. ASSUME NEW m \in T PROVE x <= m
  <2>1. x \in Nat /\ m \in Nat
    OBVIOUS
  <2> QED
    BY <1>4, <2>1
<1> QED
  BY <1>5

\* A sequence of elements of a smaller set.
LEMMA RetypedSeq ==
  ASSUME NEW S, NEW R, NEW q \in Seq(S), \A k \in 1 .. Len(q) : q[k] \in R
  PROVE  q \in Seq(R)
OBVIOUS

\* A sequence of one or two elements, written out.
LEMMA ShortSeq ==
  ASSUME NEW S, NEW q \in Seq(S)
  PROVE  /\ Len(q) = 1 => q = <<q[1]>>
         /\ Len(q) = 2 => q = <<q[1], q[2]>>
OBVIOUS

\* The k elements after the first m ones.
LEMMA NextElements ==
  ASSUME NEW S, NEW q \in Seq(S), NEW m \in Nat, NEW k \in Nat, m + k <= Len(q)
  PROVE  /\ SubSeq(q, m + 1, m + k) \in Seq(S) /\ Len(SubSeq(q, m + 1, m + k)) = k
         /\ \A r \in 1 .. k : SubSeq(q, m + 1, m + k)[r] = q[m + r]
<1>1. PICK i \in Int, j \in Int : i = m + 1 /\ j = m + k
  OBVIOUS
<1>2. \A x \in i .. j : q[x] \in S
  BY <1>1
<1>3. /\ SubSeq(q, i, j) \in Seq(S)
      /\ Len(SubSeq(q, i, j)) = IF i <= j THEN j - i + 1 ELSE 0
      /\ \A x \in 1 .. j - i + 1 : SubSeq(q, i, j)[x] = q[i + x - 1]
  BY <1>2, SubSeqProperties
<1>4. (IF i <= j THEN j - i + 1 ELSE 0) = k /\ j - i + 1 = k /\ \A x \in 1 .. k : i + x - 1 = m + x
  BY <1>1
<1> QED
  BY <1>1, <1>3, <1>4

\* The values of the turns of i2cLoadTokens' loop, as Iterate writes them.
LoadTurns(body, start, n, g) ==
  g = [k \in 0 .. n |-> IF k = 0 THEN start
                        ELSE CHOOSE t \in {LoadTurn(body, s) : s \in {g[k - 1]}} : TRUE]

TurnValues(body, start, n, g) ==
  g[0] = start /\ \A k \in 1 .. n : g[k] = LoadTurn(body, g[k - 1])

LEMMA LoadTurnsValue ==
  ASSUME NEW body, NEW start, NEW n \in Nat, NEW g, LoadTurns(body, start, n, g)
  PROVE  TurnValues(body, start, n, g)
<1>1. g[0] = start
  <2>1. 0 \in 0 .. n
    OBVIOUS
  <2>2. g[0] = IF 0 = 0 THEN start ELSE CHOOSE t \in {LoadTurn(body, s) : s \in {g[0 - 1]}} : TRUE
    BY <2>1, Zenon DEF LoadTurns
  <2> QED
    BY <2>2
<1>2. ASSUME NEW k \in 1 .. n PROVE g[k] = LoadTurn(body, g[k - 1])
  <2>1. g[k] = CHOOSE t \in {LoadTurn(body, s) : s \in {g[k - 1]}} : TRUE
    BY DEF LoadTurns
  <2>2. {LoadTurn(body, s) : s \in {g[k - 1]}} = {LoadTurn(body, g[k - 1])}
    OBVIOUS
  <2> QED
    BY <2>1, <2>2
<1> QED
  BY <1>1, <1>2 DEF TurnValues

LEMMA LoadTurnsExist ==
  ASSUME NEW body, NEW start, NEW n \in Nat
  PROVE  \E g : LoadTurns(body, start, n, g)
<1> DEFINE T == {m \in Nat : ~\E g : LoadTurns(body, start, m, g)}
<1> SUFFICES ASSUME T # {} PROVE FALSE
  OBVIOUS
<1>1. PICK m \in T : \A j \in T : m <= j
  BY LeastNat
<1>2. CASE m = 0
  <2> DEFINE g == [k \in 0 .. 0 |-> start]
  <2>1. LoadTurns(body, start, 0, g)
    BY DEF LoadTurns
  <2> QED
    BY <1>1, <1>2, <2>1
<1>3. CASE m # 0
  <2>1. m \in Nat /\ m - 1 \in Nat /\ ~(m <= m - 1)
    BY <1>1, <1>3
  <2>2. PICK g : LoadTurns(body, start, m - 1, g)
    BY <1>1, <2>1
  <2> DEFINE step(x) == CHOOSE t \in {LoadTurn(body, s) : s \in {x}} : TRUE
             h == [k \in 0 .. m |-> IF k = m THEN step(g[m - 1]) ELSE g[k]]
  <2>3. \A k \in 0 .. m : h[k] = IF k = 0 THEN start ELSE step(h[k - 1])
    <3> SUFFICES ASSUME NEW k \in 0 .. m
                 PROVE  h[k] = IF k = 0 THEN start ELSE step(h[k - 1])
      OBVIOUS
    <3>1. CASE k = m
      BY <2>1, <3>1, <1>3
    <3>2. CASE k # m
      <4>1. k \in 0 .. m - 1 /\ (k # 0 => k - 1 \in 0 .. m - 1)
        BY <2>1, <3>2
      <4>2. g[k] = IF k = 0 THEN start ELSE step(g[k - 1])
        BY <2>2, <4>1 DEF LoadTurns
      <4> QED
        BY <2>1, <3>2, <4>1, <4>2
    <3> QED
      BY <3>1, <3>2
  <2>4. LoadTurns(body, start, m, h)
    <3>1. h = [k \in 0 .. m |-> h[k]]
      OBVIOUS
    <3> HIDE DEF h
    <3>2. h = [k \in 0 .. m |-> IF k = 0 THEN start ELSE step(h[k - 1])]
      BY <2>3, <3>1
    <3> QED
      BY <3>2 DEF LoadTurns
  <2> QED
    BY <1>1, <2>4
<1> QED
  BY <1>2, <1>3

\* The loop, for n turns.
LoadLoop(body, start, n) == Iterate(LAMBDA s : LoadTurn(body, s), start, n)

\* What holds before the first turn, and after a turn if it held before it, holds
\* after the last: G is a set of pairs of a number of turns and a state.
LEMMA LoadInduction ==
  ASSUME NEW body, NEW start, NEW n \in Nat, NEW G,
         <<0, start>> \in G,
         \A k \in 0 .. n - 1 : \A s : <<k, s>> \in G => <<k + 1, LoadTurn(body, s)>> \in G
  PROVE  <<n, LoadLoop(body, start, n)>> \in G
<1>1. PICK g : /\ LoadTurns(body, start, n, g)
               /\ LoadLoop(body, start, n) = g[n]
  <2> DEFINE g == CHOOSE g : LoadTurns(body, start, n, g)
  <2>1. LoadTurns(body, start, n, g)
    BY LoadTurnsExist
  <2>2. LoadLoop(body, start, n) = g[n]
    BY DEF LoadLoop, Iterate, LoadTurns
  <2> QED
    BY <2>1, <2>2
<1>2. g[0] = start /\ \A k \in 1 .. n : g[k] = LoadTurn(body, g[k - 1])
  <2>1. LoadTurns(body, start, n, g)
    BY <1>1
  <2> QED
    BY <2>1, LoadTurnsValue DEF TurnValues
<1> DEFINE T == {m \in 0 .. n : <<m, g[m]>> \notin G}
<1>3. T = {}
  <2> SUFFICES ASSUME T # {} PROVE FALSE
    OBVIOUS
  <2>0. T \in SUBSET Nat
    OBVIOUS
  <2>1. PICK m \in T : \A j \in T : m <= j
    <3> HIDE DEF T
    <3> QED
      BY <2>0, LeastNat
  <2>2. m # 0
    BY <1>2, <2>1
  <2>3. m - 1 \in 0 .. n - 1 /\ m \in 1 .. n /\ ~(m <= m - 1) /\ m - 1 + 1 = m
    BY <2>1, <2>2
  <2>4. <<m - 1, g[m - 1]>> \in G
    BY <2>1, <2>3
  <2>5. <<m - 1 + 1, LoadTurn(body, g[m - 1])>> \in G
    BY <2>3, <2>4
  <2> QED
    BY <1>2, <2>1, <2>3, <2>5
<1> QED
  BY <1>1, <1>3

-----------------------------------------------------------------------------
\* One batch of i2cLoadTokens.

LoaderState == [i : Nat, list : Seq(Oc4Token), wdata : Seq(Byte), ddr : {0, 1}, ok : BOOLEAN]

\* What the loop has done after k turns from offset on: a slot was filled in each of
\* them, unless the write data are full or a token was bad, and each of the request's
\* bytes used up is in one or the other of the two sequences.
LoadedUpTo(body, offset, k, s) ==
  /\ Len(s.list) <= k
  /\ Len(s.wdata) <= WDATA_SLOTS
  /\ Len(s.wdata) <= Len(s.list)
  /\ offset <= s.i
  /\ s.ok /\ Len(s.wdata) < WDATA_SLOTS => Len(s.list) = k
  /\ s.i < Len(body) => s.i = offset + Len(s.list) + Len(s.wdata)

\* The byte behind the request is only taken as the last written one.
TakenFromBehind(body, s) ==
  (\A j \in DOMAIN body : body[j] # PAST_END) =>
    \A j \in DOMAIN s.wdata : s.wdata[j] = PAST_END =>
      /\ j = Len(s.wdata)
      /\ s.ok /\ s.i > Len(body)
      /\ body # <<>> /\ body[Len(body)] = I2C_TK_DAT

LEMMA DirectionType ==
  ASSUME NEW tok, NEW ddr \in {0, 1}
  PROVE  Direction(tok, ddr) \in {0, 1}
BY DEF Direction

LEMMA TokenBytes ==
  ASSUME NEW tok \in i2c_token_t
  PROVE  odroid_tok(tok) \in Oc4Token
BY DEF i2c_token_t, odroid_tok, Oc4Token, I2C_TK_END, I2C_TK_START, I2C_TK_ADDRW, I2C_TK_ADDRR,
       I2C_TK_DATA_END, I2C_TK_STOP, I2C_TK_DAT, OC4_I2C_TK_DATA

LEMMA ElementAppended ==
  ASSUME NEW S, NEW w \in Seq(S), NEW x \in S
  PROVE  w \o <<x>> = Append(w, x) /\ Append(w, x) \in Seq(S)
OBVIOUS

LEMMA ElementsOfAppended ==
  ASSUME NEW w \in Seq(Byte), NEW n \in Nat, Len(w) = n, NEW x, NEW t, t = Append(w, x)
  PROVE  Len(t) = n + 1 /\ t[n + 1] = x /\ \A k \in 1 .. n : t[k] = w[k]
OBVIOUS

LEMMA NothingAppended ==
  ASSUME NEW S, NEW w \in Seq(S)
  PROVE  w \o <<>> = w
OBVIOUS

\* A turn that fills a slot, field by field: with a byte to write, and without.
LEMMA SlotFilled ==
  ASSUME NEW body \in Seq(Byte), NEW s \in LoaderState, s.i < Len(body),
         body[s.i + 1] \in i2c_token_t
  PROVE  LET tok == body[s.i + 1]
             t   == LoadSlot(body, s)
         IN /\ t \in LoaderState
            /\ t.ok = s.ok /\ t.list = Append(s.list, odroid_tok(tok))
            /\ t.ddr = Direction(tok, s.ddr)
            /\ \/ /\ tok = I2C_TK_DAT /\ t.ddr = 0
                  /\ t.wdata = Append(s.wdata, ByteAt(body, s.i + 2)) /\ t.i = s.i + 2
               \/ /\ ~(tok = I2C_TK_DAT /\ t.ddr = 0)
                  /\ t.wdata = s.wdata /\ t.i = s.i + 1
<1> DEFINE tok == body[s.i + 1]
           t   == LoadSlot(body, s)
           d   == Direction(tok, s.ddr)
           p   == IF tok = I2C_TK_DAT /\ d = 0 THEN <<ByteAt(body, s.i + 2)>> ELSE <<>>
<1>1. s.i \in Nat /\ s.list \in Seq(Oc4Token) /\ s.wdata \in Seq(Byte) /\ s.ddr \in {0, 1} /\ s.ok \in BOOLEAN
  BY DEF LoaderState
<1>2. d \in {0, 1}
  BY <1>1, DirectionType
<1>3. odroid_tok(tok) \in Oc4Token
  BY TokenBytes
<1>4. t = [s EXCEPT !.list = Append(s.list, odroid_tok(tok)), !.wdata = s.wdata \o p,
                    !.i = s.i + 1 + Len(p), !.ddr = d]
  BY DEF LoadSlot
<1>5. ByteAt(body, s.i + 2) \in Byte
  <2>1. PICK k \in Nat : k = s.i + 2 /\ k > 0
    BY <1>1
  <2>2. k <= Len(body) => body[k] \in Byte
    BY <2>1
  <2> QED
    BY <2>1, <2>2, TokensAssumption DEF ByteAt, Byte
<1> HIDE DEF t, d, tok
<1>6. CASE tok = I2C_TK_DAT /\ d = 0
  <2>1. p = <<ByteAt(body, s.i + 2)>> /\ Len(p) = 1
    BY <1>6
  <2>2. s.wdata \o p = Append(s.wdata, ByteAt(body, s.i + 2)) /\ Append(s.wdata, ByteAt(body, s.i + 2)) \in Seq(Byte)
    <3>1. PICK x \in Byte : x = ByteAt(body, s.i + 2)
      BY <1>5
    <3>2. s.wdata \o <<x>> = Append(s.wdata, x) /\ Append(s.wdata, x) \in Seq(Byte)
      BY <1>1, ElementAppended
    <3> QED
      BY <2>1, <3>1, <3>2
  <2>3. s.i + 1 + Len(p) = s.i + 2
    BY <1>1, <2>1
  <2>4. t = [s EXCEPT !.list = Append(s.list, odroid_tok(tok)),
                      !.wdata = Append(s.wdata, ByteAt(body, s.i + 2)),
                      !.i = s.i + 2, !.ddr = d]
    BY <1>4, <2>2, <2>3
  <2>5. Append(s.list, odroid_tok(tok)) \in Seq(Oc4Token) /\ s.i + 2 \in Nat
    BY <1>1, <1>3
  <2> QED
    BY <1>1, <1>2, <1>6, <2>2, <2>4, <2>5 DEF LoaderState, t, tok, d
<1>7. CASE ~(tok = I2C_TK_DAT /\ d = 0)
  <2>1. p = <<>> /\ Len(p) = 0
    BY <1>7
  <2>2. s.wdata \o p = s.wdata
    BY <1>1, <2>1, NothingAppended
  <2>3. s.i + 1 + Len(p) = s.i + 1
    BY <1>1, <2>1
  <2>4. t = [s EXCEPT !.list = Append(s.list, odroid_tok(tok)),
                      !.wdata = s.wdata, !.i = s.i + 1, !.ddr = d]
    BY <1>4, <2>2, <2>3
  <2>5. Append(s.list, odroid_tok(tok)) \in Seq(Oc4Token) /\ s.i + 1 \in Nat
    BY <1>1, <1>3
  <2> QED
    BY <1>1, <1>2, <1>7, <2>2, <2>4, <2>5 DEF LoaderState, t, tok, d
<1> QED
  BY <1>6, <1>7

\* The loop's turn keeps what the turns before it have done.
LEMMA TurnKeeps ==
  ASSUME NEW body \in Seq(Byte), NEW offset \in Nat, NEW k \in Nat, NEW s \in LoaderState,
         LoadedUpTo(body, offset, k, s), TakenFromBehind(body, s)
  PROVE  LET t == LoadTurn(body, s)
         IN t \in LoaderState /\ LoadedUpTo(body, offset, k + 1, t) /\ TakenFromBehind(body, t)
<1>0. s.i \in Nat /\ s.list \in Seq(Oc4Token) /\ s.wdata \in Seq(Byte) /\ s.ddr \in {0, 1} /\ s.ok \in BOOLEAN
  BY DEF LoaderState
<1>n. Len(s.list) \in Nat /\ Len(s.wdata) \in Nat /\ Len(body) \in Nat /\ WDATA_SLOTS \in Nat
  BY <1>0, TokensAssumption
<1>m. PICK l \in Nat, w \in Nat, n \in Nat, i \in Nat :
          l = Len(s.list) /\ w = Len(s.wdata) /\ n = Len(body) /\ i = s.i
  BY <1>0, <1>n
<1>u. /\ l <= k /\ w <= WDATA_SLOTS /\ w <= l /\ offset <= i
      /\ s.ok /\ w < WDATA_SLOTS => l = k
      /\ i < n => i = offset + l + w
  BY <1>m DEF LoadedUpTo
<1>w. WDATA_SLOTS \in Nat
  BY TokensAssumption
<1>1. CASE ~s.ok \/ Len(s.wdata) >= WDATA_SLOTS
  <2>1. LoadTurn(body, s) = s
    BY <1>1 DEF LoadTurn
  <2>2. LoadedUpTo(body, offset, k + 1, s)
    <3>1. /\ l <= k + 1
          /\ s.ok /\ w < WDATA_SLOTS => l = k + 1
      BY <1>1, <1>m, <1>u, <1>w
    <3> QED
      BY <3>1, <1>m, <1>u DEF LoadedUpTo
  <2> QED
    BY <2>1, <2>2
<1>2. CASE s.ok /\ Len(s.wdata) < WDATA_SLOTS /\ s.i >= Len(body)
  <2> DEFINE t == [s EXCEPT !.list = Append(s.list, OC4_I2C_TK_END), !.i = s.i + 1]
  <2>1. LoadTurn(body, s) = t
    <3>1. s.ok /\ ~(w >= WDATA_SLOTS) /\ i >= n
      BY <1>2, <1>m, <1>w
    <3> QED
      BY <3>1, <1>m DEF LoadTurn, PadSlot
  <2>2. /\ t \in LoaderState
        /\ t.list = Append(s.list, OC4_I2C_TK_END) /\ Len(t.list) = Len(s.list) + 1
        /\ t.wdata = s.wdata /\ t.ok = s.ok /\ t.i = s.i + 1
    <3>1. OC4_I2C_TK_END \in Oc4Token
      BY DEF OC4_I2C_TK_END, Oc4Token
    <3>2. PICK q \in Seq(Oc4Token) : q = s.list
      BY <1>0
    <3>3. Append(q, OC4_I2C_TK_END) \in Seq(Oc4Token) /\ Len(Append(q, OC4_I2C_TK_END)) = Len(q) + 1
      BY <3>1
    <3>4. s.i + 1 \in Nat
      BY <1>0
    <3> QED
      BY <1>0, <3>2, <3>3, <3>4 DEF LoaderState
  <2> HIDE DEF t
  <2>3. LoadedUpTo(body, offset, k + 1, t)
    <3>1. PICK l2 \in Nat, i2 \in Nat : l2 = l + 1 /\ i2 = i + 1
      OBVIOUS
    <3>2. l2 = Len(t.list) /\ w = Len(t.wdata) /\ i2 = t.i /\ s.ok = t.ok
      BY <1>m, <2>2, <3>1
    <3>3. i >= n /\ s.ok /\ w < WDATA_SLOTS
      BY <1>2, <1>m
    <3>4. /\ l2 <= k + 1 /\ w <= WDATA_SLOTS /\ w <= l2 /\ offset <= i2
          /\ s.ok /\ w < WDATA_SLOTS => l2 = k + 1
          /\ i2 < n => i2 = offset + l2 + w
      BY <1>u, <3>1, <3>3, <1>w
    <3> QED
      BY <1>m, <3>2, <3>4 DEF LoadedUpTo
  <2>4. TakenFromBehind(body, t)
    <3>1. s.i > Len(body) => t.i > Len(body)
      BY <1>0, <1>n, <2>2
    <3> QED
      BY <2>2, <3>1 DEF TakenFromBehind
  <2> QED
    BY <2>1, <2>2, <2>3, <2>4
<1>3. CASE s.ok /\ Len(s.wdata) < WDATA_SLOTS /\ s.i < Len(body) /\ body[s.i + 1] \notin i2c_token_t
  <2> DEFINE t == [s EXCEPT !.ok = FALSE]
  <2>1. LoadTurn(body, s) = t
    <3>1. s.ok /\ ~(w >= WDATA_SLOTS) /\ ~(i >= n)
      BY <1>3, <1>m, <1>w
    <3> QED
      BY <1>3, <3>1, <1>m DEF LoadTurn
  <2>2. t \in LoaderState /\ t.list = s.list /\ t.wdata = s.wdata /\ t.ok = FALSE /\ t.i = s.i
    BY <1>0 DEF LoaderState
  <2> HIDE DEF t
  <2>3. LoadedUpTo(body, offset, k + 1, t)
    <3>1. l <= k + 1 /\ ~t.ok
      BY <1>u, <2>2
    <3> QED
      BY <1>m, <1>u, <2>2, <3>1 DEF LoadedUpTo
  <2>4. TakenFromBehind(body, t)
    <3>1. ~(s.i > Len(body))
      BY <1>3, <1>m
    <3> QED
      BY <2>2, <3>1 DEF TakenFromBehind
  <2> QED
    BY <2>1, <2>2, <2>3, <2>4
<1>4. CASE s.ok /\ Len(s.wdata) < WDATA_SLOTS /\ s.i < Len(body) /\ body[s.i + 1] \in i2c_token_t
  <2> DEFINE t == LoadSlot(body, s)
  <2>1. LoadTurn(body, s) = t
    <3>1. s.ok /\ ~(w >= WDATA_SLOTS) /\ ~(i >= n)
      BY <1>4, <1>m, <1>w
    <3> QED
      BY <1>4, <3>1, <1>m DEF LoadTurn
  <2>2. /\ t \in LoaderState
        /\ t.ok = s.ok /\ t.list = Append(s.list, odroid_tok(body[s.i + 1]))
        /\ \/ /\ body[s.i + 1] = I2C_TK_DAT
              /\ t.wdata = Append(s.wdata, ByteAt(body, s.i + 2)) /\ t.i = s.i + 2
           \/ t.wdata = s.wdata /\ t.i = s.i + 1
    BY <1>4, SlotFilled
  <2> HIDE DEF t
  <2>3. Len(t.list) = Len(s.list) + 1
    <3>1. PICK q \in Seq(Oc4Token) : q = s.list
      BY <1>0
    <3>2. \A x : Len(Append(q, x)) = Len(q) + 1
      OBVIOUS
    <3> QED
      BY <2>2, <3>1, <3>2
  <2>4. CASE t.wdata = s.wdata /\ t.i = s.i + 1
    <3>1. LoadedUpTo(body, offset, k + 1, t)
      <4>1. PICK l2 \in Nat, i2 \in Nat : l2 = l + 1 /\ i2 = i + 1
        OBVIOUS
      <4>2. l2 = Len(t.list) /\ w = Len(t.wdata) /\ i2 = t.i /\ s.ok = t.ok
        BY <1>m, <2>2, <2>3, <2>4, <4>1
      <4>3. i < n /\ s.ok /\ w < WDATA_SLOTS
        BY <1>4, <1>m
      <4>4. /\ l2 <= k + 1 /\ w <= WDATA_SLOTS /\ w <= l2 /\ offset <= i2
            /\ s.ok /\ w < WDATA_SLOTS => l2 = k + 1
            /\ i2 < n => i2 = offset + l2 + w
        BY <1>u, <4>1, <4>3, <1>w
      <4> QED
        BY <1>m, <4>2, <4>4 DEF LoadedUpTo
    <3>2. TakenFromBehind(body, t)
      <4>1. s.i > Len(body) => t.i > Len(body)
        BY <1>0, <1>n, <2>4
      <4> QED
        BY <2>2, <2>4, <4>1 DEF TakenFromBehind
    <3> QED
      BY <2>1, <2>2, <3>1, <3>2
  <2>5. CASE /\ body[s.i + 1] = I2C_TK_DAT
             /\ t.wdata = Append(s.wdata, ByteAt(body, s.i + 2)) /\ t.i = s.i + 2
    <3>1. PICK q \in Seq(Byte) : q = s.wdata
      BY <1>0
    <3>2. PICK x : x = ByteAt(body, s.i + 2)
      OBVIOUS
    <3>3. /\ Len(t.wdata) = Len(q) + 1 /\ t.wdata[Len(q) + 1] = x
          /\ \A j \in 1 .. Len(q) : t.wdata[j] = q[j]
          /\ DOMAIN t.wdata = 1 .. Len(q) + 1
      <4>1. t.wdata = Append(q, x)
        BY <2>5, <3>1, <3>2
      <4> QED
        BY <4>1
    <3>4. LoadedUpTo(body, offset, k + 1, t)
      <4>1. PICK l2 \in Nat, w2 \in Nat, i2 \in Nat : l2 = l + 1 /\ w2 = w + 1 /\ i2 = i + 2
        OBVIOUS
      <4>2. l2 = Len(t.list) /\ w2 = Len(t.wdata) /\ i2 = t.i /\ s.ok = t.ok
        BY <1>m, <2>2, <2>3, <2>5, <3>1, <3>3, <4>1
      <4>3. i < n /\ s.ok /\ w < WDATA_SLOTS
        BY <1>4, <1>m
      <4>4. /\ l2 <= k + 1 /\ w2 <= WDATA_SLOTS /\ w2 <= l2 /\ offset <= i2
            /\ s.ok /\ w2 < WDATA_SLOTS => l2 = k + 1
            /\ i2 < n => i2 = offset + l2 + w2
        BY <1>u, <4>1, <4>3, <1>w
      <4> QED
        BY <1>m, <4>2, <4>4 DEF LoadedUpTo
    <3>5. ASSUME \A j \in DOMAIN body : body[j] # PAST_END,
                 NEW j \in DOMAIN t.wdata, t.wdata[j] = PAST_END
          PROVE  /\ j = Len(t.wdata) /\ t.ok /\ t.i > Len(body)
                 /\ body # <<>> /\ body[Len(body)] = I2C_TK_DAT
      <4>1. j \in 1 .. Len(q) => q[j] # PAST_END
        BY <1>0, <1>n, <1>4, <3>1, <3>5 DEF TakenFromBehind
      <4>2. j = Len(q) + 1 /\ x = PAST_END
        BY <3>3, <3>5, <4>1
      <4>3. PICK m \in Nat : m = s.i + 2 /\ m > 0
        BY <1>0
      <4>4. m > Len(body)
        BY <1>n, <3>2, <3>5, <4>2, <4>3 DEF ByteAt
      <4>5. s.i + 1 = Len(body) /\ Len(body) # 0
        BY <1>0, <1>n, <1>4, <4>3, <4>4
      <4> QED
        BY <1>0, <1>n, <1>4, <2>2, <2>5, <3>3, <4>2, <4>5, SMTT(30)
    <3>6. TakenFromBehind(body, t)
      BY <3>5 DEF TakenFromBehind
    <3> QED
      BY <2>1, <2>2, <3>4, <3>6
  <2> QED
    BY <2>2, <2>4, <2>5
<1> QED
  <2>1. s.ok \/ ~s.ok
    BY <1>0
  <2>2. Len(s.wdata) >= WDATA_SLOTS \/ Len(s.wdata) < WDATA_SLOTS
    BY <1>m, <1>w
  <2>3. s.i >= Len(body) \/ s.i < Len(body)
    BY <1>m
  <2> QED
    BY <2>1, <2>2, <2>3, <1>1, <1>2, <1>3, <1>4

\* What i2cLoadTokens leaves of a request whose first Len(body) - remaining bytes are
\* used up.
LEMMA LoadBatchResult ==
  ASSUME NEW body \in Seq(Byte), NEW remaining \in 0 .. Len(body), NEW ddr \in {0, 1}
  PROVE  LET b == LoadBatch(body, remaining, ddr)
         IN /\ b \in [ok : BOOLEAN, list : Seq(Oc4Token), wdata : Seq(Byte), ddr : {0, 1},
                      remaining : 0 .. Len(body)]
            /\ Len(b.list) <= TK_SLOTS
            /\ Len(b.wdata) <= WDATA_SLOTS
            /\ b.ok /\ remaining > 0 => b.remaining < remaining
            /\ b.ok /\ b.remaining > 0 /\ TK_SLOTS = 2 * WDATA_SLOTS =>
                 b.remaining + TK_SLOTS <= remaining
            /\ (\A j \in DOMAIN body : body[j] # PAST_END) =>
                 \A j \in DOMAIN b.wdata : b.wdata[j] = PAST_END =>
                   /\ j = Len(b.wdata)
                   /\ b.ok /\ b.remaining = 0
                   /\ body # <<>> /\ body[Len(body)] = I2C_TK_DAT
<1>1. PICK n \in Nat : n = Len(body)
  OBVIOUS
<1>2. PICK offset \in Nat : offset = Len(body) - remaining /\ offset + remaining = n
  <2>1. remaining \in 0 .. n
    BY <1>1
  <2>2. n - remaining \in Nat /\ n - remaining + remaining = n
    BY <2>1
  <2> QED
    BY <1>1, <2>2
<1>3. PICK start \in LoaderState :
        start = [i |-> offset, list |-> <<>>, wdata |-> <<>>, ddr |-> ddr, ok |-> TRUE]
  <2>1. <<>> \in Seq(Byte) /\ <<>> \in Seq(Oc4Token)
    OBVIOUS
  <2> QED
    BY <2>1 DEF LoaderState
<1>4. PICK last : last = LoadLoop(body, start, TK_SLOTS)
  OBVIOUS
<1> DEFINE G == {p \in Nat \X LoaderState : /\ LoadedUpTo(body, offset, p[1], p[2])
                                            /\ TakenFromBehind(body, p[2])}
<1>5. last \in LoaderState /\ LoadedUpTo(body, offset, TK_SLOTS, last) /\ TakenFromBehind(body, last)
  <2>1. <<0, start>> \in G
    <3>1. LoadedUpTo(body, offset, 0, start)
      BY <1>3, TokensAssumption DEF LoadedUpTo
    <3>2. TakenFromBehind(body, start)
      BY <1>3 DEF TakenFromBehind
    <3> QED
      BY <3>1, <3>2
  <2>2. ASSUME NEW k \in 0 .. TK_SLOTS - 1, NEW s, <<k, s>> \in G
        PROVE  <<k + 1, LoadTurn(body, s)>> \in G
    <3>1. k \in Nat /\ k + 1 \in Nat
      OBVIOUS
    <3>2. s \in LoaderState /\ LoadedUpTo(body, offset, k, s) /\ TakenFromBehind(body, s)
      BY <2>2
    <3>3. /\ LoadTurn(body, s) \in LoaderState /\ LoadedUpTo(body, offset, k + 1, LoadTurn(body, s))
          /\ TakenFromBehind(body, LoadTurn(body, s))
      BY <3>1, <3>2, TurnKeeps
    <3> QED
      BY <3>1, <3>3
  <2>3. TK_SLOTS \in Nat
    BY TokensAssumption
  <2>4. <<TK_SLOTS, last>> \in G
    <3> HIDE DEF G
    <3> QED
      BY <1>4, <2>1, <2>2, <2>3, LoadInduction
  <2> QED
    BY <2>4
<1>6. PICK i \in Nat, l \in Nat, w \in Nat :
        i = last.i /\ l = Len(last.list) /\ w = Len(last.wdata)
  BY <1>5 DEF LoaderState
<1>7. /\ l <= TK_SLOTS /\ w <= WDATA_SLOTS /\ w <= l /\ offset <= i
      /\ last.ok /\ w < WDATA_SLOTS => l = TK_SLOTS
      /\ i < n => i = offset + l + w
  BY <1>1, <1>5, <1>6 DEF LoadedUpTo
<1> DEFINE left == IF ~last.ok THEN remaining ELSE IF n - i > 0 THEN n - i ELSE 0
<1>8. LoadBatch(body, remaining, ddr) =
        [ok |-> last.ok, list |-> last.list, wdata |-> last.wdata, ddr |-> last.ddr, remaining |-> left]
  <2>1. LoadBatch(body, remaining, ddr) = LoadFrom(body, offset, remaining, ddr)
    BY <1>2 DEF LoadBatch
  <2>2. last = LoadLoop(body, [i |-> offset, list |-> <<>>, wdata |-> <<>>, ddr |-> ddr, ok |-> TRUE], TK_SLOTS)
    BY <1>3, <1>4
  <2> QED
    BY <1>1, <1>6, <2>1, <2>2 DEF LoadFrom, LoadLoop, Iterate
<1>9. last.ok \in BOOLEAN /\ last.list \in Seq(Oc4Token) /\ last.wdata \in Seq(Byte) /\ last.ddr \in {0, 1}
  BY <1>5 DEF LoaderState
<1>10. /\ left \in 0 .. n
       /\ last.ok /\ remaining > 0 => left < remaining
       /\ last.ok /\ left > 0 /\ TK_SLOTS = 2 * WDATA_SLOTS => left + TK_SLOTS <= remaining
       /\ i > n /\ last.ok => left = 0
  BY <1>1, <1>2, <1>7, <1>9, TokensAssumption
<1>11. (\A j \in DOMAIN body : body[j] # PAST_END) =>
         \A j \in DOMAIN last.wdata : last.wdata[j] = PAST_END =>
           /\ j = Len(last.wdata)
           /\ last.ok /\ left = 0
           /\ body # <<>> /\ body[Len(body)] = I2C_TK_DAT
  <2> HIDE DEF left
  <2> QED
    BY <1>1, <1>5, <1>6, <1>10 DEF TakenFromBehind
<1> HIDE DEF left
<1> QED
  BY <1>1, <1>6, <1>7, <1>8, <1>9, <1>10, <1>11

-----------------------------------------------------------------------------
\* What the list processor does.

\* Live drops what follows the first END, and it.
LEMMA LiveTokens ==
  ASSUME NEW list \in Seq(Oc4Token)
  PROVE  \E m \in 0 .. Len(list) :
           /\ Live(list) = SubSeq(list, 1, m)
           /\ Live(list) \in Seq(Oc4Token \ {OC4_I2C_TK_END}) /\ Len(Live(list)) = m
           /\ \A k \in 1 .. m : Live(list)[k] = list[k] /\ list[k] # OC4_I2C_TK_END
           /\ m < Len(list) => list[m + 1] = OC4_I2C_TK_END
<1> DEFINE ends == {k \in 1 .. Len(list) : list[k] = OC4_I2C_TK_END}
           m    == IF ends = {} THEN Len(list) ELSE Min(ends) - 1
<1>1. Live(list) = SubSeq(list, 1, m)
  BY DEF Live
<1>2. /\ m \in 0 .. Len(list)
      /\ \A k \in 1 .. m : list[k] # OC4_I2C_TK_END
      /\ m < Len(list) => list[m + 1] = OC4_I2C_TK_END
  <2>1. CASE ends = {}
    BY <2>1
  <2>2. CASE ends # {}
    <3>1. ends \in SUBSET Nat
      OBVIOUS
    <3>2. \E x \in ends : \A y \in ends : x <= y
      <4> HIDE DEF ends
      <4> QED
        BY <2>2, <3>1, LeastNat
    <3>3. Min(ends) \in ends /\ \A y \in ends : Min(ends) <= y
      <4> HIDE DEF ends
      <4> QED
        BY <3>2, Zenon DEF Min
    <3>4. PICK x \in ends : x = Min(ends) /\ \A y \in ends : x <= y
      BY <3>3
    <3>5. m = x - 1
      BY <2>2, <3>4
    <3>6. x \in 1 .. Len(list) /\ list[x] = OC4_I2C_TK_END
      OBVIOUS
    <3>7. ASSUME NEW k \in 1 .. x - 1 PROVE list[k] # OC4_I2C_TK_END
      BY <3>4, <3>6
    <3> HIDE DEF m
    <3> QED
      BY <3>5, <3>6, <3>7
  <2> QED
    BY <2>1, <2>2
<1> HIDE DEF m
<1>3. /\ SubSeq(list, 1, m) \in Seq(Oc4Token) /\ Len(SubSeq(list, 1, m)) = m
      /\ \A k \in 1 .. m : SubSeq(list, 1, m)[k] = list[k]
  BY <1>2
<1>4. PICK q \in Seq(Oc4Token) : q = SubSeq(list, 1, m) /\ Len(q) = m
  BY <1>3
<1>5. \A k \in 1 .. Len(q) : q[k] \in Oc4Token \ {OC4_I2C_TK_END}
  BY <1>2, <1>3, <1>4
<1>6. q \in Seq(Oc4Token \ {OC4_I2C_TK_END})
  BY <1>4, <1>5, RetypedSeq
<1> QED
  BY <1>1, <1>2, <1>3, <1>4, <1>6

\* The list processor's next operation, and the values after each of them, as Iterate
\* writes them.
Advance(todo, s) == Operate(todo[Len(s.ops) + 1], s)

Steps(todo, start, n, g) ==
  g = [k \in 0 .. n |-> IF k = 0 THEN start
                        ELSE CHOOSE t \in {Advance(todo, s) : s \in {g[k - 1]}} : TRUE]

StepValues(todo, start, n, g) ==
  g[0] = start /\ \A k \in 1 .. n : g[k] = Advance(todo, g[k - 1])

LEMMA StepsValue ==
  ASSUME NEW todo, NEW start, NEW n \in Nat, NEW g, Steps(todo, start, n, g)
  PROVE  StepValues(todo, start, n, g)
<1>1. g[0] = start
  <2>1. 0 \in 0 .. n
    OBVIOUS
  <2>2. g[0] = IF 0 = 0 THEN start ELSE CHOOSE t \in {Advance(todo, s) : s \in {g[0 - 1]}} : TRUE
    BY <2>1, Zenon DEF Steps
  <2> QED
    BY <2>2
<1>2. ASSUME NEW k \in 1 .. n PROVE g[k] = Advance(todo, g[k - 1])
  <2>1. g[k] = CHOOSE t \in {Advance(todo, s) : s \in {g[k - 1]}} : TRUE
    BY DEF Steps
  <2>2. {Advance(todo, s) : s \in {g[k - 1]}} = {Advance(todo, g[k - 1])}
    OBVIOUS
  <2> QED
    BY <2>1, <2>2
<1> QED
  BY <1>1, <1>2 DEF StepValues

LEMMA StepsExist ==
  ASSUME NEW todo, NEW start, NEW n \in Nat
  PROVE  \E g : Steps(todo, start, n, g)
<1> DEFINE T == {m \in Nat : ~\E g : Steps(todo, start, m, g)}
<1> SUFFICES ASSUME T # {} PROVE FALSE
  OBVIOUS
<1>1. PICK m \in T : \A j \in T : m <= j
  BY LeastNat
<1>2. CASE m = 0
  <2> DEFINE g == [k \in 0 .. 0 |-> start]
  <2>1. Steps(todo, start, 0, g)
    BY DEF Steps
  <2> QED
    BY <1>1, <1>2, <2>1
<1>3. CASE m # 0
  <2>1. m \in Nat /\ m - 1 \in Nat /\ ~(m <= m - 1)
    BY <1>1, <1>3
  <2>2. PICK g : Steps(todo, start, m - 1, g)
    BY <1>1, <2>1
  <2> DEFINE step(x) == CHOOSE t \in {Advance(todo, s) : s \in {x}} : TRUE
             h == [k \in 0 .. m |-> IF k = m THEN step(g[m - 1]) ELSE g[k]]
  <2>3. \A k \in 0 .. m : h[k] = IF k = 0 THEN start ELSE step(h[k - 1])
    <3> SUFFICES ASSUME NEW k \in 0 .. m
                 PROVE  h[k] = IF k = 0 THEN start ELSE step(h[k - 1])
      OBVIOUS
    <3>1. CASE k = m
      BY <2>1, <3>1, <1>3
    <3>2. CASE k # m
      <4>1. k \in 0 .. m - 1 /\ (k # 0 => k - 1 \in 0 .. m - 1)
        BY <2>1, <3>2
      <4>2. g[k] = IF k = 0 THEN start ELSE step(g[k - 1])
        BY <2>2, <4>1 DEF Steps
      <4> QED
        BY <2>1, <3>2, <4>1, <4>2
    <3> QED
      BY <3>1, <3>2
  <2>4. Steps(todo, start, m, h)
    <3>1. h = [k \in 0 .. m |-> h[k]]
      OBVIOUS
    <3> HIDE DEF h
    <3>2. h = [k \in 0 .. m |-> IF k = 0 THEN start ELSE step(h[k - 1])]
      BY <2>3, <3>1
    <3> QED
      BY <3>2 DEF Steps
  <2> QED
    BY <1>1, <2>4
<1> QED
  BY <1>2, <1>3

\* n operations.
ExecLoop(todo, start, n) == Iterate(LAMBDA s : Advance(todo, s), start, n)

\* What holds before the first operation, and after one if it held before it, holds
\* after the last: G is a set of pairs of a number of operations and a state.
LEMMA ExecInduction ==
  ASSUME NEW todo, NEW start, NEW n \in Nat, NEW G,
         <<0, start>> \in G,
         \A k \in 0 .. n - 1 : \A s : <<k, s>> \in G => <<k + 1, Advance(todo, s)>> \in G
  PROVE  <<n, ExecLoop(todo, start, n)>> \in G
<1>1. PICK g : /\ Steps(todo, start, n, g)
               /\ ExecLoop(todo, start, n) = g[n]
  <2> DEFINE g == CHOOSE g : Steps(todo, start, n, g)
  <2>1. Steps(todo, start, n, g)
    BY StepsExist
  <2>2. ExecLoop(todo, start, n) = g[n]
    BY DEF ExecLoop, Iterate, Steps
  <2> QED
    BY <2>1, <2>2
<1>2. g[0] = start /\ \A k \in 1 .. n : g[k] = Advance(todo, g[k - 1])
  <2>1. Steps(todo, start, n, g)
    BY <1>1
  <2> QED
    BY <2>1, StepsValue DEF StepValues
<1> DEFINE T == {m \in 0 .. n : <<m, g[m]>> \notin G}
<1>3. T = {}
  <2> SUFFICES ASSUME T # {} PROVE FALSE
    OBVIOUS
  <2>0. T \in SUBSET Nat
    OBVIOUS
  <2>1. PICK m \in T : \A j \in T : m <= j
    <3> HIDE DEF T
    <3> QED
      BY <2>0, LeastNat
  <2>2. m # 0
    BY <1>2, <2>1
  <2>3. m - 1 \in 0 .. n - 1 /\ m \in 1 .. n /\ ~(m <= m - 1) /\ m - 1 + 1 = m
    BY <2>1, <2>2
  <2>4. <<m - 1, g[m - 1]>> \in G
    BY <2>1, <2>3
  <2>5. <<m - 1 + 1, Advance(todo, g[m - 1])>> \in G
    BY <2>3, <2>4
  <2> QED
    BY <1>2, <2>1, <2>3, <2>5
<1> QED
  BY <1>1, <1>3

ExecState == [ddr : {0, 1}, ops : Seq(Seq(Byte)), wdata : Seq(Byte), reads : Nat]

\* One operation, field by field.
LEMMA OperateResult ==
  ASSUME NEW tok \in Oc4Token, NEW s \in ExecState
  PROVE  LET t == Operate(tok, s)
             w == tok = OC4_I2C_TK_DATA /\ Direction(tok, s.ddr) = 0
         IN /\ t \in ExecState
            /\ t.ddr = Direction(tok, s.ddr)
            /\ t.ops = Append(s.ops, IF w THEN <<tok, IF s.wdata = <<>> THEN 0 ELSE Head(s.wdata)>>
                                     ELSE <<tok>>)
            /\ t.wdata = IF w /\ s.wdata # <<>> THEN Tail(s.wdata) ELSE s.wdata
<1> DEFINE ddr   == Direction(tok, s.ddr)
           write == tok = OC4_I2C_TK_DATA /\ ddr = 0
           op    == IF write THEN <<tok, IF s.wdata = <<>> THEN 0 ELSE Head(s.wdata)>> ELSE <<tok>>
<1>0. s.wdata \in Seq(Byte) /\ s.ddr \in {0, 1} /\ s.ops \in Seq(Seq(Byte)) /\ s.reads \in Nat
  BY DEF ExecState
<1>1. ddr \in {0, 1}
  BY <1>0, DirectionType
<1>2. Head(Append(s.wdata, 0)) = IF s.wdata = <<>> THEN 0 ELSE Head(s.wdata)
  BY <1>0
<1>3. (IF s.wdata = <<>> THEN 0 ELSE Head(s.wdata)) \in Byte
  <2>1. PICK q \in Seq(Byte) : q = s.wdata
    BY <1>0
  <2>2. q # <<>> => Head(q) \in Byte
    OBVIOUS
  <2>3. 0 \in Byte
    BY DEF Byte
  <2> QED
    BY <2>1, <2>2, <2>3
<1>4. op \in Seq(Byte)
  <2>1. tok \in Byte
    BY DEF Oc4Token, Byte
  <2> QED
    BY <1>3, <2>1
<1>5. Append(s.ops, op) \in Seq(Seq(Byte))
  BY <1>0, <1>4
<1>6. (IF write /\ s.wdata # <<>> THEN Tail(s.wdata) ELSE s.wdata) \in Seq(Byte)
  BY <1>0
<1>7. \E r \in Nat : Operate(tok, s) =
        [ddr   |-> ddr,
         ops   |-> Append(s.ops, op),
         wdata |-> IF write /\ s.wdata # <<>> THEN Tail(s.wdata) ELSE s.wdata,
         reads |-> r]
  <2>1. s.reads + (IF tok = OC4_I2C_TK_DATA /\ ddr = 1 THEN 1 ELSE 0) \in Nat
    BY <1>0
  <2> QED
    BY <1>2, <2>1, Zenon DEF Operate
<1> HIDE DEF op, ddr
<1> QED
  BY <1>1, <1>5, <1>6, <1>7 DEF ExecState, op, ddr

\* Every slot up to the first END is done, and nothing else is.
LEMMA ExecuteResult ==
  ASSUME NEW list \in Seq(Oc4Token), NEW wdata \in Seq(Byte), NEW ddr \in {0, 1}
  PROVE  /\ Execute(list, wdata, ddr) \in ExecState
         /\ Len(Execute(list, wdata, ddr).ops) = Len(Live(list))
<1>1. PICK todo \in Seq(Oc4Token) : todo = Live(list)
  <2>1. Live(list) \in Seq(Oc4Token \ {OC4_I2C_TK_END})
    BY LiveTokens
  <2> QED
    BY <2>1
<1>2. PICK start \in ExecState : start = [ddr |-> ddr, ops |-> <<>>, wdata |-> wdata, reads |-> 0]
  <2>1. <<>> \in Seq(Seq(Byte))
    OBVIOUS
  <2> QED
    BY <2>1 DEF ExecState
<1> DEFINE G == {p \in Nat \X ExecState : Len(p[2].ops) = p[1]}
<1>3. <<0, start>> \in G
  BY <1>2
<1>4. ASSUME NEW k \in 0 .. Len(todo) - 1, NEW s, <<k, s>> \in G
      PROVE  <<k + 1, Advance(todo, s)>> \in G
  <2>1. s \in ExecState /\ Len(s.ops) = k /\ k \in Nat /\ s.ops \in Seq(Seq(Byte))
    BY <1>4 DEF ExecState
  <2>2. PICK tok \in Oc4Token : tok = todo[k + 1]
    BY <1>4
  <2>3. PICK t : t = Operate(tok, s)
    OBVIOUS
  <2>4. t \in ExecState /\ \E x : t.ops = Append(s.ops, x)
    BY <2>1, <2>3, OperateResult
  <2>5. Len(t.ops) = k + 1
    BY <2>1, <2>4
  <2>6. Advance(todo, s) = t
    BY <2>1, <2>2, <2>3 DEF Advance
  <2> QED
    BY <2>1, <2>4, <2>5, <2>6
<1>5. PICK n \in Nat : n = Len(todo)
  OBVIOUS
<1>6. <<n, ExecLoop(todo, start, n)>> \in G
  <2> HIDE DEF G
  <2> QED
    BY <1>3, <1>4, <1>5, ExecInduction
<1>7. Execute(list, wdata, ddr) = ExecLoop(todo, start, n)
  BY <1>1, <1>2, <1>5 DEF Execute, ExecLoop, Advance, Iterate
<1> QED
  BY <1>1, <1>5, <1>6, <1>7

-----------------------------------------------------------------------------
\* The request format: where the bytes of each operation are.

\* The values of FlattenSeq, for the first n of some sequences.
Flattens(q, n, g) == g = [i \in 1 .. n |-> IF i = 1 THEN q[i] ELSE g[i - 1] \o q[i]]

LEMMA FlattensExist ==
  ASSUME NEW q, NEW n \in Nat
  PROVE  \E g : Flattens(q, n, g)
<1> DEFINE T == {m \in Nat : ~\E g : Flattens(q, m, g)}
<1> SUFFICES ASSUME T # {} PROVE FALSE
  OBVIOUS
<1>1. PICK m \in T : \A j \in T : m <= j
  BY LeastNat
<1>2. CASE m = 0
  <2>1. Flattens(q, 0, [i \in 1 .. 0 |-> <<>>])
    BY DEF Flattens
  <2> QED
    BY <1>1, <1>2, <2>1
<1>3. CASE m # 0
  <2>1. m \in Nat /\ m - 1 \in Nat /\ ~(m <= m - 1)
    BY <1>1, <1>3
  <2>2. PICK g : Flattens(q, m - 1, g)
    BY <1>1, <2>1
  <2> DEFINE h == [i \in 1 .. m |-> IF i = m THEN IF m = 1 THEN q[m] ELSE g[m - 1] \o q[m]
                                    ELSE g[i]]
  <2>3. \A i \in 1 .. m : h[i] = IF i = 1 THEN q[i] ELSE h[i - 1] \o q[i]
    <3> SUFFICES ASSUME NEW i \in 1 .. m
                 PROVE  h[i] = IF i = 1 THEN q[i] ELSE h[i - 1] \o q[i]
      OBVIOUS
    <3>1. i # 1 => h[i - 1] = g[i - 1]
      BY <2>1
    <3>2. CASE i = m
      BY <3>1, <3>2
    <3>3. CASE i # m
      <4>1. i \in 1 .. m - 1
        BY <2>1, <3>3
      <4>2. g[i] = IF i = 1 THEN q[i] ELSE g[i - 1] \o q[i]
        BY <2>2, <4>1 DEF Flattens
      <4> QED
        BY <3>1, <3>3, <4>2
    <3> QED
      BY <3>2, <3>3
  <2>4. Flattens(q, m, h)
    <3>1. h = [i \in 1 .. m |-> h[i]]
      OBVIOUS
    <3> HIDE DEF h
    <3>2. h = [i \in 1 .. m |-> IF i = 1 THEN q[i] ELSE h[i - 1] \o q[i]]
      BY <2>3, <3>1
    <3> QED
      BY <3>2 DEF Flattens
  <2> QED
    BY <1>1, <2>4
<1> QED
  BY <1>2, <1>3

\* They only depend on the sequences before them, and are sequences.
LEMMA FlattensSame ==
  ASSUME NEW S, NEW n \in Nat, NEW m \in Nat, n <= m, NEW q, NEW r, NEW g, NEW h,
         Flattens(q, n, g), Flattens(r, m, h),
         \A i \in 1 .. n : q[i] = r[i] /\ q[i] \in Seq(S)
  PROVE  \A i \in 1 .. n : g[i] = h[i] /\ g[i] \in Seq(S)
<1> DEFINE T == {i \in 1 .. n : ~(g[i] = h[i] /\ g[i] \in Seq(S))}
<1> SUFFICES ASSUME T # {} PROVE FALSE
  OBVIOUS
<1>0. T \in SUBSET Nat
  OBVIOUS
<1>1. PICK i \in T : \A j \in T : i <= j
  <2> HIDE DEF T
  <2> QED
    BY <1>0, LeastNat
<1>2. /\ g[i] = IF i = 1 THEN q[i] ELSE g[i - 1] \o q[i]
      /\ h[i] = IF i = 1 THEN r[i] ELSE h[i - 1] \o r[i]
  <2>1. i \in 1 .. n /\ i \in 1 .. m
    OBVIOUS
  <2> QED
    BY <2>1, Zenon DEF Flattens
<1>3. CASE i = 1
  BY <1>2, <1>3
<1>4. CASE i # 1
  <2>1. i - 1 \in 1 .. n /\ ~(i <= i - 1)
    BY <1>4
  <2>2. g[i - 1] = h[i - 1] /\ g[i - 1] \in Seq(S)
    BY <1>1, <2>1
  <2>3. PICK x \in Seq(S), y \in Seq(S) : x = g[i - 1] /\ y = q[i]
    BY <2>2
  <2>4. x \o y \in Seq(S)
    OBVIOUS
  <2> QED
    BY <1>2, <1>4, <2>2, <2>3, <2>4
<1> QED
  BY <1>3, <1>4

LEMMA FlattenValue ==
  ASSUME NEW q, NEW n \in Nat \ {0}, Len(q) = n
  PROVE  \E g : Flattens(q, n, g) /\ FlattenSeq(q) = g[n]
<1> DEFINE g == CHOOSE g : Flattens(q, n, g)
<1>1. Flattens(q, n, g)
  BY FlattensExist
<1>2. FlattenSeq(q) = g[n]
  BY DEF FlattenSeq, Flattens
<1> QED
  BY <1>1, <1>2

LEMMA FlattenAppend ==
  ASSUME NEW S, NEW q \in Seq(Seq(S)), NEW x \in Seq(S)
  PROVE  FlattenSeq(Append(q, x)) = FlattenSeq(q) \o x /\ FlattenSeq(q) \in Seq(S)
<1>0. PICK R : R = Seq(S)
  OBVIOUS
<1>1. PICK n \in Nat : n = Len(q)
  OBVIOUS
<1>2. PICK m \in Nat \ {0} : m = n + 1 /\ n <= m /\ m - 1 = n
  OBVIOUS
<1>3. PICK r : r = Append(q, x)
  OBVIOUS
<1>4. Len(r) = m /\ r[m] = x /\ \A i \in 1 .. n : r[i] = q[i] /\ q[i] \in R
  <2>1. q \in Seq(R) /\ x \in R
    BY <1>0
  <2> QED
    BY <1>1, <1>2, <1>3, <2>1
<1>5. PICK h : Flattens(r, m, h) /\ FlattenSeq(r) = h[m]
  BY <1>4, FlattenValue
<1>6. h[m] = IF m = 1 THEN x ELSE h[n] \o x
  <2>1. m \in 1 .. m
    BY <1>2
  <2>2. h[m] = IF m = 1 THEN r[m] ELSE h[m - 1] \o r[m]
    BY <1>5, <2>1, Zenon DEF Flattens
  <2> QED
    BY <1>2, <1>4, <2>2
<1>7. CASE n = 0
  <2>1. FlattenSeq(q) = q /\ q = <<>>
    <3>1. q \in Seq(R) /\ Len(q) = 0
      BY <1>0, <1>1, <1>7
    <3>2. q = <<>>
      BY <3>1
    <3>3. FlattenSeq(q) = q
      BY <3>1, Zenon DEF FlattenSeq
    <3> QED
      BY <3>2, <3>3
  <2>2. <<>> \o x = x /\ <<>> \in Seq(S)
    OBVIOUS
  <2> QED
    BY <1>2, <1>3, <1>5, <1>6, <1>7, <2>1, <2>2
<1>8. CASE n # 0
  <2>1. n \in Nat \ {0} /\ n \in 1 .. n
    BY <1>8
  <2>2. PICK g : Flattens(q, n, g) /\ FlattenSeq(q) = g[n]
    BY <1>1, <2>1, FlattenValue
  <2>3. \A i \in 1 .. n : q[i] = r[i] /\ q[i] \in Seq(S)
    BY <1>0, <1>4
  <2>4. \A i \in 1 .. n : g[i] = h[i] /\ g[i] \in Seq(S)
    BY <1>2, <1>5, <2>2, <2>3, FlattensSame
  <2>5. g[n] = h[n] /\ g[n] \in Seq(S)
    BY <2>1, <2>4
  <2> QED
    BY <1>2, <1>3, <1>5, <1>6, <1>8, <2>2, <2>5
<1> QED
  BY <1>7, <1>8

\* The request's bytes for the first k operations.
Bytes(ops) == FlattenSeq([k \in DOMAIN ops |-> OpBytes(ops[k])])

UpTo(ops, k) == SubSeq(ops, 1, k)

Pos(ops, k) == Len(Bytes(UpTo(ops, k)))

LEMMA OperationBytes ==
  ASSUME NEW op \in Operation
  PROVE  /\ OpBytes(op) \in Seq(Byte) /\ Len(OpBytes(op)) = Len(op)
         /\ OpBytes(op)[1] \in i2c_token_t \ {I2C_TK_END}
         /\ odroid_tok(OpBytes(op)[1]) = op[1]
         /\ Len(op) = 2 => OpBytes(op)[2] = op[2]
<1>1. PICK tok \in 1 .. 6 : tok = op[1]
  BY DEF Operation, Oc4Token, OC4_I2C_TK_END
<1>2. PICK t \in Byte : t = IF tok = OC4_I2C_TK_DATA THEN I2C_TK_DAT ELSE tok
  BY DEF Byte, OC4_I2C_TK_DATA, I2C_TK_DAT
<1>3. t \in i2c_token_t \ {I2C_TK_END} /\ odroid_tok(t) = tok
  BY <1>2 DEF i2c_token_t, odroid_tok, I2C_TK_END, I2C_TK_START, I2C_TK_ADDRW, I2C_TK_ADDRR,
              I2C_TK_DATA_END, I2C_TK_STOP, I2C_TK_DAT, OC4_I2C_TK_DATA
<1>4. PICK q \in Seq(Byte) : q = op /\ Len(q) \in {1, 2}
  BY DEF Operation
<1>5. /\ <<t>> \o Tail(q) \in Seq(Byte) /\ Len(<<t>> \o Tail(q)) = Len(q)
      /\ (<<t>> \o Tail(q))[1] = t
      /\ Len(q) = 2 => (<<t>> \o Tail(q))[2] = q[2]
  BY <1>4, SMTT(30)
<1>6. OpBytes(op) = <<t>> \o Tail(q)
  BY <1>1, <1>2, <1>4 DEF OpBytes
<1> QED
  BY <1>1, <1>3, <1>4, <1>5, <1>6

LEMMA BytesAppend ==
  ASSUME NEW ops \in Seq(Operation), NEW op \in Operation
  PROVE  Bytes(Append(ops, op)) = Bytes(ops) \o OpBytes(op) /\ Bytes(ops) \in Seq(Byte)
<1> DEFINE q == [k \in DOMAIN ops |-> OpBytes(ops[k])]
           r == [k \in DOMAIN Append(ops, op) |-> OpBytes(Append(ops, op)[k])]
<1>1. PICK n \in Nat : n = Len(ops)
  OBVIOUS
<1>2. /\ DOMAIN ops = 1 .. n /\ DOMAIN Append(ops, op) = 1 .. n + 1
      /\ \A k \in 1 .. n : Append(ops, op)[k] = ops[k] /\ ops[k] \in Operation
      /\ Append(ops, op)[n + 1] = op
  BY <1>1
<1>3. \A x \in Operation : OpBytes(x) \in Seq(Byte)
  BY OperationBytes
<1>4. q \in Seq(Seq(Byte)) /\ Len(q) = n /\ DOMAIN q = 1 .. n
  <2>1. PICK R : R = Seq(Byte)
    OBVIOUS
  <2>2. \A k \in 1 .. n : OpBytes(ops[k]) \in R
    BY <1>2, <1>3, <2>1
  <2>3. q \in Seq(R) /\ Len(q) = n /\ DOMAIN q = 1 .. n
    BY <1>2, <2>2
  <2> QED
    BY <2>1, <2>3
<1>5. r = Append(q, OpBytes(op))
  <2>1. DOMAIN r = 1 .. n + 1 /\ DOMAIN Append(q, OpBytes(op)) = 1 .. n + 1
    BY <1>2, <1>4
  <2>2. \A k \in 1 .. n + 1 : r[k] = Append(q, OpBytes(op))[k]
    BY <1>2, <1>4
  <2>3. r = [k \in 1 .. n + 1 |-> r[k]]
    BY <2>1
  <2>4. Append(q, OpBytes(op)) = [k \in 1 .. n + 1 |-> Append(q, OpBytes(op))[k]]
    BY <1>4
  <2> HIDE DEF q, r
  <2> QED
    BY <2>2, <2>3, <2>4
<1> HIDE DEF q, r
<1>6. FlattenSeq(Append(q, OpBytes(op))) = FlattenSeq(q) \o OpBytes(op) /\ FlattenSeq(q) \in Seq(Byte)
  BY <1>3, <1>4, FlattenAppend
<1> QED
  BY <1>5, <1>6 DEF Bytes, q, r

LEMMA UpToGrows ==
  ASSUME NEW ops \in Seq(Operation), NEW k \in 0 .. Len(ops)
  PROVE  /\ UpTo(ops, k) \in Seq(Operation) /\ Len(UpTo(ops, k)) = k
         /\ \A i \in 1 .. k : UpTo(ops, k)[i] = ops[i]
         /\ UpTo(ops, 0) = <<>> /\ UpTo(ops, Len(ops)) = ops
         /\ k > 0 => UpTo(ops, k) = Append(UpTo(ops, k - 1), ops[k]) /\ ops[k] \in Operation
<1> DEFINE S == Operation
<1>0. ops \in Seq(S)
  OBVIOUS
<1> HIDE DEF S
<1>1. PICK n \in Nat : n = Len(ops) /\ k \in 0 .. n
  OBVIOUS
<1>2. \A j \in 0 .. n : /\ SubSeq(ops, 1, j) \in Seq(S) /\ Len(SubSeq(ops, 1, j)) = j
                        /\ \A i \in 1 .. j : SubSeq(ops, 1, j)[i] = ops[i]
  BY <1>0, <1>1
<1>3. SubSeq(ops, 1, 0) = <<>> /\ SubSeq(ops, 1, n) = ops
  BY <1>0, <1>1
<1>4. k > 0 => SubSeq(ops, 1, k) = Append(SubSeq(ops, 1, k - 1), ops[k]) /\ ops[k] \in S
  BY <1>0, <1>1
<1> QED
  BY <1>1, <1>2, <1>3, <1>4 DEF UpTo, S

LEMMA BytesGrow ==
  ASSUME NEW ops \in Seq(Operation), NEW k \in 0 .. Len(ops)
  PROVE  /\ Bytes(UpTo(ops, k)) \in Seq(Byte)
         /\ Bytes(UpTo(ops, 0)) = <<>>
         /\ k > 0 => /\ Bytes(UpTo(ops, k)) = Bytes(UpTo(ops, k - 1)) \o OpBytes(ops[k])
                     /\ Bytes(UpTo(ops, k - 1)) \in Seq(Byte)
<1>1. \A j \in 0 .. Len(ops) : UpTo(ops, j) \in Seq(Operation)
  BY UpToGrows
<1>2. Bytes(<<>>) = <<>>
  <2>1. PICK q : q = [i \in DOMAIN <<>> |-> OpBytes(<<>>[i])]
    OBVIOUS
  <2>2. q = <<>> /\ Len(q) = 0
    BY <2>1
  <2>3. FlattenSeq(q) = q
    BY <2>2, Zenon DEF FlattenSeq
  <2> QED
    BY <2>1, <2>2, <2>3 DEF Bytes
<1>3. Bytes(UpTo(ops, k)) \in Seq(Byte)
  <2>1. PICK tok \in Byte : tok = OC4_I2C_TK_ADDRW
    BY DEF Byte, OC4_I2C_TK_ADDRW
  <2>2. PICK op : op \in Operation
    <3>1. PICK op : op \in Seq(Byte) /\ Len(op) = 1 /\ op[1] = tok
      <4>1. PICK nil \in Seq(Byte) : Len(nil) = 0
        <5>1. <<>> \in Seq(Byte) /\ Len(<<>>) = 0
          OBVIOUS
        <5> QED
          BY <5>1
      <4>2. Append(nil, tok) \in Seq(Byte) /\ Len(Append(nil, tok)) = 1 /\ Append(nil, tok)[1] = tok
        BY <4>1
      <4> QED
        BY <4>2
    <3>2. tok \in Oc4Token \ {OC4_I2C_TK_END}
      BY <2>1 DEF Oc4Token, OC4_I2C_TK_ADDRW, OC4_I2C_TK_END
    <3>3. op \in Operation
      BY <3>1, <3>2, SMTT(30) DEF Operation
    <3> QED
      BY <3>1, <3>3
  <2> QED
    BY <1>1, <2>2, BytesAppend
<1>4. CASE k > 0
  <2>1. k - 1 \in 0 .. Len(ops)
    BY <1>4
  <2>2. UpTo(ops, k) = Append(UpTo(ops, k - 1), ops[k]) /\ ops[k] \in Operation
    BY <1>4, UpToGrows
  <2>3. UpTo(ops, k - 1) \in Seq(Operation)
    BY <1>1, <2>1
  <2> QED
    BY <1>2, <1>3, <2>2, <2>3, BytesAppend, UpToGrows
<1> QED
  BY <1>2, <1>3, <1>4, UpToGrows

\* The bytes of fewer operations come first among those of more.
LEMMA BytesFirst ==
  ASSUME NEW ops \in Seq(Operation), NEW k \in 0 .. Len(ops), NEW n \in k .. Len(ops)
  PROVE  /\ Pos(ops, k) <= Pos(ops, n)
         /\ \A i \in 1 .. Pos(ops, k) : Bytes(UpTo(ops, n))[i] = Bytes(UpTo(ops, k))[i]
<1> DEFINE First(m) == /\ Pos(ops, k) <= Pos(ops, m)
                       /\ \A i \in 1 .. Pos(ops, k) : Bytes(UpTo(ops, m))[i] = Bytes(UpTo(ops, k))[i]
           T == {m \in k .. Len(ops) : ~First(m)}
<1> SUFFICES ASSUME T # {} PROVE FALSE
  OBVIOUS
<1>0. T \in SUBSET Nat
  OBVIOUS
<1>1. PICK m \in T : \A j \in T : m <= j
  <2> HIDE DEF T
  <2> QED
    BY <1>0, LeastNat
<1>2. PICK p \in Nat : p = Pos(ops, k)
  BY BytesGrow DEF Pos
<1>3. CASE m = k
  BY <1>2, <1>3
<1>4. CASE m # k
  <2>1. m - 1 \in k .. Len(ops) /\ m \in 0 .. Len(ops) /\ m > 0 /\ ~(m <= m - 1)
    BY <1>4
  <2>2. First(m - 1)
    BY <1>1, <2>1
  <2>3. /\ Bytes(UpTo(ops, m)) = Bytes(UpTo(ops, m - 1)) \o OpBytes(ops[m])
        /\ Bytes(UpTo(ops, m - 1)) \in Seq(Byte)
    BY <2>1, BytesGrow
  <2>4. OpBytes(ops[m]) \in Seq(Byte)
    BY <2>1, UpToGrows, OperationBytes
  <2>5. PICK x \in Seq(Byte), y \in Seq(Byte) : x = Bytes(UpTo(ops, m - 1)) /\ y = OpBytes(ops[m])
    BY <2>3, <2>4
  <2>6. p <= Len(x) /\ \A i \in 1 .. p : x[i] = Bytes(UpTo(ops, k))[i]
    BY <1>2, <2>2, <2>5 DEF Pos
  <2>7. p <= Len(x \o y) /\ \A i \in 1 .. p : (x \o y)[i] = x[i]
    BY <2>6
  <2> QED
    BY <1>2, <2>3, <2>5, <2>6, <2>7 DEF Pos
<1> QED
  BY <1>3, <1>4

\* Where the operations are in a request: the k-th one's bytes follow pos[k - 1].
Layout(ops, body, pos) ==
  LET n == Len(ops)
  IN /\ pos \in [0 .. n -> Nat] /\ pos[0] = 0
     /\ Len(body) = pos[n] + 1 /\ body[pos[n] + 1] = I2C_TK_END
     /\ \A k \in 1 .. n :
          /\ pos[k] = pos[k - 1] + Len(ops[k]) /\ pos[k] <= pos[n]
          /\ body[pos[k - 1] + 1] \in i2c_token_t \ {I2C_TK_END}
          /\ odroid_tok(body[pos[k - 1] + 1]) = ops[k][1]
          /\ Len(ops[k]) = 2 => body[pos[k - 1] + 2] = ops[k][2]

LEMMA RequestLayout ==
  ASSUME NEW ops \in Seq(Operation)
  PROVE  /\ Request(ops) \in Seq(Byte)
         /\ Layout(ops, Request(ops), [k \in 0 .. Len(ops) |-> Pos(ops, k)])
<1>1. PICK n \in Nat : n = Len(ops)
  OBVIOUS
<1>2. PICK pos : pos = [k \in 0 .. n |-> Pos(ops, k)]
  OBVIOUS
<1>3. PICK all \in Seq(Byte) : all = Bytes(ops)
  BY BytesGrow, UpToGrows
<1>4. PICK body : body = Request(ops)
  OBVIOUS
<1>5. /\ body = all \o <<I2C_TK_END>> /\ body \in Seq(Byte) /\ Len(body) = Len(all) + 1
      /\ body[Len(all) + 1] = I2C_TK_END /\ \A i \in 1 .. Len(all) : body[i] = all[i]
  <2>1. I2C_TK_END \in Byte
    BY DEF Byte, I2C_TK_END
  <2>2. body = all \o <<I2C_TK_END>>
    BY <1>3, <1>4 DEF Request, Bytes
  <2> QED
    BY <2>1, <2>2
<1>6. UpTo(ops, n) = ops /\ pos[n] = Len(all)
  BY <1>1, <1>2, <1>3, UpToGrows DEF Pos
<1>7. pos \in [0 .. n -> Nat] /\ pos[0] = 0
  <2>1. \A k \in 0 .. n : Pos(ops, k) \in Nat /\ (k = 0 => Pos(ops, k) = 0)
    BY <1>1, BytesGrow DEF Pos
  <2> QED
    BY <1>2, <2>1
<1>8. ASSUME NEW k \in 1 .. n
      PROVE  /\ pos[k] = pos[k - 1] + Len(ops[k]) /\ pos[k] <= pos[n]
             /\ body[pos[k - 1] + 1] \in i2c_token_t \ {I2C_TK_END}
             /\ odroid_tok(body[pos[k - 1] + 1]) = ops[k][1]
             /\ Len(ops[k]) = 2 => body[pos[k - 1] + 2] = ops[k][2]
  <2>1. k \in 0 .. Len(ops) /\ k - 1 \in 0 .. Len(ops) /\ k > 0
    BY <1>1
  <2>2. PICK op \in Operation : op = ops[k]
    BY <2>1, UpToGrows
  <2>3. PICK x \in Seq(Byte), y \in Seq(Byte) : x = Bytes(UpTo(ops, k - 1)) /\ y = OpBytes(op)
    BY <2>1, <2>2, BytesGrow, OperationBytes
  <2>4. Bytes(UpTo(ops, k)) = x \o y
    BY <2>1, <2>2, <2>3, BytesGrow
  <2>5. pos[k - 1] = Len(x) /\ pos[k] = Len(x \o y)
    BY <1>1, <1>2, <2>1, <2>3, <2>4 DEF Pos
  <2>6. Len(x \o y) <= Len(all) /\ \A i \in 1 .. Len(x \o y) : all[i] = (x \o y)[i]
    <3>1. k \in 0 .. Len(ops) /\ n \in k .. Len(ops)
      BY <1>1
    <3> QED
      BY <1>3, <1>6, <2>4, <3>1, BytesFirst DEF Pos
  <2>7. /\ Len(y) = Len(op) /\ y[1] \in i2c_token_t \ {I2C_TK_END} /\ odroid_tok(y[1]) = op[1]
        /\ Len(op) = 2 => y[2] = op[2]
        /\ Len(op) \in {1, 2}
    BY <2>3, OperationBytes DEF Operation
  <2>8. PICK l \in Nat, m \in {1, 2} : l = Len(x) /\ m = Len(y)
    BY <2>7
  <2>9. /\ Len(x \o y) = l + m
        /\ (x \o y)[l + 1] = y[1] /\ (m = 2 => (x \o y)[l + 2] = y[2])
    BY <2>8
  <2>10. /\ l + 1 \in 1 .. Len(x \o y) /\ (m = 2 => l + 2 \in 1 .. Len(x \o y))
    BY <2>8, <2>9
  <2>11. all[l + 1] = y[1] /\ (m = 2 => all[l + 2] = y[2]) /\ l + m <= Len(all)
    BY <2>6, <2>9, <2>10
  <2>12. body[l + 1] = y[1] /\ (m = 2 => body[l + 2] = y[2])
    <3>1. PICK a \in Nat : a = Len(all)
      OBVIOUS
    <3>2. l + 1 \in 1 .. a /\ (m = 2 => l + 2 \in 1 .. a)
      BY <2>11, <3>1
    <3> QED
      BY <1>5, <2>11, <3>1, <3>2
  <2> QED
    BY <1>6, <2>2, <2>5, <2>7, <2>8, <2>9, <2>11, <2>12
<1> QED
  BY <1>1, <1>2, <1>4, <1>5, <1>6, <1>7, <1>8, ZenonT(40) DEF Layout

\* The request of fewer operations starts like that of all.
LEMMA RequestFirst ==
  ASSUME NEW ops \in Seq(Operation), NEW k \in 0 .. Len(ops)
  PROVE  IsPrefix(Front(Request(UpTo(ops, k))), Request(ops))
<1>1. PICK x \in Seq(Byte), all \in Seq(Byte) :
        x = Bytes(UpTo(ops, k)) /\ all = Bytes(ops) /\ UpTo(ops, Len(ops)) = ops
  BY BytesGrow, UpToGrows
<1>2. Len(x) <= Len(all) /\ \A i \in 1 .. Len(x) : all[i] = x[i]
  <2>1. Len(ops) \in k .. Len(ops)
    OBVIOUS
  <2> QED
    BY <1>1, <2>1, BytesFirst DEF Pos
<1>3. Request(UpTo(ops, k)) = x \o <<I2C_TK_END>> /\ Request(ops) = all \o <<I2C_TK_END>>
  BY <1>1 DEF Request, Bytes
<1>4. I2C_TK_END \in Byte
  BY DEF Byte, I2C_TK_END
<1>5. Front(x \o <<I2C_TK_END>>) = x
  BY <1>4 DEF Front
<1>6. PICK body \in Seq(Byte) : body = all \o <<I2C_TK_END>>
  <2>1. PICK e \in Byte : e = I2C_TK_END
    BY <1>4
  <2>2. all \o <<e>> \in Seq(Byte)
    OBVIOUS
  <2> QED
    BY <2>1, <2>2
<1>7. Len(body) = Len(all) + 1 /\ \A i \in 1 .. Len(all) : body[i] = all[i]
  BY <1>4, <1>6
<1>8. IsPrefix(x, body)
  BY <1>2, <1>7 DEF IsPrefix
<1> QED
  BY <1>3, <1>5, <1>6, <1>8

-----------------------------------------------------------------------------
\* A request that says in which direction it transfers data before it does: what a
\* batch of it is, wherever it starts.

\* The direction after k operations, once there was an address.
InDirection(ops, k, ddr) ==
  \A j \in 1 .. k : Facing(ops, j, k) => ddr = IF ops[j][1] = OC4_I2C_TK_ADDRR THEN 1 ELSE 0

LEMMA DirectionKept ==
  ASSUME NEW ops, Transaction(ops), NEW k \in 1 .. Len(ops), NEW ddr \in {0, 1},
         InDirection(ops, k - 1, ddr)
  PROVE  LET d == Direction(ops[k][1], ddr)
         IN /\ d \in {0, 1} /\ InDirection(ops, k, d)
            /\ ops[k][1] = OC4_I2C_TK_DATA /\ d = 0 <=> Len(ops[k]) = 2
<1>1. PICK n \in Nat, d \in {0, 1} : n = Len(ops) /\ d = Direction(ops[k][1], ddr)
  BY DirectionType DEF Transaction
<1>2. k \in 1 .. n /\ ops[k] \in Operation
  BY <1>1 DEF Transaction
<1>3. CASE ops[k][1] \in Address
  <2>1. d = IF ops[k][1] = OC4_I2C_TK_ADDRR THEN 1 ELSE 0
    BY <1>1, <1>3 DEF Direction, Address, I2C_TK_ADDRW, I2C_TK_ADDRR, OC4_I2C_TK_ADDRW, OC4_I2C_TK_ADDRR
  <2>2. ASSUME NEW j \in 1 .. k, Facing(ops, j, k) PROVE j = k
    <3>1. k \notin j + 1 .. k
      BY <1>3, <2>2 DEF Facing
    <3> QED
      BY <1>2, <3>1
  <2>3. InDirection(ops, k, d)
    BY <2>1, <2>2 DEF InDirection
  <2>4. ops[k][1] # OC4_I2C_TK_DATA
    BY <1>3 DEF Address, OC4_I2C_TK_DATA, OC4_I2C_TK_ADDRW, OC4_I2C_TK_ADDRR
  <2> QED
    BY <1>1, <1>2, <2>3, <2>4 DEF Operation
<1>4. CASE ops[k][1] \notin Address
  <2>1. d = ddr
    BY <1>1, <1>4 DEF Direction, Address, I2C_TK_ADDRW, I2C_TK_ADDRR, OC4_I2C_TK_ADDRW, OC4_I2C_TK_ADDRR
  <2>2. ASSUME NEW j \in 1 .. k, Facing(ops, j, k) PROVE j \in 1 .. k - 1 /\ Facing(ops, j, k - 1)
    <3>1. j # k
      BY <1>4, <2>2 DEF Facing
    <3>2. j \in 1 .. k - 1
      BY <1>2, <3>1
    <3> QED
      BY <1>2, <2>2, <3>2 DEF Facing
  <2>3. InDirection(ops, k, d)
    BY <2>1, <2>2 DEF InDirection
  <2>4. ops[k][1] = OC4_I2C_TK_DATA => (d = 0 <=> Len(ops[k]) = 2)
    <3> SUFFICES ASSUME ops[k][1] = OC4_I2C_TK_DATA PROVE d = 0 <=> Len(ops[k]) = 2
      OBVIOUS
    <3>1. PICK j \in 1 .. k : Facing(ops, j, k) /\ (Len(ops[k]) = 2 <=> ops[j][1] = OC4_I2C_TK_ADDRW)
      BY <1>1, <1>2 DEF Transaction
    <3>2. d = IF ops[j][1] = OC4_I2C_TK_ADDRR THEN 1 ELSE 0
      BY <2>3, <3>1 DEF InDirection
    <3>3. ops[j][1] \in Address
      BY <3>1 DEF Facing
    <3> QED
      BY <3>1, <3>2, <3>3 DEF Address, OC4_I2C_TK_ADDRW, OC4_I2C_TK_ADDRR
  <2> QED
    BY <1>1, <1>2, <2>3, <2>4 DEF Operation
<1> QED
  BY <1>3, <1>4

\* The direction is the same whether told by the transport's token or by the list
\* processor's.
LEMMA SameDirection ==
  ASSUME NEW tok, NEW ddr
  PROVE  Direction(odroid_tok(tok), ddr) = Direction(tok, ddr)
BY DEF Direction, odroid_tok, I2C_TK_DAT, OC4_I2C_TK_DATA, I2C_TK_ADDRW, I2C_TK_ADDRR

Positions(ops) == [k \in 0 .. Len(ops) |-> Pos(ops, k)]

\* A batch that holds the operations m + 1 to m + k, and nothing but END after them:
\* the byte that the q-th of them writes is the one at place Written.
Written(pos, m, q) == pos[m + q] - pos[m] - q

Loaded(ops, pos, m, k, list, wdata) ==
  /\ k \in 0 .. Len(list) /\ m + k <= Len(ops)
  /\ \A q \in 1 .. k : list[q] = ops[m + q][1]
  /\ Len(list) > k => m + k = Len(ops) /\ list[k + 1] = OC4_I2C_TK_END
  /\ Len(wdata) = Written(pos, m, k)
  /\ \A q \in 1 .. k : Len(ops[m + q]) = 2 =>
       /\ Written(pos, m, q) \in 1 .. Len(wdata)
       /\ wdata[Written(pos, m, q)] = ops[m + q][2]

\* The loop of i2cLoadTokens, somewhere in such a batch.
LoaderAt(ops, pos, m, k, s) ==
  /\ Loaded(ops, pos, m, k, s.list, s.wdata)
  /\ s.ok /\ InDirection(ops, m + k, s.ddr)
  /\ IF Len(s.list) = k THEN s.i = pos[m + k] ELSE s.i > pos[Len(ops)]

\* The next operation goes to its slot.
LEMMA OperationLoaded ==
  ASSUME NEW ops, Transaction(ops), NEW body \in Seq(Byte), NEW pos, Layout(ops, body, pos),
         NEW m \in Nat, NEW k \in Nat, NEW s \in LoaderState, LoaderAt(ops, pos, m, k, s),
         Len(s.list) = k, m + k < Len(ops)
  PROVE  /\ s.i < Len(body) /\ body[s.i + 1] \in i2c_token_t
         /\ LoaderAt(ops, pos, m, k + 1, LoadSlot(body, s))
<1>1. PICK n \in Nat, w \in Nat : n = Len(ops) /\ w = Len(s.wdata)
  BY DEF Transaction, LoaderState
<1>2. PICK i \in Nat, p \in Nat, all \in Nat : i = pos[m + k] /\ p = pos[m] /\ all = pos[n]
  <2>1. m + k \in 0 .. n /\ m \in 0 .. n /\ n \in 0 .. n
    BY <1>1
  <2>2. pos \in [0 .. n -> Nat]
    BY <1>1 DEF Layout
  <2>3. pos[m + k] \in Nat /\ pos[m] \in Nat /\ pos[n] \in Nat
    BY <2>1, <2>2
  <2> QED
    BY <2>3
<1>3. PICK j \in 1 .. n : j = m + k + 1 /\ j - 1 = m + k
  BY <1>1
<1>4. PICK op \in Operation : op = ops[j]
  BY <1>1 DEF Transaction
<1>5. PICK l \in {1, 2} : l = Len(op)
  BY DEF Operation
<1>6. /\ pos[j] = i + l /\ i + l <= all /\ Len(body) = all + 1
      /\ body[i + 1] \in i2c_token_t /\ odroid_tok(body[i + 1]) = op[1]
      /\ l = 2 => body[i + 2] = op[2]
  <2>1. /\ pos[j] = pos[j - 1] + Len(ops[j]) /\ pos[j] <= pos[n] /\ Len(body) = pos[n] + 1
        /\ body[pos[j - 1] + 1] \in i2c_token_t /\ odroid_tok(body[pos[j - 1] + 1]) = ops[j][1]
        /\ Len(ops[j]) = 2 => body[pos[j - 1] + 2] = ops[j][2]
    BY <1>1, <1>3 DEF Layout
  <2>2. pos[j - 1] = i
    BY <1>2, <1>3
  <2> QED
    BY <1>2, <1>4, <1>5, <2>1, <2>2
<1>7. s.i = i /\ s.ok /\ InDirection(ops, j - 1, s.ddr) /\ w = i - p - k
  BY <1>1, <1>2, <1>3 DEF LoaderAt, Loaded, Written
<1>8. s.i < Len(body) /\ body[s.i + 1] \in i2c_token_t
  BY <1>6, <1>7, SMTT(30)
<1>9. PICK t : t = LoadSlot(body, s)
  OBVIOUS
<1>10. /\ t.ok = s.ok /\ t.list = Append(s.list, op[1])
       /\ t.ddr = Direction(body[i + 1], s.ddr)
       /\ \/ /\ body[i + 1] = I2C_TK_DAT /\ t.ddr = 0
             /\ t.wdata = Append(s.wdata, ByteAt(body, i + 2)) /\ t.i = i + 2
          \/ /\ ~(body[i + 1] = I2C_TK_DAT /\ t.ddr = 0)
             /\ t.wdata = s.wdata /\ t.i = i + 1
  <2>1. /\ t.ok = s.ok /\ t.list = Append(s.list, odroid_tok(body[s.i + 1]))
        /\ t.ddr = Direction(body[s.i + 1], s.ddr)
        /\ \/ /\ body[s.i + 1] = I2C_TK_DAT /\ t.ddr = 0
              /\ t.wdata = Append(s.wdata, ByteAt(body, s.i + 2)) /\ t.i = s.i + 2
           \/ /\ ~(body[s.i + 1] = I2C_TK_DAT /\ t.ddr = 0)
              /\ t.wdata = s.wdata /\ t.i = s.i + 1
    BY <1>7, <1>8, <1>9, SlotFilled, Zenon
  <2>2. s.i = i /\ odroid_tok(body[i + 1]) = op[1]
    BY <1>6, <1>7, Zenon
  <2> QED
    BY <2>1, <2>2
<1>11. /\ t.ddr = Direction(op[1], s.ddr) /\ InDirection(ops, j, t.ddr)
       /\ op[1] = OC4_I2C_TK_DATA /\ t.ddr = 0 <=> l = 2
  <2>1. t.ddr = Direction(op[1], s.ddr)
    BY <1>6, <1>10, SameDirection
  <2>2. s.ddr \in {0, 1}
    BY DEF LoaderState
  <2>3. j \in 1 .. Len(ops)
    BY <1>1, Zenon
  <2>4. /\ InDirection(ops, j, Direction(ops[j][1], s.ddr))
        /\ ops[j][1] = OC4_I2C_TK_DATA /\ Direction(ops[j][1], s.ddr) = 0 <=> Len(ops[j]) = 2
    BY <1>7, <2>2, <2>3, DirectionKept, SMTT(60)
  <2> QED
    BY <1>4, <1>5, <2>1, <2>4, Zenon
<1>12. body[i + 1] = I2C_TK_DAT <=> op[1] = OC4_I2C_TK_DATA
  BY <1>6 DEF odroid_tok, i2c_token_t, I2C_TK_END, I2C_TK_START, I2C_TK_ADDRW, I2C_TK_ADDRR,
              I2C_TK_DATA_END, I2C_TK_STOP, I2C_TK_DAT, OC4_I2C_TK_DATA
<1>13. /\ t.i = i + l
       /\ l = 2 => t.wdata = Append(s.wdata, op[2])
       /\ l = 1 => t.wdata = s.wdata
  <2>1. l = 2 => ByteAt(body, i + 2) = op[2]
    BY <1>6 DEF ByteAt
  <2> QED
    BY <1>10, <1>11, <1>12, <2>1
<1>14. /\ Len(t.list) = k + 1 /\ t.list[k + 1] = op[1] /\ \A q \in 1 .. k : t.list[q] = s.list[q]
  <2>1. PICK list \in Seq(Oc4Token) : list = s.list /\ Len(list) = k
    BY DEF LoaderState
  <2> QED
    BY <1>10, <2>1
<1>15. /\ Len(t.wdata) = w + l - 1 /\ \A q \in 1 .. w : t.wdata[q] = s.wdata[q]
       /\ l = 2 => t.wdata[w + 1] = op[2]
  <2>1. PICK wdata \in Seq(Byte) : wdata = s.wdata /\ Len(wdata) = w
    BY <1>1 DEF LoaderState
  <2>2. CASE l = 1
    <3>1. t.wdata = wdata
      BY <1>13, <2>1, <2>2
    <3> QED
      BY <2>1, <2>2, <3>1
  <2>3. CASE l = 2
    <3>1. PICK e, u : e = op[2] /\ u = t.wdata
      OBVIOUS
    <3>2. u = Append(wdata, e)
      BY <1>13, <2>1, <2>3, <3>1, Zenon
    <3>3. Len(u) = w + 1 /\ u[w + 1] = e /\ \A q \in 1 .. w : u[q] = wdata[q]
      BY <2>1, <3>2, ElementsOfAppended
    <3>4. w + l - 1 = w + 1
      BY <2>3
    <3> QED
      BY <2>1, <3>1, <3>3, <3>4, Zenon
  <2> QED
    BY <2>2, <2>3
<1>16. Written(pos, m, k + 1) = w + l - 1
  <2>1. PICK q \in Nat : q = k + 1 /\ m + q = j
    BY <1>3
  <2>2. Written(pos, m, q) = pos[j] - pos[m] - q
    BY <2>1, Zenon DEF Written
  <2>3. Written(pos, m, q) = (i + l) - p - q
    BY <1>2, <1>6, <2>2
  <2>4. (i + l) - p - q = w + l - 1
    BY <1>7, <2>1
  <2> QED
    BY <2>1, <2>3, <2>4
<1>17. Loaded(ops, pos, m, k + 1, t.list, t.wdata)
  <2>1. k + 1 \in 0 .. Len(t.list) /\ m + (k + 1) <= Len(ops) /\ ~(Len(t.list) > k + 1)
    BY <1>1, <1>3, <1>14
  <2>2. ASSUME NEW q \in 1 .. k + 1
        PROVE  /\ t.list[q] = ops[m + q][1]
               /\ Len(ops[m + q]) = 2 => /\ Written(pos, m, q) \in 1 .. Len(t.wdata)
                                         /\ t.wdata[Written(pos, m, q)] = ops[m + q][2]
    <3>1. CASE q = k + 1
      <4>1. m + q = j
        BY <1>3, <3>1
      <4>2. l = 2 => w + l - 1 \in 1 .. w + l - 1 /\ w + l - 1 = w + 1
        OBVIOUS
      <4> QED
        BY <1>4, <1>5, <1>14, <1>15, <1>16, <3>1, <4>1, <4>2
    <3>2. CASE q # k + 1
      <4>1. q \in 1 .. k
        BY <3>2
      <4>2. /\ s.list[q] = ops[m + q][1]
            /\ Len(ops[m + q]) = 2 => /\ Written(pos, m, q) \in 1 .. w
                                      /\ s.wdata[Written(pos, m, q)] = ops[m + q][2]
        BY <1>1, <4>1 DEF LoaderAt, Loaded
      <4>3. 1 .. w \subseteq 1 .. w + l - 1
        OBVIOUS
      <4> QED
        BY <1>14, <1>15, <4>1, <4>2, <4>3
    <3> QED
      BY <3>1, <3>2
  <2> QED
    BY <1>15, <1>16, <2>1, <2>2 DEF Loaded
<1> QED
  <2>1. m + (k + 1) = j
    BY <1>3
  <2> QED
    BY <1>6, <1>7, <1>8, <1>9, <1>10, <1>11, <1>13, <1>14, <1>17, <2>1 DEF LoaderAt

\* A turn loads the next operation, or the END after the last one, or fills up.
LEMMA OperationTurn ==
  ASSUME NEW ops, Transaction(ops), NEW body \in Seq(Byte), NEW pos, Layout(ops, body, pos),
         NEW m \in Nat, NEW k \in Nat, NEW s \in LoaderState, LoaderAt(ops, pos, m, k, s)
  PROVE  \/ LoaderAt(ops, pos, m, k, LoadTurn(body, s))
         \/ LoaderAt(ops, pos, m, k + 1, LoadTurn(body, s))
<1>1. PICK n \in Nat, l \in Nat, w \in Nat, i \in Nat, all \in Nat :
        /\ n = Len(ops) /\ l = Len(s.list) /\ w = Len(s.wdata) /\ i = s.i
        /\ all = pos[n] /\ Len(body) = all + 1
  <2>1. PICK n \in Nat : n = Len(ops)
    BY DEF Transaction
  <2>2. pos \in [0 .. n -> Nat] /\ Len(body) = pos[n] + 1 /\ n \in 0 .. n
    BY <2>1 DEF Layout
  <2>3. pos[n] \in Nat
    BY <2>2
  <2>4. Len(s.list) \in Nat /\ Len(s.wdata) \in Nat /\ s.i \in Nat
    BY DEF LoaderState
  <2> QED
    BY <2>1, <2>2, <2>3, <2>4
<1>2. /\ s.ok /\ Loaded(ops, pos, m, k, s.list, s.wdata) /\ InDirection(ops, m + k, s.ddr)
      /\ IF l = k THEN i = pos[m + k] ELSE i > all
      /\ k <= l /\ m + k <= n /\ (l > k => m + k = n)
  BY <1>1 DEF LoaderAt, Loaded
<1>3. s.list \in Seq(Oc4Token) /\ OC4_I2C_TK_END \in Oc4Token /\ WDATA_SLOTS \in Nat
  BY TokensAssumption DEF LoaderState, Oc4Token, OC4_I2C_TK_END
<1>4. \A x : /\ Len(Append(s.list, x)) = l + 1 /\ Append(s.list, x)[l + 1] = x
             /\ \A q \in 1 .. l : Append(s.list, x)[q] = s.list[q]
  <2>1. PICK list \in Seq(Oc4Token) : list = s.list /\ Len(list) = l
    BY <1>1, <1>3
  <2>2. \A x : /\ Len(Append(list, x)) = l + 1 /\ Append(list, x)[l + 1] = x
               /\ \A q \in 1 .. l : Append(list, x)[q] = list[q]
    BY <2>1
  <2> QED
    BY <2>1, <2>2
\* The last operation is loaded, and END goes to the next slot.
<1>5. ASSUME m + k = n, NEW t, t.ok = s.ok, t.list = Append(s.list, OC4_I2C_TK_END),
             t.wdata = s.wdata, t.ddr = s.ddr, t.i > all
      PROVE  LoaderAt(ops, pos, m, k, t)
  <2>1. k \in 0 .. Len(t.list) /\ Len(t.list) # k /\ t.list[k + 1] = OC4_I2C_TK_END
    <3>1. Len(t.list) = l + 1
      BY <1>4, <1>5
    <3>2. k \in 0 .. l + 1 /\ l + 1 # k
      BY <1>2
    <3>3. CASE l = k
      BY <1>4, <1>5, <3>1, <3>2, <3>3
    <3>4. CASE l # k
      <4>1. l > k /\ k + 1 \in 1 .. l
        BY <1>2, <3>4
      <4>2. s.list[k + 1] = OC4_I2C_TK_END
        BY <1>1, <1>2, <4>1 DEF Loaded
      <4> QED
        BY <1>4, <1>5, <3>1, <3>2, <4>1, <4>2
    <3> QED
      BY <3>3, <3>4
  <2>2. \A q \in 1 .. k : t.list[q] = ops[m + q][1]
    <3>1. \A q \in 1 .. k : q \in 1 .. l
      BY <1>2
    <3> QED
      BY <1>2, <1>4, <1>5, <3>1 DEF Loaded
  <2>3. Loaded(ops, pos, m, k, t.list, t.wdata)
    BY <1>1, <1>2, <1>5, <2>1, <2>2 DEF Loaded
  <2> QED
    BY <1>1, <1>2, <1>5, <2>1, <2>3 DEF LoaderAt
<1>6. CASE w >= WDATA_SLOTS
  BY <1>1, <1>6 DEF LoadTurn
<1>7. CASE w < WDATA_SLOTS /\ i > all
  <2> DEFINE t == [s EXCEPT !.list = Append(s.list, OC4_I2C_TK_END), !.i = s.i + 1]
  <2>1. LoadTurn(body, s) = t
    <3>1. s.ok /\ ~(w >= WDATA_SLOTS) /\ i >= all + 1
      BY <1>2, <1>3, <1>7
    <3> QED
      BY <1>1, <3>1 DEF LoadTurn, PadSlot
  <2>2. /\ t.ok = s.ok /\ t.list = Append(s.list, OC4_I2C_TK_END) /\ t.wdata = s.wdata
        /\ t.ddr = s.ddr /\ t.i = i + 1
    BY <1>1 DEF LoaderState
  <2> HIDE DEF t
  <2>3. m + k = n
    <3>1. CASE l = k
      <4>1. pos[m + k] <= all
        <5>1. m + k \in 0 .. n
          BY <1>2
        <5>2. \A j \in 1 .. n : pos[j] <= pos[n]
          BY <1>1 DEF Layout
        <5>3. pos[0] = 0
          BY DEF Layout
        <5> QED
          BY <1>1, <5>1, <5>2, <5>3
      <4>2. pos[m + k] > all
        BY <1>2, <1>7, <3>1
      <4>3. PICK y \in Nat : y = pos[m + k]
        BY <1>2, <3>1
      <4> QED
        BY <4>1, <4>2, <4>3
    <3>2. CASE l # k
      BY <1>2, <3>2
    <3> QED
      BY <3>1, <3>2
  <2>4. t.i > all
    BY <1>7, <2>2
  <2> QED
    BY <1>5, <2>1, <2>2, <2>3, <2>4
<1>8. CASE w < WDATA_SLOTS /\ ~(i > all)
  <2>1. l = k /\ i = pos[m + k] /\ s.ok /\ ~(w >= WDATA_SLOTS) /\ ~(i >= all + 1)
    BY <1>2, <1>3, <1>8
  <2>2. CASE m + k < n
    <3>1. /\ s.i < Len(body) /\ body[s.i + 1] \in i2c_token_t
          /\ LoaderAt(ops, pos, m, k + 1, LoadSlot(body, s))
      BY <1>1, <2>1, <2>2, OperationLoaded
    <3>2. LoadTurn(body, s) = LoadSlot(body, s)
      BY <1>1, <2>1, <3>1 DEF LoadTurn
    <3> QED
      BY <3>1, <3>2
  <2>3. CASE ~(m + k < n)
    <3>1. m + k = n /\ i = all
      BY <1>1, <1>2, <2>1, <2>3
    <3>2. body[s.i + 1] = I2C_TK_END /\ s.i < Len(body)
      BY <1>1, <3>1 DEF Layout
    <3>3. I2C_TK_END \in i2c_token_t
      BY DEF i2c_token_t
    <3>4. PICK t : t = LoadSlot(body, s)
      OBVIOUS
    <3>5. LoadTurn(body, s) = t
      BY <1>1, <2>1, <3>2, <3>3, <3>4 DEF LoadTurn
    <3>6. odroid_tok(I2C_TK_END) = OC4_I2C_TK_END /\ I2C_TK_END # I2C_TK_DAT
          /\ Direction(I2C_TK_END, s.ddr) = s.ddr
      BY DEF odroid_tok, Direction, I2C_TK_END, I2C_TK_DAT, I2C_TK_ADDRW, I2C_TK_ADDRR,
             OC4_I2C_TK_END
    <3>7. /\ t.ok = s.ok /\ t.list = Append(s.list, OC4_I2C_TK_END) /\ t.wdata = s.wdata
          /\ t.ddr = s.ddr /\ t.i = i + 1
      BY <1>1, <3>2, <3>3, <3>4, <3>6, SlotFilled
    <3>8. t.i > all
      BY <3>1, <3>7
    <3> QED
      BY <1>5, <3>1, <3>5, <3>7, <3>8
  <2> QED
    BY <2>2, <2>3
<1> QED
  BY <1>3, <1>6, <1>7, <1>8

\* What is left of a request after m operations: all but their bytes, or nothing once
\* the END after the last one was loaded too.
Remains(ops, m, remaining) ==
  /\ m \in 0 .. Len(ops)
  /\ IF remaining = 0 THEN m = Len(ops) ELSE remaining = Len(Request(ops)) - Pos(ops, m)

LEMMA AllRemains ==
  ASSUME NEW ops \in Seq(Operation)
  PROVE  /\ Len(Request(ops)) \in Nat \ {0}
         /\ Remains(ops, 0, Len(Request(ops)))
<1>1. PICK body \in Seq(Byte) :
        body = Request(ops) /\ Layout(ops, body, [k \in 0 .. Len(ops) |-> Pos(ops, k)])
  BY RequestLayout
<1>2. PICK n \in Nat : n = Len(ops)
  OBVIOUS
<1>3. PICK pos : pos = [k \in 0 .. n |-> Pos(ops, k)] /\ Layout(ops, body, pos)
  BY <1>1, <1>2
<1>4. pos[0] = 0 /\ 0 \in 0 .. n /\ n \in 0 .. n
  BY <1>2, <1>3 DEF Layout
<1>5. Len(body) \in Nat /\ Len(body) # 0
  <2>1. pos[n] \in Nat
    BY <1>2, <1>3, <1>4 DEF Layout
  <2> QED
    BY <1>2, <1>3, <2>1 DEF Layout
<1> QED
  BY <1>1, <1>2, <1>3, <1>4, <1>5 DEF Remains

\* A batch of such a request holds the operations that come next, and leaves the rest.
LEMMA BatchLoaded ==
  ASSUME NEW ops, Transaction(ops), NEW m, NEW remaining \in Nat \ {0}, Remains(ops, m, remaining),
         NEW ddr \in {0, 1}, InDirection(ops, m, ddr)
  PROVE  LET b == LoadBatch(Request(ops), remaining, ddr)
         IN /\ b.ok
            /\ \E k \in Nat : /\ Loaded(ops, Positions(ops), m, k, b.list, b.wdata)
                              /\ InDirection(ops, m + k, b.ddr)
                              /\ Remains(ops, m + k, b.remaining)
<1>1. PICK body \in Seq(Byte) : body = Request(ops) /\ Layout(ops, body, Positions(ops))
  BY RequestLayout DEF Transaction, Positions
<1>2. PICK pos : pos = Positions(ops)
  OBVIOUS
<1>3. PICK n \in Nat : n = Len(ops)
  BY DEF Transaction
<1>4. /\ Layout(ops, body, pos) /\ pos \in [0 .. n -> Nat] /\ Len(body) = pos[n] + 1
      /\ \A j \in 0 .. n : pos[j] = Pos(ops, j)
  BY <1>1, <1>2, <1>3 DEF Layout, Positions
<1>5. /\ m \in 0 .. n /\ remaining = Len(body) - pos[m]
  BY <1>1, <1>3, <1>4 DEF Remains
<1>6. PICK all \in Nat, offset \in Nat : all = pos[n] /\ offset = pos[m] /\ Len(body) = all + 1
  BY <1>4, <1>5
<1>7. ASSUME NEW j \in 0 .. n PROVE pos[j] \in Nat /\ pos[j] <= all
  <2>1. pos[0] = 0 /\ \A i \in 1 .. n : pos[i] <= pos[n]
    BY <1>3, <1>4 DEF Layout
  <2>2. j = 0 \/ j \in 1 .. n
    OBVIOUS
  <2> QED
    BY <1>4, <1>6, <2>1, <2>2
<1>8. offset = Len(body) - remaining
  BY <1>5, <1>6, SMTT(30)
<1>9. PICK start \in LoaderState :
        start = [i |-> offset, list |-> <<>>, wdata |-> <<>>, ddr |-> ddr, ok |-> TRUE]
  <2>1. <<>> \in Seq(Byte) /\ <<>> \in Seq(Oc4Token)
    OBVIOUS
  <2> QED
    BY <2>1 DEF LoaderState
<1>10. PICK last : last = LoadLoop(body, start, TK_SLOTS)
  OBVIOUS
<1> DEFINE Fill(p) == LoadedUpTo(body, offset, p[1], p[2]) /\ TakenFromBehind(body, p[2])
           G == {p \in Nat \X LoaderState : Fill(p) /\ \E k \in Nat : LoaderAt(ops, pos, m, k, p[2])}
<1>11. last \in LoaderState /\ \E k \in Nat : LoaderAt(ops, pos, m, k, last)
  <2>1. <<0, start>> \in G
    <3>1. m + 0 = m /\ m <= n /\ Len(<<>>) = 0
      BY <1>5
    <3>2. Written(pos, m, 0) = 0
      <4>1. Written(pos, m, 0) = pos[m + 0] - pos[m] - 0
        BY Zenon DEF Written
      <4> QED
        BY <1>6, <3>1, <4>1
    <3>3. Loaded(ops, pos, m, 0, <<>>, <<>>)
      BY <1>3, <3>1, <3>2 DEF Loaded
    <3>4. LoaderAt(ops, pos, m, 0, start)
      BY <1>6, <1>9, <3>1, <3>3 DEF LoaderAt
    <3>5. Fill(<<0, start>>)
      BY <1>9, TokensAssumption DEF LoadedUpTo, TakenFromBehind
    <3> QED
      BY <3>4, <3>5
  <2>2. ASSUME NEW k \in 0 .. TK_SLOTS - 1, NEW s, <<k, s>> \in G
        PROVE  <<k + 1, LoadTurn(body, s)>> \in G
    <3>1. k \in Nat /\ k + 1 \in Nat
      OBVIOUS
    <3>2. PICK j \in Nat : s \in LoaderState /\ LoaderAt(ops, pos, m, j, s)
      BY <2>2
    <3>3. \E i \in Nat : LoaderAt(ops, pos, m, i, LoadTurn(body, s))
      <4>1. LoaderAt(ops, pos, m, j, LoadTurn(body, s)) \/ LoaderAt(ops, pos, m, j + 1, LoadTurn(body, s))
        BY <1>4, <1>5, <3>2, OperationTurn
      <4> QED
        BY <4>1
    <3>4. LoadedUpTo(body, offset, k, s) /\ TakenFromBehind(body, s)
      BY <2>2
    <3>5. /\ LoadTurn(body, s) \in LoaderState /\ LoadedUpTo(body, offset, k + 1, LoadTurn(body, s))
          /\ TakenFromBehind(body, LoadTurn(body, s))
      BY <3>1, <3>2, <3>4, TurnKeeps
    <3> QED
      BY <3>1, <3>3, <3>5
  <2>3. TK_SLOTS \in Nat
    BY TokensAssumption
  <2>4. <<TK_SLOTS, last>> \in G
    <3> HIDE DEF G
    <3> QED
      BY <1>10, <2>1, <2>2, <2>3, LoadInduction
  <2> QED
    BY <2>4
<1>12. PICK k \in Nat : LoaderAt(ops, pos, m, k, last)
  BY <1>11
<1>13. PICK i \in Nat : i = last.i
  BY <1>11 DEF LoaderState
<1> DEFINE left == IF ~last.ok THEN remaining ELSE IF Len(body) - i > 0 THEN Len(body) - i ELSE 0
<1>14. LoadBatch(body, remaining, ddr) =
         [ok |-> last.ok, list |-> last.list, wdata |-> last.wdata, ddr |-> last.ddr, remaining |-> left]
  <2>1. LoadBatch(body, remaining, ddr) = LoadFrom(body, offset, remaining, ddr)
    BY <1>8 DEF LoadBatch
  <2>2. last = LoadLoop(body, [i |-> offset, list |-> <<>>, wdata |-> <<>>, ddr |-> ddr, ok |-> TRUE], TK_SLOTS)
    BY <1>9, <1>10
  <2> QED
    BY <1>13, <2>1, <2>2 DEF LoadFrom, LoadLoop, Iterate
<1>15. /\ last.ok /\ Loaded(ops, pos, m, k, last.list, last.wdata) /\ InDirection(ops, m + k, last.ddr)
       /\ k <= Len(last.list) /\ m + k \in 0 .. n
       /\ Len(last.list) > k => m + k = n
       /\ IF Len(last.list) = k THEN i = pos[m + k] ELSE i > all
  BY <1>3, <1>5, <1>6, <1>12, <1>13, SMTT(30) DEF LoaderAt, Loaded
<1>16. Remains(ops, m + k, left)
  <2>1. CASE Len(last.list) = k
    <3>1. pos[m + k] = Pos(ops, m + k) /\ i <= all
      BY <1>4, <1>7, <1>15, <2>1
    <3>2. left = Len(body) - i /\ left # 0
      BY <1>6, <1>15, <3>1
    <3> HIDE DEF left
    <3> QED
      BY <1>1, <1>3, <1>15, <2>1, <3>1, <3>2 DEF Remains
  <2>2. CASE Len(last.list) # k
    <3>1. PICK l \in Nat : l = Len(last.list)
      BY <1>11 DEF LoaderState
    <3>2. m + k = n /\ i > all
      BY <1>15, <2>2, <3>1
    <3>3. left = 0
      BY <1>6, <1>15, <3>2
    <3> HIDE DEF left
    <3> QED
      BY <1>3, <1>15, <3>2, <3>3 DEF Remains
  <2> QED
    BY <2>1, <2>2
<1> HIDE DEF left
<1> QED
  BY <1>1, <1>2, <1>14, <1>15, <1>16

\* The batch on the bus after its first q operations: the write data that are left
\* are those of the operations to come.
DoneTo(ops, pos, m, wdata, q, s) ==
  /\ Len(s.ops) = q /\ \A r \in 1 .. q : s.ops[r] = ops[m + r]
  /\ Written(pos, m, q) \in Nat
  /\ Len(wdata) = Written(pos, m, q) + Len(s.wdata)
  /\ \A r \in 1 .. Len(s.wdata) : s.wdata[r] = wdata[Written(pos, m, q) + r]
  /\ InDirection(ops, m + q, s.ddr)

LEMMA OperationDone ==
  ASSUME NEW ops, Transaction(ops), NEW body, NEW pos, Layout(ops, body, pos),
         NEW m \in Nat, NEW k \in Nat, NEW list, NEW wdata \in Seq(Byte),
         Loaded(ops, pos, m, k, list, wdata),
         NEW q \in 0 .. k - 1, NEW s \in ExecState, DoneTo(ops, pos, m, wdata, q, s)
  PROVE  LET t == Operate(ops[m + q + 1][1], s)
         IN t \in ExecState /\ DoneTo(ops, pos, m, wdata, q + 1, t)
<1>1. PICK n \in Nat : n = Len(ops) /\ ops \in Seq(Operation)
  BY DEF Transaction
<1>2. PICK r \in 1 .. k, j \in 1 .. n : r = q + 1 /\ j = m + r /\ j - 1 = m + q /\ j = m + q + 1
  <2>1. m + k <= n
    BY <1>1 DEF Loaded
  <2> QED
    BY <2>1
<1>3. PICK op \in Operation, l \in {1, 2} : op = ops[j] /\ l = Len(op) /\ op[1] \in Oc4Token
  <2>1. ops[j] \in Operation
    BY <1>1, <1>2
  <2> QED
    BY <2>1 DEF Operation, Oc4Token
<1>4. PICK ddr \in {0, 1} : ddr = s.ddr /\ InDirection(ops, j - 1, ddr)
  BY <1>2 DEF ExecState, DoneTo
<1>5. PICK t : t = Operate(op[1], s)
  OBVIOUS
<1>6. PICK rest \in Seq(Byte) : rest = s.wdata
  BY DEF ExecState
<1>7. /\ t \in ExecState /\ t.ddr = Direction(op[1], ddr)
      /\ InDirection(ops, j, t.ddr)
      /\ op[1] = OC4_I2C_TK_DATA /\ t.ddr = 0 <=> l = 2
      /\ t.ops = Append(s.ops, IF l = 2 THEN <<op[1], IF rest = <<>> THEN 0 ELSE Head(rest)>>
                               ELSE <<op[1]>>)
      /\ t.wdata = IF l = 2 /\ rest # <<>> THEN Tail(rest) ELSE rest
  <2>1. t.ddr = Direction(op[1], ddr) /\ t \in ExecState
    BY <1>3, <1>4, <1>5, OperateResult
  <2>2. InDirection(ops, j, t.ddr) /\ (op[1] = OC4_I2C_TK_DATA /\ t.ddr = 0 <=> l = 2)
    BY <1>1, <1>2, <1>3, <1>4, <2>1, DirectionKept
  <2>3. op[1] = OC4_I2C_TK_DATA /\ Direction(op[1], s.ddr) = 0 <=> l = 2
    BY <1>4, <2>1, <2>2
  <2>4. /\ t.ops = Append(s.ops, IF l = 2 THEN <<op[1], IF rest = <<>> THEN 0 ELSE Head(rest)>>
                                 ELSE <<op[1]>>)
        /\ t.wdata = IF l = 2 /\ rest # <<>> THEN Tail(rest) ELSE rest
    BY <1>3, <1>5, <1>6, <2>3, OperateResult
  <2> QED
    BY <2>1, <2>2, <2>4
<1>8. PICK w \in Nat, left \in Nat, all \in Nat :
        w = Written(pos, m, q) /\ left = Len(rest) /\ all = Len(wdata) /\ all = w + left
  BY <1>6 DEF DoneTo
<1>9. Written(pos, m, r) = w + l - 1
  <2>1. pos \in [0 .. n -> Nat] /\ pos[j] = pos[j - 1] + Len(ops[j])
    BY <1>1, <1>2 DEF Layout
  <2>2. m \in 0 .. n /\ j \in 0 .. n /\ j - 1 \in 0 .. n
    BY <1>2
  <2>3. PICK a \in Nat, b \in Nat, c \in Nat : a = pos[m] /\ b = pos[j - 1] /\ c = pos[j] /\ c = b + l
    BY <1>3, <2>1, <2>2
  <2>4. Written(pos, m, r) = pos[m + r] - pos[m] - r /\ Written(pos, m, q) = pos[m + q] - pos[m] - q
    BY Zenon DEF Written
  <2>5. Written(pos, m, r) = c - a - r /\ w = b - a - q
    BY <1>2, <1>8, <2>3, <2>4
  <2>6. PICK i \in Nat, e \in Nat : i = q /\ r = i + 1 /\ e = l
    BY <1>2
  <2>7. c = b + e /\ w = b - a - i
    BY <2>3, <2>5, <2>6
  <2>8. c - a - (i + 1) = w + e - 1
    BY <2>7
  <2>9. c - a - r = w + l - 1
    BY <2>6, <2>8
  <2> QED
    BY <2>5, <2>9
<1>10. \A i \in 1 .. left : rest[i] = wdata[w + i]
  BY <1>6, <1>8 DEF DoneTo
<1>11. l = 2 => w + 1 <= all /\ wdata[w + 1] = op[2]
  <2>1. l = 2 => w + l - 1 \in 1 .. all /\ wdata[w + l - 1] = op[2]
    BY <1>2, <1>3, <1>8, <1>9 DEF Loaded
  <2> QED
    BY <2>1
<1>12. l = 2 => left > 0 /\ rest # <<>> /\ Head(rest) = op[2] /\ Len(Tail(rest)) = left - 1
                /\ \A i \in 1 .. left - 1 : Tail(rest)[i] = rest[i + 1]
  BY <1>8, <1>10, <1>11
<1>13. t.ops = Append(s.ops, op)
  <2>1. PICK o \in Seq(Byte) : o = op /\ l = Len(o)
    BY <1>3 DEF Operation
  <2>2. (l = 2 => o = <<o[1], o[2]>>) /\ (l = 1 => o = <<o[1]>>)
    BY <2>1, ShortSeq
  <2> QED
    BY <1>7, <1>12, <2>1, <2>2
<1>14. Len(t.ops) = r /\ \A i \in 1 .. r : t.ops[i] = ops[m + i]
  <2>1. PICK R : R = Seq(Byte)
    OBVIOUS
  <2>2. PICK done \in Seq(R) : done = s.ops /\ Len(done) = q /\ \A i \in 1 .. q : done[i] = ops[m + i]
    BY <2>1 DEF DoneTo, ExecState
  <2>3. /\ Len(Append(done, op)) = q + 1 /\ Append(done, op)[q + 1] = op
        /\ \A i \in 1 .. q : Append(done, op)[i] = done[i]
    BY <2>2, SMTT(30)
  <2>4. \A i \in 1 .. r : i \in 1 .. q \/ i = q + 1
    BY <1>2
  <2> QED
    BY <1>2, <1>3, <1>13, <2>2, <2>3, <2>4, ZenonT(40)
<1>15. /\ w + l - 1 \in Nat /\ all = (w + l - 1) + Len(t.wdata)
       /\ \A i \in 1 .. Len(t.wdata) : t.wdata[i] = wdata[(w + l - 1) + i]
  <2>1. CASE l = 2
    <3>1. t.wdata = Tail(rest) /\ Len(t.wdata) = left - 1 /\ left > 0
      BY <1>7, <1>12, <2>1
    <3>2. ASSUME NEW i \in 1 .. left - 1 PROVE t.wdata[i] = wdata[w + 1 + i]
      <4>1. PICK e \in 1 .. left : e = i + 1 /\ w + e = w + 1 + i
        OBVIOUS
      <4> QED
        BY <1>10, <1>12, <2>1, <3>1, <4>1
    <3>3. w + l - 1 = w + 1
      BY <2>1
    <3> QED
      BY <1>8, <3>1, <3>2, <3>3
  <2>2. CASE l = 1
    <3>1. t.wdata = rest /\ w + l - 1 = w
      BY <1>7, <2>2
    <3> QED
      BY <1>8, <1>10, <3>1
  <2> QED
    BY <2>1, <2>2
<1>16. DoneTo(ops, pos, m, wdata, r, t)
  BY <1>2, <1>7, <1>8, <1>9, <1>14, <1>15 DEF DoneTo
<1> QED
  BY <1>2, <1>3, <1>5, <1>7, <1>16

\* A batch that is done has done just its operations, with just its write data.
LEMMA BatchDone ==
  ASSUME NEW ops, Transaction(ops), NEW m \in 0 .. Len(ops), NEW k \in Nat,
         NEW list \in Seq(Oc4Token), NEW wdata \in Seq(Byte),
         Loaded(ops, Positions(ops), m, k, list, wdata),
         NEW ddr \in {0, 1}, InDirection(ops, m, ddr)
  PROVE  LET x == Execute(list, wdata, ddr)
         IN /\ x.ops = SubSeq(ops, m + 1, m + k) /\ x.wdata = <<>>
            /\ x.ddr \in {0, 1} /\ InDirection(ops, m + k, x.ddr)
<1>1. PICK pos : pos = Positions(ops)
  OBVIOUS
<1>2. Layout(ops, Request(ops), pos) /\ Loaded(ops, pos, m, k, list, wdata)
  BY <1>1, RequestLayout DEF Transaction, Positions
<1>3. PICK n \in Nat : n = Len(ops) /\ ops \in Seq(Operation) /\ m \in 0 .. n /\ m + k <= n
  BY <1>2 DEF Transaction, Loaded
<1>4. PICK todo \in Seq(Oc4Token) : todo = Live(list) /\ Len(todo) = k /\ \A q \in 1 .. k : todo[q] = ops[m + q][1]
  <2>1. PICK i \in 0 .. Len(list) :
          /\ Live(list) \in Seq(Oc4Token \ {OC4_I2C_TK_END}) /\ Len(Live(list)) = i
          /\ \A q \in 1 .. i : Live(list)[q] = list[q] /\ list[q] # OC4_I2C_TK_END
          /\ i < Len(list) => list[i + 1] = OC4_I2C_TK_END
    BY LiveTokens
  <2>2. PICK l \in Nat : l = Len(list) /\ i \in 0 .. l /\ k <= l
    BY <1>2 DEF Loaded
  <2>3. ASSUME NEW q \in 1 .. k PROVE list[q] = ops[m + q][1] /\ list[q] # OC4_I2C_TK_END
    <3>1. m + q \in 1 .. n
      BY <1>3
    <3>2. ops[m + q] \in Operation
      BY <1>3, <3>1
    <3>3. list[q] = ops[m + q][1]
      BY <1>2 DEF Loaded
    <3> QED
      BY <3>2, <3>3 DEF Operation, OC4_I2C_TK_END
  <2>4. l > k => list[k + 1] = OC4_I2C_TK_END
    BY <1>2, <2>2 DEF Loaded
  <2>5. ~(i < k)
    <3>1. i < k => i + 1 \in 1 .. k /\ i < l
      BY <2>2
    <3> QED
      BY <2>1, <2>2, <2>3, <3>1
  <2>6. ~(i > k)
    <3>1. i > k => k + 1 \in 1 .. i /\ l > k
      BY <2>2
    <3> QED
      BY <2>1, <2>4, <3>1
  <2>7. i = k
    BY <2>2, <2>5, <2>6
  <2> QED
    BY <2>1, <2>3, <2>7, SMTT(30)
<1>5. PICK start \in ExecState : start = [ddr |-> ddr, ops |-> <<>>, wdata |-> wdata, reads |-> 0]
  <2>1. <<>> \in Seq(Seq(Byte))
    OBVIOUS
  <2> QED
    BY <2>1 DEF ExecState
<1> DEFINE G == {p \in Nat \X ExecState : DoneTo(ops, pos, m, wdata, p[1], p[2])}
<1>6. <<0, start>> \in G
  <2>1. Written(pos, m, 0) = 0
    <3>1. Written(pos, m, 0) = pos[m + 0] - pos[m] - 0
      BY Zenon DEF Written
    <3>2. pos[m] \in Nat
      <4>1. pos \in [0 .. n -> Nat]
        BY <1>2, <1>3 DEF Layout
      <4>2. m \in 0 .. n
        BY <1>3, Zenon
      <4> QED
        BY <4>1, <4>2, Zenon
    <3>3. m + 0 = m
      OBVIOUS
    <3> QED
      BY <3>1, <3>2, <3>3
  <2>2. m + 0 = m /\ Len(wdata) \in Nat
    BY <1>3
  <2>3. DoneTo(ops, pos, m, wdata, 0, start)
    BY <1>5, <2>1, <2>2 DEF DoneTo
  <2> QED
    BY <2>3
<1>7. ASSUME NEW q \in 0 .. k - 1, NEW s, <<q, s>> \in G
      PROVE  <<q + 1, Advance(todo, s)>> \in G
  <2>1. s \in ExecState /\ DoneTo(ops, pos, m, wdata, q, s) /\ q + 1 \in Nat /\ q + 1 \in 1 .. k
    BY <1>7
  <2>2. m + (q + 1) = m + q + 1
    BY <1>3
  <2>3. Advance(todo, s) = Operate(ops[m + q + 1][1], s)
    BY <1>4, <2>1, <2>2 DEF Advance, DoneTo
  <2>4. Advance(todo, s) \in ExecState /\ DoneTo(ops, pos, m, wdata, q + 1, Advance(todo, s))
    <3>1. m \in Nat
      BY <1>3
    <3>2. PICK body : Layout(ops, body, pos)
      BY <1>2
    <3> HIDE DEF G
    <3> QED
      BY <1>2, <2>1, <2>3, <3>1, <3>2, OperationDone
  <2> QED
    BY <2>1, <2>4
<1>8. PICK x : x = ExecLoop(todo, start, k)
  OBVIOUS
<1>9. x \in ExecState /\ DoneTo(ops, pos, m, wdata, k, x)
  <2>1. <<k, x>> \in G
    <3> HIDE DEF G
    <3> QED
      BY <1>6, <1>7, <1>8, ExecInduction
  <2> QED
    BY <2>1
<1>10. Execute(list, wdata, ddr) = x
  BY <1>4, <1>5, <1>8 DEF Execute, ExecLoop, Advance, Iterate
<1>11. x.wdata = <<>>
  <2>1. PICK w \in Nat, rest \in Seq(Byte) : w = Len(wdata) /\ rest = x.wdata /\ w = Written(pos, m, k)
    BY <1>2, <1>9 DEF Loaded, ExecState
  <2>2. w = w + Len(rest) /\ Len(rest) \in Nat
    BY <1>9, <2>1 DEF DoneTo
  <2> QED
    BY <2>1, <2>2
<1>12. x.ops = SubSeq(ops, m + 1, m + k)
  <2>1. PICK R : R = Seq(Byte)
    OBVIOUS
  <2>2. PICK done \in Seq(R) : done = x.ops /\ Len(done) = k /\ \A r \in 1 .. k : done[r] = ops[m + r]
    BY <1>9, <2>1 DEF DoneTo, ExecState
  <2>3. PICK all \in Seq(R) : all = ops /\ Len(all) = n
    <3>1. \A i \in 1 .. n : ops[i] \in R
      BY <1>3, <2>1 DEF Operation
    <3> QED
      BY <1>3, <3>1, RetypedSeq
  <2>4. PICK a \in Seq(R) : a = SubSeq(ops, m + 1, m + k) /\ Len(a) = k
                            /\ \A r \in 1 .. k : a[r] = ops[m + r]
    <3>1. m + k <= Len(all) /\ m \in Nat
      BY <1>3, <2>3
    <3>2. PICK a : a = SubSeq(all, m + 1, m + k)
      OBVIOUS
    <3>3. a \in Seq(R) /\ Len(a) = k /\ \A r \in 1 .. k : a[r] = all[m + r]
      BY <3>1, <3>2, NextElements
    <3> QED
      BY <2>3, <3>2, <3>3
  <2> QED
    BY <2>2, <2>3, <2>4
<1> QED
  BY <1>9, <1>10, <1>11, <1>12 DEF DoneTo, ExecState

\* The operations of a batch follow those before it.
LEMMA UpToNext ==
  ASSUME NEW ops \in Seq(Operation), NEW m \in 0 .. Len(ops), NEW k \in Nat, m + k <= Len(ops)
  PROVE  UpTo(ops, m) \o SubSeq(ops, m + 1, m + k) = UpTo(ops, m + k)
<1>1. PICK S : S = Operation
  OBVIOUS
<1>2. PICK q \in Seq(S) : q = ops
  BY <1>1
<1>3. PICK n \in Nat, j \in Nat : n = Len(q) /\ j = m + k /\ m \in 0 .. n /\ m \in Nat /\ j \in 0 .. n
  BY <1>2
<1>4. PICK a : a = UpTo(ops, m)
  OBVIOUS
<1>5. a \in Seq(S) /\ Len(a) = m /\ \A i \in 1 .. m : a[i] = q[i]
  BY <1>1, <1>2, <1>4, UpToGrows
<1>6. PICK b : b = SubSeq(ops, m + 1, m + k)
  OBVIOUS
<1>7. b \in Seq(S) /\ Len(b) = k /\ \A i \in 1 .. k : b[i] = q[m + i]
  BY <1>2, <1>3, <1>6, NextElements
<1>8. PICK c : c = UpTo(ops, j)
  OBVIOUS
<1>9. c \in Seq(S) /\ Len(c) = j /\ \A i \in 1 .. j : c[i] = q[i]
  BY <1>1, <1>2, <1>3, <1>8, UpToGrows
<1>10. PICK d : d = a \o b
  OBVIOUS
<1>11. /\ d \in Seq(S) /\ Len(d) = Len(a) + Len(b)
       /\ \A i \in 1 .. Len(a) + Len(b) : d[i] = IF i <= Len(a) THEN a[i] ELSE b[i - Len(a)]
  BY <1>5, <1>7, <1>10, ConcatProperties
<1>12. /\ Len(d) = m + k /\ \A i \in 1 .. m + k : d[i] = IF i <= m THEN a[i] ELSE b[i - m]
  BY <1>5, <1>7, <1>11
<1>13. ASSUME NEW i \in 1 .. j PROVE d[i] = c[i]
  <2>0. i \in 1 .. m + k
    BY <1>3
  <2>1. CASE i <= m
    <3>1. i \in 1 .. m
      BY <1>3, <2>1
    <3> QED
      BY <1>5, <1>9, <1>12, <2>0, <2>1, <3>1
  <2>2. CASE ~(i <= m)
    <3>1. PICK r \in 1 .. k : r = i - m /\ i = m + r
      BY <1>3, <2>2
    <3> QED
      BY <1>7, <1>9, <1>12, <2>0, <2>2, <3>1
  <2> QED
    BY <2>1, <2>2
<1>14. d = c
  BY <1>3, <1>9, <1>11, <1>12, <1>13, SeqEqual
<1> QED
  BY <1>3, <1>4, <1>6, <1>8, <1>10, <1>14

=============================================================================
