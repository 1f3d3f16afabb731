--------------------------- MODULE TransmitProofs ---------------------------
(***************************************************************************)
(* Proofs about Transmit, for every list of rules, every set of commands   *)
(* and any number of threads.                                              *)
(***************************************************************************)
EXTENDS Transmit, SequenceTheorems, WellFoundedInduction, TLAPS

\* The constants a proof needs most often.
LEMMA ByteFacts ==
  /\ MaxByte \in Nat /\ MaxByte > 1
  /\ SW61 \in Bytes /\ SW6C \in Bytes /\ SW90 \in Bytes /\ SW69 \in Bytes /\ INS_C0 \in Bytes
  /\ 0 \in Bytes /\ 1 \in Bytes
  /\ Bytes \subseteq Cells /\ Cells \subseteq Nat /\ Bytes \subseteq Nat
  /\ \A c \in Cells : c <= MaxByte + 1
  /\ \A c \in Cells : c # Uninit => c \in Bytes
  /\ Uninit \in Cells
  /\ MAX_APDU_LENGTH \in Nat /\ LE_ELEM \in Index
  /\ {0, 1, 2, 3, 4, 5} \subseteq Index
  /\ Index \subseteq Nat
<1>1. MaxByte \in Nat /\ MaxByte > 1 /\ {SW61, SW6C, SW90, SW69, INS_C0} \subseteq Bytes
  BY TransmitAssumption, Zenon
<1> QED
  BY <1>1 DEF Bytes, Cells, Uninit, Index, MAX_APDU_LENGTH, LE_ELEM

\* A function keeps its type when one value is replaced.
LEMMA Updated ==
  ASSUME NEW S, NEW T, NEW f \in [S -> T], NEW x \in S, NEW v \in T
  PROVE  /\ [f EXCEPT ![x] = v] \in [S -> T]
         /\ [f EXCEPT ![x] = v][x] = v
         /\ \A y \in S \ {x} : [f EXCEPT ![x] = v][y] = f[y]
  OBVIOUS

\* A command the application may send.
LEMMA CommandFacts ==
  ASSUME NEW c \in Commands
  PROVE  /\ c \in Apdus
         /\ c.len \in Nat /\ c.len >= 4 /\ c.len < MAX_APDU_LENGTH
         /\ c.b \in Buffers
         /\ \A e \in Index : c.b[e] \in Bytes
<1>1. c \in Apdus /\ c.len >= 4 /\ c.len < MAX_APDU_LENGTH /\ \A e \in Index : c.b[e] \in Bytes
  BY TransmitAssumption, Zenon
<1> QED
  BY <1>1 DEF Apdus

\* What the type of rulesList says of one action.
LEMMA RuleFacts ==
  ASSUME NEW r \in DOMAIN Rules, NEW a \in DOMAIN Rules[r].actionRules
  PROVE  /\ r \in 1 .. Len(Rules) /\ Len(Rules) \in Nat
         /\ a \in 1 .. Len(Rules[r].actionRules) /\ Len(Rules[r].actionRules) \in Nat
         /\ Rules[r].actionRules[a].value \in Bytes
<1>1. Rules \in Seq(RuleRecords)
  BY TransmitAssumption, Zenon
<1>2. r \in 1 .. Len(Rules) /\ Len(Rules) \in Nat /\ Rules[r] \in RuleRecords
  BY <1>1
<1>3. Rules[r].actionRules \in Seq(ActionRules)
  BY <1>2 DEF RuleRecords
<1>4. a \in 1 .. Len(Rules[r].actionRules) /\ Len(Rules[r].actionRules) \in Nat
      /\ Rules[r].actionRules[a] \in ActionRules
  BY <1>3
<1> QED
  BY <1>2, <1>4 DEF ActionRules

\* A bounded, nonempty set of natural numbers has a largest member.
LEMMA LargestExists ==
  ASSUME NEW V, V \subseteq Nat, V # {}, NEW N \in Nat, \A v \in V : v <= N
  PROVE  \E m \in V : \A v \in V : v <= m
<1> DEFINE T == {n \in Nat : \A v \in V : v <= n}
<1>1. T \subseteq Nat /\ T # {}
  OBVIOUS
<1>2. \E x \in T : \A y \in T : ~(<<y, x>> \in OpToRel(<, Nat))
  BY <1>1, NatLessThanWellFounded, WFMin, Zenon
<1>3. PICK x \in T : \A y \in T : ~(<<y, x>> \in OpToRel(<, Nat))
  BY <1>2
<1>4. \A y \in T : ~(y < x)
  BY <1>3 DEF OpToRel
<1>5. CASE x \in V
  BY <1>5
<1>6. CASE x \notin V
  <2>1. \A v \in V : v < x
    BY <1>6
  <2>2. x # 0
    <3>1. PICK v \in V : TRUE
      OBVIOUS
    <3> QED
      BY <2>1, <3>1
  <2>3. x - 1 \in T
    BY <2>1, <2>2
  <2> QED
    BY <2>3, <1>4
<1> QED
  BY <1>5, <1>6

\* The last writer of an element exists: its value is one a rule gave.
LEMMA LastWrittenFacts ==
  ASSUME NEW hits \in SUBSET DOMAIN Rules, NEW e, Writers(hits, e) # {}
  PROVE  /\ LastWritten(hits, e) \in GivenBy(hits, e)
         /\ LastWritten(hits, e) \in Bytes
<1> DEFINE W  == Writers(hits, e)
           V1 == {w[1] : w \in W}
<1>0. \A w \in W : /\ w = <<w[1], w[2]>>
                   /\ w[1] \in DOMAIN Rules /\ w[2] \in DOMAIN Rules[w[1]].actionRules
  BY DEF Writers
<1>1. \A w \in W : /\ w[1] \in Nat /\ w[1] <= Len(Rules) /\ Len(Rules) \in Nat
                   /\ w[2] \in Nat /\ w[2] <= Len(Rules[w[1]].actionRules)
                   /\ Len(Rules[w[1]].actionRules) \in Nat
                   /\ Rules[w[1]].actionRules[w[2]].value \in Bytes
  BY <1>0, RuleFacts
<1> HIDE DEF W
<1>2. W # {}
  BY DEF W
<1>3. PICK m1 \in V1 : \A v \in V1 : v <= m1
  <2>1. V1 \subseteq Nat /\ V1 # {} /\ Len(Rules) \in Nat /\ \A v \in V1 : v <= Len(Rules)
    BY <1>1, <1>2
  <2> HIDE DEF V1
  <2> QED
    BY <2>1, LargestExists
<1> DEFINE V2 == {w[2] : w \in {u \in W : u[1] = m1}}
<1>4. V2 \subseteq Nat /\ V2 # {}
  BY <1>1, <1>3
<1>5. Len(Rules[m1].actionRules) \in Nat /\ \A v \in V2 : v <= Len(Rules[m1].actionRules)
  BY <1>1, <1>3
<1>6. PICK m2 \in V2 : \A v \in V2 : v <= m2
  <2> HIDE DEF V2
  <2> QED BY <1>4, <1>5, LargestExists
<1>7. PICK w \in W : w[1] = m1 /\ w[2] = m2
  BY <1>6
<1>8. \A v \in W : v[1] < w[1] \/ (v[1] = w[1] /\ v[2] <= w[2])
  <2> SUFFICES ASSUME NEW v \in W
               PROVE  v[1] < w[1] \/ (v[1] = w[1] /\ v[2] <= w[2])
    OBVIOUS
  <2>1. v[1] \in V1 /\ v[1] \in Nat /\ m1 \in Nat
    BY <1>1, <1>3
  <2>2. v[1] <= m1
    BY <2>1, <1>3
  <2>3. v[1] = m1 => v[2] \in V2
    OBVIOUS
  <2> HIDE DEF V1, V2
  <2> QED
    BY <2>1, <2>2, <2>3, <1>6, <1>7
<1> DEFINE z == CHOOSE x \in W : \A v \in W : v[1] < x[1] \/ (v[1] = x[1] /\ v[2] <= x[2])
<1>9. z \in W
  BY <1>7, <1>8, Zenon
<1>10. LastWritten(hits, e) = Rules[z[1]].actionRules[z[2]].value
  BY DEF LastWritten, W
<1> HIDE DEF z
<1>11. LastWritten(hits, e) \in GivenBy(hits, e)
  BY <1>9, <1>10 DEF GivenBy, W
<1> QED
  BY <1>1, <1>9, <1>10, <1>11

\* No rule, no writer.
LEMMA NoHits == \A e : Writers({}, e) = {} /\ GivenBy({}, e) = {}
  BY DEF Writers, GivenBy

\* ApplyRules yields a buffer of defined extent.
LEMMA ApplyRulesType ==
  ASSUME NEW hits \in SUBSET DOMAIN Rules, NEW d \in Directions,
         NEW b \in Buffers, NEW n \in Nat, NEW lc \in Bytes
  PROVE  /\ ApplyRules(hits, d, b, n, lc) \in Apdus
         /\ ApplyRules(hits, d, b, n, lc).b \in Buffers
         /\ ApplyRules(hits, d, b, n, lc).len \in Nat
<1>1. NewLength(hits, d, n, lc) \in Nat
  <2>1. Writers(hits, LE_ELEM) # {} => LastWritten(hits, LE_ELEM) \in Nat
    BY LastWrittenFacts, ByteFacts
  <2>2. lc + OFFSET_CDATA \in Nat
    BY ByteFacts DEF OFFSET_CDATA
  <2> QED
    BY <2>1, <2>2 DEF NewLength
<1>2. \A e \in Index : NewBuffer(hits, b, n)[e] \in Cells
  <2> TAKE e \in Index
  <2>1. b[e] \in Cells
    BY DEF Buffers
  <2>2. Writers(hits, e) # {} => LastWritten(hits, e) \in Cells
    BY LastWrittenFacts, ByteFacts
  <2> QED
    BY <2>1, <2>2, ByteFacts DEF NewBuffer
<1> DEFINE L  == NewLength(hits, d, n, lc)
           NB == NewBuffer(hits, b, n)
           B  == [e \in Index |-> IF e < L THEN NB[e] ELSE b[e]]
<1>3. ApplyRules(hits, d, b, n, lc) = [b |-> B, len |-> L]
  BY DEF ApplyRules
<1>4. L \in Nat /\ \A e \in Index : NB[e] \in Cells
  BY <1>1, <1>2
<1> HIDE DEF L, NB
<1>5. B \in Buffers
  BY <1>4 DEF Buffers
<1> HIDE DEF B
<1> QED
  BY <1>3, <1>4, <1>5 DEF Apdus

\* What ApplyRules does to a command: the relation the property is about.
Derived(c, b, n, hits) ==
  hits = {} \/ SelfSized(c) =>
    /\ n = c.len
    /\ \A e \in Index : e < n => b[e] = c.b[e] \/ b[e] \in GivenBy(hits, e)

\* The local copy of a command, before the rules.
Copied(c, b, n) ==
  n = c.len /\ \A e \in Index : b[e] = IF e < c.len THEN c.b[e] ELSE Uninit

\* Incoming rules derive the command from the application's.
LEMMA ApplyRulesDerives ==
  ASSUME NEW c \in Commands, NEW b \in Buffers, NEW n \in Nat, Copied(c, b, n),
         NEW hits \in SUBSET DOMAIN Rules, NEW lc \in Bytes, b[4] # Uninit => lc = b[4]
  PROVE  Derived(c, ApplyRules(hits, "INPUT_APDU", b, n, lc).b,
                    ApplyRules(hits, "INPUT_APDU", b, n, lc).len, hits)
<1> DEFINE L  == NewLength(hits, "INPUT_APDU", n, lc)
           NB == NewBuffer(hits, b, n)
           B  == [e \in Index |-> IF e < L THEN NB[e] ELSE b[e]]
<1>1. ApplyRules(hits, "INPUT_APDU", b, n, lc) = [b |-> B, len |-> L]
  BY DEF ApplyRules
<1>2. hits = {} => L = c.len
  BY NoHits DEF NewLength, Copied
<1>3. hits # {} /\ SelfSized(c) => L = c.len
  <2> SUFFICES ASSUME hits # {}, SelfSized(c) PROVE L = c.len
    OBVIOUS
  <2>1. 4 \in Index /\ c.len \in Nat /\ c.b[4] \in Bytes
    BY CommandFacts, ByteFacts
  <2>2. c.len >= 5 /\ c.len = c.b[4] + 5
    BY DEF SelfSized, OFFSET_CDATA
  <2>3. b[4] = c.b[4]
    BY <2>1, <2>2 DEF Copied
  <2>4. b[4] # Uninit
    BY <2>1, <2>3, ByteFacts DEF Bytes, Uninit
  <2> QED
    BY <2>2, <2>3, <2>4 DEF NewLength, OFFSET_CDATA
<1>4. \A e \in Index : e < c.len => NB[e] = c.b[e] \/ NB[e] \in GivenBy(hits, e)
  BY LastWrittenFacts DEF NewBuffer, Copied
<1> HIDE DEF L, NB
<1>5. hits = {} \/ SelfSized(c) =>
        \A e \in Index : e < L => B[e] = c.b[e] \/ B[e] \in GivenBy(hits, e)
  BY <1>2, <1>3, <1>4
<1> HIDE DEF B
<1> QED
  BY <1>1, <1>2, <1>3, <1>5 DEF Derived

-----------------------------------------------------------------------------
(* The inductive invariant *)

\* The loop looks inside the buffer: its index comes from a length that fits.
ReadoutInv ==
  \A t \in Threads : pc[t] = "readout" =>
    /\ pcbRecvLength[t] <= MaxByte + 3
    /\ recvOffset[t] \in Index => pcbRecvLength[t] >= 2

\* What the local buffer holds until the command is sent.
CallInv ==
  \A t \in Threads :
    /\ pc[t] # "idle" => apdu[t] \in Commands
    /\ pc[t] = "rulesIn" => Copied(apdu[t], sendBuffer[t], cbSendLength[t])
    /\ pc[t] = "send" => Derived(apdu[t], sendBuffer[t], cbSendLength[t], inHits[t])

TransmitInv == TypeOK /\ ReadoutInv /\ CallInv /\ OnlyRulesChange /\ FailureIsEmpty

\* The initial states satisfy it.
LEMMA InitInv == Init => TransmitInv
<1> SUFFICES ASSUME Init PROVE TransmitInv
  OBVIOUS
<1>1. Zeros \in Buffers /\ NoApdu \in Apdus
  <2>1. Zeros \in Buffers
    BY ByteFacts DEF Zeros, Buffers
  <2> QED
    BY <2>1 DEF NoApdu, Apdus
<1>2. config \in Options
  <2>1. Configs \subseteq Options
    BY TransmitAssumption, Zenon
  <2> QED
    BY <2>1 DEF Init
<1>3. <<>> \in HeldData
  BY ByteFacts DEF HeldData
<1>4. TypeOK
  BY <1>1, <1>2, <1>3 DEF Init, TypeOK, PCs, Statuses
<1>5. ReadoutInv /\ CallInv /\ OnlyRulesChange /\ FailureIsEmpty
  BY DEF Init, ReadoutInv, CallInv, OnlyRulesChange, FailureIsEmpty
<1> QED
  BY <1>4, <1>5 DEF TransmitInv

\* The matching rules are rules.
LEMMA MatchingType ==
  \A d, stray : MatchingRules(d, stray) \in SUBSET DOMAIN Rules
  BY DEF MatchingRules

\* A card delivers no more than it holds.
LEMMA DeliveredLength ==
  ASSUME NEW k \in Nat, NEW held \in Nat, NEW asked \in Nat
  PROVE  Least(k, IF asked = 0 THEN held ELSE Least(held, asked)) \in 0 .. held
  BY DEF Least

\* A card's answer is a short sequence of bytes.
LEMMA AnswerFacts ==
  ASSUME TypeOK, NEW t \in Threads, NEW b \in Buffers, NEW answer \in CardAnswers(t, b)
  PROVE  /\ answer.bytes \in Seq(Bytes) /\ Len(answer.bytes) \in 2 .. MaxByte + 2
         /\ answer.held \in HeldData
         /\ answer.data \in Seq(Bytes)
<1> USE ByteFacts
<1>1. \A d \in Datas : d \in HeldData /\ d \in Seq(Bytes) /\ Len(d) \in 0 .. MaxByte
  <2>1. \A d \in Datas : d \in Seq(Bytes) /\ Len(d) <= MaxByte
    BY TransmitAssumption, Zenon
  <2> QED
    BY <2>1 DEF HeldData
<1>2. <<>> \in HeldData /\ <<>> \in Seq(Bytes) /\ <<SW90, 0>> \in Seq(Bytes)
      /\ Len(<<SW90, 0>>) = 2 /\ <<SW69, 0>> \in Seq(Bytes) /\ Len(<<SW69, 0>>) = 2
  BY DEF HeldData
<1>3. CASE answer \in Execution
  <2>1. CASE \E d \in Datas : answer = [bytes |-> d \o <<SW90, 0>>, held |-> <<>>, data |-> d]
    <3>1. PICK d \in Datas : answer = [bytes |-> d \o <<SW90, 0>>, held |-> <<>>, data |-> d]
      BY <2>1
    <3>2. d \o <<SW90, 0>> \in Seq(Bytes) /\ Len(d \o <<SW90, 0>>) = Len(d) + 2
      BY <1>1, <1>2
    <3> QED
      BY <1>1, <1>2, <3>1, <3>2
  <2>2. CASE \E sw \in Announcing, d \in Datas \ {<<>>} :
               answer = [bytes |-> <<sw, Len(d)>>, held |-> d, data |-> d]
    <3>1. PICK sw \in Announcing, d \in Datas \ {<<>>} :
               answer = [bytes |-> <<sw, Len(d)>>, held |-> d, data |-> d]
      BY <2>2
    <3>2. sw \in Bytes /\ Len(d) \in Bytes
      BY <1>1, <3>1 DEF Announcing, Bytes
    <3>3. <<sw, Len(d)>> \in Seq(Bytes) /\ Len(<<sw, Len(d)>>) = 2
      BY <3>2
    <3> QED
      BY <1>1, <3>1, <3>3
  <2>3. \/ \E d \in Datas : answer = [bytes |-> d \o <<SW90, 0>>, held |-> <<>>, data |-> d]
        \/ \E sw \in Announcing, d \in Datas \ {<<>>} :
               answer = [bytes |-> <<sw, Len(d)>>, held |-> d, data |-> d]
    <3> DEFINE done == {[bytes |-> d \o <<SW90, 0>>, held |-> <<>>, data |-> d] : d \in Datas}
               more == {[bytes |-> <<sw, Len(d)>>, held |-> d, data |-> d] :
                          sw \in Announcing, d \in Datas \ {<<>>}}
    <3>1. Execution = done \cup more
      BY DEF Execution
    <3>2. answer \in done => \E d \in Datas : answer = [bytes |-> d \o <<SW90, 0>>, held |-> <<>>, data |-> d]
      OBVIOUS
    <3>3. answer \in more => \E sw \in Announcing, d \in Datas \ {<<>>} :
               answer = [bytes |-> <<sw, Len(d)>>, held |-> d, data |-> d]
      OBVIOUS
    <3> HIDE DEF done, more
    <3>4. answer \in done \/ answer \in more
      BY <1>3, <3>1
    <3> QED
      BY <3>2, <3>3, <3>4
  <2> QED
    BY <2>1, <2>2, <2>3, Zenon
<1>4. CASE answer = Delivery(pending[t], b[4])
  <2> DEFINE held == pending[t]
             n    == Least(Chunk, IF b[4] = 0 THEN Len(held) ELSE Least(Len(held), b[4]))
             rest == SubSeq(held, n + 1, Len(held))
             front == SubSeq(held, 1, n)
             tail == IF rest = <<>> THEN <<SW90, 0>> ELSE <<SW61, Len(rest)>>
             bytes == IF held = <<>> THEN <<SW69, 0>> ELSE front \o tail
  <2>1. held \in Seq(Bytes) /\ Len(held) \in Nat /\ Len(held) <= MaxByte
    BY DEF TypeOK, HeldData
  <2>2. Chunk \in Nat /\ b[4] \in Nat
    <3>1. Chunk \in Nat \ {0}
      BY TransmitAssumption, Zenon
    <3>2. b[4] \in Cells
      BY DEF Buffers
    <3> QED
      BY <3>1, <3>2
  <2>3. n \in 0 .. Len(held)
    BY <2>1, <2>2, DeliveredLength
  <2>4. answer = [bytes |-> bytes, held |-> rest, data |-> <<>>]
    BY <1>4 DEF Delivery
  <2> HIDE DEF n, held
  <2>5. rest \in Seq(Bytes) /\ Len(rest) = Len(held) - n
        /\ front \in Seq(Bytes) /\ Len(front) = n
    <3>1. rest \in Seq(Bytes) /\ Len(rest) = Len(held) - n
      BY <2>1, <2>3
    <3>2. front \in Seq(Bytes) /\ Len(front) = n
      BY <2>1, <2>3
    <3> QED
      BY <3>1, <3>2
  <2> HIDE DEF rest, front
  <2>6. tail \in Seq(Bytes) /\ Len(tail) = 2
    <3>1. Len(rest) \in Bytes
      BY <2>1, <2>3, <2>5 DEF Bytes
    <3> QED
      BY <3>1, <1>2
  <2> HIDE DEF tail
  <2>7. bytes \in Seq(Bytes) /\ Len(bytes) \in 2 .. MaxByte + 2
    <3>1. front \o tail \in Seq(Bytes) /\ Len(front \o tail) = n + 2
      <4>1. front \in Seq(Bytes) /\ tail \in Seq(Bytes)
        BY <2>5, <2>6
      <4>2. front \o tail \in Seq(Bytes) /\ Len(front \o tail) = Len(front) + Len(tail)
        BY <4>1, ConcatProperties, Zenon
      <4> QED
        BY <2>5, <2>6, <4>2
    <3>2. n + 2 \in 2 .. MaxByte + 2 /\ 2 \in 2 .. MaxByte + 2
      BY <2>1, <2>3
    <3> QED
      <4>1. CASE held = <<>>
        BY <1>2, <3>2, <4>1
      <4>2. CASE held # <<>>
        BY <3>1, <3>2, <4>2
      <4> QED
        BY <4>1, <4>2
  <2> HIDE DEF bytes
  <2>8. rest \in HeldData
    BY <2>1, <2>3, <2>5 DEF HeldData
  <2> QED
    BY <1>2, <2>4, <2>7, <2>8
<1> QED
  BY <1>3, <1>4 DEF CardAnswers

\* Writing a response leaves a buffer.
LEMMA WrittenType ==
  ASSUME NEW b \in Buffers, NEW o \in Nat, NEW bytes \in Seq(Bytes)
  PROVE  Written(b, o, bytes) \in Buffers
<1> SUFFICES ASSUME NEW e \in Index
             PROVE  (IF o <= e /\ e < o + Len(bytes) THEN bytes[e - o + 1] ELSE b[e]) \in Cells
  BY DEF Written, Buffers
<1>1. CASE o <= e /\ e < o + Len(bytes)
  <2>1. e - o + 1 \in 1 .. Len(bytes)
    BY <1>1, ByteFacts
  <2>2. bytes[e - o + 1] \in Bytes
    BY <2>1, ElementOfSeq
  <2> QED
    BY <1>1, <2>2, ByteFacts
<1> QED
  BY <1>1, ByteFacts DEF Buffers

\* So does filling with zeros.
LEMMA ZeroFilledType ==
  ASSUME NEW b \in Buffers, NEW n \in Nat
  PROVE  ZeroFilled(b, n) \in Buffers
  BY ByteFacts DEF ZeroFilled, Buffers

-----------------------------------------------------------------------------
(* One lemma per action *)

\* A step that leaves a thread's variables alone leaves what the invariant says of it.
Kept(u) ==
  /\ pc'[u] = pc[u] /\ via'[u] = via[u] /\ apdu'[u] = apdu[u]
  /\ sendBuffer'[u] = sendBuffer[u] /\ cbSendLength'[u] = cbSendLength[u]
  /\ pcbRecvLength'[u] = pcbRecvLength[u] /\ recvOffset'[u] = recvOffset[u]
  /\ result'[u] = result[u] /\ sent'[u] = sent[u]
  /\ inHits'[u] = inHits[u] /\ outHits'[u] = outHits[u]

\* What the invariant says of one thread.
ReadoutOf(t) == pc[t] = "readout" =>
  /\ pcbRecvLength[t] <= MaxByte + 3
  /\ recvOffset[t] \in Index => pcbRecvLength[t] >= 2

CallOf(t) ==
  /\ pc[t] # "idle" => apdu[t] \in Commands
  /\ pc[t] = "rulesIn" => Copied(apdu[t], sendBuffer[t], cbSendLength[t])
  /\ pc[t] = "send" => Derived(apdu[t], sendBuffer[t], cbSendLength[t], inHits[t])

Unaltered(c, s, hits, padded) ==
  hits = {} \/ SelfSized(c) =>
    /\ s.len \in {c.len} \cup (IF padded THEN {c.len + 1} ELSE {})
    /\ \A e \in Index : e < s.len =>
         \/ e < c.len /\ s.b[e] = c.b[e]
         \/ s.b[e] \in GivenBy(hits, e)
         \/ padded /\ e \in {4, 5}

SentOf(t) == pc[t] \in {"readout", "receive", "rulesOut"} =>
  Unaltered(apdu[t], sent[t], inHits[t], config.force /\ via[t] = "original")

FailureOf(t) == result[t] # "SUCCESS" =>
  /\ pc[t] = "rulesOut" => pcbRecvLength[t] = 0
  /\ pc[t] = "idle" => pcbRecvLength[t] \in {0} \cup GivenBy(outHits[t], LE_ELEM)

OfThread(t) == ReadoutOf(t) /\ CallOf(t) /\ SentOf(t) /\ FailureOf(t)

\* The invariant is its parts for every thread.
LEMMA InvByThread == TransmitInv <=> TypeOK /\ \A t \in Threads : OfThread(t)
  BY Zenon DEF TransmitInv, ReadoutInv, CallInv, OnlyRulesChange, FailureIsEmpty, OfThread,
     ReadoutOf, CallOf, SentOf, Unaltered, FailureOf

\* The same of the next state.
LEMMA InvByThreadNext == TypeOK' /\ (\A t \in Threads : OfThread(t)') => TransmitInv'
  BY Zenon DEF TransmitInv, ReadoutInv, CallInv, OnlyRulesChange, FailureIsEmpty, OfThread,
     ReadoutOf, CallOf, SentOf, Unaltered, FailureOf

\* A thread that is left alone keeps its part.
LEMMA KeptOf ==
  ASSUME NEW u \in Threads, OfThread(u), Kept(u), config' = config
  PROVE  OfThread(u)'
  BY DEF OfThread, ReadoutOf, CallOf, SentOf, FailureOf, Kept

\* The invariant after a step of thread t that keeps the others.
LEMMA StepOf ==
  ASSUME NEW t \in Threads, TransmitInv, TypeOK', OfThread(t)', config' = config,
         \A u \in Threads \ {t} : Kept(u)
  PROVE  TransmitInv'
<1>1. \A u \in Threads : OfThread(u)'
  BY InvByThread, KeptOf
<1> QED
  BY <1>1, InvByThreadNext

\* SCardTransmit enters with a copy of the command.
LEMMA SCardTransmitInv ==
  ASSUME TransmitInv, NEW t \in Threads, NEW c \in Commands,
         NEW side \in {"original", "proxy"}, SCardTransmit(t, c, side)
  PROVE  TransmitInv'
<1> DEFINE B == [e \in Index |-> IF e < c.len THEN c.b[e] ELSE Uninit]
<1>0. TypeOK /\ c \in Apdus /\ c.len \in Nat /\ c.b \in Buffers
  BY CommandFacts DEF TransmitInv
<1>1. B \in Buffers
  BY <1>0, ByteFacts DEF Buffers
<1>2. ZeroFilled(c.b, c.len) \in Buffers
  BY <1>0, ZeroFilledType
<1>3. apduInList' \in Seq(Buffers)
  BY <1>0, <1>2 DEF TypeOK, SCardTransmit, SaveIncoming
<1>4. TypeOK'
  <2> HIDE DEF B
  <2>1. sendBuffer' = [sendBuffer EXCEPT ![t] = B]
    BY DEF SCardTransmit, B
  <2>2. /\ pc' \in [Threads -> PCs] /\ via' \in [Threads -> {"original", "proxy"}]
        /\ result' \in [Threads -> Statuses]
    BY <1>0 DEF TypeOK, SCardTransmit, Step, PCs, Statuses
  <2>3. /\ apdu' \in [Threads -> Apdus] /\ sendBuffer' \in [Threads -> Buffers]
        /\ cbSendLength' \in [Threads -> Nat] /\ pcbRecvLength' \in [Threads -> Nat]
    <3>1. apdu' = [apdu EXCEPT ![t] = c] /\ cbSendLength' = [cbSendLength EXCEPT ![t] = c.len]
          /\ pcbRecvLength' = [pcbRecvLength EXCEPT ![t] = MAX_APDU_LENGTH]
      BY DEF SCardTransmit
    <3>2. apdu \in [Threads -> Apdus] /\ sendBuffer \in [Threads -> Buffers]
          /\ cbSendLength \in [Threads -> Nat] /\ pcbRecvLength \in [Threads -> Nat]
      BY <1>0 DEF TypeOK
    <3> QED
      BY <1>0, <1>1, <2>1, <3>1, <3>2, Updated, ByteFacts, Zenon
  <2>4. /\ inHits' \in [Threads -> SUBSET DOMAIN Rules]
        /\ outHits' \in [Threads -> SUBSET DOMAIN Rules]
    BY <1>0 DEF TypeOK, SCardTransmit
  <2> QED
    BY <1>0, <1>3, <2>2, <2>3, <2>4 DEF TypeOK, SCardTransmit
<1>5. Copied(c, B, c.len)
  BY DEF Copied
<1> HIDE DEF B
<1>6. /\ pc'[t] = "rulesIn" /\ apdu'[t] = c /\ sendBuffer'[t] = B /\ cbSendLength'[t] = c.len
      /\ \A u \in Threads \ {t} : Kept(u)
      /\ config' = config
  BY <1>0 DEF TypeOK, SCardTransmit, Step, Kept, B
<1>7. OfThread(t)'
  BY <1>5, <1>6 DEF OfThread, ReadoutOf, CallOf, SentOf, FailureOf
<1> QED
  BY <1>4, <1>6, <1>7, StepOf

\* The incoming rules derive what is sent.
LEMMA IncomingInv ==
  ASSUME TransmitInv, NEW t \in Threads, ApplyIncomingRules(t)
  PROVE  TransmitInv'
<1>0. TypeOK /\ OfThread(t) /\ pc[t] = "rulesIn"
  BY InvByThread DEF ApplyIncomingRules, Step
<1>1. apdu[t] \in Commands /\ Copied(apdu[t], sendBuffer[t], cbSendLength[t])
      /\ sendBuffer[t] \in Buffers /\ cbSendLength[t] \in Nat
  BY <1>0 DEF OfThread, CallOf, TypeOK
<1>2. PICK stray \in Strays, lc \in LcValues(t) :
       LET hits  == IF config.modify THEN MatchingRules("INPUT_APDU", stray) ELSE {}
           after == ApplyRules(hits, "INPUT_APDU", sendBuffer[t], cbSendLength[t], lc)
       IN  /\ sendBuffer' = [sendBuffer EXCEPT ![t] = after.b]
           /\ cbSendLength' = [cbSendLength EXCEPT ![t] = after.len]
           /\ inHits' = [inHits EXCEPT ![t] = hits]
           /\ m_processedApduByteCounter' = m_processedApduByteCounter + after.len
  BY DEF ApplyIncomingRules
<1> DEFINE hits  == IF config.modify THEN MatchingRules("INPUT_APDU", stray) ELSE {}
           after == ApplyRules(hits, "INPUT_APDU", sendBuffer[t], cbSendLength[t], lc)
<1>3. hits \in SUBSET DOMAIN Rules
  BY MatchingType
<1>4. lc \in Bytes /\ (sendBuffer[t][4] # Uninit => lc = sendBuffer[t][4])
  <2>1. sendBuffer[t][4] \in Cells
    BY <1>1, ByteFacts DEF Buffers
  <2> QED
    BY <1>2, <2>1, ByteFacts DEF LcValues
<1>5. /\ sendBuffer' = [sendBuffer EXCEPT ![t] = after.b]
      /\ cbSendLength' = [cbSendLength EXCEPT ![t] = after.len]
      /\ inHits' = [inHits EXCEPT ![t] = hits]
      /\ m_processedApduByteCounter' = m_processedApduByteCounter + after.len
  BY <1>2
<1> HIDE DEF hits
<1>6. after.b \in Buffers /\ after.len \in Nat
  BY <1>1, <1>3, <1>4, ApplyRulesType DEF Directions
<1>7. Derived(apdu[t], after.b, after.len, hits)
  BY <1>1, <1>3, <1>4, ApplyRulesDerives
<1> HIDE DEF after
<1>8. TypeOK'
  <2>1. /\ pc' \in [Threads -> PCs] /\ sendBuffer' \in [Threads -> Buffers]
        /\ cbSendLength' \in [Threads -> Nat] /\ m_processedApduByteCounter' \in Nat
        /\ inHits' \in [Threads -> SUBSET DOMAIN Rules]
    <3>1. pc' = [pc EXCEPT ![t] = "send"] /\ "send" \in PCs
      BY DEF ApplyIncomingRules, Step, PCs
    <3>2. pc' \in [Threads -> PCs]
      BY <1>0, <3>1 DEF TypeOK
    <3>3. /\ sendBuffer' \in [Threads -> Buffers] /\ cbSendLength' \in [Threads -> Nat]
          /\ inHits' \in [Threads -> SUBSET DOMAIN Rules]
      BY <1>0, <1>3, <1>5, <1>6 DEF TypeOK
    <3>4. m_processedApduByteCounter' \in Nat
      BY <1>0, <1>5, <1>6 DEF TypeOK
    <3> QED
      BY <3>2, <3>3, <3>4
  <2> QED
    BY <1>0, <2>1 DEF TypeOK, ApplyIncomingRules
<1>9. /\ pc'[t] = "send" /\ apdu'[t] = apdu[t] /\ sendBuffer'[t] = after.b
      /\ cbSendLength'[t] = after.len /\ inHits'[t] = hits
      /\ \A u \in Threads \ {t} : Kept(u)
      /\ config' = config
  BY <1>0, <1>5 DEF TypeOK, ApplyIncomingRules, Step, Kept
<1>10. OfThread(t)'
  BY <1>1, <1>7, <1>9 DEF OfThread, ReadoutOf, CallOf, SentOf, FailureOf
<1> QED
  BY <1>8, <1>9, <1>10, StepOf

\* The exchange: types of what it leaves.
LEMMA AnsweredFacts ==
  ASSUME TypeOK, NEW t \in Threads, NEW b \in Buffers, NEW o \in Nat,
         NEW answer \in CardAnswers(t, b), Answered(t, o, answer)
  PROVE  /\ pbRecvBuffer' \in [Threads -> Buffers]
         /\ pcbRecvLength' \in [Threads -> Nat]
         /\ result' \in [Threads -> Statuses]
         /\ pending' \in [Threads -> HeldData]
         /\ pcbRecvLength'[t] \in 2 .. MaxByte + 2
         /\ result'[t] = "SUCCESS"
         /\ \A u \in Threads \ {t} : pcbRecvLength'[u] = pcbRecvLength[u] /\ result'[u] = result[u]
<1> DEFINE B == Written(pbRecvBuffer[t], o, answer.bytes)
<1>1. /\ answer.bytes \in Seq(Bytes) /\ Len(answer.bytes) \in 2 .. MaxByte + 2
      /\ answer.held \in HeldData
  BY AnswerFacts
<1>2. B \in Buffers
  BY <1>1, WrittenType DEF TypeOK
<1>3. pbRecvBuffer' = [pbRecvBuffer EXCEPT ![t] = B]
  BY DEF Answered, TypeOK
<1> HIDE DEF B
<1>4. /\ pcbRecvLength' = [pcbRecvLength EXCEPT ![t] = Len(answer.bytes)]
      /\ result' = [result EXCEPT ![t] = "SUCCESS"]
      /\ pending' = [pending EXCEPT ![t] = answer.held]
  BY DEF Answered
<1>5. /\ pbRecvBuffer \in [Threads -> Buffers] /\ pcbRecvLength \in [Threads -> Nat]
      /\ result \in [Threads -> Statuses] /\ pending \in [Threads -> HeldData]
      /\ Len(answer.bytes) \in Nat /\ "SUCCESS" \in Statuses
  <2>1. Len(answer.bytes) \in Nat
    BY <1>1, ByteFacts
  <2>2. "SUCCESS" \in Statuses
    BY DEF Statuses
  <2> QED
    BY <2>1, <2>2 DEF TypeOK
<1>6. pbRecvBuffer' \in [Threads -> Buffers] /\ pending' \in [Threads -> HeldData]
  <2>1. pbRecvBuffer' \in [Threads -> Buffers]
    BY <1>2, <1>3, <1>5
  <2>2. pending' \in [Threads -> HeldData]
    BY <1>1, <1>4, <1>5
  <2> QED
    BY <2>1, <2>2
<1>7. /\ result' \in [Threads -> Statuses] /\ result'[t] = "SUCCESS"
      /\ \A u \in Threads \ {t} : result'[u] = result[u]
  BY <1>4, <1>5
<1>8. /\ pcbRecvLength' \in [Threads -> Nat] /\ pcbRecvLength'[t] = Len(answer.bytes)
      /\ \A u \in Threads \ {t} : pcbRecvLength'[u] = pcbRecvLength[u]
  BY <1>4, <1>5
<1> QED
  BY <1>1, <1>6, <1>7, <1>8

LEMMA UnansweredFacts ==
  ASSUME TypeOK, NEW t \in Threads, NEW n \in Nat, Unanswered(t, n)
  PROVE  /\ pbRecvBuffer' \in [Threads -> Buffers]
         /\ pcbRecvLength' \in [Threads -> Nat]
         /\ result' \in [Threads -> Statuses]
         /\ pending' \in [Threads -> HeldData]
         /\ pcbRecvLength'[t] \in {0, n}
         /\ \A u \in Threads \ {t} : pcbRecvLength'[u] = pcbRecvLength[u] /\ result'[u] = result[u]
<1>1. PICK failure \in IF via[t] = "original"
                       THEN {[status |-> "SCARD_ERROR", len |-> n]}
                       ELSE {[status |-> "STAT_SCARD_ERROR", len |-> n],
                             [status |-> "STAT_DATA_INCORRECT_LENGTH", len |-> 0]} :
        /\ pcbRecvLength' = [pcbRecvLength EXCEPT ![t] = failure.len]
        /\ result' = [result EXCEPT ![t] = failure.status]
  BY DEF Unanswered
<1>2. failure.len \in {0, n} /\ failure.len \in Nat /\ failure.status \in Statuses
  BY <1>1 DEF Statuses
<1> QED
  BY <1>1, <1>2 DEF Unanswered, TypeOK

\* Padding keeps the command unaltered, as far as the property allows.
LEMMA ForcedFacts ==
  ASSUME TypeOK, NEW t \in Threads, apdu[t] \in Commands,
         Derived(apdu[t], sendBuffer[t], cbSendLength[t], inHits[t])
  PROVE  /\ Forced(t) \in Apdus /\ Forced(t).b \in Buffers /\ Forced(t).len \in Nat
         /\ Unaltered(apdu[t], Forced(t), inHits[t], config.force /\ via[t] = "original")
<1> DEFINE b == sendBuffer[t]
           n == cbSendLength[t]
           c == apdu[t]
           P == [b EXCEPT ![4] = 1, ![5] = 0]
<1>0. b \in Buffers /\ n \in Nat /\ c.len \in Nat
  BY CommandFacts DEF TypeOK
<1>1. CASE ~(via[t] = "original" /\ config.force /\ n < 6)
  <2>1. Forced(t) = [b |-> b, len |-> n]
    BY <1>1 DEF Forced
  <2> HIDE DEF b, n, c
  <2>2. Derived(c, b, n, inHits[t])
    BY DEF b, n, c
  <2>3. Unaltered(c, Forced(t), inHits[t], config.force /\ via[t] = "original")
    BY <2>1, <2>2, <1>0 DEF Derived, Unaltered
  <2> QED
    BY <1>0, <2>1, <2>3 DEF Apdus, c
<1>2. CASE via[t] = "original" /\ config.force /\ n < 6
  <2>1. Forced(t) = [b |-> P, len |-> n + 1]
    BY <1>2 DEF Forced
  <2>2. P \in Buffers /\ \A e \in Index : e \notin {4, 5} => P[e] = b[e]
    BY <1>0, ByteFacts DEF Buffers
  <2>3. 4 <= c.len /\ \A e \in Index : e < n + 1 /\ ~(e < n) => e = n
    BY <1>0, ByteFacts, CommandFacts
  <2>4. Derived(c, b, n, inHits[t])
    OBVIOUS
  <2> HIDE DEF b, n, c, P
  <2>5. inHits[t] = {} \/ SelfSized(c) =>
          \A e \in Index : e < n + 1 => \/ e < c.len /\ P[e] = c.b[e]
                                        \/ P[e] \in GivenBy(inHits[t], e)
                                        \/ e \in {4, 5}
    <3> SUFFICES ASSUME inHits[t] = {} \/ SelfSized(c), NEW e \in Index, e < n + 1,
                        e \notin {4, 5}
                 PROVE  (e < c.len /\ P[e] = c.b[e]) \/ P[e] \in GivenBy(inHits[t], e)
      OBVIOUS
    <3>1. n = c.len /\ e \in Nat
      BY <2>4, ByteFacts DEF Derived
    <3>2. e < n
      BY <1>0, <1>2, <2>3, <3>1
    <3> QED
      BY <2>2, <2>4, <3>2 DEF Derived
  <2>6. inHits[t] = {} \/ SelfSized(c) => n + 1 = c.len + 1
    BY <2>4 DEF Derived
  <2>7. Unaltered(c, Forced(t), inHits[t], config.force /\ via[t] = "original")
    BY <1>2, <2>1, <2>5, <2>6 DEF Unaltered
  <2> QED
    BY <1>0, <2>1, <2>2, <2>7 DEF Apdus, c
<1> QED
  BY <1>1, <1>2

\* The command is sent and answered, or not.
LEMMA SendInv ==
  ASSUME TransmitInv, NEW t \in Threads, SendCommand(t)
  PROVE  TransmitInv'
<1>0. TypeOK /\ OfThread(t) /\ pc[t] = "send"
  BY InvByThread DEF SendCommand
<1>1. apdu[t] \in Commands /\ Derived(apdu[t], sendBuffer[t], cbSendLength[t], inHits[t])
      /\ pcbRecvLength[t] \in Nat
  BY <1>0 DEF OfThread, CallOf, TypeOK
<1> DEFINE out    == Forced(t)
           padded == config.force /\ via[t] = "original"
<1>2. out \in Apdus /\ out.b \in Buffers /\ out.len \in Nat
      /\ Unaltered(apdu[t], out, inHits[t], padded)
  BY <1>0, <1>1, ForcedFacts
<1>3. /\ sendBuffer' = [sendBuffer EXCEPT ![t] = out.b]
      /\ cbSendLength' = [cbSendLength EXCEPT ![t] = out.len]
      /\ sent' = [sent EXCEPT ![t] = out]
      /\ cardBytes' = cardBytes + out.len
      /\ recvOffset' = [recvOffset EXCEPT ![t] = 0]
      /\ pc' = [pc EXCEPT ![t] = IF EntersReadout(pcbRecvLength'[t]) THEN "readout" ELSE "receive"]
      /\ UNCHANGED <<shared, via, apdu, inHits, outHits>>
      /\ \/ \E answer \in CardAnswers(t, out.b) :
              /\ Answered(t, 0, answer)
              /\ due' = [due EXCEPT ![t] = Due(answer)]
         \/ Unanswered(t, pcbRecvLength[t]) /\ due' = [due EXCEPT ![t] = <<>>]
  BY DEF SendCommand
<1> HIDE DEF out, padded
<1>4. /\ pbRecvBuffer' \in [Threads -> Buffers]
      /\ pcbRecvLength' \in [Threads -> Nat]
      /\ result' \in [Threads -> Statuses]
      /\ pending' \in [Threads -> HeldData]
      /\ due' \in [Threads -> Seq(Bytes)]
      /\ \A u \in Threads \ {t} : pcbRecvLength'[u] = pcbRecvLength[u] /\ result'[u] = result[u]
  <2>1. CASE \E answer \in CardAnswers(t, out.b) :
               Answered(t, 0, answer) /\ due' = [due EXCEPT ![t] = Due(answer)]
    <3>1. PICK answer \in CardAnswers(t, out.b) :
               Answered(t, 0, answer) /\ due' = [due EXCEPT ![t] = Due(answer)]
      BY <2>1
    <3>2. answer.bytes \in Seq(Bytes) /\ answer.data \in Seq(Bytes)
      BY <1>0, <1>2, AnswerFacts
    <3>3. Due(answer) \in Seq(Bytes)
      <4>1. <<SW90, 0>> \in Seq(Bytes)
        BY ByteFacts
      <4>2. answer.data \o <<SW90, 0>> \in Seq(Bytes)
        BY <3>2, <4>1, ConcatProperties, Zenon
      <4> QED
        BY <3>2, <4>2, Zenon DEF Due
    <3>4. due' \in [Threads -> Seq(Bytes)]
      BY <1>0, <3>1, <3>3, Updated, Zenon DEF TypeOK
    <3> QED
      BY <1>0, <1>2, <3>1, <3>4, AnsweredFacts
  <2>2. CASE Unanswered(t, pcbRecvLength[t]) /\ due' = [due EXCEPT ![t] = <<>>]
    <3>1. due' \in [Threads -> Seq(Bytes)]
      BY <1>0, <2>2 DEF TypeOK
    <3> QED
      BY <1>0, <1>1, <2>2, <3>1, UnansweredFacts
  <2> QED
    BY <1>3, <2>1, <2>2
<1>5. pc'[t] \in {"readout", "receive"} /\ pc' \in [Threads -> PCs]
      /\ (pc'[t] = "readout" => pcbRecvLength'[t] = 2)
  BY <1>0, <1>3 DEF TypeOK, PCs, EntersReadout
<1>6. TypeOK'
  <2>1. /\ sendBuffer' \in [Threads -> Buffers] /\ cbSendLength' \in [Threads -> Nat]
        /\ sent' \in [Threads -> Apdus] /\ recvOffset' \in [Threads -> Nat]
        /\ cardBytes' \in Nat
    BY <1>0, <1>2, <1>3 DEF TypeOK
  <2> QED
    BY <1>0, <1>3, <1>4, <1>5, <2>1 DEF TypeOK, shared
<1>7. /\ sent'[t] = out /\ apdu'[t] = apdu[t] /\ inHits'[t] = inHits[t]
      /\ (config'.force /\ via'[t] = "original") = padded
      /\ config' = config
      /\ \A u \in Threads \ {t} : Kept(u)
  BY <1>0, <1>3, <1>4 DEF TypeOK, shared, Kept, padded
<1>8. OfThread(t)'
  <2>1. ReadoutOf(t)' /\ FailureOf(t)'
    BY <1>5, ByteFacts DEF ReadoutOf, FailureOf
  <2>2. CallOf(t)'
    BY <1>1, <1>5, <1>7 DEF CallOf
  <2>3. SentOf(t)'
    BY <1>2, <1>7 DEF SentOf
  <2> QED
    BY <2>1, <2>2, <2>3 DEF OfThread
<1> QED
  BY <1>6, <1>7, <1>8, StepOf

\* One round of the readout loop.
LEMMA GetResponseInv ==
  ASSUME TransmitInv, NEW t \in Threads, GetResponse(t)
  PROVE  TransmitInv'
<1>0. TypeOK /\ OfThread(t) /\ pc[t] = "readout" /\ recvOffset[t] \in Index
  BY InvByThread DEF GetResponse, MoreData
<1> DEFINE n == AskedLength(t)
           b == [sendBuffer[t] EXCEPT ![0] = 0, ![1] = INS_C0, ![2] = 0, ![3] = 0, ![4] = n]
<1>1. n \in Cells
  <2>1. pcbRecvLength[t] \in Nat /\ pcbRecvLength[t] >= 2 /\ pcbRecvLength[t] <= MaxByte + 3
        /\ pbRecvBuffer[t] \in Buffers
    BY <1>0 DEF OfThread, ReadoutOf, TypeOK
  <2>2. pcbRecvLength[t] - 1 \in Index
    BY <2>1, ByteFacts DEF Index, MAX_APDU_LENGTH
  <2>3. pbRecvBuffer[t][pcbRecvLength[t] - 1] \in Cells
    BY <2>1, <2>2 DEF Buffers
  <2>4. MaxByte - 1 \in Cells
    BY ByteFacts DEF Cells, Bytes
  <2> QED
    BY <2>3, <2>4 DEF AskedLength
<1>2. /\ sendBuffer' = [sendBuffer EXCEPT ![t] = b]
      /\ cbSendLength' = [cbSendLength EXCEPT ![t] = 5]
      /\ \/ \E answer \in CardAnswers(t, b) : Answered(t, recvOffset[t], answer) /\ UNCHANGED due
         \/ Unanswered(t, n + 2) /\ due' = [due EXCEPT ![t] = <<>>]
      /\ recvOffset' = [recvOffset EXCEPT ![t] = NextOffset(pcbRecvLength'[t])]
      /\ cardBytes' = cardBytes + 5
      /\ UNCHANGED <<shared, pc, via, apdu, sent, inHits, outHits>>
  BY DEF GetResponse
<1> HIDE DEF n
<1>3. b \in Buffers
  <2>1. sendBuffer[t] \in [Index -> Cells] /\ {0, 1, 2, 3, 4} \subseteq Index
        /\ INS_C0 \in Cells /\ 0 \in Cells
    BY <1>0, ByteFacts DEF TypeOK, Buffers
  <2> QED
    BY <1>1, <2>1 DEF Buffers
<1> HIDE DEF b
<1>4. recvOffset[t] \in Nat /\ n \in Nat /\ n + 2 \in Nat /\ n + 2 <= MaxByte + 3
  BY <1>0, <1>1, ByteFacts
<1>5. /\ pbRecvBuffer' \in [Threads -> Buffers]
      /\ pcbRecvLength' \in [Threads -> Nat]
      /\ result' \in [Threads -> Statuses]
      /\ pending' \in [Threads -> HeldData]
      /\ due' \in [Threads -> Seq(Bytes)]
      /\ pcbRecvLength'[t] <= MaxByte + 3
      /\ \A u \in Threads \ {t} : pcbRecvLength'[u] = pcbRecvLength[u] /\ result'[u] = result[u]
  <2>1. CASE \E answer \in CardAnswers(t, b) : Answered(t, recvOffset[t], answer) /\ UNCHANGED due
    <3>1. PICK answer \in CardAnswers(t, b) : Answered(t, recvOffset[t], answer) /\ UNCHANGED due
      BY <2>1
    <3>2. due' \in [Threads -> Seq(Bytes)]
      BY <1>0, <3>1 DEF TypeOK
    <3>3. \A k \in 2 .. MaxByte + 2 : k <= MaxByte + 3
      BY ByteFacts
    <3> QED
      BY <1>0, <1>3, <1>4, <3>1, <3>2, <3>3, AnsweredFacts
  <2>2. CASE Unanswered(t, n + 2) /\ due' = [due EXCEPT ![t] = <<>>]
    <3>1. due' \in [Threads -> Seq(Bytes)]
      BY <1>0, <2>2 DEF TypeOK
    <3>2. \A k \in {0, n + 2} : k <= MaxByte + 3
      BY <1>4, ByteFacts
    <3> QED
      BY <1>0, <1>4, <2>2, <3>1, <3>2, UnansweredFacts
  <2> QED
    BY <1>2, <2>1, <2>2
<1>6. recvOffset' \in [Threads -> Nat] /\ recvOffset'[t] = NextOffset(pcbRecvLength'[t])
      /\ \A u \in Threads \ {t} : recvOffset'[u] = recvOffset[u]
  <2>1. pcbRecvLength'[t] \in Nat
    BY <1>5
  <2>2. NextOffset(pcbRecvLength'[t]) \in Nat
    BY <2>1, ByteFacts DEF NextOffset
  <2>3. recvOffset \in [Threads -> Nat]
    BY <1>0 DEF TypeOK
  <2> QED
    BY <1>2, <2>2, <2>3, Updated
<1>7. recvOffset'[t] \in Index => pcbRecvLength'[t] >= 2
  <2>1. MAX_APDU_LENGTH \notin Index /\ pcbRecvLength'[t] \in Nat
    BY <1>5, ByteFacts DEF Index
  <2> QED
    BY <1>6, <2>1 DEF NextOffset
<1>8. TypeOK'
  <2>1. sendBuffer' \in [Threads -> Buffers] /\ cbSendLength' \in [Threads -> Nat]
    BY <1>0, <1>2, <1>3 DEF TypeOK
  <2> QED
    BY <1>0, <1>2, <1>5, <1>6, <2>1 DEF TypeOK, shared
<1>9. /\ pc'[t] = "readout" /\ via'[t] = via[t] /\ sent'[t] = sent[t] /\ apdu'[t] = apdu[t]
      /\ inHits'[t] = inHits[t] /\ config' = config
      /\ \A u \in Threads \ {t} : Kept(u)
  BY <1>0, <1>2, <1>5, <1>6 DEF TypeOK, shared, Kept
<1>10. OfThread(t)'
  BY <1>0, <1>5, <1>7, <1>9 DEF OfThread, ReadoutOf, CallOf, SentOf, FailureOf
<1> QED
  BY <1>8, <1>9, <1>10, StepOf

\* The loop ends.
LEMMA ReadoutDoneInv ==
  ASSUME TransmitInv, NEW t \in Threads, ReadoutDone(t)
  PROVE  TransmitInv'
<1>0. TypeOK /\ OfThread(t) /\ pc[t] = "readout"
  BY InvByThread DEF ReadoutDone, Step
<1>1. TypeOK'
  <2>1. pc' \in [Threads -> PCs]
    BY <1>0 DEF TypeOK, ReadoutDone, Step, PCs
  <2> QED
    BY <1>0, <2>1 DEF TypeOK, ReadoutDone, shared, seen
<1>2. /\ pc'[t] = "receive" /\ via'[t] = via[t] /\ sent'[t] = sent[t] /\ apdu'[t] = apdu[t]
      /\ inHits'[t] = inHits[t] /\ config' = config
      /\ \A u \in Threads \ {t} : Kept(u)
  BY <1>0 DEF TypeOK, ReadoutDone, Step, shared, seen, Kept
<1>3. OfThread(t)'
  BY <1>0, <1>2 DEF OfThread, ReadoutOf, CallOf, SentOf, FailureOf
<1> QED
  BY <1>1, <1>2, <1>3, StepOf

\* The answer is saved; a failed call loses its length.
LEMMA SaveOutgoingInv ==
  ASSUME TransmitInv, NEW t \in Threads, SaveOutgoing(t)
  PROVE  TransmitInv'
<1>0. TypeOK /\ OfThread(t) /\ pc[t] = "receive"
  BY InvByThread DEF SaveOutgoing, Step
<1>1. AnswerLength(t) \in Nat /\ (result[t] # "SUCCESS" => AnswerLength(t) = 0)
  BY <1>0 DEF TypeOK, AnswerLength
<1>2. ZeroFilled(pbRecvBuffer[t], AnswerLength(t)) \in Buffers
  BY <1>0, <1>1, ZeroFilledType DEF TypeOK
<1>3. TypeOK'
  <2>1. pc' \in [Threads -> PCs]
    BY <1>0 DEF TypeOK, SaveOutgoing, Step, PCs
  <2>2. apduOutList' \in Seq(Buffers) /\ pcbRecvLength' \in [Threads -> Nat]
    BY <1>0, <1>1, <1>2 DEF TypeOK, SaveOutgoing
  <2> QED
    BY <1>0, <2>1, <2>2 DEF TypeOK, SaveOutgoing, seen
<1>4. /\ pc'[t] = "rulesOut" /\ via'[t] = via[t] /\ sent'[t] = sent[t] /\ apdu'[t] = apdu[t]
      /\ inHits'[t] = inHits[t] /\ config' = config /\ result'[t] = result[t]
      /\ pcbRecvLength'[t] = AnswerLength(t)
      /\ \A u \in Threads \ {t} : Kept(u)
  BY <1>0 DEF TypeOK, SaveOutgoing, Step, seen, Kept
<1>5. OfThread(t)'
  BY <1>0, <1>1, <1>4 DEF OfThread, ReadoutOf, CallOf, SentOf, FailureOf
<1> QED
  BY <1>3, <1>4, <1>5, StepOf

\* The outgoing rules and the return.
LEMMA OutgoingInv ==
  ASSUME TransmitInv, NEW t \in Threads, ApplyOutgoingRules(t)
  PROVE  TransmitInv'
<1>0. TypeOK /\ OfThread(t) /\ pc[t] = "rulesOut"
  BY InvByThread DEF ApplyOutgoingRules, Step
<1>1. pbRecvBuffer[t] \in Buffers /\ pcbRecvLength[t] \in Nat
  BY <1>0 DEF TypeOK
<1>2. PICK stray \in Strays :
       LET hits  == IF config.modify THEN MatchingRules("OUTPUT_APDU", stray) ELSE {}
           after == ApplyRules(hits, "OUTPUT_APDU", pbRecvBuffer[t], pcbRecvLength[t], 0)
       IN  /\ pbRecvBuffer' = [pbRecvBuffer EXCEPT ![t] = after.b]
           /\ pcbRecvLength' = [pcbRecvLength EXCEPT ![t] = after.len]
           /\ outHits' = [outHits EXCEPT ![t] = hits]
  BY DEF ApplyOutgoingRules
<1> DEFINE hits  == IF config.modify THEN MatchingRules("OUTPUT_APDU", stray) ELSE {}
           after == ApplyRules(hits, "OUTPUT_APDU", pbRecvBuffer[t], pcbRecvLength[t], 0)
<1>3. hits \in SUBSET DOMAIN Rules
  BY MatchingType
<1>4. /\ pbRecvBuffer' = [pbRecvBuffer EXCEPT ![t] = after.b]
      /\ pcbRecvLength' = [pcbRecvLength EXCEPT ![t] = after.len]
      /\ outHits' = [outHits EXCEPT ![t] = hits]
  BY <1>2
<1> HIDE DEF hits
<1>5. after.b \in Buffers /\ after.len \in Nat
  BY <1>1, <1>3, ByteFacts, ApplyRulesType DEF Directions
<1>6. after.len \in {pcbRecvLength[t]} \cup GivenBy(hits, LE_ELEM)
  <2>1. after.len = NewLength(hits, "OUTPUT_APDU", pcbRecvLength[t], 0)
    BY DEF ApplyRules
  <2> HIDE DEF after
  <2>2. Writers(hits, LE_ELEM) # {} => LastWritten(hits, LE_ELEM) \in GivenBy(hits, LE_ELEM)
    BY <1>3, LastWrittenFacts
  <2> QED
    BY <2>1, <2>2 DEF NewLength
<1> HIDE DEF after
<1>7. TypeOK'
  <2>1. pc' \in [Threads -> PCs] /\ apduCounter' \in Nat
    BY <1>0 DEF TypeOK, ApplyOutgoingRules, Step, PCs
  <2>2. pbRecvBuffer' \in [Threads -> Buffers] /\ pcbRecvLength' \in [Threads -> Nat]
        /\ outHits' \in [Threads -> SUBSET DOMAIN Rules]
    BY <1>0, <1>3, <1>4, <1>5 DEF TypeOK
  <2> QED
    BY <1>0, <2>1, <2>2 DEF TypeOK, ApplyOutgoingRules
<1>8. /\ pc'[t] = "idle" /\ result'[t] = result[t] /\ config' = config
      /\ pcbRecvLength'[t] = after.len /\ outHits'[t] = hits
      /\ \A u \in Threads \ {t} : Kept(u)
  BY <1>0, <1>4 DEF TypeOK, ApplyOutgoingRules, Step, Kept
<1>9. result[t] # "SUCCESS" => pcbRecvLength[t] = 0
  BY <1>0 DEF OfThread, FailureOf
<1>10. OfThread(t)'
  BY <1>6, <1>8, <1>9 DEF OfThread, ReadoutOf, CallOf, SentOf, FailureOf
<1> QED
  BY <1>7, <1>8, <1>10, StepOf

\* SCardConnectW touches counters only.
LEMMA ConnectWInv ==
  ASSUME TransmitInv, NEW t \in Threads, SCardConnectW(t)
  PROVE  TransmitInv'
<1>0. TypeOK /\ OfThread(t)
  BY InvByThread
<1>1. TypeOK'
  BY <1>0 DEF TypeOK, SCardConnectW, local
<1>2. config' = config /\ \A u \in Threads : Kept(u)
  BY DEF SCardConnectW, local, Kept
<1> QED
  BY <1>0, <1>1, <1>2, KeptOf, StepOf

\* Every step preserves the invariant.
LEMMA NextInv == TransmitInv /\ [Next]_vars => TransmitInv'
<1> SUFFICES ASSUME TransmitInv, [Next]_vars PROVE TransmitInv'
  OBVIOUS
<1>1. CASE Next
  <2>1. PICK t \in Threads :
          \/ \E c \in Commands, side \in {"original", "proxy"} : SCardTransmit(t, c, side)
          \/ Transmitting(t)
          \/ SCardConnectW(t)
    BY <1>1 DEF Next
  <2> QED
    BY <2>1, SCardTransmitInv, IncomingInv, SendInv, GetResponseInv, ReadoutDoneInv,
       SaveOutgoingInv, OutgoingInv, ConnectWInv DEF Transmitting
<1>2. CASE UNCHANGED vars
  BY <1>2 DEF vars, shared, local, seen, TransmitInv, TypeOK, ReadoutInv, CallInv,
     OnlyRulesChange, FailureIsEmpty
<1> QED
  BY <1>1, <1>2

\* Every reachable state satisfies it.
LEMMA Invariant == Spec => []TransmitInv
  BY InitInv, NextInv, PTL DEF Spec

-----------------------------------------------------------------------------
(* The theorems *)

\* Buffers, lengths, history and counters of SCardTransmit keep their types,
\* whatever the rules file says and the cards answer.
THEOREM TypeCorrect == Spec => []TypeOK
<1>1. TransmitInv => TypeOK
  BY DEF TransmitInv
<1> QED
  BY <1>1, Invariant, PTL

\* No list of rules and no interleaving of threads lets a byte reach a card that
\* neither the application nor a rule applied to this command gave, as long as the
\* command says its own length.
THEOREM RulesAreLocal == Spec => []OnlyRulesChange
<1>1. TransmitInv => OnlyRulesChange
  BY DEF TransmitInv
<1> QED
  BY <1>1, Invariant, PTL

\* No failed call of SCardTransmit hands the application bytes, unless an outgoing
\* rule sets the length.
THEOREM FailedCallsAreEmpty == Spec => []FailureIsEmpty
<1>1. TransmitInv => FailureIsEmpty
  BY DEF TransmitInv
<1> QED
  BY <1>1, Invariant, PTL

-----------------------------------------------------------------------------
(* The history, when calls do not overlap *)

\* One call at a time; its command is the newest of apduInList, and apduOutList is
\* one entry behind until its answer is saved.
HistoryInv ==
  /\ \A t, u \in Threads : pc[t] # "idle" /\ pc[u] # "idle" => t = u
  /\ (\A t \in Threads : pc[t] = "idle") => Len(apduInList) = Len(apduOutList)
  /\ \A t \in Threads : pc[t] # "idle" =>
       /\ apduInList[1] = ZeroFilled(apdu[t].b, apdu[t].len)
       /\ pc[t] # "rulesOut" => Len(apduInList) = Len(apduOutList) + 1
       /\ pc[t] = "rulesOut" =>
            /\ Len(apduInList) = Len(apduOutList)
            /\ apduOutList[1] = ZeroFilled(pbRecvBuffer[t], pcbRecvLength[t])

\* A list with a new first entry.
LEMMA PushFront ==
  ASSUME NEW S, NEW list \in Seq(S), NEW x \in S
  PROVE  /\ (<<x>> \o list)[1] = x
         /\ Len(<<x>> \o list) = Len(list) + 1
  OBVIOUS

\* A step inside one call that leaves history and command alone.
LEMMA InsideStep ==
  ASSUME TypeOK, HistoryInv, NEW t \in Threads,
         pc[t] \notin {"idle", "rulesOut"},
         NEW q \in {"send", "readout", "receive"}, pc' = [pc EXCEPT ![t] = q],
         apduInList' = apduInList, apduOutList' = apduOutList, apdu' = apdu
  PROVE  HistoryInv'
<1>1. pc \in [Threads -> PCs] /\ pc'[t] = q /\ \A u \in Threads \ {t} : pc'[u] = pc[u]
  BY DEF TypeOK
<1>2. \A u \in Threads \ {t} : pc'[u] = "idle"
  BY <1>1 DEF HistoryInv
<1>3. apduInList[1] = ZeroFilled(apdu[t].b, apdu[t].len) /\ Len(apduInList) = Len(apduOutList) + 1
  BY DEF HistoryInv
<1>4. q # "idle" /\ q # "rulesOut"
  OBVIOUS
<1> QED
  BY <1>1, <1>2, <1>3, <1>4 DEF HistoryInv

\* Every step preserves it.
LEMMA HistoryStep ==
  ASSUME ~Concurrent, TypeOK, HistoryInv, [Next]_vars
  PROVE  HistoryInv'
<1>1. ASSUME NEW t \in Threads, NEW c \in Commands, NEW side, SCardTransmit(t, c, side)
      PROVE  HistoryInv'
  <2>1. /\ \A u \in Threads : pc[u] = "idle"
        /\ pc' = [pc EXCEPT ![t] = "rulesIn"] /\ pc \in [Threads -> PCs]
        /\ apdu' = [apdu EXCEPT ![t] = c] /\ apdu \in [Threads -> Apdus]
        /\ apduInList' = <<ZeroFilled(c.b, c.len)>> \o apduInList
        /\ apduOutList' = apduOutList /\ apduInList \in Seq(Buffers)
    BY <1>1 DEF SCardTransmit, Step, SaveIncoming, TypeOK
  <2>2. ZeroFilled(c.b, c.len) \in Buffers
    BY CommandFacts, ZeroFilledType
  <2>3. apduInList'[1] = ZeroFilled(c.b, c.len) /\ Len(apduInList') = Len(apduInList) + 1
    BY <2>1, <2>2, PushFront
  <2>4. pc'[t] = "rulesIn" /\ apdu'[t] = c /\ \A u \in Threads \ {t} : pc'[u] = "idle"
    BY <2>1
  <2>5. Len(apduInList) = Len(apduOutList)
    BY <2>1 DEF HistoryInv
  <2> QED
    BY <2>1, <2>3, <2>4, <2>5 DEF HistoryInv
<1>2. ASSUME NEW t \in Threads, ApplyIncomingRules(t) PROVE HistoryInv'
  BY <1>2, InsideStep DEF ApplyIncomingRules, Step
<1>3. ASSUME NEW t \in Threads, SendCommand(t) PROVE HistoryInv'
  <2>1. /\ pc[t] = "send" /\ apduInList' = apduInList /\ apduOutList' = apduOutList
        /\ apdu' = apdu
        /\ pc' = [pc EXCEPT ![t] = IF EntersReadout(pcbRecvLength'[t]) THEN "readout" ELSE "receive"]
    BY <1>3 DEF SendCommand, shared
  <2>2. (IF EntersReadout(pcbRecvLength'[t]) THEN "readout" ELSE "receive")
          \in {"send", "readout", "receive"}
    OBVIOUS
  <2> QED
    BY <2>1, <2>2, InsideStep
<1>4. ASSUME NEW t \in Threads, GetResponse(t) PROVE HistoryInv'
  <2>1. /\ pc[t] = "readout" /\ pc' = pc /\ apduInList' = apduInList
        /\ apduOutList' = apduOutList /\ apdu' = apdu /\ pc \in [Threads -> PCs]
    BY <1>4 DEF GetResponse, shared, TypeOK
  <2>2. pc' = [pc EXCEPT ![t] = "readout"]
    BY <2>1
  <2> QED
    BY <2>1, <2>2, InsideStep
<1>5. ASSUME NEW t \in Threads, ReadoutDone(t) PROVE HistoryInv'
  BY <1>5, InsideStep DEF ReadoutDone, Step, shared
<1>6. ASSUME NEW t \in Threads, SaveOutgoing(t) PROVE HistoryInv'
  <2> DEFINE z == ZeroFilled(pbRecvBuffer[t], AnswerLength(t))
  <2>1. /\ pc[t] = "receive" /\ pc' = [pc EXCEPT ![t] = "rulesOut"] /\ pc \in [Threads -> PCs]
        /\ pcbRecvLength' = [pcbRecvLength EXCEPT ![t] = AnswerLength(t)]
        /\ pcbRecvLength \in [Threads -> Nat]
        /\ apduOutList' = <<z>> \o apduOutList /\ apduOutList \in Seq(Buffers)
        /\ apduInList' = apduInList /\ apdu' = apdu /\ pbRecvBuffer' = pbRecvBuffer
    BY <1>6 DEF SaveOutgoing, Step, TypeOK
  <2>2. z \in Buffers
    BY ZeroFilledType DEF TypeOK, AnswerLength
  <2> HIDE DEF z
  <2>3. apduOutList'[1] = z /\ Len(apduOutList') = Len(apduOutList) + 1
    BY <2>1, <2>2, PushFront
  <2>4. pc'[t] = "rulesOut" /\ pcbRecvLength'[t] = AnswerLength(t)
        /\ \A u \in Threads \ {t} : pc'[u] = pc[u]
    BY <2>1
  <2>5. \A u \in Threads \ {t} : pc'[u] = "idle"
    BY <2>1, <2>4 DEF HistoryInv
  <2>6. apduInList[1] = ZeroFilled(apdu[t].b, apdu[t].len) /\ Len(apduInList) = Len(apduOutList) + 1
    BY <2>1 DEF HistoryInv
  <2> QED
    BY <2>1, <2>3, <2>4, <2>5, <2>6 DEF HistoryInv, z
<1>7. ASSUME NEW t \in Threads, ApplyOutgoingRules(t) PROVE HistoryInv'
  <2>1. /\ pc[t] = "rulesOut" /\ pc' = [pc EXCEPT ![t] = "idle"] /\ pc \in [Threads -> PCs]
        /\ apduInList' = apduInList /\ apduOutList' = apduOutList
    BY <1>7 DEF ApplyOutgoingRules, Step, TypeOK
  <2>2. pc'[t] = "idle" /\ \A u \in Threads \ {t} : pc'[u] = pc[u]
    BY <2>1
  <2>3. \A u \in Threads : pc'[u] = "idle"
    BY <2>1, <2>2 DEF HistoryInv
  <2>4. Len(apduInList) = Len(apduOutList)
    BY <2>1 DEF HistoryInv
  <2> QED
    BY <2>1, <2>3, <2>4 DEF HistoryInv
<1>8. ASSUME NEW t \in Threads, SCardConnectW(t) PROVE HistoryInv'
  BY <1>8 DEF SCardConnectW, local, HistoryInv
<1>9. CASE UNCHANGED vars
  BY <1>9 DEF vars, shared, local, HistoryInv
<1>10. CASE Next
  BY <1>10, <1>1, <1>2, <1>3, <1>4, <1>5, <1>6, <1>7, <1>8 DEF Next, Transmitting
<1> QED
  BY <1>9, <1>10

\* Without overlapping calls, the rules applied to a command and to its answer look
\* at that very command and that very answer.
THEOREM SerialHistory == ~Concurrent => (Spec => []RulesSeeOwnExchange)
<1> SUFFICES ASSUME ~Concurrent PROVE Spec => []RulesSeeOwnExchange
  OBVIOUS
<1>1. Init => HistoryInv
  BY DEF Init, HistoryInv
<1>2. TypeOK /\ HistoryInv /\ [Next]_vars => HistoryInv'
  BY HistoryStep
<1>3. HistoryInv => RulesSeeOwnExchange
  BY DEF HistoryInv, RulesSeeOwnExchange
<1> QED
  BY <1>1, <1>2, <1>3, TypeCorrect, PTL DEF Spec

-----------------------------------------------------------------------------
(* The answer that the application gets, and the bytes that are counted    *)

\* A card whose data fits into one response; the statuses are different bytes.
OnePiece ==
  /\ SW90 \notin Announcing /\ SW69 \notin Announcing
  /\ \A d \in Datas : Len(d) <= Chunk

-----------------------------------------------------------------------------
(* The inductive invariant: the answer under way is the one that is due, or *)
(* announces it.                                                            *)

Intact(t) ==
  /\ pcbRecvLength[t] = Len(due[t])
  /\ \A e \in Index : e < Len(due[t]) => pbRecvBuffer[t][e] = due[t][e + 1]

\* The card holds the data, and the status says how much of it there is.
Announced(t) ==
  /\ recvOffset[t] = 0 /\ pcbRecvLength[t] = 2
  /\ pbRecvBuffer[t][0] \in Announcing
  /\ pbRecvBuffer[t][1] = Len(pending[t])
  /\ pending[t] # <<>>
  /\ due[t] = pending[t] \o <<SW90, 0>>

\* What AnswerComplete says of a thread.
ReturnedOf(t) ==
  /\ GivenBy(outHits[t], LE_ELEM) = {} => pcbRecvLength[t] = Len(due[t])
  /\ \A e \in Index : e < Len(due[t]) =>
       \/ pbRecvBuffer[t][e] = due[t][e + 1]
       \/ pbRecvBuffer[t][e] \in GivenBy(outHits[t], e)

AnswerOf(t) ==
  /\ Len(pending[t]) <= Chunk
  /\ due[t] # <<>> =>
       /\ pc[t] = "readout" => Announced(t) \/ (Intact(t) /\ ~MoreData(t))
       /\ pc[t] \in {"receive", "rulesOut"} => Intact(t)
       /\ pc[t] \in {"readout", "receive", "rulesOut"} => result[t] = "SUCCESS"
       /\ pc[t] = "idle" => ReturnedOf(t)

AnswerInv == \A t \in Threads : AnswerOf(t)

-----------------------------------------------------------------------------
(* The card *)

\* With data that fits, an answer of two bytes announces all the card holds, or nothing.
LEMMA CardFacts ==
  ASSUME OnePiece, TypeOK, NEW t \in Threads, NEW b \in Buffers, Len(pending[t]) <= Chunk,
         NEW answer \in CardAnswers(t, b)
  PROVE  /\ Len(answer.held) <= Chunk
         /\ Len(answer.bytes) = 2 /\ answer.bytes[1] \in Announcing =>
              /\ answer.held # <<>>
              /\ answer.bytes[2] = Len(answer.held)
              /\ answer.data = answer.held
<1>0. Chunk \in Nat \ {0} /\ \A d \in Datas : d \in Seq(Bytes) /\ Len(d) <= Chunk
  BY TransmitAssumption, Zenon DEF OnePiece
<1>1. CASE answer \in Execution
  <2>1. ASSUME NEW d \in Datas, answer = [bytes |-> d \o <<SW90, 0>>, held |-> <<>>, data |-> d]
        PROVE  Len(answer.held) <= Chunk /\ ~(Len(answer.bytes) = 2 /\ answer.bytes[1] \in Announcing)
    <3>1. d \in Seq(Bytes) /\ <<SW90, 0>> \in Seq(Bytes)
      BY <1>0, ByteFacts
    <3>2. Len(d \o <<SW90, 0>>) = Len(d) + 2
      BY <3>1
    <3>3. d = <<>> => (d \o <<SW90, 0>>)[1] = SW90
      BY <3>1
    <3>4. Len(d) = 0 => d = <<>>
      BY <3>1
    <3>5. Len(d) \in Nat
      BY <3>1
    <3> QED
      BY <1>0, <2>1, <3>2, <3>3, <3>4, <3>5 DEF OnePiece
  <2>2. ASSUME NEW sw \in Announcing, NEW d \in Datas \ {<<>>},
               answer = [bytes |-> <<sw, Len(d)>>, held |-> d, data |-> d]
        PROVE  /\ Len(answer.held) <= Chunk /\ answer.held # <<>>
               /\ answer.bytes[2] = Len(answer.held) /\ answer.data = answer.held
    BY <1>0, <2>2
  <2>3. \/ \E d \in Datas : answer = [bytes |-> d \o <<SW90, 0>>, held |-> <<>>, data |-> d]
        \/ \E sw \in Announcing, d \in Datas \ {<<>>} :
               answer = [bytes |-> <<sw, Len(d)>>, held |-> d, data |-> d]
    <3> DEFINE done == {[bytes |-> d \o <<SW90, 0>>, held |-> <<>>, data |-> d] : d \in Datas}
               more == {[bytes |-> <<sw, Len(d)>>, held |-> d, data |-> d] :
                          sw \in Announcing, d \in Datas \ {<<>>}}
    <3>1. Execution = done \cup more
      BY DEF Execution
    <3>2. answer \in done => \E d \in Datas : answer = [bytes |-> d \o <<SW90, 0>>, held |-> <<>>, data |-> d]
      OBVIOUS
    <3>3. answer \in more => \E sw \in Announcing, d \in Datas \ {<<>>} :
               answer = [bytes |-> <<sw, Len(d)>>, held |-> d, data |-> d]
      OBVIOUS
    <3> HIDE DEF done, more
    <3>4. answer \in done \/ answer \in more
      BY <1>1, <3>1
    <3> QED
      BY <3>2, <3>3, <3>4
  <2> QED
    BY <2>1, <2>2, <2>3, Zenon
<1>2. CASE answer = Delivery(pending[t], b[4])
  <2> DEFINE held == pending[t]
             n    == Least(Chunk, IF b[4] = 0 THEN Len(held) ELSE Least(Len(held), b[4]))
             rest == SubSeq(held, n + 1, Len(held))
             front == SubSeq(held, 1, n)
             tail == IF rest = <<>> THEN <<SW90, 0>> ELSE <<SW61, Len(rest)>>
             bytes == IF held = <<>> THEN <<SW69, 0>> ELSE front \o tail
  <2>1. /\ held \in Seq(Bytes) /\ Len(held) \in Nat /\ Len(held) <= MaxByte
        /\ Len(held) <= Chunk /\ b[4] \in Nat
    <3>1. b[4] \in Nat
      BY ByteFacts DEF Buffers
    <3>2. held \in Seq(Bytes) /\ Len(held) <= MaxByte
      BY DEF TypeOK, HeldData
    <3>3. Len(held) \in Nat
      BY <3>2
    <3> QED
      BY <3>1, <3>2, <3>3
  <2>2. answer = [bytes |-> bytes, held |-> rest, data |-> <<>>]
    BY <1>2 DEF Delivery
  <2>3. n \in 0 .. Len(held)
    BY <1>0, <2>1, DeliveredLength
  <2>4. held # <<>> => n # 0
    BY <1>0, <2>1 DEF Least
  <2> HIDE DEF n, held
  <2>5. Len(rest) = Len(held) - n /\ front \in Seq(Bytes) /\ Len(front) = n
    BY <2>1, <2>3
  <2>6. Len(rest) <= Chunk
    BY <1>0, <2>1, <2>3, <2>5
  <2>7. held # <<>> => Len(bytes) # 2
    <3> HIDE DEF rest, front
    <3>1. Len(rest) \in Bytes
      BY <2>1, <2>3, <2>5, ByteFacts DEF Bytes
    <3>2. tail \in Seq(Bytes) /\ Len(tail) = 2
      BY <3>1, ByteFacts
    <3> HIDE DEF tail
    <3>3. Len(front \o tail) = Len(front) + Len(tail)
      BY <2>5, <3>2, ConcatProperties, Zenon
    <3> QED
      BY <2>3, <2>4, <2>5, <3>2, <3>3
  <2>8. held = <<>> => bytes[1] = SW69
    OBVIOUS
  <2> HIDE DEF bytes, rest
  <2> QED
    BY <2>2, <2>6, <2>7, <2>8 DEF OnePiece
<1> QED
  BY <1>1, <1>2 DEF CardAnswers

\* Asked for as many bytes as it holds, it delivers all of them.
LEMMA FetchAll ==
  ASSUME TypeOK, NEW t \in Threads, pending[t] # <<>>, Len(pending[t]) <= Chunk
  PROVE  LET answer == Delivery(pending[t], Len(pending[t]))
         IN  answer.bytes = pending[t] \o <<SW90, 0>> /\ answer.held = <<>>
<1> DEFINE held == pending[t]
           n    == Least(Chunk, IF Len(held) = 0 THEN Len(held) ELSE Least(Len(held), Len(held)))
<1>0. Chunk \in Nat
  BY TransmitAssumption, Zenon
<1>1. held \in Seq(Bytes) /\ Len(held) \in Nat
  BY DEF TypeOK, HeldData
<1>2. n = Len(held)
  BY <1>0, <1>1 DEF Least
<1>3. SubSeq(held, n + 1, Len(held)) = <<>> /\ SubSeq(held, 1, n) = held
  BY <1>1, <1>2
<1> QED
  BY <1>3 DEF Delivery

\* What is written at the front is there.
LEMMA WrittenFront ==
  ASSUME NEW b \in Buffers, NEW s \in Seq(Bytes)
  PROVE  \A e \in Index : e < Len(s) => Written(b, 0, s)[e] = s[e + 1]
<1> SUFFICES ASSUME NEW e \in Index, e < Len(s)
             PROVE  (IF 0 <= e /\ e < 0 + Len(s) THEN s[e - 0 + 1] ELSE b[e]) = s[e + 1]
  BY DEF Written
<1>1. e \in Nat
  BY ByteFacts
<1>2. e - 0 + 1 = e + 1 /\ 0 <= e /\ (e < Len(s) => e < 0 + Len(s))
  BY <1>1
<1> QED
  BY <1>2

-----------------------------------------------------------------------------
(* One lemma per action *)

\* A step that leaves a thread's answer alone leaves what the invariant says of it.
KeptAnswer(u) ==
  /\ pc'[u] = pc[u] /\ pending'[u] = pending[u] /\ due'[u] = due[u]
  /\ recvOffset'[u] = recvOffset[u] /\ pcbRecvLength'[u] = pcbRecvLength[u]
  /\ pbRecvBuffer'[u] = pbRecvBuffer[u] /\ result'[u] = result[u] /\ outHits'[u] = outHits[u]

LEMMA KeptAnswerOf ==
  ASSUME NEW u \in Threads, AnswerOf(u), KeptAnswer(u)
  PROVE  AnswerOf(u)'
  BY DEF AnswerOf, Intact, Announced, ReturnedOf, MoreData, KeptAnswer

\* The invariant after a step of thread t that keeps the others.
LEMMA AnswerStepOf ==
  ASSUME AnswerInv, NEW t \in Threads, AnswerOf(t)', \A u \in Threads \ {t} : KeptAnswer(u)
  PROVE  AnswerInv'
<1>1. \A u \in Threads : AnswerOf(u)'
  BY KeptAnswerOf DEF AnswerInv
<1> QED
  BY <1>1 DEF AnswerInv

\* The initial states satisfy it.
LEMMA InitAnswer == Init => AnswerInv
<1>1. Chunk \in Nat \ {0}
  BY TransmitAssumption, Zenon
<1> QED
  BY <1>1 DEF Init, AnswerInv, AnswerOf

\* Entering leaves no answer to speak of.
LEMMA SCardTransmitAnswer ==
  ASSUME TypeOK, AnswerInv, NEW t \in Threads, NEW c \in Commands, NEW side,
         SCardTransmit(t, c, side)
  PROVE  AnswerInv'
<1>1. /\ pc'[t] = "rulesIn" /\ pending'[t] = pending[t]
      /\ \A u \in Threads \ {t} : KeptAnswer(u)
  BY DEF TypeOK, SCardTransmit, Step, KeptAnswer
<1>2. AnswerOf(t)'
  BY <1>1 DEF AnswerInv, AnswerOf
<1> QED
  BY <1>1, <1>2, AnswerStepOf

\* So do the incoming rules.
LEMMA IncomingAnswer ==
  ASSUME TypeOK, AnswerInv, NEW t \in Threads, ApplyIncomingRules(t)
  PROVE  AnswerInv'
<1>1. /\ pc'[t] = "send" /\ pending'[t] = pending[t]
      /\ \A u \in Threads \ {t} : KeptAnswer(u)
  BY DEF TypeOK, ApplyIncomingRules, Step, KeptAnswer
<1>2. AnswerOf(t)'
  BY <1>1 DEF AnswerInv, AnswerOf
<1> QED
  BY <1>1, <1>2, AnswerStepOf

\* What an exchange writes for its thread, and what it leaves of the others.
LEMMA AnsweredValues ==
  ASSUME TypeOK, NEW t \in Threads, NEW o, NEW answer, Answered(t, o, answer)
  PROVE  /\ pbRecvBuffer'[t] = Written(pbRecvBuffer[t], o, answer.bytes)
         /\ pcbRecvLength'[t] = Len(answer.bytes)
         /\ result'[t] = "SUCCESS" /\ pending'[t] = answer.held
         /\ \A u \in Threads \ {t} :
              /\ pbRecvBuffer'[u] = pbRecvBuffer[u] /\ pcbRecvLength'[u] = pcbRecvLength[u]
              /\ result'[u] = result[u] /\ pending'[u] = pending[u]
  BY DEF TypeOK, Answered

LEMMA UnansweredValues ==
  ASSUME TypeOK, NEW t \in Threads, NEW n \in Nat, Unanswered(t, n)
  PROVE  /\ pending' = pending /\ pbRecvBuffer' = pbRecvBuffer
         /\ \A u \in Threads \ {t} :
              pcbRecvLength'[u] = pcbRecvLength[u] /\ result'[u] = result[u]
<1>1. pending' = pending /\ pbRecvBuffer' = pbRecvBuffer
  BY DEF Unanswered
<1> QED
  BY <1>1, UnansweredFacts

\* The answer to the command is due as it is, or announces what is.
LEMMA SendAnswer ==
  ASSUME OnePiece, TransmitInv, AnswerInv, NEW t \in Threads, SendCommand(t)
  PROVE  AnswerInv'
<1> DEFINE out == Forced(t)
<1>0. TypeOK /\ OfThread(t) /\ pc[t] = "send" /\ AnswerOf(t)
  BY InvByThread DEF SendCommand, AnswerInv
<1>1. apdu[t] \in Commands /\ Derived(apdu[t], sendBuffer[t], cbSendLength[t], inHits[t])
      /\ pcbRecvLength[t] \in Nat /\ Len(pending[t]) <= Chunk
  BY <1>0 DEF OfThread, CallOf, TypeOK, AnswerOf
<1>2. out.b \in Buffers
  BY <1>0, <1>1, ForcedFacts
<1>3. /\ recvOffset' = [recvOffset EXCEPT ![t] = 0]
      /\ pc' = [pc EXCEPT ![t] = IF EntersReadout(pcbRecvLength'[t]) THEN "readout" ELSE "receive"]
      /\ outHits' = outHits /\ config' = config
      /\ \/ \E answer \in CardAnswers(t, out.b) :
              /\ Answered(t, 0, answer)
              /\ due' = [due EXCEPT ![t] = Due(answer)]
         \/ Unanswered(t, pcbRecvLength[t]) /\ due' = [due EXCEPT ![t] = <<>>]
  BY DEF SendCommand, shared
<1> HIDE DEF out
<1>4. /\ pc'[t] = IF EntersReadout(pcbRecvLength'[t]) THEN "readout" ELSE "receive"
      /\ recvOffset'[t] = 0
      /\ \A u \in Threads \ {t} : /\ pc'[u] = pc[u] /\ recvOffset'[u] = recvOffset[u]
                                  /\ outHits'[u] = outHits[u]
  BY <1>0, <1>3 DEF TypeOK
<1>5. CASE Unanswered(t, pcbRecvLength[t]) /\ due' = [due EXCEPT ![t] = <<>>]
  <2>1. due'[t] = <<>> /\ pending'[t] = pending[t] /\ \A u \in Threads \ {t} : KeptAnswer(u)
    BY <1>0, <1>1, <1>4, <1>5, UnansweredValues DEF TypeOK, KeptAnswer
  <2>2. AnswerOf(t)'
    BY <1>1, <2>1 DEF AnswerOf
  <2> QED
    BY <2>1, <2>2, AnswerStepOf
<1>6. CASE \E answer \in CardAnswers(t, out.b) :
             Answered(t, 0, answer) /\ due' = [due EXCEPT ![t] = Due(answer)]
  <2>1. PICK answer \in CardAnswers(t, out.b) :
               Answered(t, 0, answer) /\ due' = [due EXCEPT ![t] = Due(answer)]
    BY <1>6
  <2>2. answer.bytes \in Seq(Bytes) /\ Len(answer.bytes) \in 2 .. MaxByte + 2
    BY <1>0, <1>2, AnswerFacts
  <2>3. /\ Len(answer.held) <= Chunk
        /\ Len(answer.bytes) = 2 /\ answer.bytes[1] \in Announcing =>
             answer.held # <<>> /\ answer.bytes[2] = Len(answer.held) /\ answer.data = answer.held
    BY <1>0, <1>1, <1>2, CardFacts
  <2>4. /\ pbRecvBuffer'[t] = Written(pbRecvBuffer[t], 0, answer.bytes)
        /\ pcbRecvLength'[t] = Len(answer.bytes)
        /\ result'[t] = "SUCCESS" /\ pending'[t] = answer.held
        /\ due'[t] = Due(answer)
        /\ \A u \in Threads \ {t} : KeptAnswer(u)
    BY <1>0, <1>4, <2>1, AnsweredValues DEF TypeOK, KeptAnswer
  <2>5. \A e \in Index : e < Len(answer.bytes) => pbRecvBuffer'[t][e] = answer.bytes[e + 1]
    <3>1. pbRecvBuffer[t] \in Buffers
      BY <1>0 DEF TypeOK
    <3> QED
      BY <2>2, <2>4, <3>1, WrittenFront
  <2>6. pc'[t] = IF EntersReadout(Len(answer.bytes)) THEN "readout" ELSE "receive"
    BY <1>4, <2>4
  <2>7. ASSUME EntersReadout(Len(answer.bytes)), answer.bytes[1] \in Announcing
        PROVE  AnswerOf(t)'
    <3>1. Len(answer.bytes) = 2
      BY <2>7 DEF EntersReadout
    <3>2. pbRecvBuffer'[t][0] = answer.bytes[1] /\ pbRecvBuffer'[t][1] = answer.bytes[2]
      BY <2>5, <3>1, ByteFacts
    <3>3. due'[t] = answer.data \o <<SW90, 0>>
      BY <2>4, <2>7 DEF Due
    <3>4. Announced(t)'
      BY <1>4, <2>3, <2>4, <2>7, <3>1, <3>2, <3>3 DEF Announced
    <3> QED
      BY <2>3, <2>4, <2>6, <2>7, <3>4 DEF AnswerOf
  <2>8. ASSUME ~(EntersReadout(Len(answer.bytes)) /\ answer.bytes[1] \in Announcing)
        PROVE  AnswerOf(t)'
    <3>1. due'[t] = answer.bytes
      BY <2>4, <2>8 DEF Due
    <3>2. Intact(t)'
      BY <2>4, <2>5, <3>1 DEF Intact
    <3>3. pc'[t] = "readout" => ~MoreData(t)'
      <4>1. SUFFICES ASSUME pc'[t] = "readout"
                     PROVE  ~(recvOffset'[t] \in Index
                              /\ pbRecvBuffer'[t][recvOffset'[t]] \in Announcing)
        BY DEF MoreData
      <4>2. EntersReadout(Len(answer.bytes))
        BY <2>6, <4>1
      <4>3. pbRecvBuffer'[t][0] = answer.bytes[1]
        BY <2>2, <2>5, ByteFacts
      <4> QED
        BY <1>4, <2>8, <4>2, <4>3
    <3>4. pc'[t] \in {"readout", "receive"}
      BY <2>6
    <3> QED
      BY <2>3, <2>4, <3>2, <3>3, <3>4 DEF AnswerOf
  <2>9. AnswerOf(t)'
    BY <2>7, <2>8
  <2> QED
    BY <2>4, <2>9, AnswerStepOf
<1> QED
  BY <1>3, <1>5, <1>6

\* A GET RESPONSE is sent only for an answer that was announced: the card holds it.
LEMMA HeldWhenAsked ==
  ASSUME AnswerInv, NEW t \in Threads, GetResponse(t), due[t] # <<>>
  PROVE  Announced(t)
  BY DEF AnswerInv, AnswerOf, GetResponse

\* One GET RESPONSE replaces the announcement by all that was announced.
LEMMA GetResponseAnswer ==
  ASSUME OnePiece, TransmitInv, AnswerInv, NEW t \in Threads, GetResponse(t)
  PROVE  AnswerInv'
<1> DEFINE n == AskedLength(t)
           b == [sendBuffer[t] EXCEPT ![0] = 0, ![1] = INS_C0, ![2] = 0, ![3] = 0, ![4] = n]
<1>0. TypeOK /\ OfThread(t) /\ pc[t] = "readout" /\ AnswerOf(t) /\ recvOffset[t] \in Index
  BY InvByThread DEF GetResponse, AnswerInv, MoreData
<1>1. /\ \/ \E answer \in CardAnswers(t, b) : Answered(t, recvOffset[t], answer) /\ UNCHANGED due
         \/ Unanswered(t, n + 2) /\ due' = [due EXCEPT ![t] = <<>>]
      /\ recvOffset' = [recvOffset EXCEPT ![t] = NextOffset(pcbRecvLength'[t])]
      /\ pc' = pc /\ outHits' = outHits
  BY DEF GetResponse
<1>2. b \in [Index -> Cells \cup {n}] /\ b[1] = INS_C0 /\ b[4] = n
  <2> HIDE DEF n
  <2>1. sendBuffer[t] \in [Index -> Cells] /\ {0, 1, 2, 3, 4} \subseteq Index
        /\ INS_C0 \in Cells /\ 0 \in Cells
    BY <1>0, ByteFacts DEF TypeOK, Buffers
  <2> QED
    BY <2>1
<1>3. n \in Cells
  <2>1. pcbRecvLength[t] \in Nat /\ pcbRecvLength[t] >= 2 /\ pcbRecvLength[t] <= MaxByte + 3
        /\ pbRecvBuffer[t] \in Buffers
    BY <1>0 DEF OfThread, ReadoutOf, TypeOK
  <2>2. pcbRecvLength[t] - 1 \in Index
    BY <2>1, ByteFacts DEF Index, MAX_APDU_LENGTH
  <2>3. pbRecvBuffer[t][pcbRecvLength[t] - 1] \in Cells
    BY <2>1, <2>2 DEF Buffers
  <2>4. MaxByte - 1 \in Cells
    BY ByteFacts DEF Cells, Bytes
  <2> QED
    BY <2>3, <2>4 DEF AskedLength
<1>4. b \in Buffers
  BY <1>2, <1>3 DEF Buffers
<1> HIDE DEF b
<1>5. /\ pc'[t] = "readout" /\ recvOffset'[t] = NextOffset(pcbRecvLength'[t])
      /\ \A u \in Threads \ {t} : /\ pc'[u] = pc[u] /\ recvOffset'[u] = recvOffset[u]
                                  /\ outHits'[u] = outHits[u]
  BY <1>0, <1>1 DEF TypeOK
<1>6. CASE Unanswered(t, n + 2) /\ due' = [due EXCEPT ![t] = <<>>]
  <2> HIDE DEF n
  <2>1. n + 2 \in Nat
    <3>1. n \in Nat
      BY <1>3, ByteFacts
    <3> QED
      BY <3>1
  <2>2. due'[t] = <<>> /\ pending'[t] = pending[t] /\ \A u \in Threads \ {t} : KeptAnswer(u)
    BY <1>0, <1>5, <1>6, <2>1, UnansweredValues DEF TypeOK, KeptAnswer
  <2>3. AnswerOf(t)'
    BY <1>0, <2>2 DEF AnswerOf
  <2> QED
    BY <2>2, <2>3, AnswerStepOf
<1>7. CASE \E answer \in CardAnswers(t, b) : Answered(t, recvOffset[t], answer) /\ UNCHANGED due
  <2>1. PICK answer \in CardAnswers(t, b) : Answered(t, recvOffset[t], answer) /\ UNCHANGED due
    BY <1>7
  <2>2. /\ pbRecvBuffer'[t] = Written(pbRecvBuffer[t], recvOffset[t], answer.bytes)
        /\ pcbRecvLength'[t] = Len(answer.bytes)
        /\ result'[t] = "SUCCESS" /\ pending'[t] = answer.held
        /\ due'[t] = due[t]
        /\ \A u \in Threads \ {t} : KeptAnswer(u)
    BY <1>0, <1>5, <2>1, AnsweredValues DEF TypeOK, KeptAnswer
  <2>3. Len(answer.held) <= Chunk
    BY <1>0, <1>4, <2>1, CardFacts DEF AnswerOf
  <2>4. ASSUME due[t] # <<>>
        PROVE  Intact(t)' /\ ~MoreData(t)'
    <3>1. Announced(t)
      BY <2>4, HeldWhenAsked
    <3>2. pending[t] \in Seq(Bytes) /\ Len(pending[t]) \in Nat /\ Len(pending[t]) <= Chunk
          /\ Len(pending[t]) # 0 /\ pending[t] # <<>>
      BY <1>0, <3>1 DEF TypeOK, HeldData, AnswerOf, Announced
    <3>3. n = Len(pending[t])
      <4>1. pcbRecvLength[t] - 1 = 1 /\ pbRecvBuffer[t][1] = Len(pending[t])
        BY <3>1 DEF Announced
      <4> QED
        BY <3>2, <4>1 DEF AskedLength
    <3> HIDE DEF n
    <3>4. answer = Delivery(pending[t], Len(pending[t]))
      BY <1>2, <2>1, <3>3 DEF CardAnswers
    <3>5. answer.bytes = due[t] /\ recvOffset[t] = 0
      BY <1>0, <3>1, <3>2, <3>4, FetchAll DEF Announced
    <3>6. due[t] = pending[t] \o <<SW90, 0>> /\ due[t] \in Seq(Bytes)
      BY <1>0, <3>1 DEF Announced, TypeOK
    <3>7. Len(due[t]) = Len(pending[t]) + 2 /\ due[t][Len(pending[t]) + 1] = SW90
      <4>1. <<SW90, 0>> \in Seq(Bytes) /\ Len(<<SW90, 0>>) = 2
        BY ByteFacts
      <4> QED
        BY <3>2, <3>6, <4>1
    <3>8. pbRecvBuffer[t] \in Buffers
      BY <1>0 DEF TypeOK
    <3>9. \A e \in Index : e < Len(due[t]) => pbRecvBuffer'[t][e] = due[t][e + 1]
      <4>1. pbRecvBuffer'[t] = Written(pbRecvBuffer[t], 0, due[t])
        BY <2>2, <3>5, Zenon
      <4> QED
        BY <3>6, <3>8, <4>1, WrittenFront
    <3>10. Intact(t)'
      BY <2>2, <3>5, <3>9 DEF Intact
    <3>11. recvOffset'[t] = Len(pending[t])
      BY <1>5, <2>2, <3>2, <3>5, <3>7 DEF NextOffset
    <3>12. recvOffset'[t] \in Index => pbRecvBuffer'[t][recvOffset'[t]] = SW90
      BY <3>2, <3>7, <3>9, <3>11
    <3> QED
      BY <3>10, <3>12 DEF MoreData, OnePiece
  <2>5. AnswerOf(t)'
    BY <1>5, <2>2, <2>3, <2>4 DEF AnswerOf
  <2> QED
    BY <2>2, <2>5, AnswerStepOf
<1> QED
  BY <1>1, <1>6, <1>7

\* The loop ends with the answer that is due.
LEMMA ReadoutDoneAnswer ==
  ASSUME TypeOK, AnswerInv, NEW t \in Threads, ReadoutDone(t)
  PROVE  AnswerInv'
<1>1. /\ pc[t] = "readout" /\ ~MoreData(t) /\ pc'[t] = "receive"
      /\ pending'[t] = pending[t] /\ due'[t] = due[t] /\ recvOffset'[t] = recvOffset[t]
      /\ pcbRecvLength'[t] = pcbRecvLength[t] /\ pbRecvBuffer'[t] = pbRecvBuffer[t]
      /\ result'[t] = result[t]
      /\ \A u \in Threads \ {t} : KeptAnswer(u)
  BY DEF TypeOK, ReadoutDone, Step, seen, KeptAnswer
<1>2. ~Announced(t)
  BY <1>1, ByteFacts DEF Announced, MoreData
<1>3. AnswerOf(t)'
  BY <1>1, <1>2 DEF AnswerInv, AnswerOf, Intact
<1> QED
  BY <1>1, <1>3, AnswerStepOf

\* Saving the answer keeps it, for the exchange succeeded.
LEMMA SaveOutgoingAnswer ==
  ASSUME TypeOK, AnswerInv, NEW t \in Threads, SaveOutgoing(t)
  PROVE  AnswerInv'
<1>1. /\ pc[t] = "receive" /\ pc'[t] = "rulesOut"
      /\ pending'[t] = pending[t] /\ due'[t] = due[t]
      /\ pcbRecvLength'[t] = AnswerLength(t) /\ pbRecvBuffer'[t] = pbRecvBuffer[t]
      /\ result'[t] = result[t]
      /\ \A u \in Threads \ {t} : KeptAnswer(u)
  BY DEF TypeOK, SaveOutgoing, Step, seen, KeptAnswer
<1>2. AnswerOf(t)'
  BY <1>1 DEF AnswerInv, AnswerOf, Intact, AnswerLength
<1> QED
  BY <1>1, <1>2, AnswerStepOf

\* The outgoing rules change only what they say they change.
LEMMA OutgoingAnswer ==
  ASSUME TypeOK, AnswerInv, NEW t \in Threads, ApplyOutgoingRules(t)
  PROVE  AnswerInv'
<1>1. PICK stray \in Strays :
       LET hits  == IF config.modify THEN MatchingRules("OUTPUT_APDU", stray) ELSE {}
           after == ApplyRules(hits, "OUTPUT_APDU", pbRecvBuffer[t], pcbRecvLength[t], 0)
       IN  /\ pbRecvBuffer' = [pbRecvBuffer EXCEPT ![t] = after.b]
           /\ pcbRecvLength' = [pcbRecvLength EXCEPT ![t] = after.len]
           /\ outHits' = [outHits EXCEPT ![t] = hits]
  BY DEF ApplyOutgoingRules
<1> DEFINE hits  == IF config.modify THEN MatchingRules("OUTPUT_APDU", stray) ELSE {}
           n     == pcbRecvLength[t]
           old   == pbRecvBuffer[t]
           L     == NewLength(hits, "OUTPUT_APDU", n, 0)
           NB    == NewBuffer(hits, old, n)
           B     == [e \in Index |-> IF e < L THEN NB[e] ELSE old[e]]
<1>2. hits \in SUBSET DOMAIN Rules
  BY MatchingType
<1>3. /\ pbRecvBuffer' = [pbRecvBuffer EXCEPT ![t] = B]
      /\ pcbRecvLength' = [pcbRecvLength EXCEPT ![t] = L]
      /\ outHits' = [outHits EXCEPT ![t] = hits]
  BY <1>1 DEF ApplyRules
<1> HIDE DEF hits
<1>4. GivenBy(hits, LE_ELEM) = {} => L = n
  BY <1>2, LastWrittenFacts DEF NewLength
<1>5. \A e \in Index : e < n => B[e] = old[e] \/ B[e] \in GivenBy(hits, e)
  BY <1>2, LastWrittenFacts DEF NewBuffer
<1> HIDE DEF B, L
<1>6. /\ pc[t] = "rulesOut" /\ pc'[t] = "idle"
      /\ pending'[t] = pending[t] /\ due'[t] = due[t]
      /\ pcbRecvLength'[t] = L /\ pbRecvBuffer'[t] = B /\ outHits'[t] = hits
      /\ \A u \in Threads \ {t} : KeptAnswer(u)
  BY <1>3 DEF TypeOK, ApplyOutgoingRules, Step, KeptAnswer
<1>7. due[t] # <<>> => Intact(t)
  BY <1>6 DEF AnswerInv, AnswerOf
<1>8. due[t] # <<>> => ReturnedOf(t)'
  BY <1>4, <1>5, <1>6, <1>7 DEF Intact, ReturnedOf
<1>9. AnswerOf(t)'
  BY <1>6, <1>8 DEF AnswerInv, AnswerOf
<1> QED
  BY <1>6, <1>9, AnswerStepOf

\* Every step preserves the invariant.
LEMMA AnswerStep ==
  ASSUME OnePiece, TransmitInv, AnswerInv, [Next]_vars
  PROVE  AnswerInv'
<1>0. TypeOK
  BY DEF TransmitInv
<1>1. ASSUME NEW t \in Threads, SCardConnectW(t) \/ UNCHANGED vars
      PROVE  AnswerInv'
  <2>1. \A u \in Threads : KeptAnswer(u)
    BY <1>1 DEF SCardConnectW, vars, local, seen, KeptAnswer
  <2> QED
    BY <2>1, KeptAnswerOf, AnswerStepOf DEF AnswerInv
<1>2. CASE Next
  <2>1. PICK t \in Threads :
          \/ \E c \in Commands, side \in {"original", "proxy"} : SCardTransmit(t, c, side)
          \/ Transmitting(t)
          \/ SCardConnectW(t)
    BY <1>2 DEF Next
  <2> QED
    BY <1>0, <1>1, <2>1, SCardTransmitAnswer, IncomingAnswer, SendAnswer, GetResponseAnswer,
       ReadoutDoneAnswer, SaveOutgoingAnswer, OutgoingAnswer DEF Transmitting
<1>3. CASE UNCHANGED vars
  <2>1. ASSUME NEW t \in Threads PROVE AnswerOf(t)'
    BY <1>3, KeptAnswerOf DEF vars, local, seen, KeptAnswer, AnswerInv
  <2> QED
    BY <2>1 DEF AnswerInv
<1> QED
  BY <1>2, <1>3

-----------------------------------------------------------------------------
(* The theorems *)

\* The answer under way in every reachable state.
LEMMA AnswerInvariant == OnePiece => (Spec => []AnswerInv)
<1> SUFFICES ASSUME OnePiece PROVE Spec => []AnswerInv
  OBVIOUS
<1>1. TransmitInv /\ AnswerInv /\ [Next]_vars => AnswerInv'
  BY AnswerStep
<1> QED
  BY <1>1, InitAnswer, Invariant, PTL DEF Spec

\* When no exchange of a call failed, the application holds all the data of the card
\* and the final status, but for what an applied rule changed, if the data fits into
\* one response of the card.
THEOREM WholeAnswers == OnePiece => (Spec => []AnswerComplete)
<1> SUFFICES ASSUME OnePiece PROVE Spec => []AnswerComplete
  OBVIOUS
<1>1. AnswerInv => AnswerComplete
  BY DEF AnswerInv, AnswerOf, ReturnedOf, AnswerComplete
<1> QED
  BY <1>1, AnswerInvariant, PTL

\* The readout loop sends GET RESPONSE only while the card holds data, if the data
\* fits into one response.
THEOREM AsksOnlyForHeld == OnePiece => (Spec => AsksForHeldData)
<1> SUFFICES ASSUME OnePiece PROVE Spec => AsksForHeldData
  OBVIOUS
<1> DEFINE A == \A t \in Threads :
                  pc[t] = "readout" /\ due[t] # <<>> /\ sendBuffer'[t] # sendBuffer[t] =>
                    pending[t] # <<>>
<1>1. TypeOK /\ AnswerInv /\ [Next]_vars => [A]_vars
  <2> SUFFICES ASSUME TypeOK, AnswerInv, Next,
                      NEW t \in Threads, pc[t] = "readout", due[t] # <<>>,
                      sendBuffer'[t] # sendBuffer[t]
               PROVE  pending[t] # <<>>
    OBVIOUS
  <2>1. PICK u \in Threads :
          \/ \E c \in Commands, side \in {"original", "proxy"} : SCardTransmit(u, c, side)
          \/ Transmitting(u)
          \/ SCardConnectW(u)
    BY DEF Next
  <2>2. ~SCardConnectW(u) /\ ~ReadoutDone(u) /\ ~SaveOutgoing(u) /\ ~ApplyOutgoingRules(u)
    BY DEF SCardConnectW, ReadoutDone, SaveOutgoing, ApplyOutgoingRules, local
  <2>3. ASSUME NEW c, NEW side, SCardTransmit(u, c, side) PROVE u # t /\ sendBuffer'[t] = sendBuffer[t]
    BY <2>3 DEF SCardTransmit, Step, TypeOK
  <2>4. ASSUME ApplyIncomingRules(u) PROVE u # t /\ sendBuffer'[t] = sendBuffer[t]
    BY <2>4 DEF ApplyIncomingRules, Step, TypeOK
  <2>5. ASSUME SendCommand(u) PROVE u # t /\ sendBuffer'[t] = sendBuffer[t]
    BY <2>5 DEF SendCommand, TypeOK
  <2>6. GetResponse(u)
    BY <2>1, <2>2, <2>3, <2>4, <2>5 DEF Transmitting
  <2>7. u = t
    BY <2>6 DEF GetResponse, TypeOK
  <2> QED
    BY <2>6, <2>7, HeldWhenAsked DEF Announced
<1> QED
  BY <1>1, TypeCorrect, AnswerInvariant, PTL DEF Spec, AsksForHeldData

-----------------------------------------------------------------------------
(* The bytes counted, when calls do not overlap *)

\* The counter is ahead of the card by no more than the command about to be sent, and
\* by exactly that when the library adds nothing; only AUTO_REQUEST_DATA reads out.
BytesInv ==
  /\ (\A t \in Threads : pc[t] # "send") => m_processedApduByteCounter <= cardBytes
  /\ \A t \in Threads : pc[t] = "send" =>
       m_processedApduByteCounter <= cardBytes + cbSendLength[t]
  /\ ~config.force /\ ~config.auto =>
       /\ (\A t \in Threads : pc[t] # "send") => m_processedApduByteCounter = cardBytes
       /\ \A t \in Threads : pc[t] = "send" =>
            m_processedApduByteCounter = cardBytes + cbSendLength[t]
  /\ \A t \in Threads : pc[t] = "readout" => config.auto

\* A step that neither counts nor sends, of the one thread that is inside.
LEMMA QuietStep ==
  ASSUME BytesInv, TypeOK, NEW t \in Threads, pc[t] # "send", NEW q, q \notin {"send", "readout"},
         pc' = [pc EXCEPT ![t] = q], \A u \in Threads \ {t} : pc[u] # "send",
         m_processedApduByteCounter' = m_processedApduByteCounter,
         cardBytes' = cardBytes, config' = config
  PROVE  BytesInv'
<1>1. pc'[t] = q /\ \A u \in Threads \ {t} : pc'[u] = pc[u]
  BY DEF TypeOK
<1> QED
  BY <1>1 DEF BytesInv

\* Every step preserves it.
LEMMA BytesStep ==
  ASSUME ~Concurrent, TypeOK, TypeOK', HistoryInv, BytesInv, [Next]_vars
  PROVE  BytesInv'
<1>0. ASSUME NEW t \in Threads, pc[t] # "idle" \/ \A u \in Threads : pc[u] = "idle"
      PROVE  \A u \in Threads \ {t} : pc[u] = "idle"
  BY <1>0 DEF HistoryInv
<1>1. ASSUME NEW t \in Threads, NEW c \in Commands, NEW side, SCardTransmit(t, c, side)
      PROVE  BytesInv'
  BY <1>1, QuietStep DEF SCardTransmit, Step
<1>2. ASSUME NEW t \in Threads, ApplyIncomingRules(t) PROVE BytesInv'
  <2>1. PICK n :
          /\ cbSendLength' = [cbSendLength EXCEPT ![t] = n]
          /\ m_processedApduByteCounter' = m_processedApduByteCounter + n
    BY <1>2 DEF ApplyIncomingRules
  <2>2. /\ pc[t] = "rulesIn" /\ pc'[t] = "send" /\ cbSendLength'[t] = n
        /\ cardBytes' = cardBytes /\ config' = config
        /\ \A u \in Threads \ {t} : pc'[u] = pc[u]
    BY <1>2, <2>1 DEF ApplyIncomingRules, Step, TypeOK
  <2>3. \A u \in Threads \ {t} : pc[u] = "idle"
    BY <1>0, <2>2
  <2>4. (\A u \in Threads : pc[u] # "send") /\ \A u \in Threads : pc'[u] = "send" => u = t
    BY <2>2, <2>3
  <2>5. n \in Nat /\ m_processedApduByteCounter \in Nat /\ cardBytes \in Nat
    BY <2>2 DEF TypeOK
  <2>6. m_processedApduByteCounter <= cardBytes
    BY <2>4 DEF BytesInv
  <2>7. m_processedApduByteCounter' <= cardBytes' + cbSendLength'[t]
    BY <2>1, <2>2, <2>5, <2>6
  <2>8. ~config.force /\ ~config.auto => m_processedApduByteCounter' = cardBytes' + cbSendLength'[t]
    BY <2>1, <2>2, <2>4 DEF BytesInv
  <2>9. \A u \in Threads : pc'[u] = "readout" => config'.auto
    BY <2>2 DEF BytesInv
  <2> QED
    BY <2>2, <2>4, <2>7, <2>8, <2>9 DEF BytesInv
<1>3. ASSUME NEW t \in Threads, SendCommand(t) PROVE BytesInv'
  <2>1. /\ pc[t] = "send" /\ pc'[t] \in {"readout", "receive"}
        /\ cardBytes' = cardBytes + Forced(t).len
        /\ m_processedApduByteCounter' = m_processedApduByteCounter /\ config' = config
        /\ \A u \in Threads \ {t} : pc'[u] = pc[u]
    BY <1>3 DEF SendCommand, shared, TypeOK
  <2>2. cbSendLength[t] \in Nat /\ m_processedApduByteCounter \in Nat /\ cardBytes \in Nat
    BY DEF TypeOK
  <2>3. /\ Forced(t).len = cbSendLength[t] \/ Forced(t).len = cbSendLength[t] + 1
        /\ ~config.force => Forced(t).len = cbSendLength[t]
    BY DEF Forced
  <2>4. \A u \in Threads : pc'[u] # "send"
    BY <1>0, <2>1
  <2>5. pc'[t] = "readout" => config.auto
    BY <1>3 DEF SendCommand, EntersReadout, TypeOK
  <2>6. m_processedApduByteCounter <= cardBytes + cbSendLength[t]
    BY <2>1 DEF BytesInv
  <2>7. m_processedApduByteCounter' <= cardBytes'
    BY <2>1, <2>2, <2>3, <2>6
  <2>8. ~config.force /\ ~config.auto => m_processedApduByteCounter' = cardBytes'
    BY <2>1, <2>3 DEF BytesInv
  <2>9. \A u \in Threads : pc'[u] = "readout" => config'.auto
    BY <2>1, <2>5 DEF BytesInv
  <2> QED
    BY <2>1, <2>4, <2>7, <2>8, <2>9 DEF BytesInv
<1>4. ASSUME NEW t \in Threads, GetResponse(t) PROVE BytesInv'
  <2>1. pc' = pc /\ cardBytes' = cardBytes + 5 /\ config' = config
        /\ m_processedApduByteCounter' = m_processedApduByteCounter
        /\ pc[t] = "readout"
    BY <1>4 DEF GetResponse, shared
  <2>2. \A u \in Threads : pc[u] # "send"
    BY <1>0, <2>1
  <2>3. m_processedApduByteCounter \in Nat /\ cardBytes \in Nat
    BY DEF TypeOK
  <2>4. config.auto
    BY <2>1 DEF BytesInv
  <2> QED
    BY <2>1, <2>2, <2>3, <2>4 DEF BytesInv
<1>5. ASSUME NEW t \in Threads, ReadoutDone(t) PROVE BytesInv'
  BY <1>5, <1>0, QuietStep DEF ReadoutDone, Step, shared, seen
<1>6. ASSUME NEW t \in Threads, SaveOutgoing(t) PROVE BytesInv'
  BY <1>6, <1>0, QuietStep DEF SaveOutgoing, Step, seen
<1>7. ASSUME NEW t \in Threads, ApplyOutgoingRules(t) PROVE BytesInv'
  BY <1>7, <1>0, QuietStep DEF ApplyOutgoingRules, Step
<1>8. ASSUME NEW t \in Threads, SCardConnectW(t) PROVE BytesInv'
  BY <1>8 DEF SCardConnectW, local, BytesInv
<1>9. CASE UNCHANGED vars
  BY <1>9 DEF vars, shared, local, seen, BytesInv
<1>10. CASE Next
  BY <1>10, <1>1, <1>2, <1>3, <1>4, <1>5, <1>6, <1>7, <1>8 DEF Next, Transmitting
<1> QED
  BY <1>9, <1>10

\* Without overlapping calls the byte counter of theApp is at rest never ahead of the
\* bytes sent since SCardConnectW, and is exactly these bytes when the library neither
\* pads a command nor sends GET RESPONSE on its own.
THEOREM SerialBytes == ~Concurrent => (Spec => []BytesCounted)
<1> SUFFICES ASSUME ~Concurrent PROVE Spec => []BytesCounted
  OBVIOUS
<1>1. Init => HistoryInv /\ BytesInv
  BY DEF Init, HistoryInv, BytesInv
<1>2. TypeOK /\ TypeOK' /\ HistoryInv /\ BytesInv /\ [Next]_vars => HistoryInv' /\ BytesInv'
  BY HistoryStep, BytesStep
<1>3. BytesInv => BytesCounted
  BY DEF BytesInv, BytesCounted
<1> QED
  BY <1>1, <1>2, <1>3, TypeCorrect, PTL DEF Spec
=============================================================================
