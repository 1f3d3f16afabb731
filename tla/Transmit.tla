------------------------------ MODULE Transmit ------------------------------
(***************************************************************************)
(* One command through SCardTransmit: it is saved in the history, changed  *)
(* by the incoming rules, sent to the original library or to the proxy,    *)
(* answered; data the card announces is fetched on behalf of the           *)
(* application (AUTO_REQUEST_DATA), the answer is saved in the history and *)
(* changed by the outgoing rules.  History, rules and counters belong to   *)
(* theApp and are shared by all threads; nothing takes a lock.             *)
(*                                                                         *)
(* Buffers are functions on the indices of an APDU_BUFFER.  Byte values    *)
(* are scaled down to 0..MaxByte; an uninitialised cell holds Uninit.      *)
(***************************************************************************)
EXTENDS Naturals, Sequences, FiniteSets

CONSTANTS
  Threads,      \* threads of the host application, each with a card of its own
  Concurrent,   \* may two threads be inside the library at the same time?
  Configs,      \* the option records the rules file may give
  Rules,        \* rulesList
  Commands,     \* the APDUs the application sends, [b |-> buffer, len |-> length]
  Datas,        \* the response data a card may have for a command
  Chunk,        \* the most data bytes a card puts in one response
  MaxByte,      \* bound: largest byte value (255 in the code)
  SW61, SW6C,   \* first status bytes that announce data (0x61, 0x6C)
  SW90, SW69,   \* first status bytes of success and of refusal
  INS_C0,       \* instruction byte of GET RESPONSE
  MaxCalls,     \* bound: number of calls of SCardTransmit
  MaxSent       \* bound: bytes sent after which a GET RESPONSE no longer fails

MAX_APDU_LENGTH == MaxByte + 7
OFFSET_CDATA    == 5
LE_ELEM         == MAX_APDU_LENGTH - 1
Index           == 0 .. MAX_APDU_LENGTH - 1
Bytes           == 0 .. MaxByte
Uninit          == MaxByte + 1
Cells           == Bytes \cup {Uninit}
Buffers         == [Index -> Cells]
Apdus           == [b : Buffers, len : Nat]
Directions      == {"INPUT_APDU", "OUTPUT_APDU"}

\* A rule as ApplyRules reads it.  history > 0 with direction OUTPUT_APDU never
\* returns from GetApduFromHistory and is left out.
MatchRules  == {m \in [history : Nat, apduDirection : Directions,
                       element : Index, value : Bytes] :
                  m.apduDirection = "OUTPUT_APDU" => m.history = 0}
ActionRules == [valid : BOOLEAN, element : Index, value : Bytes]
RuleRecords == [direction : Directions, usage : {0, 1},
                matchRules : Seq(MatchRules), actionRules : Seq(ActionRules)]
Options     == [modify : BOOLEAN, auto : BOOLEAN, force : BOOLEAN]

ASSUME TransmitAssumption ==
  /\ MaxByte \in Nat /\ MaxByte > 1
  /\ {SW61, SW6C, SW90, SW69, INS_C0} \subseteq Bytes
  /\ Concurrent \in BOOLEAN
  /\ Configs \subseteq Options
  /\ Rules \in Seq(RuleRecords)
  /\ \A c \in Commands : /\ c \in Apdus
                         /\ c.len >= 4 /\ c.len < MAX_APDU_LENGTH
                         /\ \A e \in Index : c.b[e] \in Bytes
  /\ \A d \in Datas : d \in Seq(Bytes) /\ Len(d) <= MaxByte
  /\ Chunk \in Nat \ {0}
  /\ MaxCalls \in Nat /\ MaxSent \in Nat

VARIABLES
  config,          \* m_winscardConfig, fixed when the rules file is loaded
  apduInList,      \* commands as the application gave them, newest first
  apduOutList,     \* answers before the outgoing rules, newest first
  m_processedApduByteCounter,
  apduCounter,
  pc,              \* where each thread is in SCardTransmit
  via,             \* whether its handle is a remote card
  apdu,            \* the command of its call
  sendBuffer,      \* local buffer the rules change
  cbSendLength,
  pbRecvBuffer,    \* the application's buffer, reused from call to call
  pcbRecvLength,
  recvOffset,      \* of the readout loop; MAX_APDU_LENGTH when it wrapped below zero
  result,
  pending,         \* the card: data it still holds for GET RESPONSE
  sent,            \* observed: the command as it reached the library or proxy
  due,             \* observed: the answer the application is to receive, if any
  inHits, outHits, \* observed: rules applied to the command and to the answer
  cardBytes        \* observed: bytes of commands sent since SCardConnectW

shared == <<config, apduInList, apduOutList, m_processedApduByteCounter, apduCounter>>
local  == <<pc, via, apdu, sendBuffer, cbSendLength, pbRecvBuffer, pcbRecvLength,
            recvOffset, result>>
seen   == <<sent, due, inHits, outHits, cardBytes>>
vars   == <<shared, local, pending, seen>>

Announcing == {SW61, SW6C}
Zeros      == [e \in Index |-> 0]
NoApdu     == [b |-> Zeros, len |-> 0]

Init ==
  /\ config \in Configs
  /\ apduInList = <<>>
  /\ apduOutList = <<>>
  /\ m_processedApduByteCounter = 0
  /\ apduCounter = 0
  /\ pc = [t \in Threads |-> "idle"]
  /\ via = [t \in Threads |-> "original"]
  /\ apdu = [t \in Threads |-> NoApdu]
  /\ sendBuffer = [t \in Threads |-> Zeros]
  /\ cbSendLength = [t \in Threads |-> 0]
  /\ pbRecvBuffer = [t \in Threads |-> Zeros]
  /\ pcbRecvLength = [t \in Threads |-> 0]
  /\ recvOffset = [t \in Threads |-> 0]
  /\ result = [t \in Threads |-> "SUCCESS"]
  /\ pending = [t \in Threads |-> <<>>]
  /\ sent = [t \in Threads |-> NoApdu]
  /\ due = [t \in Threads |-> <<>>]
  /\ inHits = [t \in Threads |-> {}]
  /\ outHits = [t \in Threads |-> {}]
  /\ cardBytes = 0

\* The first n cells of a buffer, zeros after them: memset, then memcpy.
ZeroFilled(buffer, n) == [e \in Index |-> IF e < n THEN buffer[e] ELSE 0]

\* A response written into a buffer at an offset.
Written(buffer, offset, bytes) ==
  [e \in Index |-> IF offset <= e /\ e < offset + Len(bytes)
                   THEN bytes[e - offset + 1] ELSE buffer[e]]

-----------------------------------------------------------------------------
(* The rules *)

\* std::list is a ring through its end node: an iterator moved past the end comes
\* round to the beginning.  At the end node the caller's zeroed buffer is kept.
GetApduFromHistory(list, history) ==
  LET position == history % (Len(list) + 1) IN
  IF position < Len(list) THEN list[position + 1] ELSE Zeros

\* An empty apduOutList is not noticed (its end is compared with the end of
\* apduInList): what its end node holds decides, the rules of "stray" match it.
Matches(r, m, stray) ==
  IF m.apduDirection = "OUTPUT_APDU" /\ apduOutList = <<>>
  THEN r \in stray
  ELSE LET list == IF m.apduDirection = "INPUT_APDU" THEN apduInList ELSE apduOutList
       IN  GetApduFromHistory(list, m.history)[m.element] = m.value

MatchingRules(direction, stray) ==
  {r \in DOMAIN Rules : /\ Rules[r].direction = direction
                        /\ Rules[r].usage = 1
                        /\ \A i \in DOMAIN Rules[r].matchRules :
                             Matches(r, Rules[r].matchRules[i], stray)}

Strays == IF apduOutList = <<>> THEN SUBSET DOMAIN Rules ELSE {{}}

\* The actions <<rule, position>> of the applied rules that set an element ...
Writers(hits, e) ==
  {w \in hits \X (UNION {DOMAIN Rules[r].actionRules : r \in hits}) :
     /\ w[2] \in DOMAIN Rules[w[1]].actionRules
     /\ Rules[w[1]].actionRules[w[2]].valid
     /\ Rules[w[1]].actionRules[w[2]].element = e}

\* ... the last of which, in the order of the rules and of their actions, stays.
LastWritten(hits, e) ==
  LET w == CHOOSE w \in Writers(hits, e) :
             \A v \in Writers(hits, e) : v[1] < w[1] \/ (v[1] = w[1] /\ v[2] <= w[2])
  IN  Rules[w[1]].actionRules[w[2]].value

\* newBuffer: only its first n cells are copied from the buffer.
NewBuffer(hits, buffer, n) ==
  [e \in Index |-> IF e # LE_ELEM /\ Writers(hits, e) # {} THEN LastWritten(hits, e)
                   ELSE IF e < n THEN buffer[e] ELSE Uninit]

\* The length after the rules.  For a command it is computed from byte 4 as it
\* was before them (lc stands for it, an arbitrary byte when it was never set).
NewLength(hits, direction, n, lc) ==
  IF direction = "INPUT_APDU" /\ hits # {} THEN lc + OFFSET_CDATA
  ELSE IF Writers(hits, LE_ELEM) # {} THEN LastWritten(hits, LE_ELEM) ELSE n

\* Fault: newBuffer is copied back in full, its uninitialised cells included.
ApplyRules_WholeBuffer(hits, direction, buffer, n, lc) ==
  [b |-> NewBuffer(hits, buffer, 0), len |-> NewLength(hits, direction, n, lc)]

ApplyRules(hits, direction, buffer, n, lc) ==
  LET length == NewLength(hits, direction, n, lc)
      new    == NewBuffer(hits, buffer, n)
  IN  [b   |-> [e \in Index |-> IF e < length THEN new[e] ELSE buffer[e]],
       len |-> length]

-----------------------------------------------------------------------------
(* Entry: the command is saved, copied and changed *)

Step(t, from, to) == pc[t] = from /\ pc' = [pc EXCEPT ![t] = to]

\* Fault: the local copy is saved, which is not yet filled.
SaveIncoming_Local(t, c) == <<ZeroFilled(sendBuffer[t], c.len)>> \o apduInList

SaveIncoming(t, c) == <<ZeroFilled(c.b, c.len)>> \o apduInList

SCardTransmit(t, c, side) ==
  /\ Step(t, "idle", "rulesIn")
  /\ Concurrent \/ \A u \in Threads : pc[u] = "idle"
  /\ Len(apduInList) < MaxCalls
  /\ via' = [via EXCEPT ![t] = side]
  /\ apdu' = [apdu EXCEPT ![t] = c]
  /\ apduInList' = SaveIncoming(t, c)
  /\ sendBuffer' = [sendBuffer EXCEPT ![t] =
                      [e \in Index |-> IF e < c.len THEN c.b[e] ELSE Uninit]]
  /\ cbSendLength' = [cbSendLength EXCEPT ![t] = c.len]
  /\ pcbRecvLength' = [pcbRecvLength EXCEPT ![t] = MAX_APDU_LENGTH]
  /\ result' = [result EXCEPT ![t] = "SUCCESS"]
  /\ inHits' = [inHits EXCEPT ![t] = {}]
  /\ outHits' = [outHits EXCEPT ![t] = {}]
  /\ UNCHANGED <<config, apduOutList, m_processedApduByteCounter, apduCounter,
                 pbRecvBuffer, recvOffset, pending, sent, due, cardBytes>>

\* Byte 4 of the buffer, or whatever the stack held if the command has no byte 4.
LcValues(t) == IF sendBuffer[t][4] = Uninit THEN Bytes ELSE {sendBuffer[t][4]}

\* Fault: the length before the rules is counted.
ApplyIncomingRules_CountFirst(t) ==
  /\ Step(t, "rulesIn", "send")
  /\ \E stray \in Strays, lc \in LcValues(t) :
       LET hits  == IF config.modify THEN MatchingRules("INPUT_APDU", stray) ELSE {}
           after == ApplyRules(hits, "INPUT_APDU", sendBuffer[t], cbSendLength[t], lc)
       IN  /\ sendBuffer' = [sendBuffer EXCEPT ![t] = after.b]
           /\ cbSendLength' = [cbSendLength EXCEPT ![t] = after.len]
           /\ inHits' = [inHits EXCEPT ![t] = hits]
           /\ m_processedApduByteCounter' = m_processedApduByteCounter + cbSendLength[t]
  /\ UNCHANGED <<config, apduInList, apduOutList, apduCounter, via, apdu, pbRecvBuffer,
                 pcbRecvLength, recvOffset, result, pending, sent, due, outHits, cardBytes>>

ApplyIncomingRules(t) ==
  /\ Step(t, "rulesIn", "send")
  /\ \E stray \in Strays, lc \in LcValues(t) :
       LET hits  == IF config.modify THEN MatchingRules("INPUT_APDU", stray) ELSE {}
           after == ApplyRules(hits, "INPUT_APDU", sendBuffer[t], cbSendLength[t], lc)
       IN  /\ sendBuffer' = [sendBuffer EXCEPT ![t] = after.b]
           /\ cbSendLength' = [cbSendLength EXCEPT ![t] = after.len]
           /\ inHits' = [inHits EXCEPT ![t] = hits]
           /\ m_processedApduByteCounter' = m_processedApduByteCounter + after.len
  /\ UNCHANGED <<config, apduInList, apduOutList, apduCounter, via, apdu, pbRecvBuffer,
                 pcbRecvLength, recvOffset, result, pending, sent, due, outHits, cardBytes>>

-----------------------------------------------------------------------------
(* The exchange with the card, through the original library or the proxy *)

Least(m, n) == IF m < n THEN m ELSE n

\* The card's answer to GET RESPONSE: as much of the held data as fits, and a status
\* that says how much is left.
Delivery(held, asked) ==
  LET n    == Least(Chunk, IF asked = 0 THEN Len(held) ELSE Least(Len(held), asked))
      rest == SubSeq(held, n + 1, Len(held))
  IN  [bytes |-> IF held = <<>> THEN <<SW69, 0>>
                 ELSE SubSeq(held, 1, n) \o
                      (IF rest = <<>> THEN <<SW90, 0>> ELSE <<SW61, Len(rest)>>),
       held  |-> rest, data |-> <<>>]

\* Its answers to any other command: data delivered at once, or announced and held.
Execution ==
  {[bytes |-> d \o <<SW90, 0>>, held |-> <<>>, data |-> d] : d \in Datas}
  \cup {[bytes |-> <<sw, Len(d)>>, held |-> d, data |-> d] :
          sw \in Announcing, d \in Datas \ {<<>>}}

CardAnswers(t, b) ==
  IF b[1] = INS_C0 THEN {Delivery(pending[t], b[4])} ELSE Execution

Answered(t, offset, answer) ==
  /\ pbRecvBuffer' = [pbRecvBuffer EXCEPT ![t] = Written(@, offset, answer.bytes)]
  /\ pcbRecvLength' = [pcbRecvLength EXCEPT ![t] = Len(answer.bytes)]
  /\ result' = [result EXCEPT ![t] = "SUCCESS"]
  /\ pending' = [pending EXCEPT ![t] = answer.held]

\* No answer: the original library and an answer FAIL leave the length alone, a
\* proxy that says nothing sets it to zero.
Unanswered(t, length) ==
  /\ \E failure \in IF via[t] = "original"
                    THEN {[status |-> "SCARD_ERROR", len |-> length]}
                    ELSE {[status |-> "STAT_SCARD_ERROR", len |-> length],
                          [status |-> "STAT_DATA_INCORRECT_LENGTH", len |-> 0]} :
       /\ pcbRecvLength' = [pcbRecvLength EXCEPT ![t] = failure.len]
       /\ result' = [result EXCEPT ![t] = failure.status]
  /\ UNCHANGED <<pbRecvBuffer, pending>>

\* FORCE_APDU_NONZERO_INPUT_DATA pads a short command to the original library.
Forced(t) ==
  IF via[t] = "original" /\ config.force /\ cbSendLength[t] < 6
  THEN [b |-> [sendBuffer[t] EXCEPT ![4] = 1, ![5] = 0], len |-> cbSendLength[t] + 1]
  ELSE [b |-> sendBuffer[t], len |-> cbSendLength[t]]

EntersReadout(length) == config.auto /\ length = 2

\* What the application is to receive: the data itself if the library fetches it.
Due(answer) ==
  IF EntersReadout(Len(answer.bytes)) /\ answer.bytes[1] \in Announcing
  THEN answer.data \o <<SW90, 0>> ELSE answer.bytes

SendCommand(t) ==
  /\ pc[t] = "send"
  /\ LET out == Forced(t) IN
     /\ sendBuffer' = [sendBuffer EXCEPT ![t] = out.b]
     /\ cbSendLength' = [cbSendLength EXCEPT ![t] = out.len]
     /\ sent' = [sent EXCEPT ![t] = out]
     /\ cardBytes' = cardBytes + out.len
     /\ \/ \E answer \in CardAnswers(t, out.b) :
             /\ Answered(t, 0, answer)
             /\ due' = [due EXCEPT ![t] = Due(answer)]
        \/ Unanswered(t, pcbRecvLength[t]) /\ due' = [due EXCEPT ![t] = <<>>]
  /\ pc' = [pc EXCEPT ![t] = IF EntersReadout(pcbRecvLength'[t]) THEN "readout" ELSE "receive"]
  /\ recvOffset' = [recvOffset EXCEPT ![t] = 0]
  /\ UNCHANGED <<shared, via, apdu, inHits, outHits>>

-----------------------------------------------------------------------------
(* The readout loop of AUTO_REQUEST_DATA *)

\* Fault: the first data byte is looked at, not the status after the data.
NextOffset_Front(length) == 0

\* Fault: the offset is a signed number.
NextOffset_Signed(length) == length - 2

\* recvOffset = *pcbRecvLength - 2, a DWORD.
NextOffset(length) == IF length < 2 THEN MAX_APDU_LENGTH ELSE length - 2

\* The loop condition; outside the buffer it is taken to fail.
MoreData(t) ==
  recvOffset[t] \in Index /\ pbRecvBuffer[t][recvOffset[t]] \in Announcing

\* Fault: the number of announced bytes is not looked at.
AskedLength_One(t) == 1

\* Zero announced bytes are asked for as 254.
AskedLength(t) ==
  LET last == pbRecvBuffer[t][pcbRecvLength[t] - 1] IN
  IF last = 0 THEN MaxByte - 1 ELSE last

GetResponse(t) ==
  /\ pc[t] = "readout"
  /\ MoreData(t)
  /\ LET n == AskedLength(t)
         b == [sendBuffer[t] EXCEPT ![0] = 0, ![1] = INS_C0, ![2] = 0, ![3] = 0, ![4] = n]
     IN  /\ sendBuffer' = [sendBuffer EXCEPT ![t] = b]
         /\ cbSendLength' = [cbSendLength EXCEPT ![t] = 5]
         /\ \/ \E answer \in CardAnswers(t, b) :
                  Answered(t, recvOffset[t], answer) /\ UNCHANGED due
            \/ /\ cardBytes < MaxSent
               /\ Unanswered(t, n + 2)
               /\ due' = [due EXCEPT ![t] = <<>>]
  /\ cardBytes' = cardBytes + 5
  /\ recvOffset' = [recvOffset EXCEPT ![t] = NextOffset(pcbRecvLength'[t])]
  /\ UNCHANGED <<shared, pc, via, apdu, sent, inHits, outHits>>

ReadoutDone(t) ==
  /\ Step(t, "readout", "receive")
  /\ ~MoreData(t)
  /\ UNCHANGED <<shared, via, apdu, sendBuffer, cbSendLength, pbRecvBuffer, pcbRecvLength,
                 recvOffset, result, pending, seen>>

-----------------------------------------------------------------------------
(* The answer is saved, changed and returned *)

\* Fault: the length of a failed exchange is kept.
AnswerLength_Kept(t) == pcbRecvLength[t]

AnswerLength(t) == IF result[t] = "SUCCESS" THEN pcbRecvLength[t] ELSE 0

SaveOutgoing(t) ==
  /\ Step(t, "receive", "rulesOut")
  /\ pcbRecvLength' = [pcbRecvLength EXCEPT ![t] = AnswerLength(t)]
  /\ apduOutList' = <<ZeroFilled(pbRecvBuffer[t], AnswerLength(t))>> \o apduOutList
  /\ UNCHANGED <<config, apduInList, m_processedApduByteCounter, apduCounter, via, apdu,
                 sendBuffer, cbSendLength, pbRecvBuffer, recvOffset, result, pending, seen>>

\* Outgoing rules, apduCounter++ and the return to the application.
ApplyOutgoingRules(t) ==
  /\ Step(t, "rulesOut", "idle")
  /\ \E stray \in Strays :
       LET hits  == IF config.modify THEN MatchingRules("OUTPUT_APDU", stray) ELSE {}
           after == ApplyRules(hits, "OUTPUT_APDU", pbRecvBuffer[t], pcbRecvLength[t], 0)
       IN  /\ pbRecvBuffer' = [pbRecvBuffer EXCEPT ![t] = after.b]
           /\ pcbRecvLength' = [pcbRecvLength EXCEPT ![t] = after.len]
           /\ outHits' = [outHits EXCEPT ![t] = hits]
  /\ apduCounter' = apduCounter + 1
  /\ UNCHANGED <<config, apduInList, apduOutList, m_processedApduByteCounter, via, apdu,
                 sendBuffer, cbSendLength, recvOffset, result, pending, sent, due, inHits,
                 cardBytes>>

\* SCardConnectW starts the byte counter again.
SCardConnectW(t) ==
  /\ pc[t] = "idle"
  /\ Concurrent \/ \A u \in Threads : pc[u] = "idle"
  /\ m_processedApduByteCounter' = 0
  /\ cardBytes' = 0
  /\ UNCHANGED <<config, apduInList, apduOutList, apduCounter, local, pending, sent, due,
                 inHits, outHits>>

-----------------------------------------------------------------------------
Transmitting(t) ==
  \/ ApplyIncomingRules(t)
  \/ SendCommand(t)
  \/ GetResponse(t)
  \/ ReadoutDone(t)
  \/ SaveOutgoing(t)
  \/ ApplyOutgoingRules(t)

Next ==
  \E t \in Threads :
    \/ \E c \in Commands, side \in {"original", "proxy"} : SCardTransmit(t, c, side)
    \/ Transmitting(t)
    \/ SCardConnectW(t)

Spec == Init /\ [][Next]_vars

-----------------------------------------------------------------------------
(* Properties *)

PCs      == {"idle", "rulesIn", "send", "readout", "receive", "rulesOut"}
HeldData == {d \in Seq(Bytes) : Len(d) <= MaxByte}
Statuses == {"SUCCESS", "SCARD_ERROR", "STAT_SCARD_ERROR", "STAT_DATA_INCORRECT_LENGTH"}

\* Every variable has its type: buffers are defined on every index, only the cells
\* nobody set are uninitialised, and the history holds whole APDU_BUFFERs.
TypeOK ==
  /\ config \in Options
  /\ apduInList \in Seq(Buffers)
  /\ apduOutList \in Seq(Buffers)
  /\ m_processedApduByteCounter \in Nat
  /\ apduCounter \in Nat
  /\ pc \in [Threads -> PCs]
  /\ via \in [Threads -> {"original", "proxy"}]
  /\ apdu \in [Threads -> Apdus]
  /\ sendBuffer \in [Threads -> Buffers]
  /\ cbSendLength \in [Threads -> Nat]
  /\ pbRecvBuffer \in [Threads -> Buffers]
  /\ pcbRecvLength \in [Threads -> Nat]
  /\ recvOffset \in [Threads -> Nat]
  /\ result \in [Threads -> Statuses]
  /\ pending \in [Threads -> HeldData]
  /\ sent \in [Threads -> Apdus]
  /\ due \in [Threads -> Seq(Bytes)]
  /\ inHits \in [Threads -> SUBSET DOMAIN Rules]
  /\ outHits \in [Threads -> SUBSET DOMAIN Rules]
  /\ cardBytes \in Nat

\* The values the rules of a set give to an element.
GivenBy(hits, e) ==
  {Rules[w[1]].actionRules[w[2]].value : w \in Writers(hits, e)}

\* The command says its own length: byte 4 counts the bytes after it.
SelfSized(c) == c.len >= OFFSET_CDATA /\ c.len = c.b[4] + OFFSET_CDATA

\* Nothing reaches a card that neither the application nor an applied rule gave
\* (nor FORCE_APDU_NONZERO_INPUT_DATA), and the command keeps its length.  A rule
\* applied to a command that is not self-sized is excepted: the new length is then
\* taken from a byte that is no Lc.
OnlyRulesChange ==
  \A t \in Threads : pc[t] \in {"readout", "receive", "rulesOut"} =>
    LET c      == apdu[t]
        padded == config.force /\ via[t] = "original"
    IN  inHits[t] = {} \/ SelfSized(c) =>
          /\ sent[t].len \in {c.len} \cup (IF padded THEN {c.len + 1} ELSE {})
          /\ \A e \in Index : e < sent[t].len =>
               \/ e < c.len /\ sent[t].b[e] = c.b[e]
               \/ sent[t].b[e] \in GivenBy(inHits[t], e)
               \/ padded /\ e \in {4, 5}

\* The incoming rules look at the command of this very call as it was given, the
\* outgoing rules at that command and at its own answer (stdafx.h: "current == 0").
RulesSeeOwnExchange ==
  \A t \in Threads :
    /\ pc[t] \in {"rulesIn", "rulesOut"} =>
         apduInList[1] = ZeroFilled(apdu[t].b, apdu[t].len)
    /\ pc[t] = "rulesOut" =>
         /\ apduOutList[1] = ZeroFilled(pbRecvBuffer[t], pcbRecvLength[t])
         /\ Len(apduOutList) = Len(apduInList)

\* When every exchange of a call succeeded, the application holds all the data of
\* the card and the final status, except where an applied rule changed them
\* (Winscard.cpp: "READOUT ALL DATA").
AnswerComplete ==
  \A t \in Threads : pc[t] = "idle" /\ due[t] # <<>> =>
    /\ GivenBy(outHits[t], LE_ELEM) = {} => pcbRecvLength[t] = Len(due[t])
    /\ \A e \in Index : e < Len(due[t]) =>
         \/ pbRecvBuffer[t][e] = due[t][e + 1]
         \/ pbRecvBuffer[t][e] \in GivenBy(outHits[t], e)

\* A failed call gives the application no bytes to parse, and the history an empty
\* answer, unless an outgoing rule sets a length of its own.
FailureIsEmpty ==
  \A t \in Threads : result[t] # "SUCCESS" =>
    /\ pc[t] = "rulesOut" => pcbRecvLength[t] = 0
    /\ pc[t] = "idle" => pcbRecvLength[t] \in {0} \cup GivenBy(outHits[t], LE_ELEM)

\* Once GET RESPONSEs succeed, one is sent only while the card holds data: the loop
\* looks at a status, never at a data byte or an old one.
AsksForHeldData ==
  [][\A t \in Threads :
       pc[t] = "readout" /\ due[t] # <<>> /\ sendBuffer'[t] # sendBuffer[t] =>
         pending[t] # <<>>]_vars

\* At rest the byte counter is never ahead of the bytes sent since it was reset, and
\* it is exactly these when the library adds none of its own: no GET RESPONSE of
\* AUTO_REQUEST_DATA, no byte of FORCE_APDU_NONZERO_INPUT_DATA.
BytesCounted ==
  (\A t \in Threads : pc[t] = "idle") =>
    /\ m_processedApduByteCounter <= cardBytes
    /\ ~config.force /\ ~config.auto => m_processedApduByteCounter = cardBytes

\* What the comment says of the counter ("INCREASE COUNTER OF THE BYTES SEND TO CARD"):
\* at rest it is the bytes sent since it was reset, under every switch.  It does not
\* hold once the library has sent a GET RESPONSE or padded a command.
EveryByteCounted ==
  (\A t \in Threads : pc[t] = "idle") => m_processedApduByteCounter = cardBytes

=============================================================================
