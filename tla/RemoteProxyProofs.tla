------------------------- MODULE RemoteProxyProofs -------------------------
(***************************************************************************)
(* Theorems about RemoteProxy, for any set of threads and any number of    *)
(* commands.                                                               *)
(***************************************************************************)
EXTENDS RemoteProxy, TLAPS

-----------------------------------------------------------------------------
(* Type correctness *)

LEMMA TypeInit == Init => TypeOK
<1> SUFFICES ASSUME Init PROVE TypeOK
  OBVIOUS
<1>1. NoResult \in [cmd : Nat, status : Statuses, response : Seq(Pieces)]
  BY DEF NoResult, Statuses
<1>2. ub \in BOOLEAN /\ peerUp \in BOOLEAN
  BY DEF Init
<1>3. QED
  BY <1>1, <1>2 DEF Init, TypeOK, PCs, Ops

LEMMA ReturnTypeOK ==
  ASSUME TypeOK, NEW t \in Threads, NEW r \in Seq(Pieces), Return(t, r)
  PROVE  /\ result' \in [Threads -> [cmd : Nat, status : Statuses, response : Seq(Pieces)]]
         /\ pc' \in [Threads -> PCs]
         /\ buf' \in [Threads -> Seq(Pieces)]
         /\ boot' \in {"init", "tag", "up"}
  BY DEF TypeOK, Return, CallStatus, Statuses, PCs

LEMMA ParsedType ==
  ASSUME TypeOK, NEW t \in Threads
  PROVE  ParsedResponse(t) \in Seq(Pieces)
  BY DEF TypeOK, ParsedResponse

LEMMA ExtendType ==
  ASSUME NEW pieces \in Seq(Pieces), NEW p \in Pieces
  PROVE  Extend(pieces, p) \in Seq(Pieces)
  BY DEF Extend

\* Extend makes p the last piece and leaves the pieces before it as they are.
LEMMA ExtendFacts ==
  ASSUME NEW pieces \in Seq(Pieces), NEW p \in Pieces, NEW e \in Seq(Pieces), e = Extend(pieces, p)
  PROVE  /\ e # <<>> /\ e[Len(e)] = p
         /\ \/ /\ e = pieces /\ p.part = "more" /\ pieces # <<>>
               /\ pieces[Len(pieces)] = p
            \/ /\ e = Append(pieces, p) /\ Len(e) = Len(pieces) + 1
               /\ \A i \in 1..Len(pieces) : e[i] = pieces[i]
         /\ \A i \in 1..Len(e) :
              \/ i \in 1..Len(pieces) /\ e[i] = pieces[i]
              \/ i = Len(e) /\ e[i] = p
<1>1. CASE p.part = "more" /\ pieces # <<>> /\ pieces[Len(pieces)] = p
  <2>1. e = pieces
    BY <1>1 DEF Extend
  <2>2. e \in Seq(Pieces) /\ e # <<>> /\ e[Len(e)] = p
    BY <1>1, <2>1
  <2>3. \A i \in 1..Len(e) : i \in 1..Len(pieces) /\ e[i] = pieces[i]
    BY <2>1
  <2> QED
    BY <1>1, <2>1, <2>2, <2>3
<1>2. CASE ~(p.part = "more" /\ pieces # <<>> /\ pieces[Len(pieces)] = p)
  <2>1. e = Append(pieces, p)
    BY <1>2 DEF Extend
  <2>2. /\ e \in Seq(Pieces) /\ e # <<>> /\ Len(pieces) \in Nat /\ Len(e) = Len(pieces) + 1
        /\ e[Len(e)] = p /\ \A i \in 1..Len(pieces) : e[i] = pieces[i]
    BY <2>1
  <2>3. \A i \in 1..Len(e) : i \in 1..Len(pieces) \/ i = Len(e)
    BY <2>2
  <2> QED
    BY <2>1, <2>2, <2>3
<1> QED
  BY <1>1, <1>2

LEMMA TypeStep ==
  ASSUME TypeOK, NEW t \in Threads, Step(t), UNCHANGED mode
  PROVE  TypeOK'
<1>1. CASE LoadID(t)
  BY <1>1 DEF TypeOK, LoadID, shared, proxy, PCs
<1>2. CASE StoreID(t)
  <2>1. nextCommandID' \in Nat
    BY <1>2 DEF TypeOK, StoreID
  <2>2. pc' \in [Threads -> PCs] /\ reg' \in [Threads -> Nat]
    BY <1>2 DEF TypeOK, StoreID, PCs
  <2>3. QED
    BY <1>2, <2>1, <2>2 DEF TypeOK, StoreID, proxy
<1>3. CASE OpenSocket(t)
  <2>1. ub' \in BOOLEAN
    BY <1>3 DEF TypeOK, OpenSocket
  <2>2. QED
    BY <1>3, <2>1 DEF TypeOK, OpenSocket, proxy, PCs
<1>4. CASE NewSocket(t)
  BY <1>4 DEF TypeOK, NewSocket, PCs
<1>5. CASE NewSocketThrows(t)
  <2>1. Return(t, <<>>) /\ <<>> \in Seq(Pieces)
    BY <1>5 DEF NewSocketThrows
  <2>2. QED
    BY <1>5, <2>1, ReturnTypeOK DEF TypeOK, NewSocketThrows, proxy
<1>6. CASE SendLine(t)
  <2>1. ub' \in BOOLEAN
    BY <1>6 DEF SendLine
  <2>2. QED
    <3>1. pc' \in [Threads -> PCs] /\ cmd' \in [Threads -> Nat]
      BY <1>6 DEF TypeOK, SendLine, PCs
    <3>2. requests' \in Seq(Nat)
      BY <1>6 DEF TypeOK, SendLine
    <3>3. QED
      BY <1>6, <2>1, <3>1, <3>2 DEF TypeOK, SendLine
<1>7. CASE ReceivePiece(t)
  <2>1. Head(wire) \in Pieces /\ wire' \in Seq(Pieces)
    BY <1>7 DEF TypeOK, ReceivePiece
  <2>2. pc' \in [Threads -> PCs] /\ buf' \in [Threads -> Seq(Pieces)]
    <3>1. buf[t] \in Seq(Pieces)
      BY DEF TypeOK
    <3>2. Extend(buf[t], Head(wire)) \in Seq(Pieces)
      BY <2>1, <3>1, ExtendType
    <3> QED
      BY <1>7, <3>2 DEF TypeOK, ReceivePiece, PCs
  <2>3. QED
    BY <1>7, <2>1, <2>2 DEF TypeOK, ReceivePiece, shared
<1>8. CASE ReceiveNothing(t)
  BY <1>8 DEF TypeOK, ReceiveNothing, shared, proxy, PCs
<1>9. CASE Remote_ParseResponse(t)
  <2>1. ub' \in BOOLEAN
    BY <1>9 DEF TypeOK, Remote_ParseResponse
  <2>2. peerUp' \in BOOLEAN
    BY <1>9 DEF TypeOK, Remote_ParseResponse, proxy
  <2>3. ParsedResponse(t) \in Seq(Pieces)
    BY ParsedType
  <2>4. /\ result' \in [Threads -> [cmd : Nat, status : Statuses, response : Seq(Pieces)]]
        /\ pc' \in [Threads -> PCs]
        /\ buf' \in [Threads -> Seq(Pieces)]
        /\ boot' \in {"init", "tag", "up"}
    BY <1>9, <2>3, ReturnTypeOK DEF Remote_ParseResponse
  <2>5. /\ pSocket' \in {"NULL", "open", "closed", "freed"}
        /\ requests' \in Seq(Nat)
        /\ answering' \in Nat
        /\ wire' \in Seq(Pieces)
    <3>1. CASE mode.perCommand /\ buf[t] # <<>>
      BY <1>9, <3>1 DEF TypeOK, Remote_ParseResponse
    <3>2. CASE ~(mode.perCommand /\ buf[t] # <<>>)
      BY <1>9, <3>2 DEF TypeOK, Remote_ParseResponse, proxy
    <3>3. QED
      BY <3>1, <3>2
  <2>6. UNCHANGED <<nextCommandID, op, reg, cmd, raw>>
    BY <1>9 DEF Remote_ParseResponse
  <2>7. QED
    BY <2>1, <2>2, <2>4, <2>5, <2>6 DEF TypeOK
<1>10. CASE NextRawExchange(t)
  <2>1. ub' \in BOOLEAN
    BY <1>10 DEF NextRawExchange
  <2>2. QED
    BY <1>10, <2>1 DEF TypeOK, NextRawExchange, proxy, PCs
<1>11. QED
  BY <1>1, <1>2, <1>3, <1>4, <1>5, <1>6, <1>7, <1>8, <1>9, <1>10 DEF Step

LEMMA RefuseTypeOK ==
  ASSUME TypeOK, NEW t \in Threads, NEW o, RefuseCall(t, o)
  PROVE  result' \in [Threads -> [cmd : Nat, status : Statuses, response : Seq(Pieces)]]
  BY DEF TypeOK, RefuseCall, Statuses

LEMMA ForgetTypeOK ==
  ASSUME TypeOK, NEW t \in Threads, ForgetResult(t)
  PROVE  result' \in [Threads -> [cmd : Nat, status : Statuses, response : Seq(Pieces)]]
<1>1. NoResult \in [cmd : Nat, status : Statuses, response : Seq(Pieces)]
  BY DEF NoResult, Statuses
<1> QED
  BY <1>1 DEF TypeOK, ForgetResult

LEMMA TypeEnter ==
  ASSUME TypeOK, NEW t \in Threads, Enter(t), UNCHANGED mode
  PROVE  TypeOK'
<1>1. CASE Remote_SCardTransmit(t)
  <2>1. CASE pSocket = "NULL"
    BY <1>1, <2>1, RefuseTypeOK DEF TypeOK, Remote_SCardTransmit, RefuseCall, shared, proxy
  <2>2. CASE pSocket # "NULL"
    BY <1>1, <2>2, ForgetTypeOK DEF TypeOK, Remote_SCardTransmit, shared, proxy, PCs, Ops
  <2>3. QED
    BY <2>1, <2>2
<1>2. ASSUME NEW o \in {"RESET", "READERS"}, Remote_Query(t, o)
      PROVE  TypeOK'
  <2>1. CASE pSocket = "NULL"
    BY <1>2, <2>1, RefuseTypeOK DEF TypeOK, Remote_Query, RefuseCall, shared, proxy
  <2>2. CASE pSocket # "NULL"
    BY <1>2, <2>2, ForgetTypeOK DEF TypeOK, Remote_Query, shared, proxy, PCs, Ops
  <2>3. QED
    BY <2>1, <2>2
<1>3. CASE SCardConnectW(t)
  <2>1. ub' \in BOOLEAN
    BY <1>3 DEF SCardConnectW
  <2>2. /\ pc' \in [Threads -> PCs]
        /\ op' \in [Threads -> Ops]
        /\ raw' \in [Threads -> 0..3]
    BY <1>3 DEF TypeOK, SCardConnectW, PCs, Ops
  <2>3. QED
    BY <1>3, <2>1, <2>2, ForgetTypeOK DEF TypeOK, SCardConnectW, proxy
<1>4. QED
  BY <1>1, <1>2, <1>3 DEF Enter

LEMMA TypeNext == TypeOK /\ [Next]_vars => TypeOK'
<1> SUFFICES ASSUME TypeOK, [Next]_vars PROVE TypeOK'
  OBVIOUS
<1>0. UNCHANGED mode
  BY DEF Next, vars
<1>1. CASE Remote_ConnectFails
  BY <1>0, <1>1 DEF TypeOK, Remote_ConnectFails, local, proxy
<1>2. ASSUME NEW t \in Threads, Remote_Connect(t) PROVE TypeOK'
  BY <1>0, <1>2 DEF TypeOK, Remote_Connect, proxy, PCs, Ops
<1>3. ASSUME NEW t \in Threads, Enter(t) PROVE TypeOK'
  BY <1>0, <1>3, TypeEnter
<1>4. ASSUME NEW t \in Threads, Step(t) PROVE TypeOK'
  BY <1>0, <1>4, TypeStep
<1>5. CASE ProxyStartsAnswer
  <2>1. Head(requests) \in Nat /\ requests' \in Seq(Nat) /\ answering' \in Nat
    BY <1>5 DEF TypeOK, ProxyStartsAnswer
  <2>2. wire' \in Seq(Pieces)
    BY <1>5, <2>1 DEF TypeOK, ProxyStartsAnswer, Pieces, Parts
  <2>3. QED
    BY <1>0, <1>5, <2>1, <2>2 DEF TypeOK, ProxyStartsAnswer, shared, local
<1>6. CASE ProxyEndsAnswer
  <2>1. wire' \in Seq(Pieces)
    BY <1>6 DEF TypeOK, ProxyEndsAnswer, Pieces, Parts
  <2>2. QED
    BY <1>0, <1>6, <2>1 DEF TypeOK, ProxyEndsAnswer, shared, local
<1>7. CASE ProxyIgnoresRequest
  BY <1>0, <1>7 DEF TypeOK, ProxyIgnoresRequest, shared, local
<1>8. CASE ProxyHangsUp
  <2>1. peerUp' \in BOOLEAN
    BY <1>8 DEF ProxyHangsUp
  <2>2. requests' \in Seq(Nat) /\ answering' \in Nat
    BY <1>8 DEF ProxyHangsUp
  <2>3. UNCHANGED <<shared, local, wire>>
    BY <1>8 DEF ProxyHangsUp
  <2>4. QED
    BY <1>0, <2>1, <2>2, <2>3 DEF TypeOK, shared, local
<1>9. CASE ProxyContinuesAnswer
  <2>1. [id |-> answering, part |-> "more"] \in Pieces /\ wire \in Seq(Pieces)
    BY DEF TypeOK, Pieces, Parts
  <2>2. wire' \in Seq(Pieces)
    BY <1>9, <2>1, ExtendType DEF ProxyContinuesAnswer
  <2> QED
    BY <1>0, <1>9, <2>2 DEF TypeOK, ProxyContinuesAnswer, shared, local
<1>10. CASE UNCHANGED vars
  BY <1>10 DEF TypeOK, vars, shared, local, proxy
<1> QED
  BY <1>1, <1>2, <1>3, <1>4, <1>5, <1>6, <1>7, <1>8, <1>9, <1>10 DEF Next

\* Every reachable state is well typed.
THEOREM TypeCorrect == Spec => []TypeOK
<1>1. Init => TypeOK
  BY TypeInit
<1>2. TypeOK /\ [Next]_vars => TypeOK'
  BY TypeNext
<1>3. QED
  BY <1>1, <1>2, PTL DEF Spec

-----------------------------------------------------------------------------
(* The pointer in the persistent mode *)

\* What pSocket designates while no socket object is ever deleted.
Undeleted == pSocket \in {"NULL", "open"} /\ ub = FALSE

PersistentUndeleted == ~mode.perCommand => Undeleted

\* Without bOpenSocketForEveryCommand no freed socket object is ever used, however
\* many threads are inside Remote_SendRequest and SCardConnectW at once.
THEOREM PersistentNoUseAfterFree == Spec => []NoUseAfterFree
<1>1. Init => PersistentUndeleted
  BY DEF Init, Undeleted, PersistentUndeleted
<1>2. PersistentUndeleted /\ [Next]_vars => PersistentUndeleted'
  <2> SUFFICES ASSUME Undeleted, ~mode.perCommand, [Next]_vars PROVE Undeleted'
    BY DEF PersistentUndeleted, Next, vars
  <2>1. ASSUME NEW t \in Threads, Enter(t) PROVE Undeleted'
    <3>1. CASE SCardConnectW(t)
      BY <3>1 DEF Undeleted, SCardConnectW
    <3>2. QED
      BY <2>1, <3>1 DEF Undeleted, Enter, Remote_SCardTransmit, Remote_Query, shared
  <2>2. ASSUME NEW t \in Threads, Step(t) PROVE Undeleted'
    <3>1. CASE OpenSocket(t)
      BY <3>1 DEF Undeleted, OpenSocket
    <3>2. CASE SendLine(t)
      BY <3>2 DEF Undeleted, SendLine
    <3>3. CASE Remote_ParseResponse(t)
      BY <3>3 DEF Undeleted, Remote_ParseResponse
    <3>4. CASE NextRawExchange(t)
      BY <3>4 DEF Undeleted, NextRawExchange
    <3>5. CASE LoadID(t) \/ StoreID(t) \/ NewSocket(t) \/ NewSocketThrows(t)
      BY <3>5 DEF Undeleted, LoadID, StoreID, NewSocket, NewSocketThrows, shared
    <3>6. CASE ReceivePiece(t) \/ ReceiveNothing(t)
      BY <3>6 DEF Undeleted, ReceivePiece, ReceiveNothing, shared
    <3>7. QED
      BY <2>2, <3>1, <3>2, <3>3, <3>4, <3>5, <3>6 DEF Step
  <2>3. QED
    BY <2>1, <2>2 DEF Undeleted, Next, Remote_ConnectFails, Remote_Connect, ProxyStartsAnswer,
         ProxyContinuesAnswer, ProxyEndsAnswer, ProxyIgnoresRequest, ProxyHangsUp, vars, shared
<1>3. PersistentUndeleted => NoUseAfterFree
  BY DEF PersistentUndeleted, Undeleted, NoUseAfterFree, NeverDangling
<1>4. QED
  BY <1>1, <1>2, <1>3, PTL DEF Spec

-----------------------------------------------------------------------------
(* OwnAnswer, when the application serialises its calls *)

LEMMA SerialInit == Init => SerialInv
<1> SUFFICES ASSUME Init PROVE SerialInv
  OBVIOUS
<1>1. TypeOK
  BY TypeInit
<1>2. OneInside /\ SentIDCurrent /\ NumberedFromOne
  BY DEF Init, OneInside, SentIDCurrent, NumberedFromOne
<1>3. WireInOrder /\ BufferInOrder
  BY DEF Init, WireInOrder, BufferInOrder
<1>4. AnswersNeverSwapped
  BY DEF Init, AnswersNeverSwapped, HeadOfAnswer, NoResult
<1>5. QED
  BY <1>1, <1>2, <1>3, <1>4 DEF SerialInv

\* While thread t is inside, every other thread is idle and holds no pieces.
LEMMA OthersIdle ==
  ASSUME SerialInv, NEW t \in Threads, pc[t] # "idle"
  PROVE  /\ boot # "init"
         /\ \A u \in Threads \ {t} : pc[u] = "idle" /\ buf[u] = <<>> /\ raw[u] = 0
  BY DEF SerialInv, OneInside, BufferInOrder, SentIDCurrent

\* A response that Remote_ParseResponse accepts is this call's own answer.
LEMMA AcceptedIsOwn ==
  ASSUME SerialInv, NEW t \in Threads, pc[t] = "parse", raw[t] = 0
  PROVE  HeadOfAnswer(ParsedResponse(t), cmd[t])
<1>1. cmd[t] = nextCommandID
  BY DEF SerialInv, SentIDCurrent
<1>2. CASE ParsedResponse(t) = <<>>
  BY <1>2 DEF HeadOfAnswer
<1>3. CASE ParsedResponse(t) # <<>>
  <2>1. /\ ParsedResponse(t) = buf[t]
        /\ buf[t][1].part = "head"
        /\ buf[t][1].id = cmd[t]
    BY <1>1, <1>3 DEF ParsedResponse
  <2>2. \A i \in 1..Len(buf[t]) :
          /\ buf[t][i].id = cmd[t]
          /\ i # 1 => buf[t][i].part # "head"
          /\ i # Len(buf[t]) => buf[t][i].part # "end"
    BY <2>1 DEF SerialInv, BufferInOrder
  <2> QED
    BY <2>1, <2>2 DEF HeadOfAnswer
<1> QED
  BY <1>2, <1>3

\* The part of the invariant that concerns the threads, for a step after which t is
\* the only thread that may be inside and neither receives nor parses.
LEMMA OnlyInside ==
  ASSUME NEW t \in Threads,
         boot' # "init",
         \A u \in Threads \ {t} : pc'[u] = "idle" /\ buf'[u] = <<>> /\ raw'[u] = 0,
         pc'[t] \notin {"recv", "parse"}, buf'[t] = <<>>, raw'[t] = 0
  PROVE  OneInside' /\ SentIDCurrent' /\ BufferInOrder'
<1>1. \A u \in Threads : pc'[u] \notin {"recv", "parse"} /\ buf'[u] = <<>> /\ raw'[u] = 0
  OBVIOUS
<1>2. OneInside'
  BY DEF OneInside
<1>3. SentIDCurrent'
  BY <1>1 DEF SentIDCurrent
<1>4. BufferInOrder'
  BY <1>1 DEF BufferInOrder
<1>5. QED
  BY <1>2, <1>3, <1>4

LEMMA ReturnSerial ==
  ASSUME SerialInv, NEW t \in Threads, pc[t] # "idle", raw[t] = 0,
         NEW r \in Seq(Pieces), Return(t, r),
         HeadOfAnswer(r, cmd[t]),
         UNCHANGED <<cmd, raw, nextCommandID>>
  PROVE  OneInside' /\ SentIDCurrent' /\ BufferInOrder' /\ AnswersNeverSwapped'
<1> USE DEF SerialInv
<1>1. \A u \in Threads : pc'[u] = "idle" /\ buf'[u] = <<>> /\ raw'[u] = 0
  BY OthersIdle DEF Return, TypeOK
<1>2. OneInside' /\ SentIDCurrent'
  BY <1>1 DEF OneInside, SentIDCurrent
<1>3. BufferInOrder'
  BY <1>1 DEF BufferInOrder
<1>4. AnswersNeverSwapped'
  BY DEF Return, AnswersNeverSwapped, TypeOK
<1>5. QED
  BY <1>2, <1>3, <1>4

LEMMA SerialStep ==
  ASSUME SerialInv, TypeOK', NEW t \in Threads, Step(t)
  PROVE  SerialInv'
<1> USE DEF SerialInv
<1>0. pc[t] # "idle"
  BY DEF Step, LoadID, StoreID, OpenSocket, NewSocket, NewSocketThrows, SendLine,
         ReceivePiece, ReceiveNothing, Remote_ParseResponse, NextRawExchange
<1>a. /\ boot # "init"
      /\ \A u \in Threads \ {t} : pc[u] = "idle" /\ buf[u] = <<>> /\ raw[u] = 0
  BY <1>0, OthersIdle
<1>b. pc[t] \notin {"recv", "parse"} => buf[t] = <<>> /\ raw[t] = 0
  BY DEF BufferInOrder, SentIDCurrent
<1>1. CASE LoadID(t)
  <2>1. OneInside' /\ SentIDCurrent' /\ BufferInOrder'
    <3>1. boot' = boot /\ buf' = buf /\ raw' = raw
      BY <1>1 DEF LoadID, shared
    <3>2. pc[t] \notin {"recv", "parse"} /\ pc'[t] \notin {"recv", "parse"}
      BY <1>1 DEF LoadID, TypeOK
    <3>3. \A u \in Threads \ {t} : pc'[u] = pc[u]
      BY <1>1 DEF LoadID, TypeOK
    <3>4. QED
      BY <1>a, <1>b, <3>1, <3>2, <3>3, OnlyInside
  <2>2. NumberedFromOne' /\ WireInOrder' /\ AnswersNeverSwapped'
    BY <1>1 DEF LoadID, NumberedFromOne, WireInOrder, LastWritten, AnswersNeverSwapped, shared, proxy
  <2>3. QED
    BY <2>1, <2>2
<1>2. CASE StoreID(t)
  <2>1. OneInside' /\ SentIDCurrent' /\ BufferInOrder'
    <3>1. boot' = boot /\ buf' = buf /\ raw' = raw
      BY <1>2 DEF StoreID
    <3>2. pc[t] \notin {"recv", "parse"} /\ pc'[t] \notin {"recv", "parse"}
      BY <1>2 DEF StoreID, TypeOK
    <3>3. \A u \in Threads \ {t} : pc'[u] = pc[u]
      BY <1>2 DEF StoreID, TypeOK
    <3>4. QED
      BY <1>a, <1>b, <3>1, <3>2, <3>3, OnlyInside
  <2>2. NumberedFromOne'
    BY <1>2 DEF StoreID, TypeOK, NumberedFromOne, proxy
  <2>3. WireInOrder' /\ AnswersNeverSwapped'
    BY <1>2 DEF StoreID, WireInOrder, LastWritten, AnswersNeverSwapped, proxy
  <2>4. QED
    BY <2>1, <2>2, <2>3
<1>3. CASE OpenSocket(t)
  <2>1. OneInside' /\ SentIDCurrent' /\ BufferInOrder'
    <3>1. boot' = boot /\ buf' = buf /\ raw' = raw
      BY <1>3 DEF OpenSocket
    <3>2. pc[t] \notin {"recv", "parse"} /\ pc'[t] \notin {"recv", "parse"}
      BY <1>3 DEF OpenSocket, TypeOK
    <3>3. \A u \in Threads \ {t} : pc'[u] = pc[u]
      BY <1>3 DEF OpenSocket, TypeOK
    <3>4. QED
      BY <1>a, <1>b, <3>1, <3>2, <3>3, OnlyInside
  <2>2. NumberedFromOne' /\ WireInOrder' /\ AnswersNeverSwapped'
    BY <1>3 DEF OpenSocket, NumberedFromOne, WireInOrder, LastWritten, AnswersNeverSwapped, proxy
  <2>3. QED
    BY <2>1, <2>2
<1>4. CASE NewSocket(t)
  <2>1. OneInside' /\ SentIDCurrent' /\ BufferInOrder'
    <3>1. boot' = boot /\ buf' = buf /\ raw' = raw
      BY <1>4 DEF NewSocket
    <3>2. pc[t] \notin {"recv", "parse"} /\ pc'[t] \notin {"recv", "parse"}
      BY <1>4 DEF NewSocket, TypeOK
    <3>3. \A u \in Threads \ {t} : pc'[u] = pc[u]
      BY <1>4 DEF NewSocket, TypeOK
    <3>4. QED
      BY <1>a, <1>b, <3>1, <3>2, <3>3, OnlyInside
  <2>2. NumberedFromOne' /\ WireInOrder' /\ AnswersNeverSwapped'
    BY <1>4 DEF NewSocket, NumberedFromOne, WireInOrder, AnswersNeverSwapped
  <2>3. QED
    BY <2>1, <2>2
<1>5. CASE NewSocketThrows(t)
  <2>1. OneInside' /\ SentIDCurrent' /\ BufferInOrder' /\ AnswersNeverSwapped'
    <3>1. pc[t] = "new" /\ Return(t, <<>>) /\ UNCHANGED <<cmd, raw, nextCommandID>>
      BY <1>5 DEF NewSocketThrows
    <3>2. <<>> \in Seq(Pieces) /\ HeadOfAnswer(<<>>, cmd[t])
      BY DEF HeadOfAnswer
    <3>3. QED
      BY <1>0, <1>b, <3>1, <3>2, ReturnSerial
  <2>2. NumberedFromOne' /\ WireInOrder'
    BY <1>5 DEF NewSocketThrows, NumberedFromOne, WireInOrder, LastWritten, proxy
  <2>3. QED
    BY <2>1, <2>2
<1>6. CASE SendLine(t)
  <2>1. OneInside' /\ SentIDCurrent'
    BY <1>6, <1>a, <1>b DEF SendLine, TypeOK, OneInside, SentIDCurrent
  <2>2. BufferInOrder'
    <3>1. pc'[t] = "recv" /\ buf' = buf /\ buf[t] = <<>>
      BY <1>6, <1>b DEF SendLine, TypeOK
    <3>2. \A u \in Threads \ {t} : pc'[u] # "recv" /\ buf[u] = <<>>
      BY <1>6, <1>a DEF SendLine, TypeOK
    <3>3. \A u \in Threads : buf'[u] = <<>>
      BY <3>1, <3>2
    <3>4. QED
      BY <3>3 DEF BufferInOrder
  <2>3. NumberedFromOne'
    BY <1>6 DEF SendLine, TypeOK, NumberedFromOne
  <2>4. WireInOrder' /\ AnswersNeverSwapped'
    BY <1>6 DEF SendLine, WireInOrder, LastWritten, AnswersNeverSwapped
  <2>5. QED
    BY <2>1, <2>2, <2>3, <2>4
<1>7. CASE ReceivePiece(t)
  <2>1. OneInside' /\ SentIDCurrent'
    BY <1>7, <1>a DEF ReceivePiece, TypeOK, OneInside, SentIDCurrent, shared
  <2>2. NumberedFromOne' /\ AnswersNeverSwapped'
    BY <1>7 DEF ReceivePiece, NumberedFromOne, AnswersNeverSwapped, shared
  <2>3. /\ wire \in Seq(Pieces) /\ wire # <<>> /\ wire' = Tail(wire)
        /\ Head(wire) = wire[1] /\ wire[1] \in Pieces
    BY <1>7 DEF ReceivePiece, TypeOK
  <2>4. /\ Len(wire') = Len(wire) - 1
        /\ \A i \in 1..Len(wire') : wire'[i] = wire[i + 1]
    BY <2>3
  <2>5. WireInOrder'
    <3>1. \A i \in 1..(Len(wire') - 1) : Follows(wire'[i], wire'[i + 1])
      BY <2>3, <2>4 DEF WireInOrder
    <3>2. wire' # <<>> => wire'[Len(wire')] = wire[Len(wire)]
      BY <2>3, <2>4
    <3>3. QED
      BY <1>7, <2>3, <3>1, <3>2 DEF ReceivePiece, WireInOrder, LastWritten
  <2>6. BufferInOrder'
    <3>1. /\ buf[t] \in Seq(Pieces) /\ pc[t] = "recv"
          /\ buf'[t] = Extend(buf[t], wire[1])
          /\ pc'[t] = IF wire[1].part = "end" THEN "parse" ELSE "recv"
          /\ UNCHANGED <<peerUp, answering>>
      BY <1>7, <2>3 DEF ReceivePiece, TypeOK
    <3>2. \A u \in Threads \ {t} : pc'[u] = "idle" /\ buf'[u] = <<>>
      BY <1>7, <1>a DEF ReceivePiece, TypeOK
    <3>3. PICK e \in Seq(Pieces) : e = Extend(buf[t], wire[1])
      BY <2>3, <3>1, ExtendType
    <3>4. /\ e \in Seq(Pieces) /\ e # <<>> /\ e[Len(e)] = wire[1]
          /\ \/ e = buf[t] /\ buf[t] # <<>>
             \/ /\ e = Append(buf[t], wire[1]) /\ Len(e) = Len(buf[t]) + 1
                /\ \A i \in 1..Len(buf[t]) : e[i] = buf[t][i]
          /\ \A i \in 1..Len(e) :
               \/ i \in 1..Len(buf[t]) /\ e[i] = buf[t][i]
               \/ i = Len(e) /\ e[i] = wire[1]
      <4>1. buf[t] \in Seq(Pieces) /\ wire[1] \in Pieces
        BY <2>3, <3>1
      <4> QED
        <5> HIDE DEF SerialInv
        <5>1. e \in Seq(Pieces) /\ e # <<>> /\ e[Len(e)] = wire[1]
          BY <4>1, <3>3, ExtendFacts
        <5>2. \/ e = buf[t] /\ buf[t] # <<>>
              \/ /\ e = Append(buf[t], wire[1]) /\ Len(e) = Len(buf[t]) + 1
                 /\ \A i \in 1..Len(buf[t]) : e[i] = buf[t][i]
          BY <4>1, <3>3, ExtendFacts
        <5>3. \A i \in 1..Len(e) :
                \/ i \in 1..Len(buf[t]) /\ e[i] = buf[t][i]
                \/ i = Len(e) /\ e[i] = wire[1]
          BY <4>1, <3>3, ExtendFacts
        <5> QED
          BY <5>1, <5>2, <5>3
    <3>5. \A i \in 1..Len(e) :
            /\ e[i].id = e[1].id
            /\ i # 1 => e[i].part # "head"
            /\ i # Len(e) => e[i].part # "end"
      <4>1. CASE buf[t] = <<>>
        <5>1. Len(e) = 1
          BY <3>4, <4>1
        <5> QED
          BY <5>1
      <4>2. CASE buf[t] # <<>>
        <5>1. /\ \A i \in 1..Len(buf[t]) :
                   /\ buf[t][i].id = buf[t][1].id
                   /\ i # 1 => buf[t][i].part # "head"
                   /\ i # Len(buf[t]) => buf[t][i].part # "end"
              /\ buf[t][Len(buf[t])].part # "end"
              /\ Follows(buf[t][Len(buf[t])], wire[1])
          BY <2>3, <3>1, <4>2 DEF BufferInOrder, Whole
        <5>2. Len(buf[t]) \in Nat /\ 1 \in 1..Len(buf[t]) /\ Len(buf[t]) \in 1..Len(buf[t])
          BY <3>1, <4>2
        <5>8. e[1] = buf[t][1]
          BY <3>4, <5>2
        <5>3. wire[1].id = buf[t][1].id /\ wire[1].part # "head"
          BY <5>1, <5>2 DEF Follows
        <5>4. \A i \in 1..Len(buf[t]) : buf[t][i].part # "end"
          BY <5>1
        <5>5. ASSUME NEW i \in 1..Len(e), i \in 1..Len(buf[t]), e[i] = buf[t][i]
              PROVE  e[i].id = e[1].id /\ (i # 1 => e[i].part # "head") /\ e[i].part # "end"
          BY <5>1, <5>4, <5>5, <5>8
        <5>6. ASSUME NEW i \in 1..Len(e), i = Len(e), e[i] = wire[1]
              PROVE  e[i].id = e[1].id /\ e[i].part # "head"
          BY <5>3, <5>6, <5>8
        <5> QED
          BY <3>4, <5>5, <5>6
      <4> QED
        BY <4>1, <4>2
    <3>6. ASSUME wire[1].part # "end"
          PROVE  IF wire' = <<>> THEN LastWritten(wire[1]) ELSE Follows(wire[1], wire'[1])
      <4>1. CASE wire' = <<>>
        <5>1. Len(wire) = 1
          BY <4>1, <2>3, <2>4
        <5> QED
          BY <4>1, <5>1, <2>3, <3>1, <1>7 DEF WireInOrder, LastWritten, ReceivePiece
      <4>2. CASE wire' # <<>>
        <5>1. 1 \in 1..(Len(wire) - 1) /\ wire'[1] = wire[2]
          BY <4>2, <2>3, <2>4
        <5> QED
          BY <4>2, <5>1 DEF WireInOrder
      <4> QED
        BY <4>1, <4>2
    <3>7. ASSUME NEW u \in Threads
          PROVE  /\ pc'[u] \notin {"recv", "parse"} => buf'[u] = <<>>
                 /\ \A i \in 1..Len(buf'[u]) :
                      /\ buf'[u][i].id = buf'[u][1].id
                      /\ i # 1 => buf'[u][i].part # "head"
                      /\ i # Len(buf'[u]) => buf'[u][i].part # "end"
                 /\ (pc'[u] = "recv" /\ buf'[u] # <<>>) =>
                      /\ ~Whole(buf'[u])
                      /\ IF wire' = <<>> THEN LastWritten(buf'[u][Len(buf'[u])])
                         ELSE Follows(buf'[u][Len(buf'[u])], wire'[1])
      <4>1. CASE u = t
        <5>1. buf'[u] = e
          BY <3>1, <3>3, <4>1
        <5>2. pc'[u] \in {"recv", "parse"} /\ (pc'[u] = "recv" => wire[1].part # "end")
          BY <3>1, <4>1
        <5>3. pc'[u] = "recv" =>
                /\ ~Whole(e)
                /\ IF wire' = <<>> THEN LastWritten(e[Len(e)]) ELSE Follows(e[Len(e)], wire'[1])
          BY <3>4, <3>6, <5>2 DEF Whole, LastWritten
        <5> QED
          BY <3>5, <5>1, <5>2, <5>3 DEF LastWritten
      <4>2. CASE u # t
        BY <3>2, <4>2
      <4> QED
        BY <4>1, <4>2
    <3> QED
      BY <3>1, <3>7 DEF BufferInOrder, LastWritten, Whole
  <2>7. QED
    BY <2>1, <2>2, <2>5, <2>6
<1>8. CASE ReceiveNothing(t)
  <2>1. OneInside' /\ SentIDCurrent' /\ BufferInOrder'
    BY <1>8, <1>a DEF ReceiveNothing, TypeOK, OneInside, SentIDCurrent, BufferInOrder, shared, proxy
  <2>2. NumberedFromOne' /\ WireInOrder' /\ AnswersNeverSwapped'
    BY <1>8 DEF ReceiveNothing, NumberedFromOne, WireInOrder, LastWritten, AnswersNeverSwapped, shared, proxy
  <2>3. QED
    BY <2>1, <2>2
<1>9. CASE Remote_ParseResponse(t)
  <2>1. pc[t] = "parse" /\ raw[t] = 0 /\ Return(t, ParsedResponse(t))
    BY <1>9 DEF Remote_ParseResponse
  <2>2. UNCHANGED <<cmd, raw, nextCommandID>>
    BY <1>9 DEF Remote_ParseResponse
  <2>3. ParsedResponse(t) \in Seq(Pieces)
    BY ParsedType
  <2>4. OneInside' /\ SentIDCurrent' /\ BufferInOrder' /\ AnswersNeverSwapped'
    BY <2>1, <2>2, <2>3, AcceptedIsOwn, ReturnSerial
  <2>5. NumberedFromOne' /\ WireInOrder'
    <3>1. CASE mode.perCommand /\ buf[t] # <<>>
      BY <1>9, <3>1 DEF Remote_ParseResponse, NumberedFromOne, WireInOrder
    <3>2. CASE ~(mode.perCommand /\ buf[t] # <<>>)
      BY <1>9, <3>2 DEF Remote_ParseResponse, NumberedFromOne, WireInOrder, LastWritten, proxy
    <3>3. QED
      BY <3>1, <3>2
  <2>6. QED
    BY <2>4, <2>5
<1>10. CASE NextRawExchange(t)
  <2>1. /\ boot' = boot /\ buf'[t] = <<>> /\ pc'[t] \in {"idle", "recv"}
        /\ raw'[t] = 0 => pc'[t] = "idle"
        /\ raw'[t] # 0 => pc'[t] = "recv"
        /\ \A u \in Threads \ {t} : pc'[u] = "idle" /\ buf'[u] = <<>> /\ raw'[u] = 0
    BY <1>10, <1>a DEF NextRawExchange, TypeOK
  <2>2. OneInside' /\ SentIDCurrent'
    BY <2>1, <1>a DEF OneInside, SentIDCurrent
  <2>3. BufferInOrder'
    <3>1. \A u \in Threads : buf'[u] = <<>>
      BY <2>1
    <3>2. QED
      BY <3>1 DEF BufferInOrder
  <2>4. NumberedFromOne' /\ WireInOrder' /\ AnswersNeverSwapped'
    BY <1>10 DEF NextRawExchange, NumberedFromOne, WireInOrder, LastWritten, AnswersNeverSwapped, proxy
  <2>5. QED
    BY <2>2, <2>3, <2>4
<1>11. QED
  BY <1>1, <1>2, <1>3, <1>4, <1>5, <1>6, <1>7, <1>8, <1>9, <1>10 DEF Step

\* A call that begins has returned nothing yet.
LEMMA ForgottenOwn ==
  ASSUME TypeOK, AnswersNeverSwapped, NEW t \in Threads, ForgetResult(t)
  PROVE  AnswersNeverSwapped'
<1>1. result'[t].response = <<>> /\ \A u \in Threads \ {t} : result'[u] = result[u]
  BY DEF ForgetResult, NoResult, TypeOK
<1> QED
  BY <1>1 DEF AnswersNeverSwapped, HeadOfAnswer

LEMMA SerialEnter ==
  ASSUME ~mode.concurrent, SerialInv, TypeOK', NEW t \in Threads, Enter(t)
  PROVE  SerialInv'
<1> USE DEF SerialInv
<1>1. MayEnter(t)
  BY DEF Enter, Remote_SCardTransmit, Remote_Query, SCardConnectW
<1>2. /\ boot # "init"
      /\ \A u \in Threads : pc[u] = "idle" /\ buf[u] = <<>> /\ raw[u] = 0
  BY <1>1 DEF MayEnter, BufferInOrder, SentIDCurrent
<1>3. ASSUME NEW o, RefuseCall(t, o), UNCHANGED <<shared, cmd, buf, proxy>>
      PROVE  SerialInv'
  <2>1. OneInside' /\ SentIDCurrent' /\ NumberedFromOne' /\ WireInOrder' /\ BufferInOrder'
    BY <1>3 DEF RefuseCall, OneInside, SentIDCurrent, NumberedFromOne, WireInOrder,
         BufferInOrder, LastWritten, shared, proxy
  <2>2. AnswersNeverSwapped'
    <3>1. result'[t].response = <<>> /\ \A u \in Threads \ {t} : result'[u] = result[u]
      BY <1>3 DEF RefuseCall, TypeOK
    <3>2. QED
      BY <3>1 DEF AnswersNeverSwapped, HeadOfAnswer
  <2>3. QED
    BY <2>1, <2>2
<1>4. ASSUME NEW p \in {"apduLoad", "open"}, pc' = [pc EXCEPT ![t] = p],
             ForgetResult(t), UNCHANGED <<shared, cmd, buf, raw, proxy>>
      PROVE  SerialInv'
  <2>1. /\ boot' # "init" /\ pc'[t] \notin {"recv", "parse"} /\ buf'[t] = <<>> /\ raw'[t] = 0
        /\ \A u \in Threads \ {t} : pc'[u] = "idle" /\ buf'[u] = <<>> /\ raw'[u] = 0
    BY <1>2, <1>4 DEF TypeOK, shared
  <2>2. OneInside' /\ SentIDCurrent' /\ BufferInOrder'
    BY <2>1, OnlyInside
  <2>3. NumberedFromOne' /\ WireInOrder'
    BY <1>4 DEF NumberedFromOne, WireInOrder, LastWritten, shared, proxy
  <2>4. AnswersNeverSwapped'
    BY <1>4, ForgottenOwn
  <2> QED
    BY <2>2, <2>3, <2>4
<1>5. CASE Remote_SCardTransmit(t)
  BY <1>5, <1>3, <1>4 DEF Remote_SCardTransmit
<1>6. ASSUME NEW o \in {"RESET", "READERS"}, Remote_Query(t, o)
      PROVE  SerialInv'
  BY <1>6, <1>3, <1>4 DEF Remote_Query
<1>7. CASE SCardConnectW(t)
  <2>1. /\ boot' # "init" /\ pc'[t] = "recv" /\ raw'[t] = 3
        /\ \A u \in Threads \ {t} : pc'[u] = "idle" /\ raw'[u] = 0
    BY <1>2, <1>7 DEF SCardConnectW, TypeOK
  <2>2. OneInside' /\ SentIDCurrent'
    BY <2>1 DEF OneInside, SentIDCurrent
  <2>3. BufferInOrder'
    <3>1. \A u \in Threads : buf'[u] = <<>>
      BY <1>2, <1>7 DEF SCardConnectW
    <3>2. QED
      BY <3>1 DEF BufferInOrder
  <2>4. NumberedFromOne' /\ WireInOrder'
    BY <1>7 DEF SCardConnectW, NumberedFromOne, WireInOrder, LastWritten, proxy
  <2>5. AnswersNeverSwapped'
    BY <1>7, ForgottenOwn DEF SCardConnectW
  <2> QED
    BY <2>2, <2>3, <2>4, <2>5
<1>8. QED
  BY <1>5, <1>6, <1>7 DEF Enter

LEMMA SerialBoot ==
  ASSUME SerialInv, TypeOK', Remote_ConnectFails \/ \E t \in Threads : Remote_Connect(t)
  PROVE  SerialInv'
<1> USE DEF SerialInv
<1>1. \A u \in Threads : pc[u] = "idle" /\ buf[u] = <<>> /\ raw[u] = 0
  BY DEF Remote_Connect, Remote_ConnectFails, OneInside, BufferInOrder, SentIDCurrent
<1>2. OneInside' /\ SentIDCurrent' /\ BufferInOrder'
  <2>1. CASE Remote_ConnectFails
    BY <1>1, <2>1 DEF Remote_ConnectFails, OneInside, SentIDCurrent, BufferInOrder, local
  <2>2. ASSUME NEW t \in Threads, Remote_Connect(t)
        PROVE  OneInside' /\ SentIDCurrent' /\ BufferInOrder'
    <3>1. /\ boot' # "init" /\ pc'[t] \notin {"recv", "parse"} /\ buf'[t] = <<>> /\ raw'[t] = 0
          /\ \A u \in Threads \ {t} : pc'[u] = "idle" /\ buf'[u] = <<>> /\ raw'[u] = 0
      BY <1>1, <2>2 DEF Remote_Connect, TypeOK
    <3>2. QED
      BY <3>1, OnlyInside
  <2>3. QED
    BY <2>1, <2>2
<1>3. NumberedFromOne' /\ WireInOrder' /\ AnswersNeverSwapped'
  BY DEF Remote_Connect, Remote_ConnectFails, NumberedFromOne, WireInOrder, LastWritten,
         AnswersNeverSwapped, local, proxy
<1>4. QED
  BY <1>2, <1>3

\* A piece that may follow the last one written keeps the pieces in order.
LEMMA AppendInOrder ==
  ASSUME SerialInv, TypeOK', NEW p \in Pieces, wire' = Extend(wire, p),
         wire # <<>> => Follows(wire[Len(wire)], p), LastWritten(p)',
         \A t \in Threads : (pc[t] = "recv" /\ wire = <<>> /\ buf[t] # <<>>)
                              => Follows(buf[t][Len(buf[t])], p),
         UNCHANGED <<pc, buf>>
  PROVE  WireInOrder' /\ BufferInOrder'
<1> USE DEF SerialInv
<1>1. wire \in Seq(Pieces) /\ wire' \in Seq(Pieces) /\ Len(wire) \in Nat
  BY DEF TypeOK
<1>2. /\ wire' # <<>> /\ wire'[Len(wire')] = p
      /\ \/ wire' = wire /\ wire # <<>>
         \/ /\ Len(wire') = Len(wire) + 1
            /\ \A i \in 1..Len(wire) : wire'[i] = wire[i]
  BY <1>1, ExtendFacts
<1>3. \A i \in 1..(Len(wire') - 1) : Follows(wire'[i], wire'[i + 1])
  <2>1. CASE wire' = wire
    BY <2>1 DEF WireInOrder
  <2>2. CASE Len(wire') = Len(wire) + 1 /\ \A i \in 1..Len(wire) : wire'[i] = wire[i]
    <3> SUFFICES ASSUME NEW i \in 1..Len(wire) PROVE Follows(wire'[i], wire'[i + 1])
      BY <1>1, <2>2
    <3>1. CASE i = Len(wire)
      BY <3>1, <1>1, <1>2, <2>2
    <3>2. CASE i < Len(wire)
      BY <3>2, <1>1, <2>2 DEF WireInOrder
    <3> QED
      BY <1>1, <3>1, <3>2
  <2> QED
    BY <1>2, <2>1, <2>2
<1>4. WireInOrder'
  BY <1>2, <1>3 DEF WireInOrder
<1>5. ASSUME NEW t \in Threads, pc[t] = "recv", buf[t] # <<>>
      PROVE  Follows(buf[t][Len(buf[t])], wire'[1])
  <2>1. CASE wire = <<>>
    <3>1. wire'[1] = p
      BY <1>1, <1>2, <2>1
    <3> QED
      BY <1>5, <2>1, <3>1
  <2>2. CASE wire # <<>>
    <3>1. wire'[1] = wire[1]
      BY <1>1, <1>2, <2>2
    <3> QED
      BY <1>5, <2>2, <3>1 DEF BufferInOrder
  <2> QED
    BY <2>1, <2>2
<1>6. BufferInOrder'
  BY <1>2, <1>5 DEF BufferInOrder, Whole
<1> QED
  BY <1>4, <1>6

LEMMA SerialProxy ==
  ASSUME SerialInv, TypeOK',
         \/ ProxyStartsAnswer \/ ProxyContinuesAnswer \/ ProxyEndsAnswer
         \/ ProxyIgnoresRequest \/ ProxyHangsUp
  PROVE  SerialInv'
<1> USE DEF SerialInv
<1>1. UNCHANGED <<shared, local>>
  BY DEF ProxyStartsAnswer, ProxyContinuesAnswer, ProxyEndsAnswer, ProxyIgnoresRequest, ProxyHangsUp
<1>2. OneInside' /\ SentIDCurrent' /\ AnswersNeverSwapped'
  BY <1>1 DEF OneInside, SentIDCurrent, AnswersNeverSwapped, shared, local
<1>3. requests \in Seq(Nat)
  BY DEF TypeOK
<1>4. NumberedFromOne'
  <2>1. requests' = requests \/ requests' = <<>> \/ (requests # <<>> /\ requests' = Tail(requests))
    BY DEF ProxyStartsAnswer, ProxyContinuesAnswer, ProxyEndsAnswer, ProxyIgnoresRequest, ProxyHangsUp
  <2>2. nextCommandID' = nextCommandID
    BY <1>1 DEF shared
  <2>3. CASE requests # <<>> /\ requests' = Tail(requests)
    <3>1. \A i \in 1..Len(requests') : i + 1 \in 1..Len(requests) /\ requests'[i] = requests[i + 1]
      BY <1>3, <2>3
    <3>2. QED
      BY <3>1, <2>2 DEF NumberedFromOne
  <2>4. QED
    BY <2>1, <2>2, <2>3 DEF NumberedFromOne
<1>a. \A p \in Pieces : (wire' = Append(wire, p) /\ p.part # "more") => wire' = Extend(wire, p)
  BY DEF Extend
<1>5. CASE ProxyStartsAnswer
  <2>1. Head(requests) \in Nat /\ Head(requests) # 0
    BY <1>3, <1>5 DEF ProxyStartsAnswer, NumberedFromOne
  <2>2. PICK p \in Pieces : /\ p = [id |-> Head(requests), part |-> "head"]
                            /\ wire' = Append(wire, p)
    BY <1>5, <2>1 DEF ProxyStartsAnswer, Pieces, Parts
  <2>3. LastWritten(p)'
    BY <1>5, <2>1, <2>2 DEF ProxyStartsAnswer, LastWritten
  <2>4. wire # <<>> => Follows(wire[Len(wire)], p)
    BY <1>5, <2>2 DEF ProxyStartsAnswer, WireInOrder, LastWritten, Follows
  <2>5. \A t \in Threads : ~(pc[t] = "recv" /\ wire = <<>> /\ buf[t] # <<>>)
    BY <1>5 DEF ProxyStartsAnswer, BufferInOrder, LastWritten, Whole
  <2>6. WireInOrder' /\ BufferInOrder'
    BY <1>1, <1>a, <2>2, <2>3, <2>4, <2>5, AppendInOrder DEF local
  <2>7. QED
    BY <1>2, <1>4, <2>6
<1>6. ASSUME NEW p \in Pieces, p.id = answering, p.part # "head", answering # 0, peerUp,
             wire' = Extend(wire, p), LastWritten(p)'
      PROVE  SerialInv'
  <2>1. wire # <<>> => Follows(wire[Len(wire)], p)
    BY <1>6 DEF WireInOrder, LastWritten, Follows
  <2>2. \A t \in Threads : (pc[t] = "recv" /\ wire = <<>> /\ buf[t] # <<>>)
                             => Follows(buf[t][Len(buf[t])], p)
    BY <1>6 DEF BufferInOrder, LastWritten, Follows
  <2>3. WireInOrder' /\ BufferInOrder'
    BY <1>1, <1>6, <2>1, <2>2, AppendInOrder DEF local
  <2> QED
    BY <1>2, <1>4, <2>3
<1>b. answering \in Nat
  BY DEF TypeOK
<1>c. CASE ProxyContinuesAnswer
  <2>1. PICK p \in Pieces : /\ p = [id |-> answering, part |-> "more"]
                            /\ p.id = answering /\ p.part = "more"
    <3>1. [id |-> answering, part |-> "more"] \in Pieces
      BY <1>b DEF Pieces, Parts
    <3> QED
      BY <3>1
  <2>2. wire' = Extend(wire, p) /\ answering # 0 /\ peerUp /\ UNCHANGED <<answering, peerUp>>
    BY <1>c, <2>1 DEF ProxyContinuesAnswer
  <2>3. LastWritten(p)'
    BY <2>1, <2>2 DEF LastWritten
  <2> QED
    BY <1>6, <2>1, <2>2, <2>3
<1>d. CASE ProxyEndsAnswer
  <2>1. PICK p \in Pieces : /\ p = [id |-> answering, part |-> "end"]
                            /\ p.id = answering /\ p.part = "end"
    <3>1. [id |-> answering, part |-> "end"] \in Pieces
      BY <1>b DEF Pieces, Parts
    <3> QED
      BY <3>1
  <2>2. wire' = Append(wire, p) /\ answering # 0 /\ peerUp /\ answering' = 0
    BY <1>d, <2>1 DEF ProxyEndsAnswer
  <2>3. LastWritten(p)'
    BY <2>1, <2>2 DEF LastWritten
  <2> QED
    BY <1>6, <1>a, <2>1, <2>2, <2>3
<1>7. CASE ProxyIgnoresRequest \/ ProxyHangsUp
  <2>1. wire' = wire /\ (peerUp' => peerUp /\ answering' = answering)
    BY <1>7 DEF ProxyIgnoresRequest, ProxyHangsUp
  <2>2. WireInOrder' /\ BufferInOrder'
    BY <1>1, <2>1 DEF WireInOrder, BufferInOrder, LastWritten, local
  <2>3. QED
    BY <1>2, <1>4, <2>2
<1>8. QED
  BY <1>5, <1>7, <1>c, <1>d

LEMMA SerialNext ==
  ASSUME ~mode.concurrent, SerialInv, [Next]_vars
  PROVE  SerialInv'
<1>1. TypeOK'
  BY TypeNext DEF SerialInv
<1>2. CASE Next
  BY <1>1, <1>2, SerialBoot, SerialEnter, SerialStep, SerialProxy DEF Next
<1>3. CASE UNCHANGED vars
  BY <1>1, <1>3 DEF SerialInv, OneInside, SentIDCurrent, NumberedFromOne, WireInOrder,
       BufferInOrder, LastWritten, AnswersNeverSwapped, vars, shared, local, proxy
<1>4. QED
  BY <1>2, <1>3

\* What is inductive in all modes.
SerialModes == ~mode.concurrent => SerialInv

\* For an application that serialises its calls, every response handed over is made of
\* the proxy's answer to the command of that call, however late, truncated or missing
\* the proxy's answers are and in both socket modes.
THEOREM SerialOwnAnswer == Spec => []OwnAnswer
<1>1. Init => SerialModes
  BY SerialInit DEF SerialModes
<1>2. SerialModes /\ [Next]_vars => SerialModes'
  <2> SUFFICES ASSUME SerialModes, [Next]_vars, ~mode'.concurrent PROVE SerialInv'
    BY DEF SerialModes
  <2>1. mode' = mode
    BY DEF Next, vars
  <2>2. QED
    BY <2>1, SerialNext DEF SerialModes
<1>3. SerialModes => OwnAnswer
  BY DEF SerialModes, SerialInv, OwnAnswer
<1>4. QED
  BY <1>1, <1>2, <1>3, PTL DEF Spec

-----------------------------------------------------------------------------
(* AcceptedInSync: the numbers of the commands under way ascend *)

\* Numbers under way stay allowed while no thread begins to send.
LEMMA IssuedKept ==
  ASSUME NumbersIssued, UNCHANGED <<nextCommandID, cmd, requests, answering, wire>>,
         Sending' => Sending
  PROVE  NumbersIssued'
  BY DEF NumbersIssued, MayBe

\* Nothing under way.
LEMMA IssuedEmpty ==
  ASSUME TypeOK, NumbersIssued, UNCHANGED <<nextCommandID, cmd>>, Sending' => Sending, ~Sending',
         requests' = <<>>, wire' = <<>>, answering' = 0
  PROVE  NumbersIssued'
<1>1. nextCommandID \in Nat
  BY DEF TypeOK
<1>2. MayBe(answering)'
  BY <1>1 DEF MayBe
<1>3. \A t \in Threads : MayBe(cmd[t])'
  BY DEF NumbersIssued, MayBe
<1> QED
  BY <1>2, <1>3 DEF NumbersIssued

\* Threads that keep or drop what they have received.
LEMMA AscendKept ==
  ASSUME NumbersAscend, UNCHANGED <<requests, answering, wire>>,
         \A t \in Threads : buf'[t] = buf[t] \/ buf'[t] = <<>>
  PROVE  NumbersAscend'
<1>1. ASSUME NEW t \in Threads, NEW b \in 1..Len(buf'[t])
      PROVE  b \in 1..Len(buf[t]) /\ buf'[t][b] = buf[t][b]
  <2>1. buf'[t] # <<>>
    BY <1>1
  <2> QED
    BY <1>1, <2>1
<1> QED
  BY <1>1 DEF NumbersAscend, PrecedesAnswers

\* A connection on which nothing is under way.
LEMMA AscendEmpty ==
  ASSUME requests' = <<>>, wire' = <<>>, answering' = 0
  PROVE  NumbersAscend'
  BY DEF NumbersAscend, PrecedesAnswers

\* The thread that sends has numbered its command last.
LEMMA AscendSend ==
  ASSUME SerialInv, NumbersIssued, NumbersAscend, NEW t \in Threads, SendLine(t)
  PROVE  NumbersAscend'
<1>1. /\ requests \in Seq(Nat) /\ nextCommandID \in Nat /\ answering \in Nat
      /\ wire \in Seq(Pieces)
  BY DEF SerialInv, TypeOK
<1>2. UNCHANGED <<answering, wire, buf, nextCommandID>> /\ pc[t] = "send"
  BY DEF SendLine
<1>3. \A u \in Threads : buf[u] = <<>>
  BY <1>2, OthersIdle DEF SerialInv, BufferInOrder
<1>4. /\ \A i \in 1..Len(requests) : requests[i] < nextCommandID
      /\ answering < nextCommandID
      /\ \A k \in 1..Len(wire) : wire[k].id < nextCommandID
  BY <1>2 DEF NumbersIssued, MayBe, Sending
<1>5. CASE requests' = requests
  BY <1>2, <1>5, AscendKept
<1>6. CASE requests' = Append(requests, nextCommandID)
  <2>1. \A i \in 1..Len(requests') :
          \/ i \in 1..Len(requests) /\ requests'[i] = requests[i]
          \/ i = Len(requests) + 1 /\ requests'[i] = nextCommandID
    <3>1. /\ Len(requests) \in Nat /\ Len(requests') = Len(requests) + 1
          /\ \A i \in 1..Len(requests) : requests'[i] = requests[i]
          /\ requests'[Len(requests) + 1] = nextCommandID
      BY <1>1, <1>6
    <3>2. 1..Len(requests') = 1..Len(requests) \cup {Len(requests) + 1}
      BY <3>1
    <3> QED
      BY <3>1, <3>2
  <2>2. \A i, j \in 1..Len(requests') : i < j => requests'[i] < requests'[j]
    <3> SUFFICES ASSUME NEW i \in 1..Len(requests'), NEW j \in 1..Len(requests'), i < j
                 PROVE  requests'[i] < requests'[j]
      OBVIOUS
    <3>1. i \in 1..Len(requests) /\ requests'[i] = requests[i]
      BY <1>1, <1>6, <2>1
    <3> QED
      BY <1>4, <2>1, <3>1 DEF NumbersAscend
  <2>3. \A i \in 1..Len(requests') : answering' < requests'[i]
    BY <1>2, <1>4, <2>1 DEF NumbersAscend
  <2>4. \A k \in 1..Len(wire') : PrecedesAnswers(wire'[k], answering', requests')
    BY <1>2, <1>4, <2>1 DEF NumbersAscend, PrecedesAnswers
  <2> QED
    BY <1>2, <1>3, <2>2, <2>3, <2>4 DEF NumbersAscend
<1> QED
  BY <1>5, <1>6 DEF SendLine

\* A received piece is the first one on the connection.
LEMMA AscendReceive ==
  ASSUME SerialInv, NumbersAscend, NEW t \in Threads, ReceivePiece(t)
  PROVE  NumbersAscend'
<1>1. /\ wire \in Seq(Pieces) /\ wire # <<>> /\ wire' = Tail(wire) /\ Head(wire) = wire[1]
      /\ buf \in [Threads -> Seq(Pieces)] /\ 1 \in 1..Len(wire)
      /\ buf' = [buf EXCEPT ![t] = Extend(@, Head(wire))]
      /\ UNCHANGED <<requests, answering>>
  BY DEF SerialInv, TypeOK, ReceivePiece
<1>2. \A k \in 1..Len(wire') : k + 1 \in 1..Len(wire) /\ wire'[k] = wire[k + 1] /\ 1 < k + 1
  BY <1>1
<1>3. \A k, l \in 1..Len(wire') : k < l => k + 1 < l + 1
  BY <1>1
<1>4. ASSUME NEW u \in Threads, NEW b \in 1..Len(buf'[u])
      PROVE  \/ b \in 1..Len(buf[u]) /\ buf'[u][b] = buf[u][b]
             \/ buf'[u][b] = wire[1]
  <2>1. CASE u = t
    <3>1. buf'[u] = Extend(buf[u], wire[1]) /\ buf[u] \in Seq(Pieces) /\ wire[1] \in Pieces
      BY <1>1, <2>1
    <3>2. buf'[u] \in Seq(Pieces)
      BY <3>1, ExtendType
    <3> QED
      BY <1>4, <3>1, <3>2, ExtendFacts
  <2>2. CASE u # t
    <3>1. buf'[u] = buf[u]
      BY <1>1, <2>2
    <3> QED
      BY <1>4, <3>1
  <2> QED
    BY <2>1, <2>2
<1>5. \A k \in 1..Len(wire') : PrecedesAnswers(wire'[k], answering', requests')
  BY <1>1, <1>2 DEF NumbersAscend, PrecedesAnswers
<1>6. \A k, l \in 1..Len(wire') : k < l => Precedes(wire'[k], wire'[l].id)
  BY <1>2, <1>3 DEF NumbersAscend
<1>7. ASSUME NEW u \in Threads, NEW b \in 1..Len(buf'[u])
      PROVE  /\ PrecedesAnswers(buf'[u][b], answering', requests')
             /\ \A k \in 1..Len(wire') : Precedes(buf'[u][b], wire'[k].id)
  <2>1. CASE b \in 1..Len(buf[u]) /\ buf'[u][b] = buf[u][b]
    BY <1>1, <1>2, <2>1 DEF NumbersAscend, PrecedesAnswers
  <2>2. CASE buf'[u][b] = wire[1]
    BY <1>1, <1>2, <2>2 DEF NumbersAscend, PrecedesAnswers
  <2> QED
    BY <1>4, <1>7, <2>1, <2>2
<1> QED
  BY <1>1, <1>5, <1>6, <1>7 DEF NumbersAscend

\* Where t is the only thread that may be inside, it alone loads, stores and sends.
LEMMA OnlyNumbering ==
  ASSUME NEW t \in Threads, \A u \in Threads \ {t} : pc'[u] = "idle"
  PROVE  /\ Sending' => pc'[t] = "send"
         /\ (pc'[t] \in {"apduStore", "store"} => reg'[t] = nextCommandID') => LoadedCurrent'
  BY DEF Sending, LoadedCurrent

LEMMA NumbersStep ==
  ASSUME SerialInv, NumbersInv, NEW t \in Threads, Step(t)
  PROVE  NumbersInv'
<1>0. /\ LoadedCurrent /\ NumbersIssued /\ NumbersAscend
      /\ TypeOK /\ pc \in [Threads -> PCs] /\ buf \in [Threads -> Seq(Pieces)]
      /\ reg \in [Threads -> Nat] /\ cmd \in [Threads -> Nat] /\ nextCommandID \in Nat
      /\ requests \in Seq(Nat) /\ answering \in Nat /\ wire \in Seq(Pieces)
  BY DEF NumbersInv, SerialInv, TypeOK
<1>i. \A u \in Threads \ {t} : pc[u] = "idle" /\ buf[u] = <<>>
  <2>1. pc[t] # "idle"
    BY DEF Step, LoadID, StoreID, OpenSocket, NewSocket, NewSocketThrows, SendLine,
           ReceivePiece, ReceiveNothing, Remote_ParseResponse, NextRawExchange
  <2> QED
    BY <2>1, OthersIdle
<1>s. ASSUME NEW p, pc' = [pc EXCEPT ![t] = p]
      PROVE  /\ pc'[t] = p
             /\ Sending' => p = "send"
             /\ (p \in {"apduStore", "store"} => reg'[t] = nextCommandID') => LoadedCurrent'
  <2>1. pc'[t] = p /\ \A u \in Threads \ {t} : pc'[u] = "idle"
    BY <1>0, <1>i, <1>s
  <2> QED
    BY <2>1, OnlyNumbering
<1>b. buf' = [buf EXCEPT ![t] = <<>>] => \A u \in Threads : buf'[u] = buf[u] \/ buf'[u] = <<>>
  BY <1>0
<1>1. CASE LoadID(t)
  <2>1. PICK p \in {"apduStore", "store"} : pc' = [pc EXCEPT ![t] = p]
    BY <1>1 DEF LoadID
  <2>2. reg'[t] = nextCommandID /\ UNCHANGED <<nextCommandID, cmd, buf, requests, answering, wire>>
    BY <1>0, <1>1 DEF LoadID, shared, proxy
  <2>3. LoadedCurrent' /\ ~Sending'
    BY <1>s, <2>1, <2>2
  <2> QED
    BY <1>0, <2>2, <2>3, IssuedKept, AscendKept DEF NumbersInv
<1>2. CASE StoreID(t)
  <2>1. PICK p \in {"open", "send"} : pc' = [pc EXCEPT ![t] = p]
    BY <1>2 DEF StoreID
  <2>2. /\ nextCommandID' = nextCommandID + 1
        /\ UNCHANGED <<cmd, buf, requests, answering, wire>>
    <3>1. pc[t] \in {"apduStore", "store"} /\ nextCommandID' = reg[t] + 1
          /\ UNCHANGED <<cmd, buf, requests, answering, wire>>
      BY <1>2 DEF StoreID, proxy
    <3> QED
      BY <1>0, <3>1 DEF LoadedCurrent
  <2>3. LoadedCurrent'
    BY <1>s, <2>1
  <2>4. NumbersIssued'
    <3>1. \A n \in Nat : MayBe(n) => MayBe(n)'
      BY <1>0, <2>2 DEF MayBe
    <3>2. /\ \A u \in Threads : cmd[u] \in Nat
          /\ \A j \in 1..Len(requests) : requests[j] \in Nat
          /\ \A k \in 1..Len(wire) : wire[k].id \in Nat
      <4>1. \A k \in 1..Len(wire) : wire[k] \in Pieces
        BY <1>0
      <4>2. \A q \in Pieces : q.id \in Nat
        BY DEF Pieces
      <4> QED
        BY <1>0, <4>1, <4>2
    <3> QED
      BY <1>0, <2>2, <3>1, <3>2 DEF NumbersIssued
  <2> QED
    BY <1>0, <2>2, <2>3, <2>4, AscendKept DEF NumbersInv
<1>3. CASE OpenSocket(t)
  <2>1. PICK p \in {"new", "load"} : pc' = [pc EXCEPT ![t] = p]
    BY <1>3 DEF OpenSocket
  <2>2. UNCHANGED <<nextCommandID, cmd, buf, requests, answering, wire>>
    BY <1>3 DEF OpenSocket, proxy
  <2> QED
    BY <1>0, <1>s, <2>1, <2>2, IssuedKept, AscendKept DEF NumbersInv
<1>4. CASE NewSocket(t)
  <2>1. /\ pc' = [pc EXCEPT ![t] = "load"] /\ UNCHANGED <<nextCommandID, cmd>>
        /\ requests' = <<>> /\ wire' = <<>> /\ answering' = 0
    BY <1>4 DEF NewSocket
  <2> QED
    BY <1>0, <1>s, <2>1, IssuedEmpty, AscendEmpty DEF NumbersInv
<1>5. CASE NewSocketThrows(t)
  <2>1. /\ pc' = [pc EXCEPT ![t] = "idle"] /\ buf' = [buf EXCEPT ![t] = <<>>]
        /\ UNCHANGED <<nextCommandID, cmd, requests, answering, wire>>
    BY <1>5 DEF NewSocketThrows, Return, proxy
  <2> QED
    BY <1>0, <1>b, <1>s, <2>1, IssuedKept, AscendKept DEF NumbersInv
<1>6. CASE SendLine(t)
  <2>1. /\ pc' = [pc EXCEPT ![t] = "recv"] /\ cmd' = [cmd EXCEPT ![t] = nextCommandID]
        /\ requests' = requests \/ requests' = Append(requests, nextCommandID)
        /\ UNCHANGED <<nextCommandID, answering, wire>>
    BY <1>6 DEF SendLine
  <2>2. LoadedCurrent' /\ ~Sending'
    <3>1. PICK p \in {"recv"} : pc' = [pc EXCEPT ![t] = p]
      BY <2>1
    <3> QED
      BY <1>s, <3>1
  <2>3. NumbersIssued'
    <3>1. \A n : n <= nextCommandID => MayBe(n)'
      BY <2>1, <2>2 DEF MayBe
    <3>2. /\ \A u \in Threads : cmd'[u] <= nextCommandID
          /\ answering <= nextCommandID
          /\ \A k \in 1..Len(wire) : wire[k].id <= nextCommandID
      BY <1>0, <2>1 DEF NumbersIssued, MayBe
    <3>3. \A j \in 1..Len(requests') : requests'[j] <= nextCommandID
      <4>1. \A j \in 1..Len(requests) : requests[j] <= nextCommandID
        BY <1>0 DEF NumbersIssued, MayBe
      <4>2. CASE requests' = Append(requests, nextCommandID)
        <5>1. \A j \in 1..Len(requests') :
                \/ j \in 1..Len(requests) /\ requests'[j] = requests[j]
                \/ requests'[j] = nextCommandID
          BY <1>0, <4>2
        <5>2. nextCommandID <= nextCommandID
          BY <1>0
        <5> QED
          BY <4>1, <5>1, <5>2
      <4> QED
        BY <2>1, <4>1, <4>2
    <3> QED
      BY <2>1, <3>1, <3>2, <3>3 DEF NumbersIssued
  <2> QED
    BY <1>0, <1>6, <2>2, <2>3, AscendSend DEF NumbersInv
<1>7. CASE ReceivePiece(t)
  <2>1. PICK p \in {"parse", "recv"} : pc' = [pc EXCEPT ![t] = p]
    BY <1>7 DEF ReceivePiece
  <2>2. /\ wire # <<>> /\ wire' = Tail(wire)
        /\ UNCHANGED <<nextCommandID, cmd, requests, answering>>
    BY <1>7 DEF ReceivePiece, shared
  <2>3. LoadedCurrent' /\ ~Sending'
    BY <1>s, <2>1
  <2>4. \A n : MayBe(n) => MayBe(n)'
    BY <2>2, <2>3 DEF MayBe
  <2>5. \A k \in 1..Len(wire') : k + 1 \in 1..Len(wire) /\ wire'[k] = wire[k + 1]
    BY <1>0, <2>2
  <2>6. NumbersIssued'
    BY <1>0, <2>2, <2>4, <2>5 DEF NumbersIssued
  <2> QED
    BY <1>0, <1>7, <2>3, <2>6, AscendReceive DEF NumbersInv
<1>8. CASE ReceiveNothing(t)
  <2>1. /\ pc' = [pc EXCEPT ![t] = "parse"]
        /\ UNCHANGED <<nextCommandID, cmd, buf, requests, answering, wire>>
    BY <1>8 DEF ReceiveNothing, shared, proxy
  <2> QED
    BY <1>0, <1>s, <2>1, IssuedKept, AscendKept DEF NumbersInv
<1>9. CASE Remote_ParseResponse(t)
  <2>1. /\ pc' = [pc EXCEPT ![t] = "idle"] /\ buf' = [buf EXCEPT ![t] = <<>>]
        /\ UNCHANGED <<nextCommandID, cmd>>
        /\ \/ requests' = <<>> /\ wire' = <<>> /\ answering' = 0
           \/ UNCHANGED <<requests, answering, wire>>
    BY <1>9 DEF Remote_ParseResponse, Return, proxy
  <2>2. LoadedCurrent' /\ ~Sending'
    <3>1. PICK p \in {"idle"} : pc' = [pc EXCEPT ![t] = p]
      BY <2>1
    <3> QED
      BY <1>s, <3>1
  <2>3. CASE requests' = <<>> /\ wire' = <<>> /\ answering' = 0
    BY <1>0, <2>1, <2>2, <2>3, IssuedEmpty, AscendEmpty DEF NumbersInv
  <2>4. CASE UNCHANGED <<requests, answering, wire>>
    BY <1>0, <1>b, <2>1, <2>2, <2>4, IssuedKept, AscendKept DEF NumbersInv
  <2> QED
    BY <2>1, <2>3, <2>4
<1>10. CASE NextRawExchange(t)
  <2>1. PICK p \in {"idle", "recv"} : pc' = [pc EXCEPT ![t] = p]
    BY <1>10 DEF NextRawExchange
  <2>2. /\ buf' = [buf EXCEPT ![t] = <<>>]
        /\ UNCHANGED <<nextCommandID, cmd, requests, answering, wire>>
    BY <1>10 DEF NextRawExchange, proxy
  <2> QED
    BY <1>0, <1>b, <1>s, <2>1, <2>2, IssuedKept, AscendKept DEF NumbersInv
<1> QED
  BY <1>1, <1>2, <1>3, <1>4, <1>5, <1>6, <1>7, <1>8, <1>9, <1>10 DEF Step

\* A call that begins, or the library that starts, numbers nothing yet.
LEMMA NumbersBegin ==
  ASSUME NumbersInv, NEW t \in Threads,
         \A u \in Threads : pc'[u] \notin {"apduStore", "store", "send"},
         UNCHANGED <<nextCommandID, cmd, buf, requests, answering, wire>>
  PROVE  NumbersInv'
<1>1. LoadedCurrent' /\ ~Sending'
  BY DEF LoadedCurrent, Sending
<1>2. NumbersIssued'
  BY <1>1, IssuedKept DEF NumbersInv
<1>3. NumbersAscend'
  BY AscendKept DEF NumbersInv
<1> QED
  BY <1>1, <1>2, <1>3 DEF NumbersInv

LEMMA NumbersEnter ==
  ASSUME ~mode.concurrent, SerialInv, NumbersInv, NEW t \in Threads,
         Enter(t) \/ Remote_Connect(t)
  PROVE  NumbersInv'
<1>1. pc \in [Threads -> PCs]
  BY DEF SerialInv, TypeOK
<1>2. \A u \in Threads : pc[u] = "idle"
  BY DEF SerialInv, OneInside, Enter, Remote_SCardTransmit, Remote_Query, SCardConnectW,
         MayEnter, Remote_Connect
<1>3. UNCHANGED <<nextCommandID, cmd, buf, requests, answering, wire>>
  BY DEF Enter, Remote_SCardTransmit, Remote_Query, SCardConnectW, Remote_Connect, shared, proxy
<1>4. pc' = pc \/ \E p \in {"apduLoad", "open", "recv"} : pc' = [pc EXCEPT ![t] = p]
  BY DEF Enter, Remote_SCardTransmit, Remote_Query, SCardConnectW, Remote_Connect, RefuseCall
<1>5. \A u \in Threads : pc'[u] \notin {"apduStore", "store", "send"}
  BY <1>1, <1>2, <1>4
<1> QED
  BY <1>3, <1>5, NumbersBegin

\* A piece that everything written before precedes, and that precedes what is still to
\* be answered, goes to the end of the connection.
LEMMA AscendAppend ==
  ASSUME NumbersAscend, wire \in Seq(Pieces), NEW p \in Pieces, wire' = Extend(wire, p),
         UNCHANGED buf,
         \A j, l \in 1..Len(requests') : j < l => requests'[j] < requests'[l],
         \A j \in 1..Len(requests') : answering' < requests'[j],
         PrecedesAnswers(p, answering', requests'),
         \A k \in 1..Len(wire) :
           PrecedesAnswers(wire[k], answering', requests') /\ Precedes(wire[k], p.id),
         \A t \in Threads : \A b \in 1..Len(buf[t]) :
           PrecedesAnswers(buf[t][b], answering', requests') /\ Precedes(buf[t][b], p.id)
  PROVE  NumbersAscend'
<1>0. wire' \in Seq(Pieces)
  BY ExtendType
<1>1. \A k \in 1..Len(wire') :
        \/ k \in 1..Len(wire) /\ wire'[k] = wire[k]
        \/ k = Len(wire') /\ wire'[k] = p
  BY <1>0, ExtendFacts
<1>2. \A k, l \in 1..Len(wire') : k < l => k \in 1..Len(wire) /\ wire'[k] = wire[k]
  BY <1>0, <1>1
<1>3. \A k \in 1..Len(wire') : PrecedesAnswers(wire'[k], answering', requests')
  BY <1>1
<1>4. \A k, l \in 1..Len(wire') : k < l => Precedes(wire'[k], wire'[l].id)
  BY <1>1, <1>2 DEF NumbersAscend
<1>5. ASSUME NEW t \in Threads, NEW b \in 1..Len(buf'[t])
      PROVE  /\ PrecedesAnswers(buf'[t][b], answering', requests')
             /\ \A k \in 1..Len(wire') : Precedes(buf'[t][b], wire'[k].id)
  BY <1>1, <1>5 DEF NumbersAscend
<1> QED
  BY <1>3, <1>4, <1>5 DEF NumbersAscend

\* Requests that the proxy takes from the front, or drops, leave the rest in order.
LEMMA AscendDrop ==
  ASSUME NumbersAscend, requests \in Seq(Nat), UNCHANGED <<buf, wire>>, answering' \in {0, answering},
         \/ requests' = <<>> /\ answering' = 0
         \/ requests # <<>> /\ requests' = Tail(requests) /\ UNCHANGED answering
  PROVE  NumbersAscend'
<1>1. CASE requests' = <<>> /\ answering' = 0
  BY <1>1 DEF NumbersAscend, PrecedesAnswers
<1>2. CASE requests # <<>> /\ requests' = Tail(requests) /\ UNCHANGED answering
  <2>1. /\ \A j \in 1..Len(requests') : j + 1 \in 1..Len(requests) /\ requests'[j] = requests[j + 1]
        /\ \A j, l \in 1..Len(requests') : j < l => j + 1 < l + 1
    BY <1>2
  <2> QED
    BY <1>2, <2>1 DEF NumbersAscend, PrecedesAnswers
<1> QED
  BY <1>1, <1>2

LEMMA NumbersProxy ==
  ASSUME SerialInv, NumbersInv,
         \/ ProxyStartsAnswer \/ ProxyContinuesAnswer \/ ProxyEndsAnswer
         \/ ProxyIgnoresRequest \/ ProxyHangsUp
  PROVE  NumbersInv'
<1>0. /\ LoadedCurrent /\ NumbersIssued /\ NumbersAscend
      /\ requests \in Seq(Nat) /\ answering \in Nat /\ wire \in Seq(Pieces)
      /\ nextCommandID \in Nat /\ buf \in [Threads -> Seq(Pieces)]
  BY DEF NumbersInv, SerialInv, TypeOK
<1>1. UNCHANGED <<pc, reg, cmd, buf, nextCommandID>>
  BY DEF ProxyStartsAnswer, ProxyContinuesAnswer, ProxyEndsAnswer, ProxyIgnoresRequest,
         ProxyHangsUp, shared, local
<1>2. LoadedCurrent' /\ \A n : MayBe(n)' <=> MayBe(n)
  BY <1>0, <1>1 DEF LoadedCurrent, MayBe, Sending
<1>3. MayBe(0)
  BY <1>0 DEF MayBe, NumbersIssued, SerialInv, NumberedFromOne
<1>4. ASSUME requests # <<>>, requests' = Tail(requests)
      PROVE  /\ \A j \in 1..Len(requests') : j + 1 \in 1..Len(requests) /\ 1 < j + 1
                                             /\ requests'[j] = requests[j + 1]
             /\ \A j, l \in 1..Len(requests') : j < l => j + 1 < l + 1
             /\ 1 \in 1..Len(requests) /\ Head(requests) = requests[1]
  BY <1>0, <1>4
<1>5. ASSUME NEW p \in Pieces, wire' = Extend(wire, p)
      PROVE  \A k \in 1..Len(wire') :
               \/ k \in 1..Len(wire) /\ wire'[k] = wire[k]
               \/ k = Len(wire') /\ wire'[k] = p
  <2>1. wire' \in Seq(Pieces)
    BY <1>0, <1>5, ExtendType
  <2> QED
    BY <1>0, <1>5, <2>1, ExtendFacts
<1>6. \A p \in Pieces : (wire' = Append(wire, p) /\ p.part # "more") => wire' = Extend(wire, p)
  BY DEF Extend
<1>a. CASE ProxyStartsAnswer
  <2>1. /\ requests # <<>> /\ requests' = Tail(requests) /\ answering = 0
        /\ answering' = Head(requests) /\ wire' = Append(wire, [id |-> Head(requests), part |-> "head"])
    BY <1>a DEF ProxyStartsAnswer
  <2>2. PICK r \in Nat : r = requests[1] /\ r = Head(requests) /\ r # 0
    BY <1>0, <1>4, <2>1 DEF SerialInv, NumberedFromOne
  <2>3. PICK p \in Pieces : p = [id |-> r, part |-> "head"] /\ p.id = r /\ p.part = "head"
    <3>1. [id |-> r, part |-> "head"] \in Pieces
      BY <2>2 DEF Pieces, Parts
    <3> QED
      BY <3>1
  <2>4. answering' = r /\ wire' = Extend(wire, p)
    BY <1>6, <2>1, <2>2, <2>3
  <2>5. \A j \in 1..Len(requests') : requests'[j] \in Nat /\ r < requests'[j]
    BY <1>0, <1>4, <2>1, <2>2 DEF NumbersAscend
  <2>6. NumbersIssued'
    <3>1. MayBe(r) /\ \A j \in 1..Len(requests') : MayBe(requests'[j])
      BY <1>0, <1>4, <2>1, <2>2 DEF NumbersIssued
    <3>2. \A k \in 1..Len(wire') : MayBe(wire'[k].id)
      BY <1>0, <1>5, <2>3, <2>4, <3>1 DEF NumbersIssued
    <3> QED
      BY <1>0, <1>1, <1>2, <2>4, <3>1, <3>2 DEF NumbersIssued
  <2>7. ASSUME NEW q \in Pieces, PrecedesAnswers(q, answering, requests)
        PROVE  PrecedesAnswers(q, answering', requests') /\ Precedes(q, p.id)
    <3>1. q.id \in Nat /\ q.id < r
      BY <1>4, <2>1, <2>2, <2>7 DEF Pieces, PrecedesAnswers
    <3>2. \A j \in 1..Len(requests') : q.id < requests'[j]
      BY <2>5, <3>1
    <3>3. Precedes(q, r)
      BY <3>1 DEF Precedes
    <3> QED
      BY <2>3, <2>4, <3>2, <3>3 DEF PrecedesAnswers
  <2>8. PrecedesAnswers(p, answering', requests')
    <3>1. r <= r
      OBVIOUS
    <3> QED
      BY <2>3, <2>4, <2>5, <3>1 DEF PrecedesAnswers, Precedes
  <2>9. \A j, l \in 1..Len(requests') : j < l => requests'[j] < requests'[l]
    BY <1>0, <1>4, <2>1 DEF NumbersAscend
  <2>10. \A k \in 1..Len(wire) : wire[k] \in Pieces /\ PrecedesAnswers(wire[k], answering, requests)
    BY <1>0 DEF NumbersAscend
  <2>11. \A t \in Threads : \A b \in 1..Len(buf[t]) :
           buf[t][b] \in Pieces /\ PrecedesAnswers(buf[t][b], answering, requests)
    BY <1>0 DEF NumbersAscend
  <2>12. NumbersAscend'
    BY <1>0, <1>1, <2>4, <2>5, <2>7, <2>8, <2>9, <2>10, <2>11, AscendAppend
  <2> QED
    BY <1>2, <2>6, <2>12 DEF NumbersInv
<1>b. CASE ProxyEndsAnswer
  <2>1. /\ answering # 0 /\ answering' = 0 /\ UNCHANGED requests
        /\ wire' = Append(wire, [id |-> answering, part |-> "end"])
    BY <1>b DEF ProxyEndsAnswer
  <2>2. PICK p \in Pieces : /\ p = [id |-> answering, part |-> "end"]
                            /\ p.id = answering /\ p.part = "end" /\ wire' = Extend(wire, p)
    <3>1. [id |-> answering, part |-> "end"] \in Pieces
      BY <1>0 DEF Pieces, Parts
    <3> QED
      BY <1>6, <2>1, <3>1
  <2>3. NumbersIssued'
    <3>1. \A k \in 1..Len(wire') : MayBe(wire'[k].id)
      BY <1>0, <1>5, <2>1, <2>2 DEF NumbersIssued
    <3> QED
      BY <1>0, <1>1, <1>2, <1>3, <2>1, <3>1 DEF NumbersIssued
  <2>4. \A q : PrecedesAnswers(q, answering, requests) =>
           PrecedesAnswers(q, answering', requests') /\ Precedes(q, p.id)
    BY <2>1, <2>2 DEF PrecedesAnswers
  <2>5. PrecedesAnswers(p, answering', requests')
    BY <1>0, <2>1, <2>2 DEF NumbersAscend, PrecedesAnswers
  <2>6. /\ \A k \in 1..Len(wire) : PrecedesAnswers(wire[k], answering, requests)
        /\ \A t \in Threads : \A b \in 1..Len(buf[t]) :
             PrecedesAnswers(buf[t][b], answering, requests)
        /\ \A j, l \in 1..Len(requests) : j < l => requests[j] < requests[l]
    BY <1>0 DEF NumbersAscend
  <2>7. \A j \in 1..Len(requests') : answering' < requests'[j]
    BY <1>0, <2>1 DEF SerialInv, NumberedFromOne
  <2>8. NumbersAscend'
    BY <1>0, <1>1, <2>1, <2>2, <2>4, <2>5, <2>6, <2>7, AscendAppend
  <2> QED
    BY <1>2, <2>3, <2>8 DEF NumbersInv
<1>d. CASE ProxyContinuesAnswer
  <2>1. PICK p \in Pieces : /\ p = [id |-> answering, part |-> "more"]
                            /\ p.id = answering /\ p.part = "more"
    <3>1. [id |-> answering, part |-> "more"] \in Pieces
      BY <1>0 DEF Pieces, Parts
    <3> QED
      BY <3>1
  <2>2. /\ answering # 0 /\ UNCHANGED <<answering, requests>>
        /\ wire' = Extend(wire, p)
    BY <1>d, <2>1 DEF ProxyContinuesAnswer
  <2>3. NumbersIssued'
    <3>1. \A k \in 1..Len(wire') : MayBe(wire'[k].id)
      BY <1>0, <1>5, <2>1, <2>2 DEF NumbersIssued
    <3> QED
      BY <1>0, <1>1, <1>2, <2>2, <3>1 DEF NumbersIssued
  <2>4. \A q : PrecedesAnswers(q, answering, requests) => Precedes(q, p.id)
    BY <2>1, <2>2 DEF PrecedesAnswers
  <2>5. PrecedesAnswers(p, answering, requests)
    <3>1. answering <= answering
      BY <1>0
    <3> QED
      BY <1>0, <2>1, <3>1 DEF NumbersAscend, PrecedesAnswers, Precedes
  <2>6. /\ \A k \in 1..Len(wire) : PrecedesAnswers(wire[k], answering, requests)
        /\ \A t \in Threads : \A b \in 1..Len(buf[t]) :
             PrecedesAnswers(buf[t][b], answering, requests)
        /\ \A j, l \in 1..Len(requests) : j < l => requests[j] < requests[l]
        /\ \A j \in 1..Len(requests) : answering < requests[j]
    BY <1>0 DEF NumbersAscend
  <2>7. NumbersAscend'
    BY <1>0, <1>1, <2>2, <2>4, <2>5, <2>6, AscendAppend
  <2> QED
    BY <1>2, <2>3, <2>7 DEF NumbersInv
<1>c. CASE ProxyIgnoresRequest \/ ProxyHangsUp
  <2>1. /\ UNCHANGED wire
        /\ \/ requests' = <<>> /\ answering' = 0
           \/ requests # <<>> /\ requests' = Tail(requests) /\ UNCHANGED answering
    BY <1>c DEF ProxyIgnoresRequest, ProxyHangsUp
  <2>2. NumbersAscend'
    BY <1>0, <1>1, <2>1, AscendDrop
  <2>3. \A j \in 1..Len(requests') : MayBe(requests'[j])
    BY <1>0, <1>4, <2>1 DEF NumbersIssued
  <2>4. NumbersIssued'
    BY <1>0, <1>1, <1>2, <1>3, <2>1, <2>3 DEF NumbersIssued
  <2> QED
    BY <1>2, <2>2, <2>4 DEF NumbersInv
<1> QED
  BY <1>a, <1>b, <1>c, <1>d

LEMMA NumbersNext ==
  ASSUME ~mode.concurrent, SerialInv, NumbersInv, [Next]_vars
  PROVE  NumbersInv'
<1>1. CASE UNCHANGED <<pc, reg, cmd, buf, nextCommandID, requests, answering, wire>>
  <2>1. LoadedCurrent' /\ (Sending' => Sending)
    BY <1>1 DEF NumbersInv, LoadedCurrent, Sending
  <2>2. NumbersIssued'
    BY <1>1, <2>1, IssuedKept DEF NumbersInv
  <2>3. NumbersAscend'
    BY <1>1, AscendKept DEF NumbersInv
  <2> QED
    BY <2>1, <2>2, <2>3 DEF NumbersInv
<1>2. UNCHANGED vars \/ Remote_ConnectFails
        => UNCHANGED <<pc, reg, cmd, buf, nextCommandID, requests, answering, wire>>
  BY DEF vars, shared, local, proxy, Remote_ConnectFails
<1>3. CASE \E t \in Threads : Remote_Connect(t) \/ Enter(t) \/ Step(t)
  BY <1>3, NumbersEnter, NumbersStep
<1>4. CASE \/ ProxyStartsAnswer \/ ProxyContinuesAnswer \/ ProxyEndsAnswer
           \/ ProxyIgnoresRequest \/ ProxyHangsUp
  BY <1>4, NumbersProxy
<1> QED
  BY <1>1, <1>2, <1>3, <1>4 DEF Next

LEMMA NumbersInit == Init => NumbersInv
<1> SUFFICES ASSUME Init PROVE NumbersInv
  OBVIOUS
<1>1. LoadedCurrent /\ ~Sending
  BY DEF Init, LoadedCurrent, Sending
<1>2. NumbersIssued
  BY <1>1 DEF Init, NumbersIssued, MayBe
<1>3. NumbersAscend
  BY DEF Init, NumbersAscend, PrecedesAnswers
<1> QED
  BY <1>1, <1>2, <1>3 DEF NumbersInv

LEMMA NumbersHold == Spec => [](SerialModes /\ NumbersModes)
<1>1. Init => SerialModes /\ NumbersModes
  BY SerialInit, NumbersInit DEF SerialModes, NumbersModes
<1>2. SerialModes /\ NumbersModes /\ [Next]_vars => SerialModes' /\ NumbersModes'
  <2> SUFFICES ASSUME SerialModes, NumbersModes, [Next]_vars, ~mode'.concurrent
               PROVE  SerialInv' /\ NumbersInv'
    BY DEF SerialModes, NumbersModes
  <2>1. mode' = mode
    BY DEF Next, vars
  <2>2. ~mode.concurrent /\ SerialInv /\ NumbersInv
    BY <2>1 DEF SerialModes, NumbersModes
  <2> QED
    BY <2>2, SerialNext, NumbersNext
<1> QED
  BY <1>1, <1>2, PTL DEF Spec

\* An answer that is about to be accepted whole is the last thing on the connection:
\* nothing can be left there that a later command would receive in its place.
LEMMA AcceptedIsLast ==
  ASSUME SerialInv, NumbersInv, NEW t \in Threads, Whole(ParsedResponse(t))
  PROVE  wire = <<>> /\ requests = <<>> /\ answering = 0
<1>0. /\ buf[t] \in Seq(Pieces) /\ requests \in Seq(Nat) /\ wire \in Seq(Pieces)
      /\ answering \in Nat /\ nextCommandID \in Nat
  BY DEF SerialInv, TypeOK
<1>1. /\ ParsedResponse(t) = buf[t] /\ buf[t] # <<>> /\ buf[t][Len(buf[t])].part = "end"
      /\ buf[t][1].id = nextCommandID
  BY DEF ParsedResponse, Whole
<1>2. Len(buf[t]) \in 1..Len(buf[t])
  BY <1>0, <1>1
<1>3. PICK p \in Pieces : p = buf[t][Len(buf[t])] /\ p.id = nextCommandID /\ p.part = "end"
  <2>1. buf[t][Len(buf[t])] \in Pieces
    BY <1>0, <1>2
  <2>2. buf[t][Len(buf[t])].id = nextCommandID
    BY <1>1, <1>2 DEF SerialInv, BufferInOrder
  <2> QED
    BY <1>1, <2>1, <2>2
<1>4. /\ PrecedesAnswers(p, answering, requests)
      /\ \A k \in 1..Len(wire) : Precedes(p, wire[k].id)
  BY <1>2, <1>3 DEF NumbersInv, NumbersAscend
<1>5. answering = 0
  <2>1. answering <= nextCommandID
    BY DEF NumbersInv, NumbersIssued, MayBe
  <2> QED
    BY <1>0, <1>3, <1>4, <2>1 DEF PrecedesAnswers, Precedes
<1>6. requests = <<>>
  <2> SUFFICES ASSUME requests # <<>> PROVE FALSE
    OBVIOUS
  <2>1. 1 \in 1..Len(requests) /\ requests[1] \in Nat
    BY <1>0
  <2>2. requests[1] <= nextCommandID
    BY <2>1 DEF NumbersInv, NumbersIssued, MayBe
  <2>3. p.id < requests[1]
    BY <1>4, <2>1 DEF PrecedesAnswers
  <2> QED
    BY <1>0, <1>3, <2>1, <2>2, <2>3
<1>7. wire = <<>>
  <2> SUFFICES ASSUME wire # <<>> PROVE FALSE
    OBVIOUS
  <2>1. 1 \in 1..Len(wire) /\ wire[1] \in Pieces
    BY <1>0
  <2>2. wire[1].id \in Nat /\ wire[1].id <= nextCommandID
    BY <2>1 DEF NumbersInv, NumbersIssued, MayBe, Pieces
  <2>3. p.id < wire[1].id
    BY <1>3, <1>4, <2>1 DEF Precedes
  <2> QED
    BY <1>0, <1>3, <2>2, <2>3
<1> QED
  BY <1>5, <1>6, <1>7

\* While calls do not overlap, no older answer is left on the connection when a whole
\* answer is accepted: the acceptance resynchronises library and proxy.
THEOREM SerialInSync == Spec => []AcceptedInSync
<1>1. SerialModes /\ NumbersModes => AcceptedInSync
  BY AcceptedIsLast DEF SerialModes, NumbersModes, AcceptedInSync
<1> QED
  BY <1>1, NumbersHold, PTL

-----------------------------------------------------------------------------
(* Refinement of RemoteService *)

\* The ghost of RemoteService: whose answer each thread's latest call returned.
Answered(results) ==
  [t \in Threads |-> IF results[t].response = <<>> THEN 0 ELSE results[t].response[1].id]

\* A call that returns an empty response has given up.
LEMMA EmptyGivesUp ==
  ASSUME TypeOK, NEW t \in Threads, UNCHANGED <<nextCommandID, cmd>>,
         NEW s, s.response = <<>>, result' = [result EXCEPT ![t] = s]
  PROVE  Service!GiveUp(t)
<1>1. \A u \in Threads : Answered(result)'[u] = [Answered(result) EXCEPT ![t] = 0][u]
  BY DEF Answered, TypeOK
<1>2. Answered(result') = [Answered(result) EXCEPT ![t] = 0]
  BY <1>1 DEF Answered
<1> QED
  BY <1>2 DEF Service!GiveUp, Answered

LEMMA NoServiceStep ==
  ASSUME UNCHANGED <<nextCommandID, cmd, result>>
  PROVE  UNCHANGED Service!vars
  BY DEF Service!vars

\* A stored number is the next one, and only then may a command carry it.
LEMMA ServiceNumbers ==
  ASSUME SerialInv, NumbersInv, NEW t \in Threads, StoreID(t) \/ SendLine(t)
  PROVE  Service!Next
<1>1. CASE StoreID(t)
  <2>1. nextCommandID \in Nat /\ nextCommandID' = nextCommandID + 1
    BY <1>1 DEF StoreID, NumbersInv, LoadedCurrent, SerialInv, TypeOK
  <2>2. UNCHANGED <<cmd, result>>
    BY <1>1 DEF StoreID
  <2>3. Service!Skip
    BY <2>1, <2>2 DEF Service!Skip
  <2> QED
    BY <2>3 DEF Service!Next
<1>2. CASE SendLine(t)
  <2>1. \A u \in Threads : cmd[u] < nextCommandID
    BY <1>2 DEF SendLine, NumbersInv, NumbersIssued, MayBe, Sending
  <2>2. cmd' = [cmd EXCEPT ![t] = nextCommandID] /\ UNCHANGED <<nextCommandID, result>>
    BY <1>2 DEF SendLine
  <2>3. Service!Issue(t)
    BY <2>1, <2>2 DEF Service!Issue
  <2> QED
    BY <2>3 DEF Service!Next
<1> QED
  BY <1>1, <1>2

\* A call that hands over a response delivers the answer to the command it numbered.
LEMMA ServiceAnswers ==
  ASSUME SerialInv, NumbersInv, NEW t \in Threads, Remote_ParseResponse(t)
  PROVE  Service!Next
<1>0. TypeOK /\ buf[t] \in Seq(Pieces) /\ cmd[t] \in Nat
  BY DEF SerialInv, TypeOK
<1>1. /\ pc[t] = "parse" /\ raw[t] = 0 /\ Return(t, ParsedResponse(t))
      /\ UNCHANGED <<nextCommandID, cmd>>
  BY DEF Remote_ParseResponse
<1>2. PICK s : /\ s = [cmd |-> cmd[t], response |-> ParsedResponse(t),
                       status |-> CallStatus(op[t], ParsedResponse(t))]
               /\ s.response = ParsedResponse(t)
               /\ result' = [result EXCEPT ![t] = s]
  BY <1>1 DEF Return
<1>3. CASE ParsedResponse(t) = <<>>
  <2>1. Service!GiveUp(t)
    BY <1>0, <1>1, <1>2, <1>3, EmptyGivesUp
  <2> QED
    BY <2>1 DEF Service!Next
<1>4. CASE ParsedResponse(t) # <<>>
  <2>1. s.response # <<>> /\ s.response[1].id = cmd[t]
    <3>1. 1 \in 1..Len(ParsedResponse(t))
      BY <1>0, <1>4 DEF ParsedResponse
    <3>2. ParsedResponse(t)[1].id = cmd[t]
      BY <1>1, <3>1, AcceptedIsOwn DEF HeadOfAnswer
    <3> QED
      BY <1>2, <1>4, <3>2
  <2>2. cmd[t] # 0
    BY <1>0, <1>1 DEF SerialInv, SentIDCurrent, NumberedFromOne
  <2>3. \A u \in Threads : Answered(result')[u] = [Answered(result) EXCEPT ![t] = cmd[t]][u]
    BY <1>0, <1>2, <2>1 DEF Answered, TypeOK
  <2>4. Answered(result') = [Answered(result) EXCEPT ![t] = cmd[t]]
    BY <2>3 DEF Answered
  <2>5. Service!Deliver(t)
    BY <1>1, <2>2, <2>4 DEF Service!Deliver, Answered
  <2> QED
    BY <2>5 DEF Service!Next
<1> QED
  BY <1>3, <1>4

\* Every other step is none of RemoteService, or that of a call that gives up.
LEMMA ServiceElse ==
  ASSUME TypeOK, NEW t \in Threads,
         \/ Remote_Connect(t) \/ Enter(t) \/ LoadID(t) \/ OpenSocket(t) \/ NewSocket(t)
         \/ NewSocketThrows(t) \/ ReceivePiece(t) \/ ReceiveNothing(t) \/ NextRawExchange(t)
  PROVE  Service!Next \/ UNCHANGED Service!vars
<1>1. UNCHANGED <<nextCommandID, cmd>>
  BY DEF Remote_Connect, Enter, Remote_SCardTransmit, Remote_Query, SCardConnectW, LoadID,
         OpenSocket, NewSocket, NewSocketThrows, ReceivePiece, ReceiveNothing, NextRawExchange,
         shared
<1>2. \/ UNCHANGED result
      \/ \E s : s.response = <<>> /\ result' = [result EXCEPT ![t] = s]
  BY DEF Remote_Connect, Enter, Remote_SCardTransmit, Remote_Query, SCardConnectW, LoadID,
         OpenSocket, NewSocket, NewSocketThrows, ReceivePiece, ReceiveNothing, NextRawExchange,
         RefuseCall, ForgetResult, NoResult, Return
<1>3. ASSUME NEW s, s.response = <<>>, result' = [result EXCEPT ![t] = s]
      PROVE  Service!Next
  BY <1>1, <1>3, EmptyGivesUp DEF Service!Next
<1> QED
  BY <1>1, <1>2, <1>3, NoServiceStep

LEMMA ServiceStep ==
  ASSUME ~mode.concurrent, SerialInv, NumbersInv, [Next]_vars
  PROVE  Service!Next \/ UNCHANGED Service!vars
<1>0. TypeOK
  BY DEF SerialInv
<1>1. CASE \/ Remote_ConnectFails \/ UNCHANGED vars
           \/ ProxyStartsAnswer \/ ProxyContinuesAnswer \/ ProxyEndsAnswer
           \/ ProxyIgnoresRequest \/ ProxyHangsUp
  <2>1. UNCHANGED <<nextCommandID, cmd, result>>
    BY <1>1 DEF vars, shared, local, Remote_ConnectFails, ProxyStartsAnswer,
         ProxyContinuesAnswer, ProxyEndsAnswer, ProxyIgnoresRequest, ProxyHangsUp
  <2> QED
    BY <2>1, NoServiceStep
<1>2. CASE \E t \in Threads : Remote_Connect(t) \/ Enter(t) \/ Step(t)
  <2>1. PICK t \in Threads : Remote_Connect(t) \/ Enter(t) \/ Step(t)
    BY <1>2
  <2>2. CASE StoreID(t) \/ SendLine(t)
    BY <2>2, ServiceNumbers
  <2>3. CASE Remote_ParseResponse(t)
    BY <2>3, ServiceAnswers
  <2>4. CASE \/ Remote_Connect(t) \/ Enter(t) \/ LoadID(t) \/ OpenSocket(t) \/ NewSocket(t)
             \/ NewSocketThrows(t) \/ ReceivePiece(t) \/ ReceiveNothing(t) \/ NextRawExchange(t)
    BY <1>0, <2>4, ServiceElse
  <2> QED
    BY <2>1, <2>2, <2>3, <2>4 DEF Step
<1> QED
  BY <1>1, <1>2 DEF Next

\* For calls that do not overlap the protocol implements RemoteService, in both socket
\* modes and for any number of threads: no number is given out twice and an answer goes
\* to the call that numbered its command.
THEOREM SerialImplementsService == Spec => ImplementsService
<1>1. Init => mode.concurrent \/ Service!Init
  <2> SUFFICES ASSUME Init PROVE Service!Init
    OBVIOUS
  <2>1. nextCommandID \in Nat
    BY TypeInit DEF TypeOK
  <2>2. cmd = [t \in Threads |-> 0]
    BY Zenon DEF Init
  <2>3. \A t \in Threads : Answered(result)[t] = 0
    BY DEF Init, Answered, NoResult
  <2>4. Answered(result) = [t \in Threads |-> 0]
    BY <2>3 DEF Answered
  <2> QED
    BY <2>1, <2>2, <2>4 DEF Service!Init, Answered
<1>2. SerialModes /\ NumbersModes /\ [Next]_vars
        => [mode.concurrent \/ Service!Next]_(Service!vars)
  BY ServiceStep DEF SerialModes, NumbersModes
<1> QED
  BY <1>1, <1>2, NumbersHold, PTL DEF Spec, ImplementsService
=============================================================================
