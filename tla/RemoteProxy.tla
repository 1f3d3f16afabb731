---------------------------- MODULE RemoteProxy ----------------------------
(***************************************************************************)
(* Card remoting: the threads of the host application that are inside      *)
(* Remote_SendRequest, the one REMOTE_CONFIG they share (pSocket,          *)
(* nextCommandID), and the socket proxy at the other end of the            *)
(* connection.  Nothing in Winscard.cpp takes a lock, so every load and    *)
(* store of the shared record is a step of its own.                        *)
(*                                                                         *)
(* The proxy's answer to command n arrives in pieces: the head ">n:...",   *)
(* any amount of further text without the end sequence, and the end, which *)
(* holds "@@".  A receive timeout may fall before, between or after them.  *)
(* Pieces of further text that follow each other run together to one.      *)
(***************************************************************************)
EXTENDS Naturals, Sequences

CONSTANTS
  Threads,   \* threads of the host application
  HasTag,    \* remoteTag is not empty when Remote_Connect runs
  Modes      \* configurations and uses of the library, see below

\* perCommand: bOpenSocketForEveryCommand.  concurrent: the application may have two
\* threads inside the library at the same time.  maxID: bound, no call starts once
\* nextCommandID + 2 exceeds it.
ASSUME ConstantsAssumption ==
  /\ HasTag \in BOOLEAN
  /\ Modes \subseteq [perCommand : BOOLEAN, concurrent : BOOLEAN, maxID : Nat]

VARIABLES
  mode,           \* which of them this process is; it never changes
  boot,           \* "init", "tag" while PERSONALIZE is sent, then "up"
  pSocket,        \* what the pointer designates: no object, an open or closed socket, freed memory
  nextCommandID,  \* m_remoteConfig.nextCommandID
  pc,             \* where each thread is
  op,             \* the call it executes
  reg,            \* the value it loaded for nextCommandID++
  cmd,            \* the ID it wrote into its request
  buf,            \* what ReceiveResponse has collected
  raw,            \* exchanges left of SCardConnectW's unnumbered three
  result,         \* what its last call returned, until it calls again
  ub,             \* a freed socket object has been used
  peerUp,         \* the proxy still holds its end of the connection
  requests,       \* requests the proxy has received and not yet answered
  answering,      \* the command whose answer the proxy is writing, 0 if none
  wire            \* pieces of answers that wait to be received

shared == <<boot, pSocket, nextCommandID, ub>>
local  == <<pc, op, reg, cmd, buf, raw, result>>
proxy  == <<peerUp, requests, answering, wire>>
vars   == <<mode, shared, local, proxy>>

Ops      == {"APDU", "RESET", "READERS", "PERSONALIZE", "CONNECTW"}
Statuses == {"SUCCESS", "SCARD_F_COMM_ERROR", "STAT_DATA_INCORRECT_LENGTH"}
Parts    == {"head", "more", "end"}
Pieces   == [id : Nat, part : Parts]
PCs      == {"idle", "apduLoad", "apduStore", "open", "new", "load", "store",
             "send", "recv", "parse"}

NoResult == [cmd |-> 0, status |-> "SUCCESS", response |-> <<>>]

Init ==
  /\ mode \in Modes
  /\ boot = "init"
  /\ pSocket = "NULL"
  /\ nextCommandID = 1
  /\ ub = FALSE
  /\ pc = [t \in Threads |-> "idle"]
  /\ op = [t \in Threads |-> "CONNECTW"]
  /\ reg = [t \in Threads |-> 0]
  /\ cmd = [t \in Threads |-> 0]
  /\ buf = [t \in Threads |-> <<>>]
  /\ raw = [t \in Threads |-> 0]
  /\ result = [t \in Threads |-> NoResult]
  /\ peerUp = FALSE
  /\ requests = <<>>
  /\ answering = 0
  /\ wire = <<>>

-----------------------------------------------------------------------------
(* What the callers of Remote_SendRequest make of the response string: none of  *)
(* them looks at the status it returns.  (That the proxy's text may read "FAIL"  *)
(* or be no hex string is left out.)                                             *)

\* Fault: the boolean "false" of the failed-connection branch as a status code.
CallStatus_False(o, response) == IF response = <<>> THEN "false" ELSE "SUCCESS"

CallStatus(o, response) ==
  IF o = "APDU" /\ response = <<>> THEN "STAT_DATA_INCORRECT_LENGTH" ELSE "SUCCESS"

\* Return from the library; the loader lets threads in once PERSONALIZE is over.
Return(t, response) ==
  /\ result' = [result EXCEPT ![t] = [cmd |-> cmd[t], response |-> response,
                                      status |-> CallStatus(op[t], response)]]
  /\ pc' = [pc EXCEPT ![t] = "idle"]
  /\ buf' = [buf EXCEPT ![t] = <<>>]
  /\ boot' = IF boot = "tag" THEN "up" ELSE boot

\* A call that finds pSocket = NULL: only Remote_SCardTransmit reports success.
RefuseCall(t, o) ==
  /\ result' = [result EXCEPT ![t] =
                  [cmd |-> cmd[t], response |-> <<>>,
                   status |-> IF o = "APDU" THEN "SUCCESS" ELSE "SCARD_F_COMM_ERROR"]]
  /\ UNCHANGED <<pc, op, raw>>

-----------------------------------------------------------------------------
(* Remote_Connect, called once by InitInstance when REDIRECT is set *)

\* The probing connection cannot be opened: pSocket keeps its NULL.
Remote_ConnectFails ==
  /\ boot = "init"
  /\ boot' = "up"
  /\ UNCHANGED <<pSocket, nextCommandID, ub, local, proxy>>

\* The probe is opened, closed, deleted and set to NULL; only a tag reopens it.
Remote_Connect(t) ==
  /\ boot = "init"
  /\ IF HasTag
     THEN /\ boot' = "tag"
          /\ op' = [op EXCEPT ![t] = "PERSONALIZE"]
          /\ pc' = [pc EXCEPT ![t] = "open"]
     ELSE /\ boot' = "up"
          /\ UNCHANGED <<op, pc>>
  /\ UNCHANGED <<pSocket, nextCommandID, ub, reg, cmd, buf, raw, result, proxy>>

-----------------------------------------------------------------------------
(* The entry points *)

MayEnter(t) ==
  /\ boot = "up"
  /\ pc[t] = "idle"
  /\ mode.concurrent \/ \A u \in Threads : pc[u] = "idle"
  /\ nextCommandID + 2 <= mode.maxID

ForgetResult(t) == result' = [result EXCEPT ![t] = NoResult]

\* Remote_SCardTransmit numbers the command once more by itself.
Remote_SCardTransmit(t) ==
  /\ MayEnter(t)
  /\ IF pSocket = "NULL" THEN RefuseCall(t, "APDU")
     ELSE /\ op' = [op EXCEPT ![t] = "APDU"]
          /\ pc' = [pc EXCEPT ![t] = "apduLoad"]
          /\ ForgetResult(t)
          /\ UNCHANGED raw
  /\ UNCHANGED <<shared, reg, cmd, buf, proxy>>

\* Remote_SCardConnect sends RESET and Remote_ListReaders sends READERS.
Remote_Query(t, o) ==
  /\ MayEnter(t)
  /\ IF pSocket = "NULL" THEN RefuseCall(t, o)
     ELSE /\ op' = [op EXCEPT ![t] = o]
          /\ pc' = [pc EXCEPT ![t] = "open"]
          /\ ForgetResult(t)
          /\ UNCHANGED raw
  /\ UNCHANGED <<shared, reg, cmd, buf, proxy>>

\* SCardConnectW: three lines without a command ID ("get reset", "get params",
\* "post sampling"), which the proxy ignores, each followed by ReceiveResponse.
SCardConnectW(t) ==
  /\ MayEnter(t)
  /\ pSocket # "NULL"
  /\ ub' = (pSocket = "freed")
  /\ op' = [op EXCEPT ![t] = "CONNECTW"]
  /\ pc' = [pc EXCEPT ![t] = "recv"]
  /\ raw' = [raw EXCEPT ![t] = 3]
  /\ ForgetResult(t)
  /\ UNCHANGED <<boot, pSocket, nextCommandID, reg, cmd, buf, proxy>>

-----------------------------------------------------------------------------
(* Remote_SendRequest *)

\* nextCommandID++ : a load and a store, in Remote_SCardTransmit and again below.
LoadID(t) ==
  /\ \/ pc[t] = "apduLoad" /\ pc' = [pc EXCEPT ![t] = "apduStore"]
     \/ pc[t] = "load" /\ pc' = [pc EXCEPT ![t] = "store"]
  /\ reg' = [reg EXCEPT ![t] = nextCommandID]
  /\ UNCHANGED <<shared, op, cmd, buf, raw, result, proxy>>

\* Fault: the incremented value is never written back.
StoreID_Lost(t) ==
  /\ \/ pc[t] = "apduStore" /\ pc' = [pc EXCEPT ![t] = "open"]
     \/ pc[t] = "store" /\ pc' = [pc EXCEPT ![t] = "send"]
  /\ reg' = [reg EXCEPT ![t] = 0]
  /\ UNCHANGED <<shared, op, cmd, buf, raw, result, proxy>>

StoreID(t) ==
  /\ \/ pc[t] = "apduStore" /\ pc' = [pc EXCEPT ![t] = "open"]
     \/ pc[t] = "store" /\ pc' = [pc EXCEPT ![t] = "send"]
  /\ nextCommandID' = reg[t] + 1
  /\ reg' = [reg EXCEPT ![t] = 0]
  /\ UNCHANGED <<boot, pSocket, ub, op, cmd, buf, raw, result, proxy>>

\* Fault: the old socket is deleted in the persistent mode too.
OpenSocket_AlwaysDelete(t) ==
  /\ pc[t] = "open"
  /\ pSocket' = IF pSocket = "NULL" THEN "NULL" ELSE "freed"
  /\ ub' = (pSocket = "freed" \/ \E u \in Threads : pc[u] = "recv")
  /\ pc' = [pc EXCEPT ![t] = "new"]
  /\ UNCHANGED <<boot, nextCommandID, op, reg, cmd, buf, raw, result, proxy>>

\* Is a socket needed?  In per-command mode the old one is deleted first; a thread
\* that is receiving on it, or a pointer that was already freed, makes that an error.
OpenSocket(t) ==
  /\ pc[t] = "open"
  /\ IF mode.perCommand /\ pSocket # "NULL"
     THEN /\ pSocket' = "freed"
          /\ ub' = (pSocket = "freed" \/ \E u \in Threads : pc[u] = "recv")
          /\ pc' = [pc EXCEPT ![t] = "new"]
     ELSE /\ pc' = [pc EXCEPT ![t] = IF pSocket = "NULL" THEN "new" ELSE "load"]
          /\ UNCHANGED <<pSocket, ub>>
  /\ UNCHANGED <<boot, nextCommandID, op, reg, cmd, buf, raw, result, proxy>>

NewSocket(t) ==
  /\ pc[t] = "new"
  /\ pSocket' = "open"
  /\ peerUp' = TRUE
  /\ requests' = <<>>
  /\ answering' = 0
  /\ wire' = <<>>
  /\ pc' = [pc EXCEPT ![t] = "load"]
  /\ UNCHANGED <<boot, nextCommandID, ub, op, reg, cmd, buf, raw, result>>

\* SocketClient's constructor throws: pSocket is not assigned, the exception is
\* caught inside Remote_SendRequest and the response stays empty.
NewSocketThrows(t) ==
  /\ pc[t] = "new"
  /\ Return(t, <<>>)
  /\ UNCHANGED <<pSocket, nextCommandID, ub, op, reg, cmd, raw, proxy>>

\* Format the request with nextCommandID as it is now; send() failures are ignored.
SendLine(t) ==
  /\ pc[t] = "send"
  /\ ub' = (pSocket = "freed")
  /\ cmd' = [cmd EXCEPT ![t] = nextCommandID]
  /\ requests' = IF pSocket = "open" /\ peerUp THEN Append(requests, nextCommandID)
                 ELSE requests
  /\ pc' = [pc EXCEPT ![t] = "recv"]
  /\ UNCHANGED <<boot, pSocket, nextCommandID, op, reg, buf, raw, result,
                 peerUp, answering, wire>>

\* Further text runs together with the further text before it.
Extend(pieces, p) ==
  IF p.part = "more" /\ pieces # <<>> /\ pieces[Len(pieces)] = p
  THEN pieces ELSE Append(pieces, p)

\* ReceiveResponse reads on as long as there is text, until a line holds "@@"; the
\* timeout is that of one recv, so further text starts it afresh ...
ReceivePiece(t) ==
  /\ pc[t] = "recv"
  /\ wire # <<>>
  /\ buf' = [buf EXCEPT ![t] = Extend(@, Head(wire))]
  /\ wire' = Tail(wire)
  /\ pc' = [pc EXCEPT ![t] = IF Head(wire).part = "end" THEN "parse" ELSE "recv"]
  /\ UNCHANGED <<shared, op, reg, cmd, raw, result, peerUp, requests, answering>>

\* Fault: recv without a timeout, which only a closed connection ends.
ReceiveNothing_Blocking(t) ==
  /\ pc[t] = "recv"
  /\ wire = <<>>
  /\ ~peerUp
  /\ pc' = [pc EXCEPT ![t] = "parse"]
  /\ UNCHANGED <<shared, op, reg, cmd, buf, raw, result, proxy>>

\* ... or until ReceiveLine returns an empty line: a timeout, or no connection.
ReceiveNothing(t) ==
  /\ pc[t] = "recv"
  /\ wire = <<>>
  /\ pc' = [pc EXCEPT ![t] = "parse"]
  /\ UNCHANGED <<shared, op, reg, cmd, buf, raw, result, proxy>>

\* Fault: the command ID of the answer is not compared.
ParsedResponse_AnyID(t) ==
  IF buf[t] # <<>> /\ buf[t][1].part = "head" THEN buf[t] ELSE <<>>

\* The command ID is compared with nextCommandID as it is NOW.
ParsedResponse(t) ==
  IF /\ buf[t] # <<>>
     /\ buf[t][1].part = "head"
     /\ buf[t][1].id = nextCommandID
  THEN buf[t] ELSE <<>>

\* An empty answer makes at(0) throw, which also skips the Close below.
Remote_ParseResponse(t) ==
  /\ pc[t] = "parse"
  /\ raw[t] = 0
  /\ IF mode.perCommand /\ buf[t] # <<>>
     THEN /\ ub' = (pSocket = "freed")
          /\ pSocket' = IF pSocket = "freed" THEN pSocket ELSE "closed"
          /\ peerUp' = FALSE
          /\ requests' = <<>>
          /\ answering' = 0
          /\ wire' = <<>>
     ELSE UNCHANGED <<pSocket, ub, proxy>>
  /\ Return(t, ParsedResponse(t))
  /\ UNCHANGED <<nextCommandID, op, reg, cmd, raw>>

\* SCardConnectW only logs what it received.
NextRawExchange(t) ==
  /\ pc[t] = "parse"
  /\ raw[t] > 0
  /\ raw' = [raw EXCEPT ![t] = @ - 1]
  /\ pc' = [pc EXCEPT ![t] = IF raw[t] = 1 THEN "idle" ELSE "recv"]
  /\ buf' = [buf EXCEPT ![t] = <<>>]
  /\ ub' = (pSocket = "freed")
  /\ UNCHANGED <<boot, pSocket, nextCommandID, op, reg, cmd, result, proxy>>

-----------------------------------------------------------------------------
(* The socket proxy: not part of the repository.  It echoes the command ID,    *)
(* serves a connection in order, may never answer a request, may go on with an  *)
(* answer for ever, may hang up.                                                *)

ProxyStartsAnswer ==
  /\ pSocket = "open" /\ peerUp /\ answering = 0 /\ requests # <<>>
  /\ answering' = Head(requests)
  /\ requests' = Tail(requests)
  /\ wire' = Append(wire, [id |-> Head(requests), part |-> "head"])
  /\ UNCHANGED <<shared, local, peerUp>>

ProxyContinuesAnswer ==
  /\ pSocket = "open" /\ peerUp /\ answering # 0
  /\ wire' = Extend(wire, [id |-> answering, part |-> "more"])
  /\ UNCHANGED <<shared, local, peerUp, requests, answering>>

ProxyEndsAnswer ==
  /\ pSocket = "open" /\ peerUp /\ answering # 0
  /\ wire' = Append(wire, [id |-> answering, part |-> "end"])
  /\ answering' = 0
  /\ UNCHANGED <<shared, local, peerUp, requests>>

ProxyIgnoresRequest ==
  /\ pSocket = "open" /\ peerUp /\ answering = 0 /\ requests # <<>>
  /\ requests' = Tail(requests)
  /\ UNCHANGED <<shared, local, peerUp, answering, wire>>

ProxyHangsUp ==
  /\ pSocket = "open" /\ peerUp
  /\ peerUp' = FALSE
  /\ requests' = <<>>
  /\ answering' = 0
  /\ UNCHANGED <<shared, local, wire>>

-----------------------------------------------------------------------------

Enter(t) ==
  \/ Remote_SCardTransmit(t)
  \/ \E o \in {"RESET", "READERS"} : Remote_Query(t, o)
  \/ SCardConnectW(t)

Step(t) ==
  \/ LoadID(t)
  \/ StoreID(t)
  \/ OpenSocket(t)
  \/ NewSocket(t)
  \/ NewSocketThrows(t)
  \/ SendLine(t)
  \/ ReceivePiece(t)
  \/ ReceiveNothing(t)
  \/ Remote_ParseResponse(t)
  \/ NextRawExchange(t)

\* Using freed memory is undefined behaviour: nothing is promised after it.
Next ==
  /\ ~ub
  /\ UNCHANGED mode
  /\ \/ Remote_ConnectFails
     \/ \E t \in Threads : Remote_Connect(t) \/ Enter(t) \/ Step(t)
     \/ ProxyStartsAnswer
     \/ ProxyContinuesAnswer
     \/ ProxyEndsAnswer
     \/ ProxyIgnoresRequest
     \/ ProxyHangsUp

Spec == Init /\ [][Next]_vars

\* A thread inside the library is eventually scheduled, and recv returns at the
\* latest when REMOTE_SOCKET_TIMEOUT has passed.  Nothing is assumed of the proxy
\* or of the application.
Fairness == \A t \in Threads : WF_vars(~ub /\ UNCHANGED mode /\ Step(t))

FairSpec == Spec /\ Fairness
-----------------------------------------------------------------------------
(* Properties *)

\* Type invariant.
TypeOK ==
  /\ mode \in Modes
  /\ boot \in {"init", "tag", "up"}
  /\ pSocket \in {"NULL", "open", "closed", "freed"}
  /\ nextCommandID \in Nat
  /\ ub \in BOOLEAN
  /\ pc \in [Threads -> PCs]
  /\ op \in [Threads -> Ops]
  /\ reg \in [Threads -> Nat]
  /\ cmd \in [Threads -> Nat]
  /\ buf \in [Threads -> Seq(Pieces)]
  /\ raw \in [Threads -> 0..3]
  /\ result \in [Threads -> [cmd : Nat, status : Statuses,
                             response : Seq(Pieces)]]
  /\ peerUp \in BOOLEAN
  /\ requests \in Seq(Nat)
  /\ answering \in Nat
  /\ wire \in Seq(Pieces)

\* Text that starts with the head of the answer to a command and goes on, if at all,
\* with that answer; its end is the last thing in it.
HeadOfAnswer(text, id) ==
  \A i \in 1..Len(text) :
    /\ text[i].id = id
    /\ text[i].part = "head" <=> i = 1
    /\ text[i].part = "end" => i = Len(text)

\* A response that a call hands to the application consists of pieces of the
\* proxy's answer to the command this call sent, from its head on and in order:
\* "next unique command ID (checked on response)" (stdafx.h, REMOTE_CONFIG).
AnswersNeverSwapped ==
  \A t \in Threads : HeadOfAnswer(result[t].response, result[t].cmd)

\* While calls do not overlap, no late answer to an earlier command passes the ID
\* check of Remote_ParseResponse.
OwnAnswer == ~mode.concurrent => AnswersNeverSwapped

\* No two threads have sent their latest command under the same number: the "next
\* unique command ID" of stdafx.h, REMOTE_CONFIG.  It does not hold of calls that
\* overlap, since the field is read again when the command is formatted.
CommandsNumberedApart ==
  \A t, u \in Threads : (t # u /\ cmd[t] # 0) => cmd[t] # cmd[u]

\* Text with the end sequence in it.
Whole(text) == text # <<>> /\ text[Len(text)].part = "end"

\* When Remote_ParseResponse is about to accept a whole answer, nothing else is on
\* the connection: no older answer is left in it that would meet the next command.
AcceptedInSync ==
  ~mode.concurrent =>
    \A t \in Threads :
      (pc[t] = "parse" /\ raw[t] = 0 /\ Whole(ParsedResponse(t)))
        => (wire = <<>> /\ requests = <<>> /\ answering = 0)

\* No call of Remote_SendRequest or SCardConnectW touches a deleted SocketClient:
\* what Remote_SendRequest relies on when it reuses pSocket, or deletes it to "open
\* connection for every command".
NeverDangling == ~ub

\* With a persistent connection that is so, for calls that overlap as well.
NoUseAfterFree == ~mode.perCommand => NeverDangling

\* A proxy that goes on writing, again and again before REMOTE_SOCKET_TIMEOUT is over,
\* without ever ending the answer: the loop of ReceiveResponse has no bound of its own.
NeverSilentNeverDone == []<><<ProxyContinuesAnswer>>_vars

\* Unless the proxy does that, every call into the library returns: also one whose
\* answer is lost, cut off at any point, late or in the way of the next one.
EveryCallReturns ==
  \/ NeverSilentNeverDone
  \/ \A t \in Threads : pc[t] # "idle" ~> (pc[t] = "idle" \/ ub)

\* The whole protocol implements RemoteService: numbers are never reused and an
\* answer goes to the call that numbered the command.
Service == INSTANCE RemoteService WITH
  issued  <- nextCommandID,
  current <- cmd,
  answer  <- [t \in Threads |->
                IF result[t].response = <<>> THEN 0 ELSE result[t].response[1].id]

\* For calls that do not overlap; mode is rigid, so it is one and the same at all steps.
ImplementsService ==
  /\ mode.concurrent \/ Service!Init
  /\ [][mode.concurrent \/ Service!Next]_(Service!vars)

-----------------------------------------------------------------------------
(* The inductive strengthening of OwnAnswer for an application that serialises *)
(* its calls.                                                                   *)

OneInside ==
  /\ \A t, u \in Threads : (pc[t] # "idle" /\ pc[u] # "idle") => t = u
  /\ boot = "init" => \A t \in Threads : pc[t] = "idle"

\* The ID that Remote_ParseResponse will compare with is the one that was sent.
SentIDCurrent ==
  \A t \in Threads :
    /\ raw[t] # 0 => pc[t] \in {"recv", "parse"}
    /\ (pc[t] \in {"recv", "parse"} /\ raw[t] = 0) => cmd[t] = nextCommandID

NumberedFromOne ==
  /\ nextCommandID > 0
  /\ \A i \in 1..Len(requests) : requests[i] > 0

\* Piece q may come next after piece p on a connection.
Follows(p, q) ==
  IF p.part = "end" THEN q.part = "head" ELSE q.id = p.id /\ q.part # "head"

\* Piece p is the last one the proxy has written.
LastWritten(p) ==
  peerUp => IF p.part = "end" THEN answering = 0 ELSE answering = p.id /\ p.id # 0

WireInOrder ==
  /\ \A i \in 1..(Len(wire) - 1) : Follows(wire[i], wire[i + 1])
  /\ wire # <<>> => LastWritten(wire[Len(wire)])

\* What a thread has received belongs to one answer, its end can only be the last of
\* it, and while the thread waits the connection goes on where that stops.
BufferInOrder ==
  \A t \in Threads :
    /\ pc[t] \notin {"recv", "parse"} => buf[t] = <<>>
    /\ \A i \in 1..Len(buf[t]) :
         /\ buf[t][i].id = buf[t][1].id
         /\ i # 1 => buf[t][i].part # "head"
         /\ i # Len(buf[t]) => buf[t][i].part # "end"
    /\ (pc[t] = "recv" /\ buf[t] # <<>>) =>
         /\ ~Whole(buf[t])
         /\ IF wire = <<>> THEN LastWritten(buf[t][Len(buf[t])])
            ELSE Follows(buf[t][Len(buf[t])], wire[1])

SerialInv ==
  /\ TypeOK
  /\ OneInside
  /\ SentIDCurrent
  /\ NumberedFromOne
  /\ WireInOrder
  /\ BufferInOrder
  /\ AnswersNeverSwapped
-----------------------------------------------------------------------------
(* The strengthening of AcceptedInSync and of ImplementsService: the numbers of   *)
(* the commands under way ascend from the thread that waits, over the connection,  *)
(* to the requests the proxy has not read yet, and none was given out twice.       *)

\* The number a thread adds one to is the current one.
LoadedCurrent ==
  \A t \in Threads : pc[t] \in {"apduStore", "store"} => reg[t] = nextCommandID

\* A command about to be sent has a number of its own.
Sending == \E t \in Threads : pc[t] = "send"

MayBe(id) == id <= nextCommandID /\ (Sending => id < nextCommandID)

NumbersIssued ==
  /\ \A t \in Threads : MayBe(cmd[t])
  /\ \A i \in 1..Len(requests) : MayBe(requests[i])
  /\ MayBe(answering)
  /\ \A k \in 1..Len(wire) : MayBe(wire[k].id)

\* Piece p comes before anything of command id.
Precedes(p, id) == p.id <= id /\ (p.part = "end" => p.id < id)

\* Piece p was written before the current answer of the proxy and the rest of its requests.
PrecedesAnswers(p, current, rest) ==
  /\ current # 0 => Precedes(p, current)
  /\ \A i \in 1..Len(rest) : p.id < rest[i]

NumbersAscend ==
  /\ \A i, j \in 1..Len(requests) : i < j => requests[i] < requests[j]
  /\ \A i \in 1..Len(requests) : answering < requests[i]
  /\ \A k \in 1..Len(wire) : PrecedesAnswers(wire[k], answering, requests)
  /\ \A k, l \in 1..Len(wire) : k < l => Precedes(wire[k], wire[l].id)
  /\ \A t \in Threads : \A b \in 1..Len(buf[t]) :
       /\ PrecedesAnswers(buf[t][b], answering, requests)
       /\ \A k \in 1..Len(wire) : Precedes(buf[t][b], wire[k].id)

NumbersInv == LoadedCurrent /\ NumbersIssued /\ NumbersAscend
NumbersModes == ~mode.concurrent => NumbersInv
=============================================================================
