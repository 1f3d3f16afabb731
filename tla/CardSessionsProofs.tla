------------------------ MODULE CardSessionsProofs ------------------------
(***************************************************************************)
(* Proofs about CardSessions, for any number of threads, contexts, readers *)
(* and handles.                                                            *)
(***************************************************************************)
EXTENDS CardSessions, TLAPS

\* What m[k] = v does to a map.
LEMMA PutFacts ==
  ASSUME NEW m, NEW k, NEW v
  PROVE  /\ DOMAIN Put(m, k, v) = DOMAIN m \cup {k}
         /\ Put(m, k, v)[k] = v
         /\ \A x \in DOMAIN m : x # k => Put(m, k, v)[x] = m[x]
  BY DEF Put

\* What erasing keys does to a map.
LEMMA EraseFacts ==
  ASSUME NEW m, NEW K
  PROVE  /\ DOMAIN Erase(m, K) = DOMAIN m \ K
         /\ \A x \in DOMAIN m : x \notin K => Erase(m, K)[x] = m[x]
  BY DEF Erase

\* The empty map has no keys.
LEMMA EmptyFacts == DOMAIN EmptyMap = {}
  BY DEF EmptyMap

\* The bound on handle numbers leaves room for 0 and HANDLE_VIRTUAL_CARD.
LEMMA CardIDFacts == /\ 0 \in CardIDs
                     /\ HANDLE_VIRTUAL_CARD \in CardIDs
                     /\ 1..MaxCardID \subseteq CardIDs
                     /\ CardIDs \subseteq Handles
                     /\ PhysHandles \subseteq Handles
                     /\ 1 \in 1..MaxCardID
                     /\ MaxCardID \in Nat
<1>0. MaxCardID \in Nat \ {0}
  BY SessionsAssumption, Zenon
<1>1. MaxCardID \in Nat /\ MaxCardID >= 1
  BY <1>0
<1>2. 0 \in CardIDs /\ HANDLE_VIRTUAL_CARD \in CardIDs /\ 1 \in 1..MaxCardID
  BY <1>1 DEF CardIDs, HANDLE_VIRTUAL_CARD
<1>3. 1..MaxCardID \subseteq CardIDs
  BY <1>1 DEF CardIDs
<1>4. CardIDs \subseteq Handles /\ PhysHandles \subseteq Handles
  BY DEF Handles
<1> QED
  BY <1>1, <1>2, <1>3, <1>4

\* Next, spelled out once for the proofs by cases.
LEMMA NextCases ==
  ASSUME Next
  PROVE  \E t \in Threads :
    \/ \E c \in Contexts, ok \in BOOLEAN : SCardEstablishContext(t, c, ok)
    \/ \E c \in Contexts : SCardReleaseContext(t, c)
    \/ \E c \in Contexts, r \in Readers : SCardConnect(t, c, r)
    \/ \E c \in Contexts, r \in Readers : SCardConnectW(t, c, r)
    \/ \E c \in Contexts, r \in PhysReaders, h \in PhysHandles :
         SCardConnectOriginal(t, c, r, h)
    \/ \E c \in Contexts, r \in PhysReaders, h \in PhysHandles :
         SCardConnectWOriginal(t, c, r, h)
    \/ \E c \in Contexts, r \in Readers, h \in Handles :
         SCardConnectOriginalFails(t, c, r, h)
    \/ TakeCardID(t)
    \/ \E status \in {"SUCCESS", "SCARD_F_COMM_ERROR"}, atr \in {"", "ATR"} :
         ConnectReply(t, status, atr)
    \/ \E r \in RemoteReaders, atr \in {"", "ATR"} : RefreshATR(t, r, atr)
    \/ RefreshEnd(t)
    \/ \E s \in held : SCardTransmit(t, s)
    \/ \E s \in held : HandleCall(t, s)
    \/ \E s \in held : SCardDisconnect(t, s)
    \/ \E list \in SUBSET RemoteReaders : RefreshVirtualReaders(t, list)
    \/ \E r \in Readers : SCardGetStatusChange(t, r)
  BY DEF Next, Connect, Continue, Use

-----------------------------------------------------------------------------
(* Type correctness *)

MapsOK ==
  /\ DOMAIN cardReaderMap \subseteq Handles
  /\ \A h \in DOMAIN cardReaderMap : cardReaderMap[h] \in Readers \cup {""}
  /\ DOMAIN remoteReadersMap \subseteq CardIDs
  /\ \A h \in DOMAIN remoteReadersMap : remoteReadersMap[h] \in Readers
  /\ nextRemoteCardID \in 1..MaxCardID

ListsOK ==
  /\ virtualReaders \subseteq Virtual
  /\ DOMAIN atrMap \subseteq Virtual

PhysOK ==
  /\ DOMAIN phys \subseteq PhysHandles
  /\ \A h \in DOMAIN phys : phys[h] \in [ctx : Contexts, reader : PhysReaders]

\* Put keeps a map from Handles to reader names well typed.
LEMMA PutCardReader ==
  ASSUME MapsOK, NEW h \in Handles, NEW r \in Readers \cup {""}
  PROVE  /\ DOMAIN Put(cardReaderMap, h, r) \subseteq Handles
         /\ \A x \in DOMAIN Put(cardReaderMap, h, r) :
              Put(cardReaderMap, h, r)[x] \in Readers \cup {""}
  BY DEF MapsOK, Put

\* The counter stays within its bound.
LEMMA Successor == \A m \in Nat : \A n \in 1..m : n < m => n + 1 \in 1..m
  OBVIOUS

\* What a thread does is told by its pc.
LEMMA JobCases ==
  ASSUME NEW j \in Jobs
  PROVE  /\ j.pc \in {"take", "reply"} => j \in Connecting
         /\ j.pc = "refresh" => j \in Refreshing
         /\ j.pc = "idle" => j = NoJob
<1>1. CASE j \in Connecting
  BY <1>1 DEF Connecting
<1>2. CASE j \in Refreshing
  BY <1>2 DEF Refreshing
<1>3. CASE j = NoJob
  BY <1>3 DEF NoJob
<1> QED
  BY <1>1, <1>2, <1>3 DEF Jobs

\* A job that is over, and one that begins, are well typed.
LEMMA JobTypes ==
  /\ NoJob \in Jobs
  /\ \A c \in Contexts, r \in Virtual :
       [pc |-> "take", ctx |-> c, reader |-> r, h |-> 0, todo |-> {}] \in Jobs
  /\ \A list \in SUBSET RemoteReaders :
       [pc |-> "refresh", ctx |-> "", reader |-> "", h |-> 0, todo |-> list] \in Jobs
  BY CardIDFacts DEF Jobs, Connecting, Refreshing

\* The records that served holds are well typed.
LEMMA CallTypes ==
  /\ NoCall \in Calls
  /\ \A r \in Readers, to \in {"library", "proxy", "original"} : Asked(r, to) \in Calls
  /\ \A s \in Sessions, to \in {"library", "proxy", "original"},
       r \in Readers \cup {""} : CallOf(s, to, r) \in Calls
<1>1. NoCall \in Calls
  BY DEF NoCall, Calls, Sides
<1>2. ASSUME NEW r \in Readers, NEW to \in {"library", "proxy", "original"}
      PROVE  Asked(r, to) \in Calls
  BY DEF Asked, Calls, Sides
<1>3. ASSUME NEW s \in Sessions, NEW to \in {"library", "proxy", "original"},
             NEW r \in Readers \cup {""}
      PROVE  CallOf(s, to, r) \in Calls
  <2>1. {s.h} \in SUBSET Handles
    BY DEF Sessions
  <2> QED
    BY <2>1 DEF CallOf, Calls, Sessions
<1> QED
  BY <1>1, <1>2, <1>3

\* The two sides.
LEMMA SideFacts == /\ "proxy" \in Sides /\ "original" \in Sides
                   /\ \A s \in Sessions : s.side = "proxy" \/ s.side = "original"
  BY DEF Sides, Sessions

\* A new session is well typed.
LEMMA SessionType ==
  ASSUME held \subseteq Sessions, NEW h \in Handles, NEW c \in Contexts,
         NEW r \in Readers, NEW side \in Sides, OpenSession(h, c, r, side)
  PROVE  held' \subseteq Sessions
<1>1. [h |-> h, ctx |-> c, reader |-> r, side |-> side] \in Sessions
  BY DEF Sessions
<1> QED
  BY <1>1 DEF OpenSession

\* TypeOK in the parts the steps below refer to.
LEMMA TypeParts ==
  TypeOK <=> /\ ctxs \subseteq Contexts
             /\ MapsOK
             /\ ListsOK
             /\ PhysOK
             /\ job \in [Threads -> Jobs]
             /\ held \subseteq Sessions
             /\ served \in Calls
  BY DEF TypeOK, MapsOK, ListsOK, PhysOK
-----------------------------------------------------------------------------
\* Every call of the library keeps TypeOK.
LEMMA TypeStep == TypeOK /\ [Next]_vars => TypeOK'
<1> SUFFICES ASSUME TypeOK, [Next]_vars
             PROVE  /\ ctxs' \subseteq Contexts
                    /\ MapsOK'
                    /\ ListsOK'
                    /\ PhysOK'
                    /\ job' \in [Threads -> Jobs]
                    /\ held' \subseteq Sessions
                    /\ served' \in Calls
  BY DEF TypeOK, MapsOK, ListsOK, PhysOK
<1>0. /\ ctxs \subseteq Contexts
      /\ MapsOK /\ ListsOK /\ PhysOK
      /\ job \in [Threads -> Jobs]
      /\ held \subseteq Sessions
      /\ served \in Calls
  BY TypeParts
<1> USE DEF app
<1>1. CASE UNCHANGED vars
  BY <1>0, <1>1 DEF vars, maps, MapsOK, ListsOK, PhysOK
<1>2. CASE Next
  <2>0. PICK t \in Threads :
    \/ \E c \in Contexts, ok \in BOOLEAN : SCardEstablishContext(t, c, ok)
    \/ \E c \in Contexts : SCardReleaseContext(t, c)
    \/ \E c \in Contexts, r \in Readers : SCardConnect(t, c, r)
    \/ \E c \in Contexts, r \in Readers : SCardConnectW(t, c, r)
    \/ \E c \in Contexts, r \in PhysReaders, h \in PhysHandles :
         SCardConnectOriginal(t, c, r, h)
    \/ \E c \in Contexts, r \in PhysReaders, h \in PhysHandles :
         SCardConnectWOriginal(t, c, r, h)
    \/ \E c \in Contexts, r \in Readers, h \in Handles :
         SCardConnectOriginalFails(t, c, r, h)
    \/ TakeCardID(t)
    \/ \E status \in {"SUCCESS", "SCARD_F_COMM_ERROR"}, atr \in {"", "ATR"} :
         ConnectReply(t, status, atr)
    \/ \E r \in RemoteReaders, atr \in {"", "ATR"} : RefreshATR(t, r, atr)
    \/ RefreshEnd(t)
    \/ \E s \in held : SCardTransmit(t, s)
    \/ \E s \in held : HandleCall(t, s)
    \/ \E s \in held : SCardDisconnect(t, s)
    \/ \E list \in SUBSET RemoteReaders : RefreshVirtualReaders(t, list)
    \/ \E r \in Readers : SCardGetStatusChange(t, r)
    BY <1>2, NextCases, Zenon
  <2>1. ASSUME NEW c \in Contexts, NEW ok \in BOOLEAN, SCardEstablishContext(t, c, ok)
        PROVE  /\ MapsOK' /\ ctxs' \subseteq Contexts
               /\ UNCHANGED <<virtualReaders, atrMap, phys, job, held, served>>
    BY <1>0, <2>1, EmptyFacts, CardIDFacts
       DEF SCardEstablishContext, Remote_SCardReleaseContext, MapsOK
  <2>2. ASSUME NEW c \in Contexts, SCardReleaseContext(t, c)
        PROVE  /\ MapsOK' /\ ctxs' \subseteq Contexts /\ held' \subseteq Sessions /\ PhysOK'
               /\ UNCHANGED <<virtualReaders, atrMap, job, served>>
    <3>1. MapsOK'
      BY <2>2, EmptyFacts, CardIDFacts
         DEF SCardReleaseContext, Remote_SCardReleaseContext, MapsOK
    <3>2. ctxs' \subseteq Contexts /\ held' \subseteq Sessions
      BY <1>0, <2>2 DEF SCardReleaseContext
    <3>3. PhysOK'
      BY <1>0, <2>2 DEF SCardReleaseContext, PhysOK, Erase
    <3> QED
      BY <2>2, <3>1, <3>2, <3>3 DEF SCardReleaseContext
  <2>3. ASSUME NEW c \in Contexts, NEW r \in Readers, SCardConnect(t, c, r)
        PROVE  /\ MapsOK' /\ job' \in [Threads -> Jobs] /\ served' \in Calls
               /\ UNCHANGED <<ctxs, held, virtualReaders, atrMap, phys>>
    <3>1. nextRemoteCardID' \in 1..MaxCardID
      <4>1. nextRemoteCardID \in 1..MaxCardID /\ nextRemoteCardID < MaxCardID
            /\ nextRemoteCardID' = nextRemoteCardID + 1 /\ MaxCardID \in Nat
        BY <1>0, <2>3, CardIDFacts DEF SCardConnect, MapsOK
      <4> QED
        BY <4>1, Successor
    <3>2. job' \in [Threads -> Jobs]
      <4>1. r \in Virtual
        BY <1>0, <2>3 DEF SCardConnect, IsRemoteReader, ListsOK
      <4> QED
        BY <1>0, <2>3, <4>1, JobTypes DEF SCardConnect
    <3>3. served' \in Calls
      BY <2>3, CallTypes DEF SCardConnect
    <3> QED
      BY <1>0, <2>3, <3>1, <3>2, <3>3 DEF SCardConnect, MapsOK
  <2>4. ASSUME NEW c \in Contexts, NEW r \in Readers, SCardConnectW(t, c, r)
        PROVE  /\ held' \subseteq Sessions
               /\ UNCHANGED <<maps, ctxs, virtualReaders, atrMap, phys, job, served>>
    BY <1>0, <2>4, CardIDFacts, SideFacts, SessionType DEF SCardConnectW
  <2>5. ASSUME NEW c \in Contexts, NEW r \in PhysReaders, NEW h \in PhysHandles,
               SCardConnectOriginal(t, c, r, h)
        PROVE  /\ PhysOK' /\ MapsOK' /\ held' \subseteq Sessions /\ served' \in Calls
               /\ UNCHANGED <<ctxs, virtualReaders, atrMap, job>>
    <3>0. r \in Readers /\ h \in Handles
      BY CardIDFacts DEF Readers
    <3>1. PhysOK'
      BY <1>0, <2>5 DEF SCardConnectOriginal, PhysOK, Put
    <3>2. MapsOK'
      BY <1>0, <2>5, <3>0, PutCardReader DEF SCardConnectOriginal, MapsOK
    <3>3. held' \subseteq Sessions
      BY <1>0, <2>5, <3>0, SideFacts, SessionType DEF SCardConnectOriginal
    <3>4. served' \in Calls
      BY <2>5, <3>0, CallTypes DEF SCardConnectOriginal
    <3> QED
      BY <2>5, <3>1, <3>2, <3>3, <3>4 DEF SCardConnectOriginal
  <2>6. ASSUME NEW c \in Contexts, NEW r \in PhysReaders, NEW h \in PhysHandles,
               SCardConnectWOriginal(t, c, r, h)
        PROVE  /\ PhysOK' /\ held' \subseteq Sessions
               /\ UNCHANGED <<maps, ctxs, virtualReaders, atrMap, job, served>>
    <3>0. r \in Readers /\ h \in Handles
      BY CardIDFacts DEF Readers
    <3>1. PhysOK'
      BY <1>0, <2>6 DEF SCardConnectWOriginal, PhysOK, Put
    <3> QED
      BY <1>0, <2>6, <3>0, <3>1, SideFacts, SessionType DEF SCardConnectWOriginal
  <2>7. ASSUME NEW c \in Contexts, NEW r \in Readers, NEW h \in Handles,
               SCardConnectOriginalFails(t, c, r, h)
        PROVE  /\ MapsOK' /\ served' \in Calls
               /\ UNCHANGED <<ctxs, held, virtualReaders, atrMap, phys, job>>
    <3>1. MapsOK'
      BY <1>0, <2>7, PutCardReader DEF SCardConnectOriginalFails, MapsOK
    <3> QED
      BY <2>7, <3>1, CallTypes DEF SCardConnectOriginalFails
  <2>8. ASSUME TakeCardID(t)
        PROVE  /\ MapsOK' /\ job' \in [Threads -> Jobs]
               /\ UNCHANGED <<ctxs, held, virtualReaders, atrMap, phys, served>>
    <3>0. job[t] \in Connecting
      BY <1>0, <2>8, JobCases DEF TakeCardID
    <3>1. nextRemoteCardID \in CardIDs
      BY <1>0, CardIDFacts DEF MapsOK
    <3>2. job[t].reader \in Readers
      BY <3>0 DEF Connecting, Virtual, Readers
    <3>3. MapsOK'
      BY <1>0, <2>8, <3>1, <3>2 DEF TakeCardID, MapsOK, Put
    <3>4. [job[t] EXCEPT !.pc = "reply", !.h = nextRemoteCardID] \in Jobs
      BY <3>0, <3>1 DEF Jobs, Connecting
    <3>5. job' \in [Threads -> Jobs]
      BY <1>0, <2>8, <3>4 DEF TakeCardID
    <3> QED
      BY <2>8, <3>3, <3>5 DEF TakeCardID
  <2>9. ASSUME NEW status \in {"SUCCESS", "SCARD_F_COMM_ERROR"}, NEW atr \in {"", "ATR"},
               ConnectReply(t, status, atr)
        PROVE  /\ MapsOK' /\ ListsOK' /\ job' \in [Threads -> Jobs] /\ held' \subseteq Sessions
               /\ UNCHANGED <<ctxs, phys, served>>
    <3>1. /\ job[t].ctx \in Contexts /\ job[t].h \in Handles
          /\ job[t].reader \in Virtual /\ job[t].reader \in Readers
      <4>1. job[t] \in Connecting
        BY <1>0, <2>9, JobCases DEF ConnectReply
      <4> QED
        BY <4>1, CardIDFacts DEF Connecting, Virtual, Readers
    <3>2. MapsOK'
      BY <1>0, <2>9, <3>1, PutCardReader DEF ConnectReply, MapsOK
    <3>3. ListsOK'
      BY <1>0, <2>9, <3>1 DEF ConnectReply, ListsOK, Put
    <3>4. job' \in [Threads -> Jobs]
      BY <1>0, <2>9, JobTypes DEF ConnectReply
    <3>5. held' \subseteq Sessions
      BY <1>0, <2>9, <3>1, SideFacts, SessionType DEF ConnectReply
    <3> QED
      BY <2>9, <3>2, <3>3, <3>4, <3>5 DEF ConnectReply
  <2>10. ASSUME NEW r \in RemoteReaders, NEW atr \in {"", "ATR"}, RefreshATR(t, r, atr)
         PROVE  /\ ListsOK' /\ job' \in [Threads -> Jobs]
                /\ UNCHANGED <<maps, ctxs, held, phys, served>>
    <3>1. ListsOK'
      BY <1>0, <2>10 DEF RefreshATR, ListsOK, Put, Virtual
    <3>2. job[t] \in Refreshing
      BY <1>0, <2>10, JobCases DEF RefreshATR
    <3>3. [job[t] EXCEPT !.todo = @ \ {r}] \in Jobs
      BY <3>2 DEF Jobs, Refreshing
    <3> QED
      BY <1>0, <2>10, <3>1, <3>3 DEF RefreshATR
  <2>11. ASSUME RefreshEnd(t)
         PROVE  /\ ListsOK' /\ job' \in [Threads -> Jobs]
                /\ UNCHANGED <<maps, ctxs, held, phys, served>>
    BY <1>0, <2>11, JobTypes DEF RefreshEnd, ListsOK, Virtual
  <2>12. ASSUME NEW s \in held, SCardTransmit(t, s)
         PROVE  /\ MapsOK' /\ served' \in Calls
                /\ UNCHANGED <<ctxs, held, virtualReaders, atrMap, phys, job>>
    <3>1. s \in Sessions /\ s.h \in Handles
      BY <1>0 DEF Sessions
    <3>2. GetReaderName(s.h) \in Readers \cup {""}
      BY <1>0 DEF GetReaderName, MapsOK
    <3>3. ReachedByOriginal(s.h) \in Readers \cup {""}
      BY <1>0 DEF ReachedByOriginal, PhysOK, Readers
    <3>4. MapsOK'
      BY <1>0, <2>12, <3>1, <3>2, PutCardReader DEF SCardTransmit, MapsOK
    <3>5. served' \in Calls
      BY <2>12, <3>1, <3>2, <3>3, CallTypes DEF SCardTransmit
    <3> QED
      BY <2>12, <3>4, <3>5 DEF SCardTransmit
  <2>13. ASSUME NEW s \in held, HandleCall(t, s)
         PROVE  /\ served' \in Calls
                /\ UNCHANGED <<maps, ctxs, held, virtualReaders, atrMap, phys, job>>
    <3>1. s \in Sessions /\ s.reader \in Readers
      BY <1>0 DEF Sessions
    <3>2. ReachedByOriginal(s.h) \in Readers \cup {""}
      BY <1>0 DEF ReachedByOriginal, PhysOK, Readers
    <3> QED
      BY <2>13, <3>1, <3>2, CallTypes DEF HandleCall
  <2>14. ASSUME NEW s \in held, SCardDisconnect(t, s)
         PROVE  /\ PhysOK' /\ held' \subseteq Sessions
                /\ UNCHANGED <<maps, ctxs, virtualReaders, atrMap, job, served>>
    BY <1>0, <2>14 DEF SCardDisconnect, PhysOK, Erase
  <2>15. ASSUME NEW list \in SUBSET RemoteReaders, RefreshVirtualReaders(t, list)
         PROVE  /\ ListsOK' /\ job' \in [Threads -> Jobs]
                /\ UNCHANGED <<maps, ctxs, held, phys, served>>
    BY <1>0, <2>15, JobTypes, EmptyFacts DEF RefreshVirtualReaders, ListsOK, Virtual
  <2>16. ASSUME NEW r \in Readers, SCardGetStatusChange(t, r)
         PROVE  /\ served' \in Calls
                /\ UNCHANGED <<maps, ctxs, held, virtualReaders, atrMap, phys, job>>
    BY <1>0, <2>16, CallTypes DEF SCardGetStatusChange
  <2>17. UNCHANGED maps => MapsOK'
    BY <1>0 DEF maps, MapsOK
  <2>18. UNCHANGED <<virtualReaders, atrMap>> => ListsOK'
    BY <1>0 DEF ListsOK
  <2>19. UNCHANGED phys => PhysOK'
    BY <1>0 DEF PhysOK
  <2> QED
    BY <1>0, <2>0, <2>1, <2>2, <2>3, <2>4, <2>5, <2>6, <2>7, <2>8, <2>9, <2>10, <2>11, <2>12,
       <2>13, <2>14, <2>15, <2>16, <2>17, <2>18, <2>19
<1> QED
  BY <1>1, <1>2

\* Spec keeps every variable of the library within its type, in every mode of use.
THEOREM TypeCorrect == Spec => []TypeOK
<1>1. Init => TypeOK
  BY EmptyFacts, CardIDFacts, JobTypes, CallTypes DEF Init, TypeOK, Virtual
<1> QED
  BY <1>1, TypeStep, PTL DEF Spec
-----------------------------------------------------------------------------
(* Physical cards, in every mode of use *)

\* Handles of the original library are not numbers of remote cards.
LEMMA Disjoint == TypeOK => \A h \in DOMAIN phys : h \notin CardIDs /\ ~IsRemoteCard(h)
<1>1. PhysHandles \cap CardIDs = {}
  BY SessionsAssumption, Zenon
<1> QED
  BY <1>1 DEF TypeOK, IsRemoteCard

\* A session is known by its four fields.
LEMMA SameSession ==
  ASSUME NEW s \in Sessions, NEW u \in Sessions,
         s.h = u.h, s.ctx = u.ctx, s.reader = u.reader, s.side = u.side
  PROVE  s = u
  BY DEF Sessions

\* The open sessions after a successful connect: the old ones and the new one.
LEMMA OpenFacts ==
  ASSUME NEW h, NEW c, NEW r, NEW side, OpenSession(h, c, r, side)
  PROVE  /\ \A s \in held' :
              s \in held \/ (s.h = h /\ s.ctx = c /\ s.reader = r /\ s.side = side)
         /\ held \subseteq held'
<1> DEFINE new == [h |-> h, ctx |-> c, reader |-> r, side |-> side]
<1>1. held' = held \cup {new}
  BY DEF OpenSession
<1>2. new.h = h /\ new.ctx = c /\ new.reader = r /\ new.side = side
  OBVIOUS
<1> HIDE DEF new
<1> QED
  BY <1>1, <1>2

\* What served says of a call.
LEMMA CallFacts ==
  ASSUME NEW s, NEW to, NEW r
  PROVE  /\ CallOf(s, to, r).asked = s.reader
         /\ CallOf(s, to, r).side = s.side
         /\ CallOf(s, to, r).to = to
         /\ CallOf(s, to, r).reached = r
  BY DEF CallOf

\* Every call of the library keeps PhysicalInv.
LEMMA PhysicalStep == PhysicalInv /\ [Next]_vars => PhysicalInv'
<1> SUFFICES ASSUME PhysicalInv, [Next]_vars
             PROVE  PhysicalSessions' /\ PhysicalUndisturbed'
  BY TypeStep DEF PhysicalInv
<1>0. TypeOK /\ PhysicalSessions /\ PhysicalUndisturbed
  BY DEF PhysicalInv
<1>T. held \subseteq Sessions /\ DOMAIN phys \subseteq PhysHandles /\ job \in [Threads -> Jobs]
  BY <1>0 DEF TypeOK
<1> USE DEF app
<1>A. UNCHANGED <<held, phys>> => PhysicalSessions'
  BY <1>0 DEF PhysicalSessions
<1>B. UNCHANGED served => PhysicalUndisturbed'
  BY <1>0 DEF PhysicalUndisturbed
<1>1. CASE UNCHANGED vars
  BY <1>1, <1>A, <1>B DEF vars
<1>2. CASE Next
  <2>0. PICK t \in Threads :
    \/ \E c \in Contexts, ok \in BOOLEAN : SCardEstablishContext(t, c, ok)
    \/ \E c \in Contexts : SCardReleaseContext(t, c)
    \/ \E c \in Contexts, r \in Readers : SCardConnect(t, c, r)
    \/ \E c \in Contexts, r \in Readers : SCardConnectW(t, c, r)
    \/ \E c \in Contexts, r \in PhysReaders, h \in PhysHandles :
         SCardConnectOriginal(t, c, r, h)
    \/ \E c \in Contexts, r \in PhysReaders, h \in PhysHandles :
         SCardConnectWOriginal(t, c, r, h)
    \/ \E c \in Contexts, r \in Readers, h \in Handles :
         SCardConnectOriginalFails(t, c, r, h)
    \/ TakeCardID(t)
    \/ \E status \in {"SUCCESS", "SCARD_F_COMM_ERROR"}, atr \in {"", "ATR"} :
         ConnectReply(t, status, atr)
    \/ \E r \in RemoteReaders, atr \in {"", "ATR"} : RefreshATR(t, r, atr)
    \/ RefreshEnd(t)
    \/ \E s \in held : SCardTransmit(t, s)
    \/ \E s \in held : HandleCall(t, s)
    \/ \E s \in held : SCardDisconnect(t, s)
    \/ \E list \in SUBSET RemoteReaders : RefreshVirtualReaders(t, list)
    \/ \E r \in Readers : SCardGetStatusChange(t, r)
    BY <1>2, NextCases, Zenon
  <2>1. ASSUME NEW c \in Contexts, NEW ok \in BOOLEAN, SCardEstablishContext(t, c, ok)
        PROVE  UNCHANGED <<held, phys, served>>
    BY <2>1 DEF SCardEstablishContext
  <2>2. ASSUME NEW c \in Contexts, SCardReleaseContext(t, c)
        PROVE  PhysicalSessions' /\ UNCHANGED served
    <3>1. /\ held' = {s \in held : s.ctx # c}
          /\ phys' = Erase(phys, {h \in DOMAIN phys : phys[h].ctx = c})
          /\ UNCHANGED served
      BY <2>2 DEF SCardReleaseContext
    <3>2. ASSUME NEW s \in held', s.side = "original"
          PROVE  s.h \in DOMAIN phys' /\ phys'[s.h].ctx = s.ctx
                 /\ phys'[s.h].reader = s.reader
      <4>1. s \in held /\ s.ctx # c
        BY <3>1
      <4>2. s.h \in DOMAIN phys /\ phys[s.h].ctx = s.ctx /\ phys[s.h].reader = s.reader
        BY <1>0, <3>2, <4>1 DEF PhysicalSessions
      <4>3. phys[s.h].ctx # c
        BY <4>1, <4>2
      <4> QED
        BY <3>1, <4>2, <4>3 DEF Erase
    <3>3. ASSUME NEW s \in held', s.side = "proxy"
          PROVE  s.h \in CardIDs
      BY <1>0, <3>1, <3>3 DEF PhysicalSessions
    <3> QED
      BY <3>1, <3>2, <3>3 DEF PhysicalSessions
  <2>3. ASSUME NEW c \in Contexts, NEW r \in Readers, SCardConnect(t, c, r)
        PROVE  PhysicalUndisturbed' /\ UNCHANGED <<held, phys>>
    BY <2>3 DEF SCardConnect, PhysicalUndisturbed, Asked
  <2>4. ASSUME NEW c \in Contexts, NEW r \in Readers, SCardConnectW(t, c, r)
        PROVE  PhysicalSessions' /\ UNCHANGED served
    BY <1>0, <2>4, CardIDFacts, OpenFacts DEF SCardConnectW, PhysicalSessions
  <2>5. ASSUME NEW c \in Contexts, NEW r \in PhysReaders, NEW h \in PhysHandles,
               h \notin DOMAIN phys, OpenSession(h, c, r, "original"),
               phys' = Put(phys, h, [ctx |-> c, reader |-> r])
        PROVE  PhysicalSessions'
    BY <1>0, <2>5, OpenFacts DEF Put, PhysicalSessions
  <2>6. ASSUME NEW c \in Contexts, NEW r \in PhysReaders, NEW h \in PhysHandles,
               SCardConnectOriginal(t, c, r, h)
        PROVE  PhysicalSessions' /\ PhysicalUndisturbed'
    BY <2>5, <2>6 DEF SCardConnectOriginal, PhysicalUndisturbed, Asked
  <2>7. ASSUME NEW c \in Contexts, NEW r \in PhysReaders, NEW h \in PhysHandles,
               SCardConnectWOriginal(t, c, r, h)
        PROVE  PhysicalSessions' /\ UNCHANGED served
    BY <2>5, <2>7 DEF SCardConnectWOriginal
  <2>8. ASSUME NEW c \in Contexts, NEW r \in Readers, NEW h \in Handles,
               SCardConnectOriginalFails(t, c, r, h)
        PROVE  PhysicalUndisturbed' /\ UNCHANGED <<held, phys>>
    BY <2>8 DEF SCardConnectOriginalFails, PhysicalUndisturbed, Asked
  <2>9. ASSUME TakeCardID(t)
        PROVE  UNCHANGED <<held, phys, served>>
    BY <2>9 DEF TakeCardID
  <2>10. ASSUME NEW status \in {"SUCCESS", "SCARD_F_COMM_ERROR"}, NEW atr \in {"", "ATR"},
                ConnectReply(t, status, atr)
         PROVE  PhysicalSessions' /\ UNCHANGED served
    <3>1. job[t].h \in CardIDs
      <4>1. job[t] \in Connecting
        BY <1>T, <2>10, JobCases DEF ConnectReply
      <4> QED
        BY <4>1 DEF Connecting
    <3>2. CASE UNCHANGED held
      BY <1>A, <2>10, <3>2 DEF ConnectReply
    <3>3. CASE OpenSession(job[t].h, job[t].ctx, job[t].reader, "proxy")
      <4>1. \A s \in held' : s \in held \/ (s.h = job[t].h /\ s.side = "proxy")
        <5> DEFINE new == [h |-> job[t].h, ctx |-> job[t].ctx, reader |-> job[t].reader,
                           side |-> "proxy"]
        <5>1. held' = held \cup {new}
          BY <3>3 DEF OpenSession
        <5>2. new.h = job[t].h /\ new.side = "proxy"
          OBVIOUS
        <5> HIDE DEF new
        <5> QED
          BY <5>1, <5>2
      <4>2. UNCHANGED <<phys, served>>
        BY <2>10 DEF ConnectReply
      <4> QED
        BY <1>0, <3>1, <4>1, <4>2 DEF PhysicalSessions
    <3> QED
      BY <2>10, <3>2, <3>3 DEF ConnectReply
  <2>11. ASSUME NEW r \in RemoteReaders, NEW atr \in {"", "ATR"}, RefreshATR(t, r, atr)
         PROVE  UNCHANGED <<held, phys, served>>
    BY <2>11 DEF RefreshATR
  <2>12. ASSUME RefreshEnd(t)
         PROVE  UNCHANGED <<held, phys, served>>
    BY <2>12 DEF RefreshEnd
  <2>13. ASSUME NEW s \in held, s.side = "original"
         PROVE  ~IsRemoteCard(s.h) /\ ReachedByOriginal(s.h) = s.reader
    BY <1>0, <2>13, Disjoint DEF PhysicalSessions, ReachedByOriginal
  <2>14. ASSUME NEW s \in held, SCardTransmit(t, s)
         PROVE  PhysicalUndisturbed' /\ UNCHANGED <<held, phys>>
    <3>1. ASSUME s.side = "proxy" PROVE PhysicalUndisturbed'
      <4>1. served'.side = s.side
        BY <2>14 DEF SCardTransmit, CallOf
      <4> QED
        BY <3>1, <4>1 DEF PhysicalUndisturbed
    <3>2. ASSUME s.side = "original" PROVE PhysicalUndisturbed'
      <4>1. served' = CallOf(s, "original", s.reader)
        BY <2>13, <2>14, <3>2 DEF SCardTransmit
      <4> QED
        BY <4>1 DEF PhysicalUndisturbed, CallOf
    <3>3. UNCHANGED <<held, phys>>
      BY <2>14 DEF SCardTransmit
    <3> QED
      BY <1>T, <3>1, <3>2, <3>3, SideFacts
  <2>15. ASSUME NEW s \in held, HandleCall(t, s)
         PROVE  PhysicalUndisturbed' /\ UNCHANGED <<held, phys>>
    <3>1. ASSUME s.side = "proxy" PROVE PhysicalUndisturbed'
      <4>1. served'.side = s.side
        BY <2>15 DEF HandleCall, CallOf
      <4> QED
        BY <3>1, <4>1 DEF PhysicalUndisturbed
    <3>2. ASSUME s.side = "original" PROVE PhysicalUndisturbed'
      <4>1. served' = CallOf(s, "original", s.reader)
        BY <2>13, <2>15, <3>2 DEF HandleCall
      <4> QED
        BY <4>1 DEF PhysicalUndisturbed, CallOf
    <3>3. UNCHANGED <<held, phys>>
      BY <2>15 DEF HandleCall
    <3> QED
      BY <1>T, <3>1, <3>2, <3>3, SideFacts
  <2>16. ASSUME NEW s \in held, SCardDisconnect(t, s)
         PROVE  PhysicalSessions' /\ UNCHANGED served
    <3>1. ASSUME NEW u \in held', u.side = "original"
          PROVE  u.h \in DOMAIN phys' /\ phys'[u.h].ctx = u.ctx
                 /\ phys'[u.h].reader = u.reader
      <4>1. u \in held /\ u # s
        BY <2>16 DEF SCardDisconnect
      <4>2. u.h \in DOMAIN phys /\ phys[u.h].ctx = u.ctx /\ phys[u.h].reader = u.reader
        BY <1>0, <3>1, <4>1 DEF PhysicalSessions
      <4>3. u.h # s.h
        <5>1. CASE s.side = "proxy"
          BY <1>0, <4>2, <5>1, Disjoint DEF PhysicalSessions
        <5>2. CASE s.side = "original"
          <6>1. SUFFICES ASSUME u.h = s.h PROVE FALSE
            OBVIOUS
          <6>2. phys[u.h].ctx = s.ctx /\ phys[u.h].reader = s.reader
            BY <1>0, <5>2, <6>1 DEF PhysicalSessions
          <6>3. u.ctx = s.ctx /\ u.reader = s.reader
            BY <4>2, <6>2
          <6>4. u.side = "original" /\ s.side = "original" /\ u \in Sessions /\ s \in Sessions
            BY <1>T, <3>1, <4>1, <5>2 DEF Sessions
          <6> QED
            BY <4>1, <6>1, <6>3, <6>4, SameSession
        <5> QED
          BY <1>T, <5>1, <5>2, SideFacts
      <4> QED
        BY <2>16, <4>2, <4>3 DEF SCardDisconnect, Erase
    <3>2. ASSUME NEW u \in held', u.side = "proxy"
          PROVE  u.h \in CardIDs
      BY <1>0, <2>16, <3>2 DEF PhysicalSessions, SCardDisconnect
    <3> QED
      BY <2>16, <3>1, <3>2 DEF PhysicalSessions, SCardDisconnect
  <2>17. ASSUME NEW list \in SUBSET RemoteReaders, RefreshVirtualReaders(t, list)
         PROVE  UNCHANGED <<held, phys, served>>
    BY <2>17 DEF RefreshVirtualReaders
  <2>18. ASSUME NEW r \in Readers, SCardGetStatusChange(t, r)
         PROVE  PhysicalUndisturbed' /\ UNCHANGED <<held, phys>>
    BY <2>18 DEF SCardGetStatusChange, PhysicalUndisturbed, Asked
  <2> QED
    BY <1>A, <1>B, <2>0, <2>1, <2>2, <2>3, <2>4, <2>6, <2>7, <2>8, <2>9, <2>10, <2>11, <2>12,
       <2>14, <2>15, <2>16, <2>17, <2>18
<1> QED
  BY <1>1, <1>2

\* A session that the original library opened is always served by the original
\* library and by the card in its reader, whatever the threads, contexts and maps do.
THEOREM PhysicalSafe == Spec => []PhysicalUndisturbed
<1>1. Init => PhysicalInv
  <2>1. Init => TypeOK
    BY EmptyFacts, CardIDFacts, JobTypes, CallTypes DEF Init, TypeOK, Virtual
  <2>2. Init => PhysicalInv
    <3>1. Init => PhysicalSessions
      <4>1. Init => held = {}
        BY DEF Init
      <4>2. held = {} => PhysicalSessions
        BY DEF PhysicalSessions
      <4> QED
        BY <4>1, <4>2
    <3>2. Init => PhysicalUndisturbed
      <4>1. Init => served = NoCall
        BY DEF Init
      <4>2. served = NoCall => PhysicalUndisturbed
        <5>1. NoCall.to = "original" /\ NoCall.reached = NoCall.asked
          BY DEF NoCall
        <5> QED
          BY <5>1, Zenon DEF PhysicalUndisturbed
      <4> QED
        BY <4>1, <4>2
    <3> QED
      BY <2>1, <3>1, <3>2 DEF PhysicalInv
  <2> QED
    BY <2>2
<1>2. PhysicalInv => PhysicalUndisturbed
  BY DEF PhysicalInv
<1> QED
  BY <1>1, <1>2, PhysicalStep, PTL DEF Spec
-----------------------------------------------------------------------------
(* Every session, when calls and contexts follow one another *)

\* One call at a time, one context, narrow calls, a cleared handle after a failure.
Sequential == ~Concurrent /\ ~MultiContext /\ ~OutParamKept /\ ~Wide

\* A thread enters, or goes on, only while all others are outside.
LEMMA OnlyOne ==
  ASSUME Sequential, OneAtATime, NEW t \in Threads
  PROVE  /\ MayEnter(t) => \A u \in Threads : Idle(u)
         /\ ~Idle(t) => \A u \in Threads : u # t => Idle(u)
<1>1. MayEnter(t) => \A u \in Threads : Idle(u)
  BY DEF Sequential, MayEnter
<1>2. ~Idle(t) => \A u \in Threads : u # t => Idle(u)
  BY DEF OneAtATime
<1> QED
  BY <1>1, <1>2

\* The parts of SessionsInv that a thread's pc switches on.
LEMMA IdleFacts ==
  ASSUME \A u \in Threads : Idle(u)
  PROVE  FreshCardID /\ RefreshPending
  BY DEF Idle, FreshCardID, RefreshPending

\* While nobody is inside, the next step leaves at most one thread inside.
LEMMA OneInside ==
  ASSUME job \in [Threads -> Jobs], NEW t \in Threads, NEW j,
         \A u \in Threads : u # t => Idle(u), job' = [job EXCEPT ![t] = j]
  PROVE  /\ job'[t] = j
         /\ \A u \in Threads : u # t => job'[u].pc = "idle"
  BY DEF Idle

\* Handles of remote cards and those of the original library differ.
LEMMA SidesApart ==
  ASSUME TypeOK, PhysicalSessions, NEW s \in held, s.side = "original"
  PROVE  /\ s.h \in PhysHandles /\ s.h \notin CardIDs
         /\ ~IsRemoteCard(s.h) /\ ReachedByOriginal(s.h) = s.reader
<1>1. s.h \in DOMAIN phys /\ phys[s.h].reader = s.reader
  BY DEF PhysicalSessions
<1>2. s.h \notin CardIDs /\ ~IsRemoteCard(s.h)
  BY <1>1, Disjoint
<1> QED
  BY <1>1, <1>2 DEF ReachedByOriginal, TypeOK

\* The sessions have handles of their own, known to the maps.
HandlesOK == RemoteSessions /\ NoZeroHandle /\ HandleUnique

\* A new session whose handle is nobody's, nonzero and, if remote, in the maps.
LEMMA NewSession ==
  ASSUME HandlesOK, NEW h, NEW c, NEW r, NEW side, OpenSession(h, c, r, side),
         h # 0, \A s \in held : s.h # h,
         UNCHANGED <<remoteReadersMap, nextRemoteCardID>>,
         \A x \in DOMAIN cardReaderMap : x # h =>
            x \in DOMAIN cardReaderMap' /\ cardReaderMap'[x] = cardReaderMap[x],
         side = "proxy" => /\ h <= nextRemoteCardID
                           /\ h \in DOMAIN remoteReadersMap
                           /\ h \in DOMAIN cardReaderMap' /\ cardReaderMap'[h] = r
  PROVE  HandlesOK'
<1> DEFINE new == [h |-> h, ctx |-> c, reader |-> r, side |-> side]
<1>1. held' = held \cup {new} /\ new.h = h /\ new.reader = r /\ new.side = side
  BY DEF OpenSession
<1> HIDE DEF new
<1>2. RemoteSessions'
  BY <1>1 DEF HandlesOK, RemoteSessions
<1>3. NoZeroHandle' /\ HandleUnique'
  BY <1>1 DEF HandlesOK, NoZeroHandle, HandleUnique
<1> QED
  BY <1>2, <1>3 DEF HandlesOK

\* A number above one is not zero.
LEMMA AboveOne == \A n \in Nat : n > 1 => n # 0 /\ n <= n
<1>1. \A n \in Nat : n > 1 => n # 0
  OBVIOUS
<1>2. \A n \in Nat : n <= n
  OBVIOUS
<1> QED
  BY <1>1, <1>2

\* Fewer sessions, and maps that still know them.
LEMMA FewerSessions ==
  ASSUME HandlesOK, held' \subseteq held, UNCHANGED nextRemoteCardID,
         \A s \in held' : s.side = "proxy" =>
           /\ s.h \in DOMAIN remoteReadersMap'
           /\ s.h \in DOMAIN cardReaderMap' /\ cardReaderMap'[s.h] = cardReaderMap[s.h]
  PROVE  HandlesOK'
  BY DEF HandlesOK, RemoteSessions, NoZeroHandle, HandleUnique

\* No session, nothing to know.
LEMMA NoSessions == held = {} => HandlesOK
  BY DEF HandlesOK, RemoteSessions, NoZeroHandle, HandleUnique

\* Who is asked for a reader is the side the reader is on, while all readers of the
\* configuration file are listed.
LEMMA AskedRight ==
  ASSUME TypeOK, ListsAgree, \A u \in Threads : Idle(u), NEW r \in Readers,
         NEW to \in {"library", "proxy", "original"},
         to = "original" <=> ~IsRemoteReader(r), served' = Asked(r, to)
  PROVE  RightReader'
<1>1. StaticReaders \subseteq virtualReaders
  BY DEF ListsAgree, Idle
<1>2. served'.reached = r /\ served'.asked = r /\ served'.to = to
  BY DEF Asked
<1>3. served'.side = IF IsRemoteReader(r) THEN "proxy" ELSE "original"
  BY <1>1 DEF Asked, IsRemoteReader
<1> QED
  BY <1>2, <1>3 DEF RightReader

\* A call on a session that reaches its reader on its side.
LEMMA CallRight ==
  ASSUME NEW s \in Sessions, NEW to, served' = CallOf(s, to, s.reader),
         to = "original" <=> s.side = "original"
  PROVE  RightReader'
  BY CallFacts DEF RightReader

\* The invariant of sequential use, in the parts the steps below refer to.
LEMMA SessionsParts ==
  SessionsInv <=> /\ TypeOK /\ PhysicalSessions /\ OneAtATime /\ FreshCardID
                  /\ RefreshPending /\ HandlesOK /\ ListsAgree /\ RightReader
  BY DEF SessionsInv, HandlesOK

\* Every call of the library keeps SessionsInv when calls and contexts follow one another.
LEMMA SessionsStep == Sequential /\ SessionsInv /\ [Next]_vars => SessionsInv'
<1> SUFFICES ASSUME Sequential, SessionsInv, [Next]_vars
             PROVE  SessionsInv'
  OBVIOUS
<1>0. /\ TypeOK /\ PhysicalSessions /\ OneAtATime /\ FreshCardID
      /\ RefreshPending /\ HandlesOK /\ ListsAgree /\ RightReader
  BY SessionsParts
<1>P. TypeOK' /\ PhysicalSessions'
  <2>1. PhysicalInv
    BY <1>0 DEF PhysicalInv, RightReader, PhysicalUndisturbed
  <2> QED
    BY <2>1, PhysicalStep DEF PhysicalInv
<1>T. job \in [Threads -> Jobs] /\ held \subseteq Sessions /\ virtualReaders \subseteq Virtual
  BY <1>0 DEF TypeOK
<1>N. /\ nextRemoteCardID \in Nat /\ nextRemoteCardID >= 1
      /\ nextRemoteCardID' \in CardIDs
  <2>1. nextRemoteCardID \in 1..MaxCardID /\ nextRemoteCardID' \in 1..MaxCardID
    BY <1>0, <1>P DEF TypeOK
  <2> QED
    BY <2>1, CardIDFacts
<1> SUFFICES /\ OneAtATime' /\ FreshCardID' /\ RefreshPending'
             /\ HandlesOK' /\ ListsAgree' /\ RightReader'
  BY <1>P DEF SessionsInv, HandlesOK
<1> USE DEF app
<1>A. UNCHANGED <<job, app>> => OneAtATime'
  BY <1>0 DEF OneAtATime, Idle
<1>B. UNCHANGED <<maps, held>> => HandlesOK'
  BY <1>0 DEF maps, HandlesOK, RemoteSessions, NoZeroHandle, HandleUnique
<1>C. UNCHANGED <<virtualReaders, atrMap, job>> => ListsAgree'
  BY <1>0 DEF ListsAgree
<1>D. UNCHANGED served => RightReader'
  BY <1>0 DEF RightReader
<1>E. ASSUME NEW t \in Threads, MayEnter(t), UNCHANGED job
      PROVE  FreshCardID' /\ RefreshPending'
  BY <1>0, <1>E, OnlyOne DEF Idle, FreshCardID, RefreshPending
<1>F. ASSUME NEW t \in Threads, NEW j, MayEnter(t) \/ ~Idle(t), job' = [job EXCEPT ![t] = j]
      PROVE  /\ job'[t] = j
             /\ \A u \in Threads : u # t => job'[u].pc = "idle"
             /\ UNCHANGED app => OneAtATime'
  <2>1. \A u \in Threads : u # t => Idle(u)
    BY <1>0, <1>F, OnlyOne
  <2>2. job'[t] = j /\ \A u \in Threads : u # t => job'[u].pc = "idle"
    BY <1>T, <1>F, <2>1, OneInside
  <2> QED
    BY <1>0, <2>2 DEF OneAtATime, Idle
<1>1. CASE UNCHANGED vars
  <2>1. FreshCardID' /\ RefreshPending'
    BY <1>0, <1>1 DEF vars, maps, FreshCardID, RefreshPending
  <2> QED
    BY <1>1, <2>1, <1>A, <1>B, <1>C, <1>D DEF vars
<1>2. CASE Next
  <2>0. PICK t \in Threads :
    \/ \E c \in Contexts, ok \in BOOLEAN : SCardEstablishContext(t, c, ok)
    \/ \E c \in Contexts : SCardReleaseContext(t, c)
    \/ \E c \in Contexts, r \in Readers : SCardConnect(t, c, r)
    \/ \E c \in Contexts, r \in Readers : SCardConnectW(t, c, r)
    \/ \E c \in Contexts, r \in PhysReaders, h \in PhysHandles :
         SCardConnectOriginal(t, c, r, h)
    \/ \E c \in Contexts, r \in PhysReaders, h \in PhysHandles :
         SCardConnectWOriginal(t, c, r, h)
    \/ \E c \in Contexts, r \in Readers, h \in Handles :
         SCardConnectOriginalFails(t, c, r, h)
    \/ TakeCardID(t)
    \/ \E status \in {"SUCCESS", "SCARD_F_COMM_ERROR"}, atr \in {"", "ATR"} :
         ConnectReply(t, status, atr)
    \/ \E r \in RemoteReaders, atr \in {"", "ATR"} : RefreshATR(t, r, atr)
    \/ RefreshEnd(t)
    \/ \E s \in held : SCardTransmit(t, s)
    \/ \E s \in held : HandleCall(t, s)
    \/ \E s \in held : SCardDisconnect(t, s)
    \/ \E list \in SUBSET RemoteReaders : RefreshVirtualReaders(t, list)
    \/ \E r \in Readers : SCardGetStatusChange(t, r)
    BY <1>2, NextCases, Zenon
  <2>1. ASSUME NEW c \in Contexts, NEW ok \in BOOLEAN, SCardEstablishContext(t, c, ok)
        PROVE  /\ OneAtATime' /\ FreshCardID' /\ RefreshPending' /\ HandlesOK'
               /\ UNCHANGED <<virtualReaders, atrMap, job, served>>
    <3>1. ctxs = {} /\ MayEnter(t) /\ UNCHANGED <<virtualReaders, atrMap, job, held, served>>
          /\ ctxs' \in {{}, {c}}
      BY <2>1 DEF SCardEstablishContext, Sequential
    <3>2. held = {}
      BY <1>0, <3>1 DEF OneAtATime
    <3>3. held' = {}
      BY <3>1, <3>2
    <3>4. OneAtATime'
      BY <1>0, <3>1, <3>3 DEF OneAtATime, Idle
    <3>5. HandlesOK'
      BY <3>3 DEF HandlesOK, RemoteSessions, NoZeroHandle, HandleUnique
    <3> QED
      BY <1>E, <3>1, <3>4, <3>5
  <2>2. ASSUME NEW c \in Contexts, SCardReleaseContext(t, c)
        PROVE  /\ OneAtATime' /\ FreshCardID' /\ RefreshPending' /\ HandlesOK'
               /\ UNCHANGED <<virtualReaders, atrMap, job, served>>
    <3>1. c \in ctxs /\ MayEnter(t) /\ UNCHANGED <<virtualReaders, atrMap, job, served>>
          /\ ctxs' = ctxs \ {c} /\ held' = {s \in held : s.ctx # c}
      BY <2>2 DEF SCardReleaseContext
    <3>2. held' = {}
      BY <1>0, <3>1 DEF OneAtATime
    <3>3. OneAtATime'
      BY <1>0, <3>1, <3>2 DEF OneAtATime, Idle
    <3>4. HandlesOK'
      BY <3>2 DEF HandlesOK, RemoteSessions, NoZeroHandle, HandleUnique
    <3> QED
      BY <1>E, <3>1, <3>3, <3>4
  <2>3. ASSUME NEW c \in Contexts, NEW r \in Readers, SCardConnect(t, c, r)
        PROVE  /\ OneAtATime' /\ FreshCardID' /\ RefreshPending'
               /\ HandlesOK' /\ ListsAgree' /\ RightReader'
    <3> DEFINE j == [pc |-> "take", ctx |-> c, reader |-> r, h |-> 0, todo |-> {}]
    <3>1. /\ MayEnter(t) /\ c \in ctxs /\ r \in virtualReaders
          /\ nextRemoteCardID' = nextRemoteCardID + 1 /\ job' = [job EXCEPT ![t] = j]
          /\ served' = Asked(r, "proxy")
          /\ UNCHANGED <<cardReaderMap, remoteReadersMap, virtualReaders, atrMap, app>>
      BY <2>3 DEF SCardConnect, IsRemoteReader
    <3>2. /\ j.pc = "take" /\ j.ctx = c /\ j.reader = r
      OBVIOUS
    <3> HIDE DEF j
    <3>3. /\ job'[t] = j /\ \A u \in Threads : u # t => job'[u].pc = "idle"
          /\ OneAtATime'
      BY <1>F, <3>1
    <3>4. nextRemoteCardID \in Nat /\ nextRemoteCardID >= 1 /\ nextRemoteCardID' > 1
      BY <1>N, <3>1
    <3>5. \A s \in held : s.side = "proxy" => s.h \in Nat
      BY <1>0, CardIDFacts DEF PhysicalSessions, CardIDs
    <3>6. \A s \in held : s.h # nextRemoteCardID'
      <4>1. ASSUME NEW s \in held, s.side = "proxy" PROVE s.h # nextRemoteCardID'
        BY <1>0, <3>1, <3>4, <3>5, <4>1 DEF HandlesOK, RemoteSessions
      <4>2. ASSUME NEW s \in held, s.side = "original" PROVE s.h # nextRemoteCardID'
        BY <1>0, <1>N, <4>2, SidesApart
      <4> QED
        BY <1>T, <4>1, <4>2, SideFacts
    <3>7. FreshCardID'
      BY <3>1, <3>2, <3>3, <3>4, <3>6 DEF FreshCardID
    <3>8. RefreshPending' /\ ListsAgree'
      <4>1. \A u \in Threads : job'[u].pc # "refresh"
        BY <3>2, <3>3
      <4>2. \A u \in Threads : job[u].pc # "refresh"
        BY <1>0, <3>1, OnlyOne DEF Idle
      <4> QED
        BY <1>0, <3>1, <4>1, <4>2 DEF RefreshPending, ListsAgree
    <3>9. HandlesOK'
      BY <1>0, <3>1, <3>4, <3>5
         DEF HandlesOK, RemoteSessions, NoZeroHandle, HandleUnique
    <3>10. RightReader'
      BY <1>0, <3>1, AskedRight, OnlyOne DEF IsRemoteReader
    <3> QED
      BY <3>3, <3>7, <3>8, <3>9, <3>10
  <2>4. ASSUME NEW c \in Contexts, NEW r \in Readers, SCardConnectW(t, c, r)
        PROVE  FALSE
    BY <2>4 DEF SCardConnectW, Sequential
  <2>5. ASSUME NEW c \in Contexts, NEW r \in PhysReaders, NEW h \in PhysHandles, MayEnter(t),
               c \in ctxs, h \notin DOMAIN phys, OpenSession(h, c, r, "original"),
               UNCHANGED <<remoteReadersMap, nextRemoteCardID, virtualReaders, atrMap, job, ctxs>>,
               cardReaderMap' = Put(cardReaderMap, h, r) \/ UNCHANGED cardReaderMap
        PROVE  OneAtATime' /\ FreshCardID' /\ RefreshPending' /\ HandlesOK' /\ ListsAgree'
    <3>1. h # 0
      <4>1. PhysHandles \cap CardIDs = {}
        BY SessionsAssumption, Zenon
      <4> QED
        BY <4>1, CardIDFacts
    <3>2. \A s \in held : s.h # h
      <4>1. ASSUME NEW s \in held, s.side = "proxy" PROVE s.h # h
        <5>1. PhysHandles \cap CardIDs = {}
          BY SessionsAssumption, Zenon
        <5> QED
          BY <1>0, <4>1, <5>1 DEF PhysicalSessions
      <4>2. ASSUME NEW s \in held, s.side = "original" PROVE s.h # h
        BY <1>0, <2>5, <4>2 DEF PhysicalSessions
      <4> QED
        BY <1>T, <4>1, <4>2, SideFacts
    <3>3. \A x \in DOMAIN cardReaderMap : x # h =>
             x \in DOMAIN cardReaderMap' /\ cardReaderMap'[x] = cardReaderMap[x]
      BY <2>5 DEF Put
    <3>4. HandlesOK'
      BY <1>0, <2>5, <3>1, <3>2, <3>3, NewSession
    <3>5. OneAtATime'
      <4>1. \A s \in held' : s \in held \/ s.ctx = c
        BY <2>5, OpenFacts
      <4> QED
        BY <1>0, <2>5, <4>1 DEF OneAtATime, Idle
    <3> QED
      BY <1>C, <1>E, <2>5, <3>4, <3>5
  <2>6. ASSUME NEW c \in Contexts, NEW r \in PhysReaders, NEW h \in PhysHandles,
               SCardConnectOriginal(t, c, r, h)
        PROVE  /\ OneAtATime' /\ FreshCardID' /\ RefreshPending'
               /\ HandlesOK' /\ ListsAgree' /\ RightReader'
    <3>1. OneAtATime' /\ FreshCardID' /\ RefreshPending' /\ HandlesOK' /\ ListsAgree'
      BY <2>5, <2>6 DEF SCardConnectOriginal
    <3>2. MayEnter(t) /\ ~IsRemoteReader(r) /\ served' = Asked(r, "original") /\ r \in Readers
      BY <2>6 DEF SCardConnectOriginal, Readers
    <3>3. RightReader'
      BY <1>0, <3>2, AskedRight, OnlyOne
    <3> QED
      BY <3>1, <3>3
  <2>7. ASSUME NEW c \in Contexts, NEW r \in PhysReaders, NEW h \in PhysHandles,
               SCardConnectWOriginal(t, c, r, h)
        PROVE  /\ OneAtATime' /\ FreshCardID' /\ RefreshPending' /\ HandlesOK' /\ ListsAgree'
               /\ UNCHANGED served
    BY <2>5, <2>7 DEF SCardConnectWOriginal, maps
  <2>8. ASSUME NEW c \in Contexts, NEW r \in Readers, NEW h \in Handles,
               SCardConnectOriginalFails(t, c, r, h)
        PROVE  /\ OneAtATime' /\ FreshCardID' /\ RefreshPending'
               /\ HandlesOK' /\ ListsAgree' /\ RightReader'
    <3>1. /\ MayEnter(t) /\ ~IsRemoteReader(r) /\ h = 0
          /\ cardReaderMap' = Put(cardReaderMap, 0, r) /\ served' = Asked(r, "original")
          /\ UNCHANGED <<remoteReadersMap, nextRemoteCardID, virtualReaders, atrMap, job, app>>
      BY <2>8 DEF SCardConnectOriginalFails, Sequential
    <3>2. \A s \in held : s.h \in DOMAIN cardReaderMap =>
            s.h \in DOMAIN cardReaderMap' /\ cardReaderMap'[s.h] = cardReaderMap[s.h]
      <4>1. cardReaderMap' = Put(cardReaderMap, 0, r) /\ \A s \in held : s.h # 0
        BY <1>0, <3>1 DEF HandlesOK, NoZeroHandle
      <4> QED
        BY <4>1 DEF Put
    <3>3. HandlesOK'
      BY <1>0, <3>1, <3>2 DEF HandlesOK, RemoteSessions, NoZeroHandle, HandleUnique
    <3>4. RightReader'
      BY <1>0, <3>1, AskedRight, OnlyOne
    <3> QED
      BY <1>A, <1>C, <1>E, <3>1, <3>3, <3>4
  <2>9. ASSUME TakeCardID(t)
        PROVE  /\ OneAtATime' /\ FreshCardID' /\ RefreshPending'
               /\ HandlesOK' /\ ListsAgree' /\ UNCHANGED served
    <3> DEFINE j == [job[t] EXCEPT !.pc = "reply", !.h = nextRemoteCardID]
    <3>1. /\ job[t].pc = "take" /\ job' = [job EXCEPT ![t] = j]
          /\ remoteReadersMap' = Put(remoteReadersMap, nextRemoteCardID, job[t].reader)
          /\ UNCHANGED <<cardReaderMap, nextRemoteCardID, virtualReaders, atrMap, app, served>>
      BY <2>9 DEF TakeCardID
    <3>2. /\ j.pc = "reply" /\ j.ctx = job[t].ctx /\ j.reader = job[t].reader
          /\ j.h = nextRemoteCardID
      <4>1. job[t] \in Connecting
        BY <1>T, <3>1, JobCases
      <4> QED
        BY <4>1 DEF Connecting
    <3> HIDE DEF j
    <3>3. /\ job'[t] = j /\ \A u \in Threads : u # t => job'[u].pc = "idle"
          /\ OneAtATime'
      <4>1. ~Idle(t)
        BY <3>1 DEF Idle
      <4> QED
        BY <1>F, <3>1, <4>1
    <3>4. /\ nextRemoteCardID > 1 /\ job[t].ctx \in ctxs /\ job[t].reader \in virtualReaders
          /\ \A s \in held : s.h # nextRemoteCardID
      BY <1>0, <3>1 DEF FreshCardID
    <3>5. /\ nextRemoteCardID \in DOMAIN remoteReadersMap'
          /\ DOMAIN remoteReadersMap \subseteq DOMAIN remoteReadersMap'
      <4>1. remoteReadersMap' = Put(remoteReadersMap, nextRemoteCardID, job[t].reader)
        BY <3>1
      <4> QED
        BY <4>1 DEF Put
    <3>6. FreshCardID'
      BY <3>1, <3>2, <3>3, <3>4, <3>5 DEF FreshCardID
    <3>7. HandlesOK'
      BY <1>0, <3>1, <3>5 DEF HandlesOK, RemoteSessions, NoZeroHandle, HandleUnique
    <3>8. RefreshPending' /\ ListsAgree'
      <4>1. \A u \in Threads : job'[u].pc # "refresh"
        BY <3>2, <3>3
      <4>2. \A u \in Threads : job[u].pc # "refresh"
        BY <1>0, <3>1, OnlyOne DEF Idle
      <4> QED
        BY <1>0, <3>1, <4>1, <4>2 DEF RefreshPending, ListsAgree
    <3> QED
      BY <3>1, <3>3, <3>6, <3>7, <3>8
  <2>10. ASSUME NEW status \in {"SUCCESS", "SCARD_F_COMM_ERROR"}, NEW atr \in {"", "ATR"},
                ConnectReply(t, status, atr)
         PROVE  /\ OneAtATime' /\ FreshCardID' /\ RefreshPending'
                /\ HandlesOK' /\ ListsAgree' /\ UNCHANGED served
    <3>1. /\ job[t].pc = "reply" /\ job' = [job EXCEPT ![t] = NoJob]
          /\ atrMap' = Put(atrMap, job[t].reader, atr)
          /\ cardReaderMap' = Put(cardReaderMap, job[t].h, job[t].reader)
          /\ \/ OpenSession(job[t].h, job[t].ctx, job[t].reader, "proxy")
             \/ UNCHANGED held
          /\ UNCHANGED <<remoteReadersMap, nextRemoteCardID, virtualReaders, ctxs, served>>
      BY <2>10 DEF ConnectReply
    <3>2. \A u \in Threads : job'[u].pc = "idle"
      <4>1. ~Idle(t)
        BY <3>1 DEF Idle
      <4>2. job'[t] = NoJob /\ \A u \in Threads : u # t => job'[u].pc = "idle"
        BY <1>F, <3>1, <4>1
      <4>3. NoJob.pc = "idle"
        BY DEF NoJob
      <4> QED
        BY <4>2, <4>3
    <3>3. /\ nextRemoteCardID > 1 /\ job[t].ctx \in ctxs /\ job[t].reader \in virtualReaders
          /\ job[t].h = nextRemoteCardID /\ job[t].h \in DOMAIN remoteReadersMap
          /\ \A s \in held : s.h # job[t].h
      BY <1>0, <3>1 DEF FreshCardID
    <3>4. nextRemoteCardID \in Nat /\ job[t].h # 0 /\ job[t].h <= nextRemoteCardID
      <4>1. nextRemoteCardID \in Nat /\ nextRemoteCardID > 1 /\ job[t].h = nextRemoteCardID
        <5>1. nextRemoteCardID \in Nat
          BY <1>N
        <5>2. nextRemoteCardID > 1 /\ job[t].h = nextRemoteCardID
          BY <3>3, Zenon
        <5> QED
          BY <5>1, <5>2
      <4> QED
        BY <4>1, AboveOne, Zenon
    <3>5. OneAtATime'
      <4>1. \A s \in held' : s \in held \/ s.ctx = job[t].ctx
        <5>1. CASE OpenSession(job[t].h, job[t].ctx, job[t].reader, "proxy")
          <6> DEFINE new == [h |-> job[t].h, ctx |-> job[t].ctx, reader |-> job[t].reader,
                             side |-> "proxy"]
          <6>1. held' = held \cup {new}
            BY <5>1 DEF OpenSession
          <6>2. new.ctx = job[t].ctx
            OBVIOUS
          <6> HIDE DEF new
          <6> QED
            BY <6>1, <6>2
        <5>2. CASE UNCHANGED held
          BY <5>2
        <5> QED
          BY <3>1, <5>1, <5>2
      <4> QED
        BY <1>0, <3>1, <3>2, <3>3, <4>1 DEF OneAtATime, Idle
    <3>6. FreshCardID' /\ RefreshPending'
      BY <3>2 DEF FreshCardID, RefreshPending
    <3>7. HandlesOK'
      <4>1. /\ job[t].h \in DOMAIN cardReaderMap' /\ cardReaderMap'[job[t].h] = job[t].reader
            /\ \A x \in DOMAIN cardReaderMap : x # job[t].h =>
                 x \in DOMAIN cardReaderMap' /\ cardReaderMap'[x] = cardReaderMap[x]
        <5>1. cardReaderMap' = Put(cardReaderMap, job[t].h, job[t].reader)
          BY <3>1
        <5> QED
          BY <5>1 DEF Put
      <4>2. CASE OpenSession(job[t].h, job[t].ctx, job[t].reader, "proxy")
        BY <1>0, <3>1, <3>3, <3>4, <4>1, <4>2, NewSession
      <4>3. CASE UNCHANGED held
        BY <1>0, <3>1, <3>3, <4>1, <4>3, FewerSessions DEF HandlesOK, RemoteSessions
      <4> QED
        BY <3>1, <4>2, <4>3
    <3>8. ListsAgree'
      <4>1. DOMAIN atrMap' \subseteq virtualReaders'
        <5>1. atrMap' = Put(atrMap, job[t].reader, atr)
          BY <3>1
        <5>2. DOMAIN atrMap' = DOMAIN atrMap \cup {job[t].reader}
          BY <5>1 DEF Put
        <5> QED
          BY <1>0, <3>1, <3>3, <5>2 DEF ListsAgree
      <4>2. \A u \in Threads : job[u].pc # "refresh"
        BY <1>0, <3>1, OnlyOne DEF Idle
      <4> QED
        BY <1>0, <3>1, <4>1, <4>2 DEF ListsAgree
    <3> QED
      BY <3>1, <3>5, <3>6, <3>7, <3>8
  <2>11. ASSUME NEW r \in RemoteReaders, NEW atr \in {"", "ATR"}, RefreshATR(t, r, atr)
         PROVE  /\ OneAtATime' /\ FreshCardID' /\ RefreshPending' /\ ListsAgree'
                /\ UNCHANGED <<maps, held, served>>
    <3> DEFINE j == [job[t] EXCEPT !.todo = @ \ {r}]
    <3>1. /\ job[t].pc = "refresh" /\ r \in job[t].todo /\ job' = [job EXCEPT ![t] = j]
          /\ atrMap' = Put(atrMap, r, atr)
          /\ UNCHANGED <<maps, virtualReaders, app, served>>
      BY <1>T, <2>11 DEF RefreshATR
    <3>2. j.pc = "refresh" /\ j.todo \subseteq job[t].todo
      <4>1. job[t] \in Refreshing
        BY <1>T, <3>1, JobCases
      <4> QED
        BY <3>1, <4>1 DEF Refreshing
    <3> HIDE DEF j
    <3>3. /\ job'[t] = j /\ \A u \in Threads : u # t => job'[u].pc = "idle"
          /\ OneAtATime'
      <4>1. ~Idle(t)
        BY <3>1 DEF Idle
      <4> QED
        BY <1>F, <3>1, <4>1
    <3>4. job[t].todo \subseteq virtualReaders
      BY <1>0, <3>1 DEF RefreshPending
    <3>5. FreshCardID' /\ RefreshPending'
      BY <3>1, <3>2, <3>3, <3>4 DEF FreshCardID, RefreshPending
    <3>6. ListsAgree'
      <4>1. atrMap' = Put(atrMap, r, atr)
        BY <3>1
      <4>2. DOMAIN atrMap' = DOMAIN atrMap \cup {r}
        BY <4>1 DEF Put
      <4> QED
        BY <1>0, <3>1, <3>2, <3>3, <3>4, <4>2 DEF ListsAgree
    <3> QED
      BY <3>1, <3>3, <3>5, <3>6
  <2>12. ASSUME RefreshEnd(t)
         PROVE  /\ OneAtATime' /\ FreshCardID' /\ RefreshPending' /\ ListsAgree'
                /\ UNCHANGED <<maps, held, served>>
    <3>1. /\ job[t].pc = "refresh" /\ job' = [job EXCEPT ![t] = NoJob]
          /\ virtualReaders' = virtualReaders \cup StaticReaders
          /\ UNCHANGED <<maps, atrMap, app, served>>
      BY <2>12 DEF RefreshEnd
    <3>2. (\A u \in Threads : job'[u].pc = "idle") /\ OneAtATime'
      <4>1. ~Idle(t)
        BY <3>1 DEF Idle
      <4>2. /\ job'[t] = NoJob /\ \A u \in Threads : u # t => job'[u].pc = "idle"
            /\ OneAtATime'
        BY <1>F, <3>1, <4>1
      <4>3. NoJob.pc = "idle"
        BY DEF NoJob
      <4> QED
        BY <4>2, <4>3
    <3>3. FreshCardID' /\ RefreshPending'
      BY <3>2 DEF FreshCardID, RefreshPending
    <3>4. ListsAgree'
      BY <1>0, <3>1 DEF ListsAgree
    <3> QED
      BY <3>1, <3>2, <3>3, <3>4
  <2>13. ASSUME NEW s \in held, s.side = "proxy"
         PROVE  IsRemoteCard(s.h) /\ GetReaderName(s.h) = s.reader
    BY <1>0, <2>13 DEF HandlesOK, RemoteSessions, IsRemoteCard, GetReaderName
  <2>14. ASSUME NEW s \in held, SCardTransmit(t, s)
         PROVE  /\ HandlesOK' /\ RightReader' /\ MayEnter(t)
                /\ UNCHANGED <<job, app, virtualReaders, atrMap>>
    <3>0. s \in Sessions
      BY <1>T
    <3>1. /\ MayEnter(t)
          /\ UNCHANGED <<remoteReadersMap, nextRemoteCardID, virtualReaders, atrMap, job, app>>
      BY <2>14 DEF SCardTransmit
    <3>2. CASE s.side = "proxy"
      <4>1. /\ served' = CallOf(s, "proxy", s.reader)
            /\ cardReaderMap' = Put(cardReaderMap, s.h, s.reader)
        BY <2>13, <2>14, <3>2 DEF SCardTransmit
      <4>2. s.h \in DOMAIN cardReaderMap /\ cardReaderMap[s.h] = s.reader
        BY <1>0, <3>2 DEF HandlesOK, RemoteSessions
      <4>3. \A x \in DOMAIN cardReaderMap :
              x \in DOMAIN cardReaderMap' /\ cardReaderMap'[x] = cardReaderMap[x]
        BY <4>1, <4>2 DEF Put
      <4>4. HandlesOK'
        BY <1>0, <3>1, <4>3 DEF HandlesOK, RemoteSessions, NoZeroHandle, HandleUnique
      <4>5. RightReader'
        BY <3>0, <3>2, <4>1, CallRight
      <4> QED
        BY <3>1, <4>4, <4>5
    <3>3. CASE s.side = "original"
      <4>1. served' = CallOf(s, "original", s.reader) /\ UNCHANGED cardReaderMap
        BY <1>0, <2>14, <3>3, SidesApart DEF SCardTransmit
      <4>2. HandlesOK'
        BY <1>B, <3>1, <4>1 DEF maps
      <4>3. RightReader'
        BY <3>0, <3>3, <4>1, CallRight
      <4> QED
        BY <3>1, <4>2, <4>3
    <3> QED
      BY <3>0, <3>2, <3>3, SideFacts
  <2>15. ASSUME NEW s \in held, HandleCall(t, s)
         PROVE  /\ RightReader' /\ MayEnter(t)
                /\ UNCHANGED <<maps, job, app, virtualReaders, atrMap>>
    <3>0. s \in Sessions
      BY <1>T
    <3>1. MayEnter(t) /\ UNCHANGED <<maps, job, app, virtualReaders, atrMap>>
      BY <2>15 DEF HandleCall
    <3>2. CASE s.side = "proxy"
      <4>1. served' = CallOf(s, "library", s.reader)
        BY <2>13, <2>15, <3>2 DEF HandleCall
      <4> QED
        BY <3>0, <3>1, <3>2, <4>1, CallRight
    <3>3. CASE s.side = "original"
      <4>1. served' = CallOf(s, "original", s.reader)
        BY <1>0, <2>15, <3>3, SidesApart DEF HandleCall
      <4> QED
        BY <3>0, <3>1, <3>3, <4>1, CallRight
    <3> QED
      BY <3>0, <3>2, <3>3, SideFacts
  <2>16. ASSUME NEW s \in held, SCardDisconnect(t, s)
         PROVE  /\ OneAtATime' /\ HandlesOK' /\ MayEnter(t)
                /\ UNCHANGED <<job, virtualReaders, atrMap, served>>
    <3>1. /\ MayEnter(t) /\ held' \subseteq held
          /\ UNCHANGED <<maps, virtualReaders, atrMap, job, ctxs, served>>
      BY <2>16 DEF SCardDisconnect
    <3>2. HandlesOK'
      BY <1>0, <3>1, FewerSessions DEF maps, HandlesOK, RemoteSessions
    <3>3. OneAtATime'
      BY <1>0, <3>1 DEF OneAtATime, Idle
    <3> QED
      BY <3>1, <3>2, <3>3
  <2>17. ASSUME NEW list \in SUBSET RemoteReaders, RefreshVirtualReaders(t, list)
         PROVE  /\ OneAtATime' /\ FreshCardID' /\ RefreshPending' /\ ListsAgree'
                /\ UNCHANGED <<maps, held, served>>
    <3> DEFINE j == [pc |-> "refresh", ctx |-> "", reader |-> "", h |-> 0, todo |-> list]
    <3>1. /\ MayEnter(t) /\ virtualReaders' = list /\ atrMap' = EmptyMap
          /\ job' = [job EXCEPT ![t] = j] /\ UNCHANGED <<maps, app, served>>
      BY <2>17 DEF RefreshVirtualReaders
    <3>2. j.pc = "refresh" /\ j.todo = list
      OBVIOUS
    <3> HIDE DEF j
    <3>3. /\ job'[t] = j /\ \A u \in Threads : u # t => job'[u].pc = "idle"
          /\ OneAtATime'
      BY <1>F, <3>1
    <3>4. FreshCardID' /\ RefreshPending'
      BY <3>1, <3>2, <3>3 DEF FreshCardID, RefreshPending
    <3>5. ListsAgree'
      BY <3>1, <3>2, <3>3, EmptyFacts DEF ListsAgree
    <3> QED
      BY <3>1, <3>3, <3>4, <3>5
  <2>18. ASSUME NEW r \in Readers, SCardGetStatusChange(t, r)
         PROVE  /\ RightReader' /\ MayEnter(t)
                /\ UNCHANGED <<maps, job, app, virtualReaders, atrMap>>
    <3>1. /\ MayEnter(t) /\ UNCHANGED <<maps, job, app, virtualReaders, atrMap>>
          /\ served' = Asked(r, IF IsRemoteReader(r) THEN "library" ELSE "original")
      BY <2>18 DEF SCardGetStatusChange
    <3>2. RightReader'
      <4> DEFINE to == IF IsRemoteReader(r) THEN "library" ELSE "original"
      <4>1. to \in {"library", "proxy", "original"} /\ (to = "original" <=> ~IsRemoteReader(r))
        OBVIOUS
      <4> HIDE DEF to
      <4>2. served' = Asked(r, to)
        BY <3>1 DEF to
      <4> QED
        BY <1>0, <3>1, <4>1, <4>2, AskedRight, OnlyOne
    <3> QED
      BY <3>1, <3>2
  <2>19. (MayEnter(t) /\ UNCHANGED job) => FreshCardID' /\ RefreshPending'
    BY <1>E
  <2> QED
    BY <1>A, <1>B, <1>C, <1>D, <2>0, <2>1, <2>2, <2>3, <2>4, <2>6, <2>7, <2>8, <2>9, <2>10,
       <2>11, <2>12, <2>14, <2>15, <2>16, <2>17, <2>18, <2>19
<1> QED
  BY <1>1, <1>2

\* SessionsInv, wherever calls and contexts follow one another.
SequentialInv == Sequential => SessionsInv

LEMMA SequentialHolds == Spec => []SequentialInv
<1>1. Init => SessionsInv
  <2>1. Init => TypeOK
    BY EmptyFacts, CardIDFacts, JobTypes, CallTypes DEF Init, TypeOK, Virtual
  <2>2. Init => held = {} /\ ctxs = {} /\ \A t \in Threads : Idle(t)
    <3>1. NoJob.pc = "idle"
      BY DEF NoJob
    <3>2. Init => held = {} /\ ctxs = {} /\ job = [t \in Threads |-> NoJob]
      BY DEF Init
    <3> QED
      BY <3>1, <3>2 DEF Idle
  <2>3. held = {} => PhysicalSessions /\ HandlesOK
    BY NoSessions DEF PhysicalSessions
  <2>4. Init => OneAtATime
    BY <2>2 DEF OneAtATime
  <2>5. Init => FreshCardID /\ RefreshPending
    BY <2>2, IdleFacts
  <2>6. Init => ListsAgree
    BY EmptyFacts DEF Init, ListsAgree
  <2>7. Init => RightReader
    <3>1. Init => served = NoCall
      BY DEF Init
    <3>2. /\ NoCall.reached = NoCall.asked /\ NoCall.to = "original"
          /\ NoCall.side = "original"
      BY DEF NoCall
    <3> QED
      BY <3>1, <3>2, Zenon DEF RightReader
  <2> QED
    BY <2>1, <2>2, <2>3, <2>4, <2>5, <2>6, <2>7, SessionsParts
<1>2. SequentialInv /\ [Next]_vars => SequentialInv'
  BY SessionsStep DEF SequentialInv, Sequential
<1>3. Init => SequentialInv
  BY <1>1 DEF SequentialInv
<1> QED
  BY <1>2, <1>3, PTL DEF Spec

\* When calls and contexts follow one another, a call on an open session reaches the
\* card the session was opened for, whatever the original library and the proxy answer.
THEOREM SequentialReaders == Spec => [](Sequential => RightReader)
<1>1. SequentialInv => (Sequential => RightReader)
  BY SessionsParts DEF SequentialInv
<1> QED
  BY <1>1, SequentialHolds, PTL

\* ... no two open sessions share a handle ...
THEOREM SequentialHandles == Spec => [](Sequential => HandleUnique)
<1>1. SequentialInv => (Sequential => HandleUnique)
  BY SessionsParts DEF SequentialInv, HandlesOK
<1> QED
  BY <1>1, SequentialHolds, PTL

\* ... and ATRs are kept of listed readers only, those of the configuration file are
\* listed whenever no refresh is under way.
THEOREM SequentialLists == Spec => [](Sequential => ListsAgree)
<1>1. SequentialInv => (Sequential => ListsAgree)
  BY SessionsParts DEF SequentialInv
<1> QED
  BY <1>1, SequentialHolds, PTL
-----------------------------------------------------------------------------
(* CardSessions implements CardHandles *)

\* What happened to the open sessions, and to the last call, in terms of CardHandles.
SessionsMove == UNCHANGED held \/ Promise!Close \/ \E s \in held' : Promise!Open(s)
LastMove ==
  \/ UNCHANGED <<served.on, served.reached, served.to>>
  \/ Promise!Ask
  \/ \E s \in held : Promise!Call(s)

\* A connect opens one session with a new handle.
LEMMA OpenMove ==
  ASSUME NEW h, NEW c, NEW r, NEW side, OpenSession(h, c, r, side), HandleUnique'
  PROVE  SessionsMove
<1> DEFINE new == [h |-> h, ctx |-> c, reader |-> r, side |-> side]
<1>1. held' = held \cup {new}
  BY DEF OpenSession
<1> HIDE DEF new
<1>2. CASE new \in held
  <2>1. held' = held
    BY <1>1, <1>2
  <2> QED
    BY <2>1 DEF SessionsMove
<1>3. CASE new \notin held
  <2>1. \A u \in held : u.h # new.h
    BY <1>1, <1>3 DEF HandleUnique
  <2>2. new \in held'
    BY <1>1
  <2>3. Promise!Open(new)
    BY <1>1, <2>1 DEF Promise!Open
  <2> QED
    BY <2>2, <2>3 DEF SessionsMove
<1> QED
  BY <1>2, <1>3

\* A call that names a reader asks on the side of that reader.
LEMMA AskMove ==
  ASSUME virtualReaders \subseteq Virtual, RightReader', NEW r \in Readers, NEW to,
         served' = Asked(r, to)
  PROVE  LastMove
<1>1. served'.reached = r /\ served'.on = {}
      /\ served'.side = IF r \in StaticReaders \/ IsRemoteReader(r) THEN "proxy" ELSE "original"
  BY DEF Asked
<1>2. served'.to = "original" <=> served'.side = "original"
  BY DEF RightReader
<1>3. r \in StaticReaders => served'.to # "original"
  BY <1>1, <1>2
<1>4. r \in PhysReaders => served'.to = "original"
  <2>1. PhysReaders \cap (StaticReaders \cup RemoteReaders) = {}
    BY SessionsAssumption, Zenon
  <2>2. r \in PhysReaders => r \notin StaticReaders /\ ~IsRemoteReader(r)
    BY <2>1 DEF Virtual, IsRemoteReader
  <2> QED
    BY <1>1, <1>2, <2>2
<1>5. Promise!Ask
  BY <1>1, <1>3, <1>4 DEF Promise!Ask
<1> QED
  BY <1>5 DEF LastMove

\* A call on a session reaches that session's reader.
LEMMA CallMove ==
  ASSUME held \subseteq Sessions, RightReader', NEW s \in held, NEW to, NEW r,
         served' = CallOf(s, to, r)
  PROVE  LastMove
<1>1. served'.asked = s.reader /\ served'.side = s.side /\ served'.on = {s.h}
  BY CallFacts DEF CallOf
<1>2. served'.reached = s.reader /\ (served'.to = "original" <=> s.side = "original")
  BY <1>1 DEF RightReader
<1>3. s.side = "proxy" \/ s.side = "original"
  BY SideFacts
<1>4. s.side = IF served'.to = "original" THEN "original" ELSE "proxy"
  BY <1>2, <1>3
<1>5. Promise!Call(s)
  BY <1>1, <1>2, <1>4 DEF Promise!Call
<1> QED
  BY <1>5 DEF LastMove

\* Every call of the library does what CardHandles allows.
LEMMA PromiseStep ==
  SessionsInv /\ SessionsInv' /\ [Next]_vars => [Promise!Next]_Promise!vars
<1> SUFFICES ASSUME SessionsInv, SessionsInv', [Next]_vars
             PROVE  SessionsMove /\ LastMove
  BY DEF SessionsMove, LastMove, Promise!Next
<1>0. held \subseteq Sessions /\ virtualReaders \subseteq Virtual
  BY DEF SessionsInv, TypeOK
<1>U. HandleUnique' /\ RightReader'
  BY DEF SessionsInv
<1>H. held' \subseteq held => SessionsMove
  BY DEF SessionsMove, Promise!Close
<1>L. UNCHANGED served => LastMove
  BY DEF LastMove
<1> USE DEF app
<1>1. CASE UNCHANGED vars
  BY <1>1, <1>H, <1>L DEF vars
<1>2. CASE Next
  <2>0. PICK t \in Threads :
    \/ \E c \in Contexts, ok \in BOOLEAN : SCardEstablishContext(t, c, ok)
    \/ \E c \in Contexts : SCardReleaseContext(t, c)
    \/ \E c \in Contexts, r \in Readers : SCardConnect(t, c, r)
    \/ \E c \in Contexts, r \in Readers : SCardConnectW(t, c, r)
    \/ \E c \in Contexts, r \in PhysReaders, h \in PhysHandles :
         SCardConnectOriginal(t, c, r, h)
    \/ \E c \in Contexts, r \in PhysReaders, h \in PhysHandles :
         SCardConnectWOriginal(t, c, r, h)
    \/ \E c \in Contexts, r \in Readers, h \in Handles :
         SCardConnectOriginalFails(t, c, r, h)
    \/ TakeCardID(t)
    \/ \E status \in {"SUCCESS", "SCARD_F_COMM_ERROR"}, atr \in {"", "ATR"} :
         ConnectReply(t, status, atr)
    \/ \E r \in RemoteReaders, atr \in {"", "ATR"} : RefreshATR(t, r, atr)
    \/ RefreshEnd(t)
    \/ \E s \in held : SCardTransmit(t, s)
    \/ \E s \in held : HandleCall(t, s)
    \/ \E s \in held : SCardDisconnect(t, s)
    \/ \E list \in SUBSET RemoteReaders : RefreshVirtualReaders(t, list)
    \/ \E r \in Readers : SCardGetStatusChange(t, r)
    BY <1>2, NextCases, Zenon
  <2>1. ASSUME NEW c \in Contexts, NEW ok \in BOOLEAN, SCardEstablishContext(t, c, ok)
        PROVE  UNCHANGED <<held, served>>
    BY <2>1 DEF SCardEstablishContext
  <2>2. ASSUME NEW c \in Contexts, SCardReleaseContext(t, c)
        PROVE  held' \subseteq held /\ UNCHANGED served
    BY <2>2 DEF SCardReleaseContext
  <2>3. ASSUME NEW c \in Contexts, NEW r \in Readers, SCardConnect(t, c, r)
        PROVE  UNCHANGED held /\ LastMove
    BY <1>0, <1>U, <2>3, AskMove DEF SCardConnect
  <2>4. ASSUME NEW c \in Contexts, NEW r \in Readers, SCardConnectW(t, c, r)
        PROVE  SessionsMove /\ UNCHANGED served
    BY <1>U, <2>4, OpenMove DEF SCardConnectW
  <2>5. ASSUME NEW c \in Contexts, NEW r \in PhysReaders, NEW h \in PhysHandles,
               SCardConnectOriginal(t, c, r, h)
        PROVE  SessionsMove /\ LastMove
    BY <1>0, <1>U, <2>5, OpenMove, AskMove DEF SCardConnectOriginal, Readers
  <2>6. ASSUME NEW c \in Contexts, NEW r \in PhysReaders, NEW h \in PhysHandles,
               SCardConnectWOriginal(t, c, r, h)
        PROVE  SessionsMove /\ UNCHANGED served
    BY <1>U, <2>6, OpenMove DEF SCardConnectWOriginal
  <2>7. ASSUME NEW c \in Contexts, NEW r \in Readers, NEW h \in Handles,
               SCardConnectOriginalFails(t, c, r, h)
        PROVE  UNCHANGED held /\ LastMove
    BY <1>0, <1>U, <2>7, AskMove DEF SCardConnectOriginalFails
  <2>8. ASSUME TakeCardID(t)
        PROVE  UNCHANGED <<held, served>>
    BY <2>8 DEF TakeCardID
  <2>9. ASSUME NEW status \in {"SUCCESS", "SCARD_F_COMM_ERROR"}, NEW atr \in {"", "ATR"},
               ConnectReply(t, status, atr)
        PROVE  SessionsMove /\ UNCHANGED served
    <3>1. CASE UNCHANGED held
      BY <1>H, <2>9, <3>1 DEF ConnectReply
    <3>2. CASE OpenSession(job[t].h, job[t].ctx, job[t].reader, "proxy")
      <4>1. SessionsMove
        BY <1>U, <3>2, OpenMove
      <4> QED
        BY <2>9, <4>1 DEF ConnectReply
    <3> QED
      BY <2>9, <3>1, <3>2 DEF ConnectReply
  <2>10. ASSUME NEW r \in RemoteReaders, NEW atr \in {"", "ATR"}, RefreshATR(t, r, atr)
         PROVE  UNCHANGED <<held, served>>
    BY <2>10 DEF RefreshATR
  <2>11. ASSUME RefreshEnd(t)
         PROVE  UNCHANGED <<held, served>>
    BY <2>11 DEF RefreshEnd
  <2>12. ASSUME NEW s \in held, SCardTransmit(t, s)
         PROVE  UNCHANGED held /\ LastMove
    <3>1. CASE served' = CallOf(s, "proxy", GetReaderName(s.h))
      BY <1>0, <1>U, <2>12, <3>1, CallMove DEF SCardTransmit
    <3>2. CASE served' = CallOf(s, "original", ReachedByOriginal(s.h))
      BY <1>0, <1>U, <2>12, <3>2, CallMove DEF SCardTransmit
    <3> QED
      BY <2>12, <3>1, <3>2 DEF SCardTransmit
  <2>13. ASSUME NEW s \in held, HandleCall(t, s)
         PROVE  UNCHANGED held /\ LastMove
    <3>1. CASE served' = CallOf(s, "library", s.reader)
      BY <1>0, <1>U, <2>13, <3>1, CallMove DEF HandleCall
    <3>2. CASE served' = CallOf(s, "original", ReachedByOriginal(s.h))
      BY <1>0, <1>U, <2>13, <3>2, CallMove DEF HandleCall
    <3> QED
      BY <2>13, <3>1, <3>2 DEF HandleCall
  <2>14. ASSUME NEW s \in held, SCardDisconnect(t, s)
         PROVE  held' \subseteq held /\ UNCHANGED served
    BY <2>14 DEF SCardDisconnect
  <2>15. ASSUME NEW list \in SUBSET RemoteReaders, RefreshVirtualReaders(t, list)
         PROVE  UNCHANGED <<held, served>>
    BY <2>15 DEF RefreshVirtualReaders
  <2>16. ASSUME NEW r \in Readers, SCardGetStatusChange(t, r)
         PROVE  UNCHANGED held /\ LastMove
    BY <1>0, <1>U, <2>16, AskMove DEF SCardGetStatusChange
  <2> QED
    BY <1>H, <1>L, <2>0, <2>1, <2>2, <2>3, <2>4, <2>5, <2>6, <2>7, <2>8, <2>9, <2>10,
       <2>11, <2>12, <2>13, <2>14, <2>15, <2>16
<1> QED
  BY <1>1, <1>2

\* When calls and contexts follow one another the library keeps the promise of
\* CardHandles: a handle stands for one card from SCardConnect to SCardDisconnect.
THEOREM SequentialImplements == Sequential => (Spec => ImplementsHandles)
<1> SUFFICES ASSUME Sequential PROVE Spec => ImplementsHandles
  OBVIOUS
<1>1. Init => Promise!Init
  <2>1. Init => held = {} /\ served = NoCall
    BY DEF Init
  <2>2. NoCall.on = {} /\ NoCall.reached = "" /\ NoCall.to = "original"
    BY DEF NoCall
  <2> QED
    BY <2>1, <2>2 DEF Promise!Init
<1>2. SequentialInv /\ SequentialInv' /\ [Next]_vars => [Promise!Next]_Promise!vars
  <2>1. SequentialInv /\ SequentialInv' => SessionsInv /\ SessionsInv'
    BY DEF SequentialInv, Sequential
  <2> QED
    BY <2>1, PromiseStep
<1> QED
  BY <1>1, <1>2, SequentialHolds, PTL DEF Spec, ImplementsHandles, Promise!Spec
=============================================================================
