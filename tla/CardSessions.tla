---------------------------- MODULE CardSessions ----------------------------
(***************************************************************************)
(* Which card a handle stands for.  The stub library keeps three maps for  *)
(* the whole process (card handle to reader, remote card handles, ATRs of  *)
(* remote cards), the list of virtual readers and a counter from which the *)
(* handles of remote cards are made; the handles of physical cards are     *)
(* those of the original library.  No call takes a lock: between the steps *)
(* of SCardConnect and of SCardListReaders lie exchanges with the proxy,   *)
(* during which other threads run.                                         *)
(*                                                                         *)
(* The application is a well-behaved one: it uses a handle only while the  *)
(* session is open, and a context only while it is established.            *)
(***************************************************************************)
EXTENDS Naturals

CONSTANTS
  Threads,         \* threads of the host application
  Contexts,        \* resource manager contexts
  StaticReaders,   \* VIRTUAL_READERS of the configuration file
  RemoteReaders,   \* readers the proxy may announce
  PhysReaders,     \* readers of the original library
  PhysHandles,     \* card handles of the original library
  Concurrent,      \* may two threads be inside the library at the same time?
  MultiContext,    \* may the application hold several contexts?
  OutParamKept,    \* a failed Original_SCardConnect leaves *phCard as it was
  Wide,            \* SCardConnectW meets an open proxy connection
  MaxCardID        \* bound: no remote handle above it is created

HANDLE_VIRTUAL_CARD == 1
CardIDs == 0..MaxCardID
Handles == CardIDs \cup PhysHandles
Readers == StaticReaders \cup RemoteReaders \cup PhysReaders

ASSUME SessionsAssumption ==
  /\ Concurrent \in BOOLEAN /\ MultiContext \in BOOLEAN
  /\ OutParamKept \in BOOLEAN /\ Wide \in BOOLEAN
  /\ MaxCardID \in Nat \ {0}
  /\ PhysHandles \cap CardIDs = {}
  /\ PhysReaders \cap (StaticReaders \cup RemoteReaders) = {}
  /\ "" \notin Readers

VARIABLES
  ctxs,               \* established contexts
  cardReaderMap,      \* handle -> reader name
  remoteReadersMap,   \* remote handle -> reader name
  nextRemoteCardID,   \* m_nextRemoteCardID
  virtualReaders,     \* listVIRTUAL_READERS
  atrMap,             \* remoteCardsATRMap
  phys,               \* Original's open cards: handle -> context and reader
  job,                \* the unfinished call of each thread
  held,               \* the sessions the application has open
  served              \* the application's last call that named a session or a reader

maps == <<cardReaderMap, remoteReadersMap, nextRemoteCardID>>
app  == <<ctxs, held>>
vars == <<maps, virtualReaders, atrMap, phys, job, app, served>>

Virtual  == StaticReaders \cup RemoteReaders
Sides    == {"proxy", "original"}   \* who has the card
Sessions == [h : Handles, ctx : Contexts, reader : Readers, side : Sides]
Calls    == [on : SUBSET Handles, asked : Readers \cup {""}, side : Sides,
             to : {"library", "proxy", "original"}, reached : Readers \cup {""}]

\* m[k] = v
Put(m, k, v)  == [x \in DOMAIN m \cup {k} |-> IF x = k THEN v ELSE m[x]]
Erase(m, K)   == [x \in DOMAIN m \ K |-> m[x]]
EmptyMap      == [x \in {} |-> ""]

NoCall == [on |-> {}, asked |-> "", side |-> "original", to |-> "original", reached |-> ""]
NoJob  == [pc |-> "idle", ctx |-> "", reader |-> "", h |-> 0, todo |-> {}]

\* A call of SCardConnect, and one of SCardListReaders, that waits for the proxy.
Connecting == [pc : {"take", "reply"}, ctx : Contexts, reader : Virtual,
               h : CardIDs, todo : {{}}]
Refreshing == [pc : {"refresh"}, ctx : {""}, reader : {""}, h : {0},
               todo : SUBSET RemoteReaders]
Jobs == {NoJob} \cup Connecting \cup Refreshing

Init ==
  /\ ctxs = {}
  /\ cardReaderMap = EmptyMap
  /\ remoteReadersMap = EmptyMap
  /\ nextRemoteCardID = 1
  /\ virtualReaders = StaticReaders
  /\ atrMap = EmptyMap
  /\ phys = EmptyMap
  /\ job = [t \in Threads |-> NoJob]
  /\ held = {}
  /\ served = NoCall

Idle(t) == job[t].pc = "idle"

MayEnter(t) == Idle(t) /\ (Concurrent \/ \A u \in Threads : Idle(u))

GetReaderName(h) == IF h \in DOMAIN cardReaderMap THEN cardReaderMap[h] ELSE ""

\* Fault: every handle the library has seen counts as a remote card.
IsRemoteCard_Known(h) == h \in DOMAIN cardReaderMap

IsRemoteCard(h) == h \in DOMAIN remoteReadersMap

IsRemoteReader(r) == r \in virtualReaders

-----------------------------------------------------------------------------
(* Contexts *)

\* Forgets the remote cards of every context.
Remote_SCardReleaseContext ==
  /\ cardReaderMap' = EmptyMap
  /\ remoteReadersMap' = EmptyMap
  /\ nextRemoteCardID' = 1

\* The maps are cleared whether or not Original_SCardEstablishContext succeeds.
SCardEstablishContext(t, c, ok) ==
  /\ MayEnter(t)
  /\ c \notin ctxs
  /\ MultiContext \/ ctxs = {}
  /\ Remote_SCardReleaseContext
  /\ ctxs' = IF ok THEN ctxs \cup {c} ELSE ctxs
  /\ UNCHANGED <<virtualReaders, atrMap, phys, job, held, served>>

\* Original_SCardReleaseContext also closes the context's cards.
SCardReleaseContext(t, c) ==
  /\ MayEnter(t)
  /\ c \in ctxs
  /\ \A u \in Threads : job[u].ctx # c
  /\ Remote_SCardReleaseContext
  /\ ctxs' = ctxs \ {c}
  /\ held' = {s \in held : s.ctx # c}
  /\ phys' = Erase(phys, {h \in DOMAIN phys : phys[h].ctx = c})
  /\ UNCHANGED <<virtualReaders, atrMap, job, served>>

-----------------------------------------------------------------------------
(* SCardConnect.  served records who was asked for the reader, and whether it is *)
(* a virtual one: in VIRTUAL_READERS, or announced by the proxy.                 *)

Asked(r, to) ==
  [on |-> {}, asked |-> r, to |-> to, reached |-> r,
   side |-> IF r \in StaticReaders \/ IsRemoteReader(r) THEN "proxy" ELSE "original"]

OpenSession(h, c, r, side) ==
  held' = held \cup {[h |-> h, ctx |-> c, reader |-> r, side |-> side]}

\* Fault: m_nextRemoteCardID is not incremented.
SCardConnect_SameID(t, c, r) ==
  /\ MayEnter(t)
  /\ c \in ctxs
  /\ IsRemoteReader(r)
  /\ job' = [job EXCEPT ![t] = [pc |-> "take", ctx |-> c, reader |-> r,
                                h |-> 0, todo |-> {}]]
  /\ served' = Asked(r, "proxy")
  /\ UNCHANGED <<maps, virtualReaders, atrMap, phys, app>>

\* A virtual reader: m_nextRemoteCardID++ ...
SCardConnect(t, c, r) ==
  /\ MayEnter(t)
  /\ c \in ctxs
  /\ IsRemoteReader(r)
  /\ nextRemoteCardID < MaxCardID
  /\ nextRemoteCardID' = nextRemoteCardID + 1
  /\ job' = [job EXCEPT ![t] = [pc |-> "take", ctx |-> c, reader |-> r,
                                h |-> 0, todo |-> {}]]
  /\ served' = Asked(r, "proxy")
  /\ UNCHANGED <<cardReaderMap, remoteReadersMap, virtualReaders, atrMap, phys, app>>

\* Fault: the handle is taken before the counter moves on.
TakeCardID_Previous(t) ==
  /\ job[t].pc = "take"
  /\ job' = [job EXCEPT ![t].pc = "reply", ![t].h = nextRemoteCardID - 1]
  /\ remoteReadersMap' = Put(remoteReadersMap, nextRemoteCardID, job[t].reader)
  /\ UNCHANGED <<cardReaderMap, nextRemoteCardID, virtualReaders, atrMap, phys, app, served>>

\* ... then the counter is read again for the handle ...
TakeCardID(t) ==
  /\ job[t].pc = "take"
  /\ job' = [job EXCEPT ![t].pc = "reply", ![t].h = nextRemoteCardID]
  /\ remoteReadersMap' = Put(remoteReadersMap, nextRemoteCardID, job[t].reader)
  /\ UNCHANGED <<cardReaderMap, nextRemoteCardID, virtualReaders, atrMap, phys, app, served>>

\* Fault: the ATR is stored under the handle.
ConnectReply_ByHandle(t, status, atr) ==
  /\ job[t].pc = "reply"
  /\ status = "SUCCESS"
  /\ atrMap' = Put(atrMap, job[t].h, atr)
  /\ cardReaderMap' = Put(cardReaderMap, job[t].h, job[t].reader)
  /\ OpenSession(job[t].h, job[t].ctx, job[t].reader, "proxy")
  /\ job' = [job EXCEPT ![t] = NoJob]
  /\ UNCHANGED <<remoteReadersMap, nextRemoteCardID, virtualReaders, phys, ctxs, served>>

\* Fault: the handle is not entered with the reader's name.
ConnectReply_Unnamed(t, status, atr) ==
  /\ job[t].pc = "reply"
  /\ status # "SUCCESS" => atr = ""
  /\ atrMap' = Put(atrMap, job[t].reader, atr)
  /\ IF status = "SUCCESS"
     THEN OpenSession(job[t].h, job[t].ctx, job[t].reader, "proxy")
     ELSE UNCHANGED held
  /\ job' = [job EXCEPT ![t] = NoJob]
  /\ UNCHANGED <<maps, virtualReaders, phys, ctxs, served>>

\* ... and the proxy is asked for the ATR.  A missing answer counts as success, a
\* missing socket does not; the maps are written in any case.
ConnectReply(t, status, atr) ==
  /\ job[t].pc = "reply"
  /\ status # "SUCCESS" => atr = ""
  /\ atrMap' = Put(atrMap, job[t].reader, atr)
  /\ cardReaderMap' = Put(cardReaderMap, job[t].h, job[t].reader)
  /\ IF status = "SUCCESS"
     THEN OpenSession(job[t].h, job[t].ctx, job[t].reader, "proxy")
     ELSE UNCHANGED held
  /\ job' = [job EXCEPT ![t] = NoJob]
  /\ UNCHANGED <<remoteReadersMap, nextRemoteCardID, virtualReaders, phys, ctxs, served>>

\* A physical reader: Original_SCardConnect supplies the handle.
SCardConnectOriginal(t, c, r, h) ==
  /\ MayEnter(t)
  /\ c \in ctxs
  /\ r \in PhysReaders
  /\ ~IsRemoteReader(r)
  /\ h \notin DOMAIN phys
  /\ phys' = Put(phys, h, [ctx |-> c, reader |-> r])
  /\ cardReaderMap' = Put(cardReaderMap, h, r)
  /\ OpenSession(h, c, r, "original")
  /\ served' = Asked(r, "original")
  /\ UNCHANGED <<remoteReadersMap, nextRemoteCardID, virtualReaders, atrMap, job, ctxs>>

\* It fails (always for a reader it does not know); the map entry is written for
\* whatever *phCard holds: 0, or a handle the application got earlier.
SCardConnectOriginalFails(t, c, r, h) ==
  /\ MayEnter(t)
  /\ c \in ctxs
  /\ ~IsRemoteReader(r)
  /\ h = 0 \/ (OutParamKept /\ h \in DOMAIN cardReaderMap)
  /\ cardReaderMap' = Put(cardReaderMap, h, r)
  /\ served' = Asked(r, "original")
  /\ UNCHANGED <<remoteReadersMap, nextRemoteCardID, virtualReaders, atrMap, phys, job, app>>

\* SCardConnectW: one virtual handle for every reader, or Original's; no map is written.
SCardConnectW(t, c, r) ==
  /\ MayEnter(t)
  /\ c \in ctxs
  /\ Wide
  /\ OpenSession(HANDLE_VIRTUAL_CARD, c, r, "proxy")
  /\ UNCHANGED <<maps, virtualReaders, atrMap, phys, job, ctxs, served>>

SCardConnectWOriginal(t, c, r, h) ==
  /\ MayEnter(t)
  /\ c \in ctxs
  /\ ~Wide
  /\ r \in PhysReaders
  /\ h \notin DOMAIN phys
  /\ phys' = Put(phys, h, [ctx |-> c, reader |-> r])
  /\ OpenSession(h, c, r, "original")
  /\ UNCHANGED <<maps, virtualReaders, atrMap, job, ctxs, served>>

-----------------------------------------------------------------------------
(* Calls on a handle *)

CallOf(s, to, reached) ==
  [on |-> {s.h}, asked |-> s.reader, side |-> s.side, to |-> to, reached |-> reached]

ReachedByOriginal(h) == IF h \in DOMAIN phys THEN phys[h].reader ELSE ""

\* The proxy is told the reader's name; operator[] creates a missing entry.
SCardTransmit(t, s) ==
  /\ MayEnter(t)
  /\ s \in held
  /\ IF IsRemoteCard(s.h)
     THEN /\ served' = CallOf(s, "proxy", GetReaderName(s.h))
          /\ cardReaderMap' = Put(cardReaderMap, s.h, GetReaderName(s.h))
     ELSE /\ served' = CallOf(s, "original", ReachedByOriginal(s.h))
          /\ UNCHANGED cardReaderMap
  /\ UNCHANGED <<remoteReadersMap, nextRemoteCardID, virtualReaders, atrMap, phys, job, app>>

\* SCardReconnect, SCardBeginTransaction, SCardEndTransaction, SCardControl,
\* SCardGetAttrib, SCardSetAttrib, SCardStatus, SCardState, SCardStatusW and
\* SCardCancelTransaction: for a remote card the library itself says SUCCESS.
HandleCall(t, s) ==
  /\ MayEnter(t)
  /\ s \in held
  /\ served' = IF IsRemoteCard(s.h) THEN CallOf(s, "library", s.reader)
               ELSE CallOf(s, "original", ReachedByOriginal(s.h))
  /\ UNCHANGED <<maps, virtualReaders, atrMap, phys, job, app>>

\* The maps keep the entries of a closed remote card.
SCardDisconnect(t, s) ==
  /\ MayEnter(t)
  /\ s \in held
  /\ held' = held \ {s}
  /\ phys' = IF IsRemoteCard(s.h) THEN phys ELSE Erase(phys, {s.h})
  /\ UNCHANGED <<maps, virtualReaders, atrMap, job, ctxs, served>>

-----------------------------------------------------------------------------
(* SCardListReaders and SCardListReadersW refresh the list of virtual readers. *)

\* The proxy's list replaces the whole list (an answer that never came is an empty one).
RefreshVirtualReaders(t, list) ==
  /\ MayEnter(t)
  /\ virtualReaders' = list
  /\ atrMap' = EmptyMap
  /\ job' = [job EXCEPT ![t] = [pc |-> "refresh", ctx |-> "", reader |-> "",
                                h |-> 0, todo |-> list]]
  /\ UNCHANGED <<maps, phys, app, served>>

\* Every remote reader is asked for its ATR.
RefreshATR(t, r, atr) ==
  /\ job[t].pc = "refresh"
  /\ r \in job[t].todo
  /\ atrMap' = Put(atrMap, r, atr)
  /\ job' = [job EXCEPT ![t].todo = @ \ {r}]
  /\ UNCHANGED <<maps, virtualReaders, phys, app, served>>

\* Fault: the static readers are not put back.
RefreshEnd_RemoteOnly(t) ==
  /\ job[t].pc = "refresh"
  /\ job[t].todo = {}
  /\ job' = [job EXCEPT ![t] = NoJob]
  /\ UNCHANGED <<maps, virtualReaders, atrMap, phys, app, served>>

\* Only now the readers of the configuration file are put back.
RefreshEnd(t) ==
  /\ job[t].pc = "refresh"
  /\ job[t].todo = {}
  /\ virtualReaders' = virtualReaders \cup StaticReaders
  /\ job' = [job EXCEPT ![t] = NoJob]
  /\ UNCHANGED <<maps, atrMap, phys, app, served>>

\* SCardGetStatusChangeA and W answer for a virtual reader from the ATR map.
SCardGetStatusChange(t, r) ==
  /\ MayEnter(t)
  /\ served' = Asked(r, IF IsRemoteReader(r) THEN "library" ELSE "original")
  /\ UNCHANGED <<maps, virtualReaders, atrMap, phys, job, app>>

-----------------------------------------------------------------------------

Connect(t, c) ==
  \/ \E r \in Readers : SCardConnect(t, c, r) \/ SCardConnectW(t, c, r)
  \/ \E r \in PhysReaders, h \in PhysHandles :
       SCardConnectOriginal(t, c, r, h) \/ SCardConnectWOriginal(t, c, r, h)
  \/ \E r \in Readers, h \in Handles : SCardConnectOriginalFails(t, c, r, h)

Continue(t) ==
  \/ TakeCardID(t)
  \/ \E status \in {"SUCCESS", "SCARD_F_COMM_ERROR"}, atr \in {"", "ATR"} :
       ConnectReply(t, status, atr)
  \/ \E r \in RemoteReaders, atr \in {"", "ATR"} : RefreshATR(t, r, atr)
  \/ RefreshEnd(t)

Use(t) ==
  \/ \E s \in held : SCardTransmit(t, s) \/ HandleCall(t, s) \/ SCardDisconnect(t, s)
  \/ \E list \in SUBSET RemoteReaders : RefreshVirtualReaders(t, list)
  \/ \E r \in Readers : SCardGetStatusChange(t, r)

Next ==
  \E t \in Threads :
    \/ \E c \in Contexts :
         \/ \E ok \in BOOLEAN : SCardEstablishContext(t, c, ok)
         \/ SCardReleaseContext(t, c)
         \/ Connect(t, c)
    \/ Continue(t)
    \/ Use(t)

Spec == Init /\ [][Next]_vars
-----------------------------------------------------------------------------
(* Properties *)

\* Type invariant.
TypeOK ==
  /\ ctxs \subseteq Contexts
  /\ DOMAIN cardReaderMap \subseteq Handles
  /\ \A h \in DOMAIN cardReaderMap : cardReaderMap[h] \in Readers \cup {""}
  /\ DOMAIN remoteReadersMap \subseteq CardIDs
  /\ \A h \in DOMAIN remoteReadersMap : remoteReadersMap[h] \in Readers
  /\ nextRemoteCardID \in 1..MaxCardID
  /\ virtualReaders \subseteq Virtual
  /\ DOMAIN atrMap \subseteq Virtual
  /\ DOMAIN phys \subseteq PhysHandles
  /\ \A h \in DOMAIN phys : phys[h] \in [ctx : Contexts, reader : PhysReaders]
  /\ job \in [Threads -> Jobs]
  /\ held \subseteq Sessions
  /\ served \in Calls

\* A call on an open session reaches the card the session was opened for: the proxy
\* under the name of that very reader, or the original library's card in that reader.
\* A reader of VIRTUAL_READERS, or one the proxy has announced, is never looked for
\* in the original library, and a physical one never at the proxy.
RightReader ==
  /\ served.reached = served.asked
  /\ served.to = "original" <=> served.side = "original"

\* Two open sessions never share a handle.
HandleUnique == \A s, u \in held : s.h = u.h => s = u

\* Every ATR the library would report belongs to a reader it lists, and once no
\* refresh of the list is under way every reader of VIRTUAL_READERS is listed again.
ListsAgree ==
  /\ DOMAIN atrMap \subseteq virtualReaders
  /\ (\A t \in Threads : job[t].pc # "refresh") => StaticReaders \subseteq virtualReaders

\* A reader of VIRTUAL_READERS is "always shown" (stdafx.h): no call that names it ever
\* goes to the original library, in whatever order the calls of several threads run.
\* It does not hold while another thread refreshes the list.
StaticAlwaysShown == served.asked \in StaticReaders => served.to # "original"

\* Remoting never disturbs a physical card, however many threads and contexts the
\* application uses and whatever becomes of the maps: a session that the original
\* library opened is served by the original library, by the card in its reader.
PhysicalUndisturbed ==
  served.side = "original" => (served.to = "original" /\ served.reached = served.asked)

\* The library implements CardHandles: a handle stands for one card from SCardConnect
\* to SCardDisconnect, however the calls before and after it are ordered, and a call on
\* a handle is a call on the card that this handle stands for at that time.
Promise == INSTANCE CardHandles WITH
  open <- held,
  last <- [on |-> served.on, reader |-> served.reached,
           side |-> IF served.to = "original" THEN "original" ELSE "proxy"]

ImplementsHandles == Promise!Spec
-----------------------------------------------------------------------------
(* The inductive strengthenings *)

\* What holds of a physical session in every mode of use.
PhysicalSessions ==
  /\ \A s \in held : s.side = "proxy" => s.h \in CardIDs
  /\ \A s \in held : s.side = "original" => /\ s.h \in DOMAIN phys
                                  /\ phys[s.h].ctx = s.ctx
                                  /\ phys[s.h].reader = s.reader

PhysicalInv == TypeOK /\ PhysicalSessions /\ PhysicalUndisturbed

\* Calls and contexts follow one another.
OneAtATime ==
  /\ \A t, u \in Threads : (~Idle(t) /\ ~Idle(u)) => t = u
  /\ \A c, d \in ctxs : c = d
  /\ \A s \in held : s.ctx \in ctxs

\* A remote session is in both maps, under its reader.
RemoteSessions ==
  \A s \in held : s.side = "proxy" =>
    /\ s.h <= nextRemoteCardID
    /\ s.h \in DOMAIN remoteReadersMap
    /\ s.h \in DOMAIN cardReaderMap
    /\ cardReaderMap[s.h] = s.reader

\* The number a connecting thread is going to use is new and nonzero.
FreshCardID ==
  \A t \in Threads : job[t].pc \in {"take", "reply"} =>
    /\ nextRemoteCardID > 1
    /\ job[t].ctx \in ctxs
    /\ job[t].reader \in virtualReaders
    /\ \A s \in held : s.h # nextRemoteCardID
    /\ job[t].pc = "reply" => /\ job[t].h = nextRemoteCardID
                              /\ job[t].h \in DOMAIN remoteReadersMap

\* Only announced readers wait for their ATR.
RefreshPending ==
  \A t \in Threads : job[t].pc = "refresh" => job[t].todo \subseteq virtualReaders

\* 0 is nobody's handle.
NoZeroHandle == \A s \in held : s.h # 0

SessionsInv ==
  /\ TypeOK
  /\ PhysicalSessions
  /\ OneAtATime
  /\ RemoteSessions
  /\ FreshCardID
  /\ RefreshPending
  /\ NoZeroHandle
  /\ HandleUnique
  /\ ListsAgree
  /\ RightReader
=============================================================================
