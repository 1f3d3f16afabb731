----------------------------- MODULE ReaderList -----------------------------
(***************************************************************************)
(* SCardListReaders and SCardListReadersW: the list of the original        *)
(* library, followed by the virtual readers, in a buffer of the caller or  *)
(* in one the library allocates (SCARD_AUTOALLOCATE) and SCardFreeMemory   *)
(* releases.  Each call asks the original library twice, for the length    *)
(* and for the names; readers may come and go in between.  The virtual     *)
(* readers are those of the rule file and those the proxy announces, which *)
(* is asked at the start of every call.                                    *)
(*                                                                         *)
(* A reader name is a sequence of characters, a list of names a            *)
(* multi-string: every name ends with NUL, and so does the whole.  The     *)
(* original library names a reader by the same codes in both variants.     *)
(***************************************************************************)
EXTENDS Conversions

CONSTANTS
  RealLists,     \* lists of physical readers that may be plugged in
  StaticLists,   \* virtual readers the rule file may name
  Announcements, \* what the proxy may announce: lists of names, sent as they are or coded
  Preferences,   \* values of READER_ORDERED_FIRST in the rule file, <<>> if not set
  Sizes,         \* sizes of the buffers the application supplies
  MaxAllocs      \* bound: number of buffers the library allocates

Name == Seq(Byte \ {NUL}) \ {<<>>}

ASSUME ReaderListAssumption ==
  /\ RealLists \cup StaticLists \subseteq Seq(Name)
  /\ Announcements \subseteq Seq([name : Name, coded : BOOLEAN])
  /\ Preferences \subseteq Seq(Byte \ {NUL, 255})
  /\ Sizes \subseteq Nat \ {0}
  /\ MaxAllocs \in Nat

VARIABLES
  preferred,    \* sREADER_ORDERED_FIRST, read once
  connected,    \* bRedirect and pSocket: whether there is a proxy is settled at the start
  plugged,      \* the original library: readers it knows now
  static,       \* listVIRTUAL_READERS_STATIC
  virtual,      \* listVIRTUAL_READERS
  announced,    \* observed: the announcement virtual goes back to
  pc,           \* "idle", or "fetch" between the two calls of the original library
  call,         \* the call being executed or last executed
  readers,      \* address of the buffer the call allocated, 0 if none
  realLen,      \* length the first call gave
  buffer,       \* the caller's or the allocated buffer, <<>> if the call returned before
                \* it touched one
  pcchReaders,
  status,
  charList,     \* m_charAllocatedMemoryList
  wcharList,    \* m_wcharAllocatedMemoryList
  heap,         \* observed: allocated buffers that were not deleted
  held,         \* observed: buffers the application was given and has not released
  stable,       \* observed: no reader came or went since the first call
  overrun,      \* observed: the call went outside the buffer
  lastQuery     \* observed: answer to the last length query, [wide, len], len 0 if stale

vars == <<preferred, connected, plugged, static, virtual, announced, pc, call, readers, realLen, buffer,
          pcchReaders, status, charList, wcharList, heap, held, stable, overrun, lastQuery>>

NoCall  == [wide |-> FALSE, mode |-> "null", size |-> 0]
NoQuery == [wide |-> FALSE, len |-> 0]

Init ==
  /\ preferred \in Preferences
  /\ connected \in BOOLEAN
  /\ plugged \in RealLists
  /\ static \in StaticLists
  /\ virtual = static
  /\ announced = <<>>
  /\ pc = "idle"
  /\ call = NoCall
  /\ readers = 0
  /\ realLen = 0
  /\ buffer = <<>>
  /\ pcchReaders = 0
  /\ status = "SUCCESS"
  /\ charList = <<>>
  /\ wcharList = <<>>
  /\ heap = {}
  /\ held = {}
  /\ stable = TRUE
  /\ overrun = FALSE
  /\ lastQuery = NoQuery

-----------------------------------------------------------------------------
(* The virtual readers *)

\* What the proxy answers: the names, separated and with a line end.
Response(list) ==
  LET texts == [i \in DOMAIN list |->
                  IF list[i].coded THEN base64_encode(list[i].name) ELSE list[i].name]
  IN  IF list = <<>> THEN <<LineFeed>>
      ELSE Front(Terminated(texts, Separator)) \o <<LineFeed>>

\* The answer without the blanks, tabs and line ends after it.
Trimmed(text) ==
  LET kept == {i \in DOMAIN text : text[i] \notin {Blank, LineFeed, 13, 9}}
  IN  IF kept = {} THEN <<>> ELSE SubSeq(text, 1, Max(kept))

\* A name that ends with the padding of Base64 is decoded.
Remote_ListReaders(response) ==
  LET items == String_ParseSeparatedArray(Trimmed(response))
  IN  [i \in DOMAIN items |->
         IF Last(items[i]) = Equals THEN base64_decode(items[i]) ELSE items[i]]

Answers == [list \in Announcements |-> Remote_ListReaders(Response(list))]

\* The readers of the rule file come first.  The status of the request is not looked at:
\* an answer that does not come is taken for an empty one.
\* Fault: without an answer the list stays as it is.
RefreshReaders_Kept ==
  \/ connected /\ \E list \in Announcements \cup {<<>>} :
       /\ announced' = list
       /\ virtual' = IF list = <<>> THEN virtual ELSE static \o Answers[list]
  \/ ~connected /\ UNCHANGED <<virtual, announced>>

RefreshReaders ==
  \/ /\ connected
     /\ \/ \E list \in Announcements :
             /\ announced' = list
             /\ virtual' = static \o Answers[list]
        \/ /\ announced' = <<>>
           /\ virtual' = static
  \/ ~connected /\ UNCHANGED <<virtual, announced>>

-----------------------------------------------------------------------------
(* Multi-strings *)

\* Every name with its NUL.
Serialize(list) == Terminated(list, NUL)

\* The wide variant copies a name character by character; a char has a sign, so a code
\* from 128 on becomes one from 65408 on.
Widened(text) == [p \in DOMAIN text |-> IF text[p] < 128 THEN text[p] ELSE 65280 + text[p]]

\* The virtual readers in the characters of the variant that is called.
Shown(wide) == IF wide THEN [i \in DOMAIN virtual |-> Widened(virtual[i])] ELSE virtual

\* What the original library returns: the names and one NUL more.
MultiString(list) == IF list = <<>> THEN <<>> ELSE Serialize(list) \o <<NUL>>

Zeroed(n) == [i \in 1 .. n |-> NUL]

\* Characters written at a position, counted from zero; what lies outside is lost.
Overlay(b, position, chars) ==
  [i \in 1 .. Len(b) |-> IF position < i /\ i <= position + Len(chars)
                         THEN chars[i - position] ELSE b[i]]

-----------------------------------------------------------------------------
(* The call: virtual readers are refreshed, the real length is obtained *)

\* The next free address.
NewPointer == CHOOSE p \in 1 .. MaxAllocs : p \notin heap

\* What the caller is told when the buffer is missing or too small.
\* Fault: the wide variant forgets the terminating zeros as well.
RequiredLength_Short(wide, real, virt) == real + virt

RequiredLength(wide, real, virt) == IF wide THEN real + virt + 2 ELSE real + virt

\* The original library has no readers and there are no virtual ones either.
NothingToList == plugged = <<>> /\ virtual' = <<>>

\* Fault: the room for the virtual readers is forgotten.
TooSmall_RealOnly(mode, size) ==
  mode = "null" \/ Len(MultiString(plugged)) + 2 > size

TooSmall(mode, size) ==
  mode = "null" \/ Len(MultiString(plugged)) + Len(Serialize(virtual')) + 2 > size

ReturnsAtOnce(mode, size) == NothingToList \/ (mode # "auto" /\ TooSmall(mode, size))

SCardListReaders(wide, mode, size) ==
  /\ pc = "idle"
  /\ mode = "auto" => \E p \in 1 .. MaxAllocs : p \notin heap
  /\ RefreshReaders
  /\ call' = [wide |-> wide, mode |-> mode, size |-> size]
  /\ realLen' = Len(MultiString(plugged))
  /\ stable' = TRUE
  /\ overrun' = FALSE
  /\ LET virt == Len(Serialize(virtual')) IN
     IF ReturnsAtOnce(mode, size)
     THEN /\ pc' = "idle"
          /\ status' = IF NothingToList THEN "SCARD_E_NO_READERS_AVAILABLE"
                       ELSE IF mode = "null" THEN "SUCCESS" ELSE "SCARD_E_INSUFFICIENT_BUFFER"
          /\ pcchReaders' = IF NothingToList THEN (IF mode = "auto" THEN 0 ELSE size)
                            ELSE RequiredLength(wide, realLen', virt)
          /\ lastQuery' = IF NothingToList THEN NoQuery
                          ELSE [wide |-> wide, len |-> pcchReaders']
          /\ buffer' = <<>>
          /\ readers' = 0
          /\ heap' = heap
     ELSE /\ pc' = "fetch"
          /\ status' = "SUCCESS"
          /\ pcchReaders' = IF mode = "auto" THEN realLen' + virt + 2 ELSE size
          /\ buffer' = Zeroed(pcchReaders')
          /\ readers' = IF mode = "auto" THEN NewPointer ELSE 0
          /\ heap' = IF mode = "auto" THEN heap \cup {readers'} ELSE heap
          /\ lastQuery' = IF virtual' = virtual THEN lastQuery ELSE NoQuery
  /\ UNCHANGED <<preferred, connected, plugged, static, charList, wcharList, held>>

\* A reader is plugged in or pulled out, at any moment.
HotPlug ==
  /\ plugged' \in RealLists \ {plugged}
  /\ stable' = FALSE
  /\ lastQuery' = NoQuery
  /\ UNCHANGED <<preferred, connected, static, virtual, announced, pc, call, readers, realLen, buffer,
                 pcchReaders, status, charList, wcharList, heap, held, overrun>>

-----------------------------------------------------------------------------
(* The names are obtained and completed *)

\* How much room the second call offers the original library.
Capacity == IF call.wide /\ call.mode = "buffer" THEN pcchReaders - 1 ELSE pcchReaders

\* The status of the second call; no real readers is no error beside virtual ones.
FetchStatus ==
  IF plugged = <<>> /\ virtual = <<>> THEN "SCARD_E_NO_READERS_AVAILABLE"
  ELSE IF Len(MultiString(plugged)) > Capacity THEN "SCARD_E_INSUFFICIENT_BUFFER"
  ELSE "SUCCESS"

\* Fault: the virtual readers follow the final NUL of the real ones.
VirtualPosition_AfterEnd(real) == real

VirtualPosition(real) == IF real > 0 THEN real - 1 ELSE 0

TotalLength(real, virt) == IF real = 0 THEN virt + 1 ELSE real + virt

\* The real length the layout goes by: the new one in a supplied buffer, the one
\* of the first call in an allocated one.
LayoutLength == IF call.mode = "auto" THEN realLen ELSE Len(MultiString(plugged))

\* Without virtual readers a supplied buffer is left as the original library filled it.
Completed ==
  LET filled == Overlay(buffer, 0, MultiString(plugged))
      total  == TotalLength(LayoutLength, Len(Serialize(virtual)))
      joined == Overlay(filled, VirtualPosition(LayoutLength), Serialize(Shown(call.wide)))
  IN  IF call.mode = "buffer" /\ virtual = <<>>
      THEN [chars |-> filled, len |-> LayoutLength]
      ELSE [chars |-> Overlay(joined, total - 1, <<NUL>>), len |-> total]

\* The virtual readers, or the NUL after them, do not fit.
Overwrites ==
  \/ virtual # <<>> /\ VirtualPosition(LayoutLength) + Len(Serialize(virtual)) > Len(buffer)
  \/ Completed.len > Len(buffer)

\* What is done to the caller's pointer in place of an allocated list: the wide variant
\* puts the final NUL behind it, both look there for the preferred reader.
MistakesPointer == call.mode = "auto" /\ (call.wide \/ preferred # <<>>)

\* A preferred name longer than the list: the length that is left to search wraps around.
SearchWraps == preferred # <<>> /\ Completed.len < Len(preferred)

\* Where the preferred name lies in the first n characters.
Places(chars, n) ==
  LET k == Len(preferred)
  IN  {i \in 0 .. n - k - 1 : SubSeq(chars, i + 1, i + k) = preferred}

\* The wide variant compares the bytes of the preferred name, and the NUL after them, with
\* wide characters.  A name of one character is found, in a longer one each two bytes
\* make one character, which no name has (but for a second character 255, which
\* ReaderListAssumption leaves out).
Comparable == preferred # <<>> /\ (call.wide => Len(preferred) = 1)

\* The preferred reader is moved to the front of a supplied list: its first occurrence,
\* what stood before it, and the rest unmoved.  After an overrun, what lies in the
\* buffer.
Reordered(chars, length) ==
  LET found == Places(chars, IF length < Len(chars) THEN length ELSE Len(chars))
  IN  IF ~Comparable \/ call.mode # "buffer" \/ found = {} THEN chars
      ELSE Overlay(chars, 0, preferred \o <<NUL>> \o SubSeq(chars, 1, Min(found)))

\* Fault: only a list that was obtained is entered, but every one is handed out.
Listed_Obtained(wide) == FetchStatus = "SUCCESS"

\* The buffers that are handed out are entered for SCardFreeMemory; the wide variant
\* hands out the buffer whatever the second call said.
HandedOut == call.mode = "auto" /\ (call.wide \/ FetchStatus = "SUCCESS")

Listed(wide) == wide \/ FetchStatus = "SUCCESS"

Entered(list, wide) ==
  IF call.mode = "auto" /\ call.wide = wide /\ Listed(wide)
  THEN Append(list, readers) ELSE list

FetchReaders ==
  /\ pc = "fetch"
  /\ pc' = "idle"
  /\ status' = FetchStatus
  /\ IF FetchStatus = "SUCCESS"
     THEN /\ buffer' = Reordered(Completed.chars, Completed.len)
          /\ pcchReaders' = Completed.len
          /\ overrun' = (Overwrites \/ MistakesPointer \/ SearchWraps)
     ELSE /\ pcchReaders' = IF call.mode = "auto" THEN Len(MultiString(plugged))
                            ELSE pcchReaders
          /\ UNCHANGED <<buffer, overrun>>
  /\ charList' = Entered(charList, FALSE)
  /\ wcharList' = Entered(wcharList, TRUE)
  /\ held' = IF HandedOut THEN held \cup {readers} ELSE held
  /\ UNCHANGED <<preferred, connected, plugged, static, virtual, announced, call, readers, realLen,
                 heap, stable, lastQuery>>

\* The application releases a list it was given.
\* Fault: the entry stays in the list.
Without_Kept(list, p) == list

Without(list, p) == RemoveFirst(list, p)

SCardFreeMemory(p) ==
  /\ pc = "idle"
  /\ p \in held
  /\ held' = held \ {p}
  /\ charList' = Without(charList, p)
  /\ wcharList' = Without(wcharList, p)
  /\ heap' = IF p \in Range(charList) \cup Range(wcharList) THEN heap \ {p} ELSE heap
  /\ UNCHANGED <<preferred, connected, plugged, static, virtual, announced, pc, call, readers, realLen,
                 buffer, pcchReaders, status, stable, overrun, lastQuery>>

Modes == {<<"auto", 0>>, <<"null", 0>>} \cup ({"buffer"} \X Sizes)

Next ==
  \/ \E wide \in BOOLEAN, m \in Modes : SCardListReaders(wide, m[1], m[2])
  \/ HotPlug
  \/ FetchReaders
  \/ \E p \in 1 .. MaxAllocs : SCardFreeMemory(p)

Spec == Init /\ [][Next]_vars

-----------------------------------------------------------------------------
(* Properties *)

Statuses == {"SUCCESS", "SCARD_E_NO_READERS_AVAILABLE", "SCARD_E_INSUFFICIENT_BUFFER"}

\* Lists, lengths and statuses have their types, and the two lists of allocated memory
\* name no buffer that has been deleted (m_charAllocatedMemoryList,
\* m_wcharAllocatedMemoryList).
TypeOK ==
  /\ preferred \in Preferences /\ connected \in BOOLEAN
  /\ plugged \in RealLists /\ static \in StaticLists
  /\ announced \in Announcements \cup {<<>>} /\ virtual \in Seq(Seq(Byte))
  /\ pc \in {"idle", "fetch"} /\ status \in Statuses
  /\ call \in [wide : BOOLEAN, mode : {"auto", "null", "buffer"}, size : Sizes \cup {0}]
  /\ realLen \in Nat /\ pcchReaders \in Nat
  /\ readers \in 0 .. MaxAllocs
  /\ heap \subseteq 1 .. MaxAllocs /\ held \subseteq heap
  /\ charList \in Seq(heap) /\ wcharList \in Seq(heap)
  /\ stable \in BOOLEAN /\ overrun \in BOOLEAN
  /\ lastQuery \in [wide : BOOLEAN, len : Nat]

\* A name that arrives as it was meant: coded, or with nothing in it that is read as a
\* separator, as padding or as the end of the answer.
Transparent(r) ==
  \/ r.coded
  \/ Separator \notin Range(r.name) /\ Last(r.name) \notin {Equals, Blank, LineFeed, 13, 9}

\* The virtual readers are those of the rule file and after them, in order and under
\* their own names, all the proxy answered when it was asked last, none if it did not
\* answer (Remote_ListReaders, "Assume base64 encoding, decode").  Coded names are recognised by their padding: one that needs none,
\* because its length is a multiple of three, is shown to the application as it was sent.
ReadersAsAnnounced ==
  (\A i \in DOMAIN announced : Transparent(announced[i])) =>
    virtual = static \o [i \in DOMAIN announced |->
                           LET r == announced[i]
                           IN  IF r.coded /\ Len(r.name) % 3 = 0 THEN base64_encode(r.name)
                               ELSE r.name]

\* The preferred reader, if it is there and can be found, before the others in their order.
InOrder(list) ==
  IF Comparable /\ Contains(list, preferred) /\ call.mode = "buffer"
  THEN <<preferred>> \o RemoveFirst(list, preferred) ELSE list

\* The preferred name is no part of another reader's name.
Unambiguous(list) ==
  \A i \in DOMAIN list : preferred # <<>> /\ list[i] # preferred =>
    \A j \in 0 .. Len(list[i]) - Len(preferred) :
      SubSeq(list[i], j + 1, j + Len(preferred)) # preferred

\* A call that succeeds while no reader comes or goes returns a well-formed
\* multi-string of all physical readers and after them all virtual ones, none lost
\* where the two lists are joined, and moves at most the preferred reader
\* (SCardListReaders and SCardListReadersW, both ways of supplying the buffer).  In the
\* wide variant the virtual readers have the characters it gives them, and only a
\* preferred name of one character is moved.
ListComplete ==
  LET list == plugged \o Shown(call.wide)
  IN  pc = "idle" /\ status = "SUCCESS" /\ buffer # <<>> /\ stable /\ Unambiguous(list)
        => SubSeq(buffer, 1, pcchReaders) = MultiString(InOrder(list))

\* The wide variant shows the virtual readers under their own names ("Copy character by
\* character to make correct conversion from char to wchar").  It does not hold of
\* names with a character from 128 on.
WideNamesKept ==
  pc = "idle" /\ status = "SUCCESS" /\ buffer # <<>> /\ stable /\ call.wide /\ preferred = <<>>
    => SubSeq(buffer, 1, pcchReaders) = MultiString(plugged \o virtual)

\* As long as no reader is plugged in between the two calls of the original library, a
\* call stays inside the buffer, up to the two slips it makes whatever the lists: the
\* caller's pointer taken for the list, and the search for a name too long to be there.
StaysInBuffer ==
  overrun => \/ ~stable
             \/ call.mode = "auto" /\ (call.wide \/ preferred # <<>>)
             \/ Len(preferred) > pcchReaders

\* After a length query of this variant, with the same readers, a call that supplies at
\* least the length the query returned.
Follows(queried, wide, size) ==
  /\ SCardListReaders(wide, "buffer", size) /\ virtual' = virtual
  /\ lastQuery # NoQuery /\ lastQuery.wide = queried /\ size >= lastQuery.len

\* A length the wide variant returned is enough for a following call, of either variant,
\* if the readers are the same.
WideQuerySuffices ==
  [][\A wide \in BOOLEAN, size \in Sizes :
       Follows(TRUE, wide, size) => status' = "SUCCESS" /\ pc' = "fetch"]_vars

\* The same of the ANSI variant ("dummy call to obtain required buffer length for
\* readers"): the length its query returns is enough for the call it is a query for.
\* It does not hold: the query leaves out the two zeros that the call demands.
AnsiQuerySuffices ==
  [][\A size \in Sizes :
       Follows(FALSE, FALSE, size) => status' = "SUCCESS" /\ pc' = "fetch"]_vars

\* SCardFreeMemory finds exactly the buffers the application has been given and has
\* not released, each once, whatever happened to the calls that allocated them.
OwnedIsListed ==
  LET listed == charList \o wcharList
  IN  IsInjective(listed) /\ Range(listed) = held
=============================================================================
