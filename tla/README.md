# APDUPlay in TLA+

APDUPlay is a stub `winscard.dll`: an application that talks to smart cards through the PC/SC
interface loads it in place of the original library. The stub logs the APDUs, changes them by the
rules of `winscard_rules.txt`, adds virtual readers to the list of readers, and redirects cards of
virtual readers over a socket to a proxy. This directory holds TLA+ models of that library, the TLC
configurations that check them on small instances, and theorems that TLAPS proves for every value of
the constants. All source lines below are lines of `src/Winscard/Winscard.cpp` unless another file is
named.

## 1. The system

| Part | State it keeps | Operations | Module |
|---|---|---|---|
| Card remoting | `m_remoteConfig`: `pSocket`, `nextCommandID` | `Remote_Connect`, `Remote_SendRequest`, `Remote_ParseResponse`, `Remote_SCardTransmit`, `Remote_SCardConnect`, `Remote_ListReaders`; the raw exchanges of `SCardConnectW` | `RemoteProxy` |
| Contexts, handles, routing | `cardReaderMap`, `remoteReadersMap`, `remoteCardsATRMap`, `m_nextRemoteCardID`, `listVIRTUAL_READERS` | establish and release a context, connect, disconnect, every call on a handle, refresh of the virtual readers, `SCardGetStatusChange` | `CardSessions` |
| Transmission of an APDU | `apduInList`, `apduOutList`, the byte and APDU counters; buffers of the call | `SCardTransmit`, `ApplyRules`, `GetApduFromHistory`, automatic GET RESPONSE | `Transmit` |
| Reader lists | the two lists of allocated memory; the preferred reader | `SCardListReaders`, `SCardListReadersW`, `SCardFreeMemory` | `ReaderList` |
| Sockets | the socket, its reference count, the number of sockets | connect, send, receive, close | in `RemoteProxy` and `Startup`, partly |
| INI parser (`src/Iniparser/iniparser_all.h`) | the dictionary: arrays of keys, values and hashes | load a file, look up, enumerate, set, unset, save | `IniDictionary`, `IniFile` |
| Rule file | `rulesList`, the two configurations | `LoadRules`, `LoadRule` | `RuleLoader`, `Startup` |
| Start and end, original library | the `Original_` pointers, the log directory, the count of sockets | the constructor, `InitInstance`, `initialize`, the destructor; the calls that are only handed on | `OriginalLibrary`, `Startup` |
| Hex, string, base64 helpers (`CommonFnc.cpp`) | none | pure functions | `Conversions`; `Serialize` of `ReaderList`; not the formatting for logs |
| Log parser and visualiser (Java, `src/Parser`) | trees of packets by header, the list of packets | read a line, merge a packet, divide a node, simplify, group and write | `PacketTree` (not the layout of the drawings) |
| Log files, status texts | files | | not modelled |

**How the parts interact.** The application calls the exported functions from any of its threads.
Nothing in the library takes a lock: `theApp` with everything in the table is shared by all of them.
`SCardTransmit` and the other calls on a handle look into the maps of *CardSessions* to decide
whether the original library or *RemoteProxy* executes the call; `SCardListReaders` (both variants)
first asks the proxy for its readers and then for the ATR of each, one exchange of *RemoteProxy* per
reader, and so replaces the list of virtual readers that *CardSessions* routes by and that *ReaderList*
appends. `SCardGetStatusChange` asks nobody: it reads the ATRs that the last such call left (l.1965).
At the start *IniFile* fills a dictionary from `winscard_rules.txt`, `LoadRules` turns its sections into
the settings of all other parts and the rules of *Transmit*, `Remote_Connect` opens the first
connection of *RemoteProxy*, and `initialize` resolves the functions of the original library.
`SCardConnectW` resets the byte counter of *Transmit* and talks to the
proxy without numbering its commands. The log parser is a program of its own; it reads the file the
logging of `SCardTransmit` writes.

**What is hard here.** Threads inside the library at the same time; answers of the proxy that are
late, cut off or missing and are read by the next command; a proxy that refuses or drops the
connection between two statements; maps and counters shared by several contexts; readers that come
and go between the two inner calls of `SCardListReaders`; unsigned lengths that wrap; answers of the
card in several pieces; rules that look at earlier APDUs while others are being added; a dictionary
with free slots that grows, wraps around and may find no memory; a rules file of which one line, or
one comma, is wrong; functions that the original library lacks. `PROJECT.json`
lists each of these at its line under `hazards`.

**What makes the parts correct.**

* Remoting: a call gets its own answer or none, it returns whatever the proxy leaves out, it never
  touches a deleted socket.
* Handles: a handle stands for one card from connect to disconnect, and no remoting can disturb a
  physical card.
* Transmission: only rules change what passes; they judge the exchange they belong to; the
  application gets the whole answer, or none on failure.
* Reader lists: the joined list is complete and well formed, within its buffer, and its memory can be
  released.
* Dictionary: the arrays are a map; a file is loaded as a whole or not at all; what is saved can be
  loaded.
* Start: the settings and rules are those of the file; a call reaches the function it means; the count
  of sockets is right, since Winsock is stopped by it.
* Log parser: whatever packets come later, each one can be read back from the tree as it was.

## 2. The modules

### RemoteService, RemoteProxy, RemoteProxyProofs

`RemoteProxy` has one process per thread. Its steps are the statements of `Remote_SendRequest`
(l.3459-3540) between which another thread may run: the load and the store of `nextCommandID++`
(`LoadID`, `StoreID`; twice for an APDU, since `Remote_SCardTransmit` counts as well), the decision
about the socket (`OpenSocket`: delete first, l.3486), its construction (`NewSocket`,
`NewSocketThrows`), `SendLine`, one `recv` after another (`ReceivePiece`, `ReceiveNothing` for a
timeout or an end of the connection) and the parsing of the answer (`Remote_ParseResponse`), which
compares the ID in the answer with `nextCommandID` **as it is then**. The proxy
(`ProxyStartsAnswer`, `ProxyContinuesAnswer`, `ProxyEndsAnswer`, `ProxyIgnoresRequest`,
`ProxyHangsUp`) is modelled from its use: it answers in order, in as many pieces as it likes, whenever
it likes or not at all. `ReceiveResponse` (`socket.cpp:251-262`) reads on as long as lines without
the end sequence come, and the timeout is that of one `recv`; pieces of further text that follow each
other run together to one, which keeps the number of states finite and changes nothing in what is
compared. The variable `mode` is chosen
in the initial state and never changes: `perCommand` stands for `NEW_SOCKET_PER_COMMAND`,
`concurrent` for an application that calls from several threads at once, and `maxID` bounds the
numbers. One theorem so covers all modes; a property that holds in some of them only
says so in its statement. A command is its number, an answer the number and the piece; the texts and
hex digits are left out. Use of a freed socket sets `ub`, after which nothing is promised.

`RemoteService` says what a caller may rely on: command numbers are not reused and an answer is
delivered to the call that numbered the command. `ImplementsService` states that `RemoteProxy`
implements it, with `issued <- nextCommandID`, for calls that do not overlap.

### CardHandles, CardSessions, CardSessionsProofs

`CardSessions` holds the maps and the counter. `SCardConnect` on a virtual reader is three steps
(increment, read of the counter and entry in the maps, answer of the proxy: `SCardConnect`,
`TakeCardID`, `ConnectReply`), on a physical reader one (`SCardConnectOriginal`, or its failure,
after which `*phCard` may be what it was: `OutParamKept`). `HandleCall` and `SCardTransmit` route a
call by `IsRemoteCard` and `GetReaderName`. The refresh of the readers is a step for the list, one for
every ATR and one for the static readers that are inserted at the end. The original library hands out
handles of its own, disjoint from the small numbers the stub makes up. The application uses a handle
only while its session is open; `held` is what it believes to have, `served` records for the last
call which reader it meant and which it reached.

`CardHandles` is the promise: a new handle is not that of another open session, a call on a handle is a
call on an open session and reaches its card on its side (`Call`), and a call that names a reader is
made at the proxy for a static reader and at the original library for a physical one (`Ask`). `last`
records for the last call the handle it was made on, so that the two kinds cannot be taken for each
other. `ImplementsHandles` states the refinement.

### Transmit, TransmitProofs

One process per thread, in `SCardTransmit` (l.571-775): copy and saving of the command
(`SCardTransmit`), incoming rules and the byte counter (`ApplyIncomingRules`), padding by
`FORCE_APDU_NONZERO_INPUT_DATA` and the exchange (`SendCommand`), each GET RESPONSE of the loop
(`GetResponse`, `ReadoutDone`), saving of the answer (`SaveOutgoing`), outgoing rules
(`ApplyOutgoingRules`). Rules are a constant, a sequence of records as `LoadRule` builds them.
Buffers are functions on all indices with a special value for bytes nobody has set, so that an
uninitialised byte that is sent shows. `ApplyRules` is written without the loops of the code: the
set of matching rules, and for each element the last write. Status bytes and lengths are small
numbers (`MaxByte` in place of 255); `NextOffset` keeps the wrap-around of l.712. The card is an
environment: it executes a command or fails, holds data, announces it with `61xx` or `6Cxx` and
delivers at most `Chunk` bytes at a time. `cardBytes` are all bytes it was sent since `SCardConnectW`,
those of every GET RESPONSE and of the padding included; `MaxSent` bounds how often a GET RESPONSE can
fail and be sent again.

### Conversions, ReaderList, ReaderListProofs

`Conversions` has the conversions of `CCommonFnc` between bytes and text: hexadecimal and Base64 in
both directions, and the splitting of a list of names. A character is its code, since the conversions
are what the properties are about: the proxy announces its readers as text, some of the names in
Base64, and the stub tells those by their padding.

`SCardListReaders` (both variants, a parameter says which) first asks the proxy for its readers
(`RefreshReaders`: the answer is built by `Response` and taken apart by `Remote_ListReaders`), if there
is a connection (`connected`, settled at the start). The status of that exchange is not looked at
(l.3306), so without an answer the list becomes that of the static readers alone. Then it asks
for the length, decides, allocates;
`FetchReaders` gets the names, appends the virtual ones, reorders, hands out. `HotPlug` changes the
readers between them or at any other moment. Buffers are sequences of characters with a NUL. Slips of
the code that go outside a buffer are recorded in `overrun`. `Widened` is the copy into wide characters,
which extends the sign of codes from 128 on (`CommonFnc.cpp:503-505`); `Shown` are the virtual readers as
a variant lists them. The wide variant compares a preferred name by as many bytes as it has characters
(l.1262), which finds a name of one character and no longer one (`Comparable`).

### PacketTree, PacketTreeProofs, PacketCountProofs

One action per kind of line of the log, as `Parser.handleABDULine` distinguishes them, including the
exceptions that end the reading; then one action per turn of the loop of `simplifyNodes` and one per
tree that is written. `merge` is the whole of `Tree.merge`: the walk down the tree (`Walk`, whose
stops are made by `Arrive` as long as the stream `GoesOn`), the division of a node, the new leaf and
the counters. Nodes are records in a sequence, an index is `Node.identifier`; a child map is a
function, changed by `put` as `Map.put` does. The recursions (the walk, the way up from a leaf, the
loop over the packets) are recursive functions, so that theorems about them can be proved. What is written is the grouping of equal commands and answers with their counts;
its text is left out. `log` remembers what was read.

### KeyValueMap, IniDictionary

`IniDictionary` is the dictionary with its parallel arrays, one action per function that changes it
(`New`, `Set`, `Unset`, `Del`; `SetFails` when the arrays are full and cannot grow). `Used` are the
slots with a key. A new entry goes to the first free slot from slot `n` on, around the end, as the
search of `dictionary_set` (l.221) finds it. `outOfMemory` says whether allocations may fail: the
growth of the arrays, and the copies of a key or a value, whose failure nothing looks at. The hash is
a constant operator: what holds, holds for every hash function, collisions included. The
allocations of an empty dictionary are taken to succeed. `KeyValueMap` is the promise, a map from names
to values; `ImplementsMap` is the refinement, with `Contents` as the map.

### IniFile, IniFileProofs

`iniparser_load`, one action per turn of its loop: `TooLong`, `Continue` (a line that ends in a
backslash), `TakeLine` (`iniparser_line` and the entry into the dictionary, which may find no room),
`Finish`; then the changes the application may make (`Edit`) and `Free`. A line is a sequence of
tokens: brackets, `=`, comment mark, quote, backslash and words, each taken for one character; `Lower`
says which words have capitals, and names are folded with it as `strlwc` does; blanks are left out,
every line ends with a newline, and a line is too long when it has more than `ASCIILINESZ` tokens.
When memory runs out the copy of a line may fail, and the line counts as empty (l.889, `Statuses`). The
line `[]` names no section: what is in the buffer stays, cut to less than the length of the line
(l.905, `NameIn`). Lookups, enumeration of sections and keys and `DumpIni` read the dictionary in the
order of its arrays. `Meaning` says what the lines of a file mean, without a dictionary, line by line,
when some of them are lost. A saved line is measured by `Columns`: the key takes at least `KeyWidth`
columns (30 in the code), the equals sign and its blanks three.

### RuleLoader, OriginalLibrary, Startup, StartupProofs

`RuleLoader` holds what a section does: `LoadSettings` for `[WINSCARD]` and `[REMOTE]`, `RuleOf` for a
section whose name begins with RULE. The elements of a MATCH or ACTION line are cut at their commas
(`Commas`, `Parts`); an element that has no comma after it is not seen, and of the MATCH lines only
MATCH1 is looked for, because l.3935 leaves out the colon of the name. Elements are taken to have an
`=`. Numbers have the digits 0 to 4. `Defaults` are those of a build without `TRAFFIC_LOGGING`.

`OriginalLibrary` is the table of pointers: the pairs of `initialize` in their order, with the place
where it gives up (`FirstMissing`), and the pointer each exported function calls through. It repeats
the source's names, since a mix-up of two names is what the property is about.

`Startup` composes both with `IniFile` and the socket count: `FindRules`, `Parse`, one `LoadRule` for
each section, `RulesLoaded`, `LogPaths`, `Remote_Connect`, `SendTag`, `Initialize`, then commands to
the proxy (`SendCommand`), calls through pointers that were not resolved (`CallOfMissing`), and
`Unload`, `Destroy`. On Windows this is `InitInstance`, whose answer ends a process without the original
library; on Linux it is the constructor, which drops the answer and has no remoting. An exception of
`LoadRule` ends the process. The sockets are those of a single thread; what several threads do to them
is `RemoteProxy`.

## 3. What the runs check

Each run names its properties in its cfg; their comments in the modules say what they mean. Every
property of a passing run has a mutant: an operator named `Definition_Fault`, next to the
definition it varies, with which TLC finds the property violated.

| Run | Configuration | Shows |
|---|---|---|
| `remote` | 2 threads taking turns, both socket modes | `OwnAnswer`, `AcceptedInSync`, `NoUseAfterFree`, `EveryCallReturns`, `ImplementsService` |
| `remote_swapped_answers` | 2 threads at once | `AnswersNeverSwapped` is **violated** |
| `remote_dangling` | a socket for each command, a proxy that refuses once | `NeverDangling` is **violated** |
| `sessions_serial` | 1 context, calls one after another | `RightReader`, `HandleUnique`, `ListsAgree`, `ImplementsHandles` |
| `sessions_physical` | 2 threads, 2 contexts, `SCardConnectW` | `PhysicalUndisturbed` |
| `sessions_two_contexts` | 2 contexts | `RightReader` is **violated** |
| `transmit_serial` | 2 threads that take turns, 4 rules, all switches | `OnlyRulesChange`, `RulesSeeOwnExchange`, `AnswerComplete`, `FailureIsEmpty`, `BytesCounted`, `AsksForHeldData` |
| `transmit_chunks` | a card that delivers one byte at a time | `AnswerComplete` is **violated** |
| `reader_list` | both variants, 3 buffer sizes, 3 preferences, plain and coded names from the proxy | `ListComplete`, `StaysInBuffer`, `OwnedIsListed`, `ReadersAsAnnounced`, `WideQuerySuffices` |
| `packet_tree` | 2 headers, packets that share bytes, logs of 4 lines | `PacketsReadBack`, `TreeShape`, `CountsExact`, `PrintedIsComplete` |
| `ini_file` | all files of 3 lines out of 13, with and without memory, 2 changes afterwards | `ArraysConsistent`, `LoadsWhatIsWritten`, `RefusedAsAWhole`, `SavedReadsBack`, `ImplementsMap` |
| `start_up` | both builds, all rules files of 2 blocks out of 10, 6 original libraries, 2 commands | `LoadedAsWritten`, `CallsReachTheirName`, `SocketsBalanced` |

The type invariant is part of the first run of each module.

**Where code and comments disagree.** Four disagreements have runs that are violated (`findings` in
`PROJECT.json`):

1. l.3518: the ID an answer is compared with is the shared counter, read after the answer has
   arrived. With two threads a call accepts the other's answer (`remote_swapped_answers`).
2. l.3486: the socket is deleted before the new one exists. When the constructor throws, the pointer
   designates freed memory (`remote_dangling`).
3. l.207 (and l.228): establishing or releasing a context empties the maps of all contexts
   (`sessions_two_contexts`).
4. l.712: offset and length of a GET RESPONSE are not accumulated. Of an answer in several pieces the
   application gets the head, as many bytes as the last piece has; from the third piece on bytes are
   also overwritten (`transmit_chunks`).

The others are stated as properties and have no run of their own. Each is violated when it is put into
the configuration named, in place of the properties there:

| Property | Module | Configuration | What it meets |
|---|---|---|---|
| `CommandsNumberedApart` | `RemoteProxy` | `RemoteSwappedAnswers.cfg` | l.3504: the counter is raised in two steps and read again when the command is written; two threads send their commands under one number |
| `StaticAlwaysShown` | `CardSessions` | `SessionsSerial.cfg` with two threads and `Concurrent = TRUE` | l.887: while the readers are refreshed those of the rules file, "always shown", are not in the list; another thread's call that names one goes to the original library |
| `EveryByteCounted` | `Transmit` | `TransmitSerial.cfg` | l.650: the bytes "send to card" are counted once, before the exchange; every GET RESPONSE and the padding go uncounted |
| `AnsiQuerySuffices` | `ReaderList` | `ReaderList.cfg` | l.987: the ANSI variant of `SCardListReaders` answers a length query with two less than it demands (l.985); a call with a buffer of that length is refused |
| `WideNamesKept` | `ReaderList` | `ReaderList.cfg` | `CommonFnc.cpp:504`: a character from 128 on becomes another one in the wide list |
| `SavedIsLoadable` | `IniFile` | `IniFile.cfg` | `iniparser_all.h:569`: keys are padded when they are saved, and a value that was loaded may be saved in a line that is too long to be loaded |
| `LastElementCounts` | `Startup` | `Startup.cfg` | l.3862, l.3959: an element without a comma behind it is not part of the rule. The example in `src/README.md:139-140` has none at the end of its lines, so its `data0` is lost in both; the test (`src/WinscardTests/main.cpp:252`) writes it |
| `DataStartOnPosition` | `Startup` | `Startup.cfg` | l.3910: the data of a MATCH line start at position 0, whatever position the name says |

Some properties say what the code does where it does less than one would expect, and name the
exception in their statement: `EveryCallReturns` (a proxy that goes on writing an answer for ever keeps
the call for ever), `StaysInBuffer` (a reader plugged in between the two inner calls),
`ListComplete` (what the wide variant moves and shows), `ReadersAsAnnounced` (a coded name without
padding is shown as it was sent; without an answer only the static readers are left),
`PacketsReadBack` (a packet that ends inside a node is written with the bytes of a longer one,
`Tree.java:173`), `CountsExact` (a division leaves wrong counts, `Node.java:80`), `OnlyRulesChange`
(commands whose fifth byte is not their length), `SavedReadsBack` (lines that are too long). Each
exception is listed with its line under `hazards`, where a hazard without a property, or with one that
does not catch it, says so.

`LoadedAsWritten` compares the elementary rules byte by byte, element, place, value, direction and
history, for lines that end with a comma and, on data, for positions that the code does read: 0 in a
MATCH line, any in the ACTION line of a section with a digit right after RULE. A file with a faulty line
gives no settings and no rules, but like every file that was found it makes the rules active. `CallsReachTheirName`
excepts the functions that may be missing; one of them, `SCardDlgExtendedError`, always is, because
l.3049 looks it up under a name that ends in a blank. `SocketsBalanced` counts the sockets whose
constructor threw after it had raised the count (`socket.cpp:53-63`): for each of them Winsock stays
started to the end.

**Bounds.** `maxID` (6) allows at least two APDUs, each of which takes
two numbers, one of them late: the shortest mix-up needs two. `MaxCardID` (4, 2, 3) allows a handle to
be given out, closed and given out again. `MaxCalls` (2) is the number of exchanges in the history,
enough for a rule that looks one command back; the rules of `MCTransmit` contain two that write the
same byte, one that looks at the previous answer and one that sets a length. `MaxByte` (5) is the
largest byte: large enough for the four status bytes to differ and for lengths that do not fit a
chunk; with `MaxSent` (20) a GET RESPONSE may fail and be sent again several times. In `ReaderList` the sizes 4, 7 and 12 are exact for some of the combinations of lists and too small or
too large for the others; the preferred names have one, two and four characters; the coded names have no, one and two characters
of padding, and one of them a character above 127; `MaxAllocs` (2) allows lists of both kinds at once. `MaxLines`
(4) is enough for a node that is divided twice and for a command that is repeated with another answer.
A dictionary of `DICTMINSZ` = 2 slots grows once or twice in three lines and two edits, and wraps around after
an `unset`; the hash is the length of the name, so that names collide. Of the thirteen lines four are
continued, one of them twice, one is faulty, and one exceeds `ASCIILINESZ` = 8 when it is appended to
another; one section has a name of two characters, which `[]` cuts. With `KeyWidth` = 2 a saved line may
be longer than any that was read. Two blocks of the rules file are
enough for a setting that is given twice and for rules in either order; one rule has several elements,
data and a history, one is for answers, one has no commas at its ends; with `MaxCommands` = 2 the second
command meets the socket of the first.

**Fairness.** Only `RemoteProxy` has a liveness property. It assumes weak fairness of each thread's
next step inside the library, and of nothing else: not that the proxy answers, nor that the
application calls. A `recv` that would block is a step that is always enabled, because the socket has
a receive timeout (`REMOTE_SOCKET_TIMEOUT`, `socket.cpp:108`), so `ReceiveNothing` may happen at any
moment. Each piece of text starts that time anew, which is why `EveryCallReturns` excepts a proxy that
continues an answer infinitely often. It is checked for calls that take turns, like the other properties of `remote`; with overlapping calls
the number of states is beyond a run of some minutes. No step of one thread waits for another, and
that overlapping calls use no deleted socket either is proved (`PersistentNoUseAfterFree`). The GET RESPONSE loop of `Transmit` has no liveness property: `AsksForHeldData` says that a
GET RESPONSE is sent only while the card holds data and the card delivers at least one byte per
exchange, so the loop ends when exchanges succeed; when they keep failing it does not (l.681 looks at
an old status), which is listed as a hazard.

**Deadlock** is not checked for `RemoteProxy` and `CardSessions`, whose bounds on numbers end every
behaviour, nor for `PacketTree`, `IniFile` and `Startup`, which end when all is written, freed or
unloaded; it is checked for the other two.

## 4. What is proved

TLAPS checks these theorems for all values of the constants that satisfy the named assumptions
(`ConstantsAssumption`, `SessionsAssumption`, `TransmitAssumption`, `ReaderListAssumption`,
`PacketTreeAssumption`, `DictionaryAssumption`, `IniFileAssumption`, `StartupAssumption`). These
are about types and bounds, but for a few facts of the code: names hold no NUL, so that the first NUL
ends a name; a header has `HeaderLength` bytes and an answer is not empty, as the parser's patterns
demand; the null pointer is no name or value; a lower-case word stays as it is in lower case. One is a
restriction: a preferred reader's name holds no character 255, two of which would look like one wide
character.

| Module | Theorem | Statement |
|---|---|---|
| `RemoteProxyProofs` | `TypeCorrect` | `Spec => []TypeOK` |
| | `PersistentNoUseAfterFree` | `NoUseAfterFree`: with a persistent connection no deleted socket is used, whatever the threads do |
| | `SerialOwnAnswer` | `OwnAnswer`, in both socket modes |
| | `SerialInSync` | `AcceptedInSync`, in both socket modes |
| | `SerialImplementsService` | `ImplementsService`: the refinement of `RemoteService` |
| `CardSessionsProofs` | `TypeCorrect` | `Spec => []TypeOK` |
| | `PhysicalSafe` | `PhysicalUndisturbed`, in every mode of use |
| | `SequentialReaders`, `SequentialHandles`, `SequentialLists` | `RightReader`, `HandleUnique`, `ListsAgree`, if `Sequential` |
| | `SequentialImplements` | `ImplementsHandles`: the refinement of `CardHandles`, in which a call on a handle reaches the card of its session, if `Sequential` |
| `TransmitProofs` | `TypeCorrect` | `Spec => []TypeOK` |
| | `RulesAreLocal` | `OnlyRulesChange`, of the command that is sent, overlapping calls included |
| | `FailedCallsAreEmpty` | `FailureIsEmpty`, overlapping calls included |
| | `SerialHistory` | when calls do not overlap, `RulesSeeOwnExchange` |
| | `WholeAnswers` | `AnswerComplete`, if `OnePiece` |
| | `AsksOnlyForHeld` | `AsksForHeldData`, if `OnePiece` |
| | `SerialBytes` | when calls do not overlap, `BytesCounted`: never more than was sent, and exactly that without automatic GET RESPONSE and padding |
| `ReaderListProofs` | `TypeCorrect` | `Spec => []TypeOK` |
| | `AllReadersListed` | `ListComplete`, for every set of readers, announcement, preference and size of buffer |
| | `BufferIsKept` | `StaysInBuffer` |
| | `AllocatedIsListed` | `OwnedIsListed` |
| | `QueryThenFetch` | `WideQuerySuffices`, an action property: whatever calls lie between the two |
| | `ReadersFollowTheAnnouncement` | `ReadersAsAnnounced`, for names and announcements of any length |
| `PacketTreeProofs` | `NodesStayTyped` | `Spec => []TypeOK` |
| | `TreesKeepTheirShape` | `TreeShape`, for logs of any length |
| | `LogReadsBack`, `NumbersFollowTheLog` | `PacketsReadBack` and its part `AcInOrder` |
| | `PrintedStaysComplete` | `PrintedIsComplete` |
| `PacketCountProofs` | `CountsFollowTheLog` | `CountsExact`, for logs of any length and any divisions |
| `IniFileProofs` | `DictionaryTypeCorrect` | `Spec => []TypeOK` |
| | `ArraysStayConsistent` | `ArraysConsistent` |
| | `DictionaryImplementsMap` | `ImplementsMap`: the refinement of `KeyValueMap` |
| | `LoaderUsesDictionary` | `FileSpec => Spec`: a loader's behaviour is one of the dictionary |
| | `FileTypeCorrect` | `FileTypeOK` |
| | `BadLineCostsTheFile` | `RefusedAsAWhole`, for every file |
| | `LoadedIsWritten` | `LoadsWhatIsWritten`, for every file and every failed allocation, lost lines included |
| | `SavedFileReadsBack` | `SavedReadsBack`, for every dictionary that can be saved in lines that are not too long |
| | `LoadedArraysConsistent`, `LoaderImplementsMap` | `ArraysConsistent` and `ImplementsMap` of the loader |
| `StartupProofs` | `StartLoadsFile` | `StartSpec => FileSpec`: the start uses the loader as it is |
| | `StartTypeCorrect` | `StartTypeOK` |
| | `SocketsStayBalanced` | `SocketsBalanced`, for any number of commands: Winsock stays started for the sockets whose constructor threw, and for no others |
| | `CallsReachTheRightFunction` | `CallsReachTheirName`, whatever the original library lacks |

The properties of `RemoteProxy` name the modes they are about, so its theorems need no further
assumption. `Sequential` is one context, calls that do not overlap, no `SCardConnectW` while the proxy is
connected, and an original library that clears the handle of a connect that failed. Each of these is
needed: without it one of these properties fails, as the run `sessions_two_contexts` shows for the
contexts and the `hazards` at l.809, l.812, l.886 and l.1375 say for the others. `OnePiece` says that a card's
data fits into one of its responses, and that the status bytes of success and of refusal are not among
those that announce data (0x90 and 0x69 are not 0x61 or 0x6C); without its first part `AnswerComplete`
fails, as the run `transmit_chunks` shows.

**Arguments.**

*SerialOwnAnswer* rests on `SerialInv`. `OwnAnswer` alone is not inductive: a late
answer may be in the connection, and that it is refused follows only if the ID compared is the one
sent (`SentIDCurrent`), if a head on the connection is followed by its own rest (`WireInOrder`), and
if what has been received is the beginning of such an answer (`BufferInOrder`).

*SerialInSync* and *SerialImplementsService* add `NumbersInv`. The numbers under way ascend from what the
waiting thread has received, over the pieces on the connection and the answer being written, to the
requests the proxy has not read (`NumbersAscend`), and none exceeds the counter; while a thread is
about to send, all are below it (`NumbersIssued`). An accepted answer carries the counter's own value,
so nothing can be behind it; and a number is always new when it is sent, which is the guard of
`RemoteService`'s `Issue`. The initial states map to initial states, a store of the counter to `Skip`, a
send to `Issue`, an accepted answer to `Deliver`, every other return to `GiveUp`, all else to stutters.

*PhysicalSafe* rests on `PhysicalInv`: every physical session is an open card of the original library,
under its reader, and remote sessions have handles from the stub's own range, so that no state of the
maps, however wrong, can route a physical handle elsewhere.

The *Sequential* theorems rest on `SessionsInv`: at most one thread is inside and its step determines
which part of its connect is done (`OneAtATime`), a number taken is not yet in the maps (`FreshCardID`),
every remote session is in both maps under its reader (`RemoteSessions`), readers that wait for their ATR
are listed (`RefreshPending`), and no handle is 0 (`NoZeroHandle`), the value a failed call leaves behind.

*RulesAreLocal* and *FailedCallsAreEmpty* rest on `TransmitInv`: until a command is sent, the local
buffer is the application's command or is derived from it by the rules applied; the loop's index comes
from a length that fits. The lemma behind it, `LastWrittenFacts`, says that the last write to an element
exists whenever there is one; it is taken from the well-foundedness of the naturals. *SerialHistory*
rests on `HistoryInv`: at most one thread is inside, its command is the newest of the one list and the
other list is one shorter until the answer is saved.

*WholeAnswers* and *AsksOnlyForHeld* rest on `AnswerInv`: in the readout loop, what the application's
buffer holds either announces all the data the card has (`Announced`: offset 0, length 2, the second byte
its length) or is already the answer that is due (`Intact`) and ends the loop; after the loop it is
intact until the outgoing rules. `AnswerComplete` speaks of the thread at rest only and is not inductive.
The lemmas it rests on are about the card: an answer of two bytes whose first announces data announces
all of it (`CardFacts`), and a card asked for as many bytes as it holds delivers them at once
(`FetchAll`). *SerialBytes* rests on `BytesInv`: between the incoming rules and the exchange the counter
is ahead of the card by no more than the command of the one thread that is inside, and never ahead of
it at other times; it is exactly so when neither switch lets the library send bytes of its own.

The dictionary's theorems rest on `DictInv`: besides being distinct, the keys carry their own hash
(otherwise a search would miss one and `dictionary_set` would enter it twice), and at most `n` slots are
used (`n` equals them unless a copy failed). From the count and the test for a full dictionary follows
that a free slot exists, so that the search of l.221 ends and hits no other entry; `SetIsUpdate` and
`UnsetIsErase` then say that a change of the arrays is the change of the map.

The theorems of `ReaderList` rest on `Inv`. `Ownership`: every buffer the application holds is listed
once, in one of the two lists, and the one a call is filling is allocated and not yet listed; this is
`OwnedIsListed` with what a call under way adds to it. `Prepared`: between the two calls of the original
library the buffer is empty, and large enough for both lists if no reader has come or gone. `Queried`:
the answer to a query that is not stale is the length of the present lists. `ListComplete` then is a
statement about sequences: the serialised lists, one written behind the other, are the serialisation of
the joined list (by induction over the number of names), and a name without a NUL that occurs in a
serialised list lies within one name of it, so that the reordering moves a whole name.

*ReadersFollowTheAnnouncement* is about the conversions; the state only has to keep what the last
announcement gave. `DecodedIsEncoded` says that Base64 is decoded to what was encoded: three bytes give four
sextets that give the bytes back (`BytesOfSextets`), a text of *n* bytes has `Standing(n)` characters
before its padding (`EncodedChars`, `CodedOfEncoded`), and that many characters stand for *n* bytes
(`DecodedLengthOf`). `ParsedIsList` says that a list of items, joined by separators, is taken apart into
the same items: `EndsAt` says where each item ends in the joined text, `IsParted` what stands between; the
separators are exactly at these ends (`SeparatorsAtEnds`), so that the *k*-th beginning the parser finds
is that of the *k*-th item (`NthBegins`) and the item ends before the next separator (`ItemStops`).
`Transparent` enters twice: such a name is an item, and the last character of a list of such names is
no blank, so that only the line end is trimmed (`TrimmedAnswer`).

The theorems of `PacketTree` rest on what no change of the trees changes. A node has a *path*, the bytes
from its root to its own last byte, and a root above it. The nodes are a `Forest` if such paths and roots
exist; they are then the only ones. `Grown` says that a forest has become a larger one in which every
old node has its old path and its old root: so it is for counting, a new leaf, a division (the divided
node keeps its path, the new node has the first part of it) and a turn of `simplifyNodes`. A leaf, once
found, therefore reads the same for ever. `StateOK` is the forest with the trees in it (`TreesFit`);
`TreeShape` and `TypeOK` follow from it. `Arrived` is the invariant of the walk down a tree: the path of
the node reached, cut after the bytes shared, and the rest of the stream make up the stream; `Merged` is
what `merge` does, whichever branch it takes. `LogOK` adds that each leaf reads as its text or as
a longer one read before, and that every node is the beginning of a text that was read (`Covered`):
without the second part it could not be said what a packet that ends inside a node is written as.
`NumberOK` adds that line *k* of a header belongs to packet *k* of its tree, and that the numbers given
are below `ac` and in the order of the lines. `PrintOK` says that while files are written, each tree is
printed, still to be printed, or excused by a packet without an answer, and that what is printed is
`Summary`, the sets of packets with a command and with an answer to it in place of the loop.

`PacketCountProofs` adds the counts. A stream passes the nodes whose path, up to their first byte (`Key`),
is a prefix of it (`Passed`). `Along` is the invariant of the walk about them: every node of the walk is
passed, and a passed node below one the walk has left is on the walk; so in the end exactly the `Passed`
nodes have been counted (`CountsMerged`), whichever branch `merge` takes. `CountOK` is the
invariant: for both trees of each header, with the texts of the lines read so far, the root counts the
texts, every node outside `split` counts the texts that pass it, and for every text there is a node it
is the front of (`Represented`). The last part is needed for a node that `merge` adds with a count of one:
an earlier text that passed it would have had a node there already. It also holds for texts that end
inside a node, which is why it speaks of a front. The answers of a tree are those of its lines one after the
other (`FlattenSeq`), and the answer to the last command is the last of them; `AnswerTexts` says so.
`Reaching`, which the property counts with, looks at the texts without the header; `PassingReaches` shows
that this makes no difference.

*LoaderUsesDictionary* and *StartLoadsFile* are step simulations without a mapping: what is proved of the
dictionary holds for the loader, and what is proved of the loader for the start. *BadLineCostsTheFile*
and *LoadedIsWritten* rest on `LoadInv`: the text kept from continued lines is what a
reading of the file up to `lineno` gives (`LinesRead`), and there are lines, none while memory does not
run out, without which the file means the section that is open and, but for entries and values that
found no room, what the dictionary holds (`LinesMeant`). A line that is taken is lost or not; the
lines before it mean what they meant, since the meaning of lines does not look at later ones
(`MeaningOfLinesBefore`). The induction is over the number of lines.

*SavedFileReadsBack* is about the dictionaries that can be saved (`CanBeSaved`) in lines of an allowed
length (`SavedFits`): the section without a
name comes first, since `[]` leaves the name before it, or its start, in force; every key is in a section that has an
entry, since the others are not written; and names and values hold no mark that would be read as
something else, which the application could give them but a file could not, quotes apart. It needs that
names are kept in lower case (`LowerOK`, an invariant of the loader and of every change), because
reading folds them. The blocks of the sections are appended one by one (`FlattenSeq`), and by induction
over them each line has an entry it was written for (`SavedOrder`): a section, or a key of the section of the
line before. Each line alone is read as its entry (`LineReadsAs`), no line continues another, so the
section at a line is that of its entry (`SavedSections`), and all entries occur (`SavedMeansContents`).
`Lower` is assumed to give words without capitals, and the backslash to be neither `]` nor `=`.

The sockets of `Startup` are proved from `SocketsOK`: the count is the number of sockets whose constructor
threw, and one if there is a usable one, and Winsock is started when it is positive. The pointers are
proved from `PointersOK`: all untouched, or all resolved up to the first function that is missing; that
the table assigns each name its own function is checked pair by pair.

**Only model-checked:**

* `EveryCallReturns`: liveness is beyond the prover.
* `LoadedAsWritten`: what a rule of the file becomes, since it relates the folds of `RuleLoader` over
  the elements of a line to a second description of the same line, byte by byte.

## 5. What is not modelled, and why

* Log files, the delay of a rule and all formatting: they change no state the properties see. The
  instruction file (`WriteDescription`) only yields log texts.
* Lengths beyond the application's buffers in `SCardTransmit`: its buffers are taken to be large enough.
  The proxy's answer is copied without regard to the size of the buffer (l.3623), which a model with
  such buffers cannot show; the hazard is listed without a property.
* Rules that look at an earlier *answer* (`history` > 0 in output direction): `GetApduFromHistory`
  does not return for them (l.3452). A model of a call that never returns would end every behaviour
  that meets such a rule, so `TransmitAssumption` excludes them; listed without a property.
* The growth of the history lists (l.745): every exchange adds 300 bytes to each and nothing shortens
  them, by the shape of the code; a bound on the number of calls hides it, and no property could say
  more, so it is no entry of `hazards`.
* The builds with UNICODE strings (l.4181-4517): the functions above with wide strings; they do not
  compile, since l.4459 calls `GetDesktopPath` without its argument.
* `SocketServer`, `SocketSelect`, `ReceiveLineToMemory`, `ReceiveLineToFile`, and the copying of sockets
  with its reference count: nothing in the library uses them.
* The hex conversions are modelled on their own: `RemoteProxy` treats a command as its number, and what
  the proxy does with the text is not part of the repository.
* Text that `SCardStatus` and `SCardGetAttrib` give the application for a virtual reader. `SCardState`
  and `SCardStatusW` return for remote cards before they write any output.
* The drawings and the flow graph of the visualiser, the tables of status texts, the tests and the
  vendored Catch header.

## 6. Order of the work, and what could follow

The modules were written in the order of importance of what they model: the protocol with the proxy,
handles and routing, rules and history, reader lists, the trees of the log parser, the dictionary and
its files, the start and the end; the proofs in the same order. What could follow:

1. `LoadedAsWritten`, one kind of element after the other.
2. `CardSessions` composed with `RemoteProxy`, so that the answer `ConnectReply` gets is one that the
   protocol delivers. Both refine what the composition needs (`RemoteService`, `CardHandles`); the
   product of the two instances is too large for TLC at the bounds that show anything.
