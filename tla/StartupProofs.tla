--------------------------- MODULE StartupProofs ---------------------------
(***************************************************************************)
(* Proofs about the life of the library: it loads its file with the loader *)
(* of IniFile, its variables have their types, the count of the sockets    *)
(* fits, and calls that are handed on reach the function they are meant    *)
(* for.  Each is an invariant of its own, inductive with the types.        *)
(***************************************************************************)
EXTENDS Startup, IniFileProofs

-----------------------------------------------------------------------------
(* The start and the file                                                  *)

LEMMA StartStepsFile ==
  ASSUME [StartNext]_vars
  PROVE  [FileNext]_fileVars
<1>1. CASE Parse
  BY <1>1 DEF Parse, FileNext
<1>2. CASE RulesLoaded
  BY <1>2 DEF RulesLoaded, FileNext
<1>3. CASE LoadRule
  BY <1>3 DEF LoadRule
<1>4. CASE FindRules \/ LogPaths \/ Remote_Connect \/ SendTag \/ SendCommand \/ Initialize
           \/ Unload \/ Destroy
  BY <1>4 DEF FindRules, LogPaths, Remote_Connect, SendTag, SendCommand, Initialize, Unload,
              Destroy
<1>5. CASE \E f \in Forwarded(build) : CallOfMissing(f)
  BY <1>5 DEF CallOfMissing
<1>6. CASE UNCHANGED vars
  BY <1>6 DEF vars
<1> QED
  BY <1>1, <1>2, <1>3, <1>4, <1>5, <1>6 DEF StartNext

\* The library loads its rules file with the loader as it is.
THEOREM StartLoadsFile == StartSpec => FileSpec
<1>1. StartInit => FileInit
  BY DEF StartInit
<1>2. [StartNext]_vars => [FileNext]_fileVars
  BY StartStepsFile
<1> QED
  BY <1>1, <1>2, PTL DEF StartSpec, FileSpec

-----------------------------------------------------------------------------
(* Types and sockets                                                       *)

Early == {"look", "parse", "paths", "connect", "tag"}

SocketsOK ==
  /\ lost \in Nat
  /\ nofSockets = lost + (IF pSocket \in {"open", "closed"} THEN 1 ELSE 0)
  /\ winsock = (nofSockets > 0)
  /\ pSocket \in {NULL, "open", "closed", "freed"}
  /\ phase \in Early => pSocket = NULL

RulesOK ==
  /\ ruleDir \in {"cwd", "env", "none"}
  /\ sections \in Nat
  /\ DOMAIN settings = DOMAIN Defaults
  /\ rulesActive \in BOOLEAN
  /\ logDir \in {"unset", "undefined", "forced", "cwd", "env"}

StartOK ==
  /\ build \in Builds
  /\ phase \in Phases
  /\ commands \in 0 .. MaxCommands
  /\ DOMAIN pointers = Pointers[build]

\* A step of one socket keeps the balance.
LEMMA RequestBalances ==
  ASSUME SocketsOK, Remote_SendRequest, pSocket # "freed",
         phase' \notin Early
  PROVE  SocketsOK'
<1> DEFINE perCommand == settings["new_socket_per_command"]
           deletes    == perCommand /\ pSocket # NULL
           n          == IF deletes THEN nofSockets - 1 ELSE nofSockets
<1>0. NULL \notin {"open", "closed", "freed"}
  BY StartupAssumption
<1>1. lost \in Nat /\ nofSockets \in Nat /\ winsock = (nofSockets > 0)
  BY DEF SocketsOK
<1>2. CASE pSocket = NULL \/ deletes
  <2>1. n = lost
    BY <1>0, <1>1, <1>2 DEF SocketsOK
  <2>2. \/ Connected(n) /\ pSocket' \in {"open", "closed"}
        \/ (NoSocket(n) \/ NotConnected(n)) /\ pSocket' \in {NULL, "freed"}
    BY <1>2 DEF Remote_SendRequest
  <2> HIDE DEF n
  <2>3. CASE Connected(n) /\ pSocket' \in {"open", "closed"}
    BY <1>0, <1>1, <2>1, <2>3 DEF Connected, Counted, SocketsOK
  <2>4. CASE NoSocket(n) /\ pSocket' \in {NULL, "freed"}
    BY <1>0, <1>1, <2>1, <2>4 DEF NoSocket, Counted, SocketsOK
  <2>5. CASE NotConnected(n) /\ pSocket' \in {NULL, "freed"}
    BY <1>0, <1>1, <2>1, <2>5 DEF NotConnected, Counted, SocketsOK
  <2> QED
    BY <2>2, <2>3, <2>4, <2>5
<1>3. CASE ~(pSocket = NULL \/ deletes)
  BY <1>3 DEF Remote_SendRequest, SocketsOK
<1> QED
  BY <1>2, <1>3

LEMMA SocketsOKStep ==
  ASSUME SocketsOK, [StartNext]_vars
  PROVE  SocketsOK'
<1>0. NULL \notin {"open", "closed", "freed"} /\ lost \in Nat /\ nofSockets \in Nat
  BY StartupAssumption DEF SocketsOK
<1>1. CASE FindRules \/ Parse \/ LoadRule \/ RulesLoaded \/ LogPaths
  <2>1. UNCHANGED <<pSocket, nofSockets, lost, winsock, commands>> /\ phase \in Early
    BY <1>1 DEF FindRules, Parse, LoadRule, RulesLoaded, LogPaths, sockets, Phase, Early
  <2> QED
    BY <2>1 DEF SocketsOK
<1>2. CASE Remote_Connect
  <2>1. UNCHANGED pSocket /\ phase \in Early
        /\ (NoSocket(nofSockets) \/ NotConnected(nofSockets))
    BY <1>2 DEF Remote_Connect, Phase, Early
  <2> QED
    BY <1>0, <2>1 DEF SocketsOK, NoSocket, NotConnected, Counted
<1>3. CASE SendTag
  <2>1. phase' \notin Early /\ pSocket = NULL
    BY <1>3 DEF SendTag, Phase, Early, SocketsOK
  <2>2. CASE Remote_SendRequest
    BY <1>0, <2>1, <2>2, RequestBalances
  <2>3. CASE UNCHANGED <<pSocket, nofSockets, winsock, lost>>
    BY <2>1, <2>3 DEF SocketsOK
  <2> QED
    BY <1>3, <2>2, <2>3 DEF SendTag
<1>4. CASE SendCommand
  <2>1. phase' \notin Early /\ pSocket # "freed" /\ Remote_SendRequest
    BY <1>4 DEF SendCommand, Phase, Early
  <2> QED
    BY <2>1, RequestBalances
<1>5. CASE Initialize \/ Unload \/ \E f \in Forwarded(build) : CallOfMissing(f)
  <2>1. UNCHANGED <<pSocket, nofSockets, lost, winsock, commands>> /\ phase' \notin Early
    BY <1>5 DEF Initialize, Unload, CallOfMissing, sockets, Phase, Early
  <2> QED
    BY <2>1 DEF SocketsOK
<1>6. CASE Destroy
  <2>1. phase' \notin Early /\ pSocket' = NULL /\ lost' = lost
    BY <1>6 DEF Destroy, Phase, Early
  <2>2. CASE pSocket \in {"open", "closed"}
    <3>1. nofSockets' = nofSockets - 1 /\ winsock' = (nofSockets' > 0)
      BY <1>6, <2>2 DEF Destroy, Counted
    <3> QED
      BY <1>0, <2>1, <2>2, <3>1 DEF SocketsOK
  <2>3. CASE pSocket \notin {"open", "closed"}
    <3>1. nofSockets' = nofSockets /\ winsock' = winsock
      BY <1>6, <2>3 DEF Destroy
    <3> QED
      BY <1>0, <2>1, <2>3, <3>1 DEF SocketsOK
  <2> QED
    BY <2>2, <2>3
<1>7. CASE UNCHANGED vars
  BY <1>7 DEF vars, sockets, SocketsOK
<1> QED
  BY <1>1, <1>2, <1>3, <1>4, <1>5, <1>6, <1>7 DEF StartNext

LEMMA SocketsOKHolds == StartSpec => []SocketsOK
<1>1. StartInit => SocketsOK
  <2>1. NULL \notin {"open", "closed", "freed"}
    BY StartupAssumption
  <2>a. SUFFICES ASSUME StartInit PROVE SocketsOK
    OBVIOUS
  <2>2. pSocket = NULL /\ nofSockets = 0 /\ lost = 0 /\ winsock = FALSE
    BY <2>a, Zenon DEF StartInit
  <2>3. nofSockets = lost + (IF pSocket \in {"open", "closed"} THEN 1 ELSE 0)
    <3>1. (IF pSocket \in {"open", "closed"} THEN 1 ELSE 0) = 0
      BY <2>1, <2>2, Zenon
    <3> QED
      BY <2>2, <3>1
  <2>4. winsock = (nofSockets > 0)
    <3>1. (0 > 0) = FALSE
      OBVIOUS
    <3> QED
      BY <2>2, <3>1, Zenon
  <2>5. lost \in Nat /\ pSocket \in {NULL, "open", "closed", "freed"}
        /\ (phase \in Early => pSocket = NULL)
    BY <2>2
  <2> QED
    BY <2>3, <2>4, <2>5, Zenon DEF SocketsOK
<1>2. SocketsOK /\ [StartNext]_vars => SocketsOK'
  BY SocketsOKStep
<1> QED
  BY <1>1, <1>2, PTL DEF StartSpec

\* The count of the sockets fits the sockets there are, and Winsock fits the count, over
\* every exchange that fails and every socket that is made anew (Socket.cpp).
THEOREM SocketsStayBalanced == StartSpec => []SocketsBalanced
<1>1. SocketsOK => SocketsBalanced
  BY DEF SocketsOK, SocketsBalanced
<1> QED
  BY <1>1, SocketsOKHolds, PTL

-----------------------------------------------------------------------------
(* Types                                                                   *)

LEMMA SettingsKeepTheirNames ==
  ASSUME NEW s, NEW d, NEW x, x \in {"winscard", "remote"}
  PROVE  DOMAIN LoadSettings(s, d, x) = DOMAIN s
  BY DEF LoadSettings

LEMMA OutcomeFields ==
  ASSUME NEW b \in Builds, NEW gap \in Gaps
  PROVE  LET exports == {Meant(b, p) : p \in Pointers[b]} \ gap
         IN  /\ Outcomes[b][gap].exports = exports
             /\ Outcomes[b][gap].pointers = Resolved(b, exports)
             /\ Outcomes[b][gap].answer = (FirstMissing(b, exports) = 0)
  BY Zenon DEF Outcomes

LEMMA ResolvedDomain ==
  ASSUME NEW b, NEW exports
  PROVE  DOMAIN Resolved(b, exports) = Pointers[b]
  BY DEF Resolved

LEMMA RulesOKStep ==
  ASSUME RulesOK, [StartNext]_vars
  PROVE  RulesOK'
<1>1. CASE FindRules
  BY <1>1 DEF FindRules, RulesOK
<1>2. CASE Parse
  BY <1>2 DEF Parse, rules, RulesOK
<1>3. CASE LoadRule
  <2>1. sections' = sections + 1 /\ UNCHANGED <<ruleDir, rulesActive, logDir>>
        /\ \/ settings' = LoadSettings(settings, dict, "winscard")
           \/ settings' = LoadSettings(settings, dict, "remote")
           \/ settings' = settings
    BY <1>3 DEF LoadRule
  <2>2. DOMAIN settings' = DOMAIN settings
    BY <2>1, SettingsKeepTheirNames
  <2> QED
    BY <2>1, <2>2 DEF RulesOK
<1>4. CASE RulesLoaded
  BY <1>4 DEF RulesLoaded, RulesOK
<1>5. CASE LogPaths
  BY <1>5 DEF LogPaths, RulesOK
<1>6. CASE Remote_Connect \/ SendTag \/ SendCommand \/ Initialize \/ Unload \/ Destroy
           \/ \E f \in Forwarded(build) : CallOfMissing(f)
  BY <1>6 DEF Remote_Connect, SendTag, SendCommand, Initialize, Unload, Destroy, CallOfMissing,
              rules, RulesOK
<1>7. CASE UNCHANGED vars
  BY <1>7 DEF vars, rules, RulesOK
<1> QED
  BY <1>1, <1>2, <1>3, <1>4, <1>5, <1>6, <1>7 DEF StartNext

LEMMA StartOKStep ==
  ASSUME StartOK, [StartNext]_vars
  PROVE  StartOK'
<1>0. commands \in Nat /\ MaxCommands \in Nat
  BY StartupAssumption DEF StartOK
<1>1. CASE FindRules \/ Parse \/ LoadRule \/ RulesLoaded \/ LogPaths
  <2>1. UNCHANGED <<build, commands, pointers>> /\ phase' \in Phases
    BY <1>1 DEF FindRules, Parse, LoadRule, RulesLoaded, LogPaths, sockets, library, Phase,
                Phases, StartOK
  <2> QED
    BY <2>1 DEF StartOK
<1>2. CASE Remote_Connect \/ SendTag \/ Unload \/ Destroy
           \/ \E f \in Forwarded(build) : CallOfMissing(f)
  <2>1. UNCHANGED <<build, commands, pointers>> /\ phase' \in Phases
    BY <1>2 DEF Remote_Connect, SendTag, Unload, Destroy, CallOfMissing, sockets, library, Phase,
                Phases
  <2> QED
    BY <2>1 DEF StartOK
<1>3. CASE SendCommand
  <2>1. UNCHANGED <<build, pointers, phase>> /\ commands < MaxCommands /\ commands' = commands + 1
    BY <1>3 DEF SendCommand, library, Phase
  <2> QED
    BY <1>0, <2>1 DEF StartOK
<1>4. CASE Initialize
  <2>1. UNCHANGED <<build, commands>> /\ phase' \in Phases
    BY <1>4 DEF Initialize, sockets, Phase, Phases
  <2>2. CASE UNCHANGED library
    BY <2>1, <2>2 DEF StartOK, library
  <2>3. CASE \E gap \in Gaps : pointers' = Outcomes[build][gap].pointers
    <3>1. PICK gap \in Gaps : pointers' = Outcomes[build][gap].pointers
      BY <2>3
    <3> DEFINE exports == {Meant(build, p) : p \in Pointers[build]} \ gap
    <3>2. Outcomes[build][gap].pointers = Resolved(build, exports)
      BY OutcomeFields, Zenon DEF StartOK
    <3>3. DOMAIN Resolved(build, exports) = Pointers[build]
      BY ResolvedDomain, Zenon
    <3>4. DOMAIN pointers' = Pointers[build]
      BY <3>1, <3>2, <3>3, Zenon
    <3> QED
      BY <2>1, <3>4 DEF StartOK
  <2> QED
    BY <1>4, <2>2, <2>3 DEF Initialize
<1>5. CASE UNCHANGED vars
  BY <1>5 DEF vars, sockets, library, StartOK
<1> QED
  BY <1>1, <1>2, <1>3, <1>4, <1>5 DEF StartNext

LEMMA TypesHold == StartSpec => [](RulesOK /\ StartOK)
<1>1. StartInit => RulesOK
  <2> SUFFICES ASSUME StartInit PROVE RulesOK
    OBVIOUS
  <2>1. ruleDir = "none" /\ sections = 0 /\ settings = Defaults /\ rulesActive = FALSE
                     /\ logDir = "unset"
    BY Zenon DEF StartInit
  <2> QED
    BY <2>1 DEF RulesOK
<1>2. StartInit => StartOK
  <2> SUFFICES ASSUME StartInit PROVE StartOK
    OBVIOUS
  <2>1. build \in Builds /\ phase = "look" /\ commands = 0
                     /\ pointers = [p \in Pointers[build] |-> Unresolved]
    BY Zenon DEF StartInit
  <2> QED
    BY <2>1, StartupAssumption DEF StartOK, Phases
<1>3. RulesOK /\ [StartNext]_vars => RulesOK'
  BY RulesOKStep
<1>4. StartOK /\ [StartNext]_vars => StartOK'
  BY StartOKStep
<1> QED
  BY <1>1, <1>2, <1>3, <1>4, PTL DEF StartSpec

\* The variables of the start, of the settings and of the end keep their types.
THEOREM StartTypeCorrect == StartSpec => []StartTypeOK
<1>1. FileTypeOK /\ RulesOK /\ StartOK /\ SocketsOK => StartTypeOK
  <2>1. SocketsOK => nofSockets \in Nat /\ winsock \in BOOLEAN
    BY DEF SocketsOK
  <2> QED
    BY <2>1 DEF RulesOK, StartOK, SocketsOK, StartTypeOK
<1> QED
  BY <1>1, StartLoadsFile, FileTypeCorrect, TypesHold, SocketsOKHolds, PTL

-----------------------------------------------------------------------------
(* The table of the pointers                                               *)

Items(s)      == {s[i] : i \in DOMAIN s}
IsTable(s)    == s \in Seq(Items(s))
PointersIn(s) == {r[1] : r \in Items(s)}

\* A row resolves its pointer by the symbol it is meant for; one name is misspelt.
Blank      == "SCardDlgExtendedError "
Misspelt   == <<"SCardDlgExtendedError", Blank>>
Fits(b, r) == r[1] # Blank /\ (r[2] = Meant(b, r[1]) \/ r = Misspelt)

Proper(b, s) == IsTable(s) /\ \A r \in Items(s) : Fits(b, r)

LEMMA TablesAreSequences ==
  ASSUME NEW n \in Nat, NEW s, s = [i \in 1 .. n |-> s[i]]
  PROVE  IsTable(s)
<1>1. s \in [1 .. n -> Items(s)]
  BY Zenon DEF Items
<1> QED
  BY <1>1 DEF IsTable

LEMMA Joining ==
  ASSUME NEW s, NEW t, IsTable(s), IsTable(t)
  PROVE  IsTable(s \o t) /\ Items(s \o t) = Items(s) \cup Items(t)
<1> DEFINE S == Items(s) \cup Items(t)
<1>0. s \in Seq(S) /\ t \in Seq(S)
  BY DEF IsTable
<1> HIDE DEF S
<1>1. s \o t \in Seq(S) /\ Len(s \o t) = Len(s) + Len(t) /\ Len(s) \in Nat /\ Len(t) \in Nat
  BY <1>0
<1>2. /\ DOMAIN s = 1 .. Len(s) /\ DOMAIN t = 1 .. Len(t)
      /\ DOMAIN (s \o t) = 1 .. Len(s) + Len(t)
  BY <1>0, <1>1
<1>3. ASSUME NEW i \in DOMAIN s PROVE i \in DOMAIN (s \o t) /\ (s \o t)[i] = s[i]
  BY <1>0, <1>1, <1>2
<1>4. ASSUME NEW i \in DOMAIN t
      PROVE  Len(s) + i \in DOMAIN (s \o t) /\ (s \o t)[Len(s) + i] = t[i]
  BY <1>0, <1>1, <1>2
<1>5. ASSUME NEW i \in DOMAIN (s \o t) PROVE (s \o t)[i] \in S
  BY <1>1, <1>2
<1>6. Items(s) \subseteq Items(s \o t)
  BY <1>3, Zenon DEF Items
<1>7. Items(t) \subseteq Items(s \o t)
  BY <1>4, Zenon DEF Items
<1>8. Items(s \o t) \subseteq S
  BY <1>5, Zenon DEF Items
<1>9. Items(s \o t) = S
  BY <1>6, <1>7, <1>8, Zenon DEF S
<1> QED
  BY <1>1, <1>9, Zenon DEF IsTable, S

Both(s, t) == s \o t

LEMMA ProperJoining ==
  ASSUME NEW b, NEW s, NEW t, Proper(b, s), Proper(b, t)
  PROVE  /\ Proper(b, Both(s, t))
         /\ PointersIn(Both(s, t)) = PointersIn(s) \cup PointersIn(t)
<1>1. IsTable(Both(s, t)) /\ Items(Both(s, t)) = Items(s) \cup Items(t)
  BY Joining DEF Proper, Both
<1> QED
  BY <1>1 DEF Proper, PointersIn

LEMMA OwnNamesFit ==
  ASSUME NEW b, NEW names, IsTable(names),
         Blank \notin Items(names), b = "linux" \/ Items(names) \cap DOMAIN AnsiVariant = {}
  PROVE  Proper(b, Own(names)) /\ PointersIn(Own(names)) = Items(names)
<1>1. Len(names) \in Nat /\ DOMAIN names = 1 .. Len(names)
  BY DEF IsTable
<1>2. Own(names) = [i \in 1 .. Len(names) |-> <<names[i], names[i]>>]
  BY <1>1 DEF Own
<1>3. IsTable(Own(names))
  BY <1>1, <1>2, TablesAreSequences
<1>4. Items(Own(names)) = {<<x, x>> : x \in Items(names)}
  <2>1. \A i \in DOMAIN names : Own(names)[i] = <<names[i], names[i]>>
    BY <1>1, <1>2
  <2>2. DOMAIN Own(names) = DOMAIN names
    BY <1>1, <1>2
  <2>3. ASSUME NEW r \in Items(Own(names)) PROVE \E x \in Items(names) : r = <<x, x>>
    BY <2>1, <2>2, Zenon DEF Items
  <2>4. ASSUME NEW x \in Items(names) PROVE <<x, x>> \in Items(Own(names))
    BY <2>1, <2>2, Zenon DEF Items
  <2> QED
    BY <2>3, <2>4
<1>5. ASSUME NEW x \in Items(names) PROVE Fits(b, <<x, x>>)
  BY DEF Fits, Meant
<1>6. Proper(b, Own(names))
  BY <1>3, <1>4, <1>5 DEF Proper
<1>7. PointersIn(Own(names)) = Items(names)
  <2>1. ASSUME NEW r \in Items(Own(names)) PROVE r[1] \in Items(names)
    BY <1>4
  <2>2. ASSUME NEW x \in Items(names) PROVE <<x, x>> \in Items(Own(names)) /\ <<x, x>>[1] = x
    BY <1>4
  <2> QED
    BY <2>1, <2>2, Zenon DEF PointersIn
<1> QED
  BY <1>6, <1>7

AnsiNames == {"SCardConnect", "SCardStatus", "SCardListReaders", "SCardListReaderGroups"}

\* The tables whose pointers are resolved by their own names.
CardLists == ListWrappers \ {"SCardListReaderGroupsW"}

LEMMA NamesFit ==
  ASSUME NEW b, NEW n \in Nat, NEW names, names = [i \in 1 .. n |-> names[i]],
         DOMAIN names = 1 .. n, NEW T, T = Own(names),
         \A i \in 1 .. n : names[i] # Blank /\ (b = "linux" \/ names[i] \notin AnsiNames)
  PROVE  Proper(b, T) /\ \A i \in 1 .. n : names[i] \in PointersIn(T)
<1>1. DOMAIN AnsiVariant = AnsiNames
  BY DEF AnsiVariant, AnsiNames
<1>2. Blank \notin Items(names) /\ (b = "linux" \/ Items(names) \cap AnsiNames = {})
  BY Zenon DEF Items
<1>3. Proper(b, T) /\ PointersIn(T) = Items(names)
  BY <1>1, <1>2, TablesAreSequences, OwnNamesFit
<1>4. \A i \in 1 .. n : names[i] \in Items(names)
  BY Zenon DEF Items
<1> QED
  BY <1>3, <1>4

LEMMA OwnTables ==
  ASSUME NEW b
  PROVE  /\ Proper(b, ContextFunctions)
         /\ ContextWrappers \subseteq PointersIn(ContextFunctions)
         /\ Proper(b, HandleFunctions)
         /\ ControlWrapper \cup SetAttribWrapper \subseteq PointersIn(HandleFunctions)
         /\ Proper(b, CardTypeQueries)
         /\ CardLists \cup ProviderWrappers \subseteq PointersIn(CardTypeQueries)
         /\ Proper(b, ReaderDatabase)
         /\ GroupWrappers \cup ReaderWrappers \subseteq PointersIn(ReaderDatabase)
         /\ Proper(b, CardTypeDatabase)
         /\ CardTypeWrappers \subseteq PointersIn(CardTypeDatabase)
         /\ Proper(b, WaitFunctions)
         /\ LocateWrappers \cup EventWrappers \subseteq PointersIn(WaitFunctions)
<1>1. Proper(b, ContextFunctions) /\ ContextWrappers
                                           \subseteq PointersIn(ContextFunctions)
  <2> DEFINE names == <<"SCardTransmit", "SCardDisconnect", "SCardFreeMemory",
                        "SCardEstablishContext", "SCardReleaseContext", "SCardIsValidContext",
                        "SCardFreeMemory", "SCardCancel">>
  <2>1. /\ names = [i \in 1 .. 8 |-> names[i]] /\ DOMAIN names = 1 .. 8
        /\ ContextFunctions = Own(names)
    BY DEF ContextFunctions
  <2>2. /\ names[1] = "SCardTransmit" /\ names[2] = "SCardDisconnect"
        /\ names[3] = "SCardFreeMemory" /\ names[4] = "SCardEstablishContext"
        /\ names[5] = "SCardReleaseContext" /\ names[6] = "SCardIsValidContext"
        /\ names[7] = "SCardFreeMemory" /\ names[8] = "SCardCancel"
    OBVIOUS
  <2> HIDE DEF names
  <2>3. /\ "SCardTransmit" # Blank /\ "SCardDisconnect" # Blank
        /\ "SCardFreeMemory" # Blank /\ "SCardEstablishContext" # Blank
        /\ "SCardReleaseContext" # Blank /\ "SCardIsValidContext" # Blank
        /\ "SCardCancel" # Blank
    BY Zenon DEF Blank
  <2>4. ASSUME NEW i \in 1 .. 8 PROVE names[i] # Blank /\ names[i] \notin AnsiNames
    BY <2>2, <2>3 DEF AnsiNames
  <2>5. Proper(b, ContextFunctions) /\ \A i \in 1 .. 8 : names[i] \in PointersIn(ContextFunctions)
    BY <2>1, <2>4, NamesFit
  <2> QED
    BY <2>2, <2>5 DEF ContextWrappers
<1>2. Proper(b, HandleFunctions) /\ ControlWrapper \cup SetAttribWrapper
                                           \subseteq PointersIn(HandleFunctions)
  <2> DEFINE names == <<"SCardReconnect", "SCardDisconnect", "SCardBeginTransaction",
                        "SCardEndTransaction", "SCardTransmit", "SCardControl",
                        "SCardGetAttrib", "SCardSetAttrib">>
  <2>1. /\ names = [i \in 1 .. 8 |-> names[i]] /\ DOMAIN names = 1 .. 8
        /\ HandleFunctions = Own(names)
    BY DEF HandleFunctions
  <2>2. /\ names[1] = "SCardReconnect" /\ names[2] = "SCardDisconnect"
        /\ names[3] = "SCardBeginTransaction" /\ names[4] = "SCardEndTransaction"
        /\ names[5] = "SCardTransmit" /\ names[6] = "SCardControl"
        /\ names[7] = "SCardGetAttrib" /\ names[8] = "SCardSetAttrib"
    OBVIOUS
  <2> HIDE DEF names
  <2>3. /\ "SCardReconnect" # Blank /\ "SCardDisconnect" # Blank
        /\ "SCardBeginTransaction" # Blank /\ "SCardEndTransaction" # Blank
        /\ "SCardTransmit" # Blank /\ "SCardControl" # Blank
        /\ "SCardGetAttrib" # Blank /\ "SCardSetAttrib" # Blank
    BY Zenon DEF Blank
  <2>4. ASSUME NEW i \in 1 .. 8 PROVE names[i] # Blank /\ names[i] \notin AnsiNames
    BY <2>2, <2>3 DEF AnsiNames
  <2>5. Proper(b, HandleFunctions) /\ \A i \in 1 .. 8 : names[i] \in PointersIn(HandleFunctions)
    BY <2>1, <2>4, NamesFit
  <2> QED
    BY <2>2, <2>5 DEF ControlWrapper, SetAttribWrapper
<1>3. Proper(b, CardTypeQueries) /\ CardLists \cup ProviderWrappers
                                           \subseteq PointersIn(CardTypeQueries)
  <2> DEFINE names == <<"SCardListCardsA", "SCardListCardsW", "SCardListInterfacesA",
                        "SCardListInterfacesW", "SCardGetProviderIdA", "SCardGetProviderIdW",
                        "SCardGetCardTypeProviderNameA", "SCardGetCardTypeProviderNameW">>
  <2>1. /\ names = [i \in 1 .. 8 |-> names[i]] /\ DOMAIN names = 1 .. 8
        /\ CardTypeQueries = Own(names)
    BY DEF CardTypeQueries
  <2>2. /\ names[1] = "SCardListCardsA" /\ names[2] = "SCardListCardsW"
        /\ names[3] = "SCardListInterfacesA" /\ names[4] = "SCardListInterfacesW"
        /\ names[5] = "SCardGetProviderIdA" /\ names[6] = "SCardGetProviderIdW"
        /\ names[7] = "SCardGetCardTypeProviderNameA" /\ names[8] = "SCardGetCardTypeProviderNameW"
    OBVIOUS
  <2> HIDE DEF names
  <2>3. /\ "SCardListCardsA" # Blank /\ "SCardListCardsW" # Blank
        /\ "SCardListInterfacesA" # Blank /\ "SCardListInterfacesW" # Blank
        /\ "SCardGetProviderIdA" # Blank /\ "SCardGetProviderIdW" # Blank
        /\ "SCardGetCardTypeProviderNameA" # Blank /\ "SCardGetCardTypeProviderNameW" # Blank
    BY Zenon DEF Blank
  <2>4. ASSUME NEW i \in 1 .. 8 PROVE names[i] # Blank /\ names[i] \notin AnsiNames
    BY <2>2, <2>3 DEF AnsiNames
  <2>5. Proper(b, CardTypeQueries) /\ \A i \in 1 .. 8 : names[i] \in PointersIn(CardTypeQueries)
    BY <2>1, <2>4, NamesFit
  <2> QED
    BY <2>2, <2>5 DEF CardLists, ListWrappers, ProviderWrappers
<1>4. Proper(b, ReaderDatabase) /\ GroupWrappers \cup ReaderWrappers
                                           \subseteq PointersIn(ReaderDatabase)
  <2> DEFINE names == <<"SCardIntroduceReaderGroupA", "SCardIntroduceReaderGroupW",
                        "SCardForgetReaderGroupA", "SCardForgetReaderGroupW",
                        "SCardIntroduceReaderA", "SCardIntroduceReaderW",
                        "SCardForgetReaderA", "SCardForgetReaderW", "SCardAddReaderToGroupA",
                        "SCardAddReaderToGroupW", "SCardRemoveReaderFromGroupA",
                        "SCardRemoveReaderFromGroupW">>
  <2>1. /\ names = [i \in 1 .. 12 |-> names[i]] /\ DOMAIN names = 1 .. 12
        /\ ReaderDatabase = Own(names)
    BY DEF ReaderDatabase
  <2>2. /\ names[1] = "SCardIntroduceReaderGroupA" /\ names[2] = "SCardIntroduceReaderGroupW"
        /\ names[3] = "SCardForgetReaderGroupA" /\ names[4] = "SCardForgetReaderGroupW"
        /\ names[5] = "SCardIntroduceReaderA" /\ names[6] = "SCardIntroduceReaderW"
        /\ names[7] = "SCardForgetReaderA" /\ names[8] = "SCardForgetReaderW"
        /\ names[9] = "SCardAddReaderToGroupA" /\ names[10] = "SCardAddReaderToGroupW"
        /\ names[11] = "SCardRemoveReaderFromGroupA" /\ names[12] = "SCardRemoveReaderFromGroupW"
    OBVIOUS
  <2> HIDE DEF names
  <2>3. /\ "SCardIntroduceReaderGroupA" # Blank /\ "SCardIntroduceReaderGroupW" # Blank
        /\ "SCardForgetReaderGroupA" # Blank /\ "SCardForgetReaderGroupW" # Blank
        /\ "SCardIntroduceReaderA" # Blank /\ "SCardIntroduceReaderW" # Blank
        /\ "SCardForgetReaderA" # Blank /\ "SCardForgetReaderW" # Blank
        /\ "SCardAddReaderToGroupA" # Blank /\ "SCardAddReaderToGroupW" # Blank
        /\ "SCardRemoveReaderFromGroupA" # Blank /\ "SCardRemoveReaderFromGroupW" # Blank
    BY Zenon DEF Blank
  <2>4. ASSUME NEW i \in 1 .. 12 PROVE names[i] # Blank /\ names[i] \notin AnsiNames
    BY <2>2, <2>3 DEF AnsiNames
  <2>5. Proper(b, ReaderDatabase) /\ \A i \in 1 .. 12 : names[i] \in PointersIn(ReaderDatabase)
    BY <2>1, <2>4, NamesFit
  <2> QED
    BY <2>2, <2>5 DEF GroupWrappers, ReaderWrappers
<1>5. Proper(b, CardTypeDatabase) /\ CardTypeWrappers
                                           \subseteq PointersIn(CardTypeDatabase)
  <2> DEFINE names == <<"SCardIntroduceCardTypeA", "SCardIntroduceCardTypeW",
                        "SCardSetCardTypeProviderNameA", "SCardSetCardTypeProviderNameW",
                        "SCardForgetCardTypeA", "SCardForgetCardTypeW">>
  <2>1. /\ names = [i \in 1 .. 6 |-> names[i]] /\ DOMAIN names = 1 .. 6
        /\ CardTypeDatabase = Own(names)
    BY DEF CardTypeDatabase
  <2>2. /\ names[1] = "SCardIntroduceCardTypeA" /\ names[2] = "SCardIntroduceCardTypeW"
        /\ names[3] = "SCardSetCardTypeProviderNameA" /\ names[4] = "SCardSetCardTypeProviderNameW"
        /\ names[5] = "SCardForgetCardTypeA" /\ names[6] = "SCardForgetCardTypeW"
    OBVIOUS
  <2> HIDE DEF names
  <2>3. /\ "SCardIntroduceCardTypeA" # Blank /\ "SCardIntroduceCardTypeW" # Blank
        /\ "SCardSetCardTypeProviderNameA" # Blank /\ "SCardSetCardTypeProviderNameW" # Blank
        /\ "SCardForgetCardTypeA" # Blank /\ "SCardForgetCardTypeW" # Blank
    BY Zenon DEF Blank
  <2>4. ASSUME NEW i \in 1 .. 6 PROVE names[i] # Blank /\ names[i] \notin AnsiNames
    BY <2>2, <2>3 DEF AnsiNames
  <2>5. Proper(b, CardTypeDatabase) /\ \A i \in 1 .. 6 : names[i] \in PointersIn(CardTypeDatabase)
    BY <2>1, <2>4, NamesFit
  <2> QED
    BY <2>2, <2>5 DEF CardTypeWrappers
<1>6. Proper(b, WaitFunctions) /\ LocateWrappers \cup EventWrappers
                                           \subseteq PointersIn(WaitFunctions)
  <2> DEFINE names == <<"SCardAccessStartedEvent", "SCardReleaseStartedEvent",
                        "SCardLocateCardsA", "SCardLocateCardsW", "SCardLocateCardsByATRA",
                        "SCardLocateCardsByATRW", "SCardGetStatusChangeA",
                        "SCardGetStatusChangeW">>
  <2>1. /\ names = [i \in 1 .. 8 |-> names[i]] /\ DOMAIN names = 1 .. 8
        /\ WaitFunctions = Own(names)
    BY DEF WaitFunctions
  <2>2. /\ names[1] = "SCardAccessStartedEvent" /\ names[2] = "SCardReleaseStartedEvent"
        /\ names[3] = "SCardLocateCardsA" /\ names[4] = "SCardLocateCardsW"
        /\ names[5] = "SCardLocateCardsByATRA" /\ names[6] = "SCardLocateCardsByATRW"
        /\ names[7] = "SCardGetStatusChangeA" /\ names[8] = "SCardGetStatusChangeW"
    OBVIOUS
  <2> HIDE DEF names
  <2>3. /\ "SCardAccessStartedEvent" # Blank /\ "SCardReleaseStartedEvent" # Blank
        /\ "SCardLocateCardsA" # Blank /\ "SCardLocateCardsW" # Blank
        /\ "SCardLocateCardsByATRA" # Blank /\ "SCardLocateCardsByATRW" # Blank
        /\ "SCardGetStatusChangeA" # Blank /\ "SCardGetStatusChangeW" # Blank
    BY Zenon DEF Blank
  <2>4. ASSUME NEW i \in 1 .. 8 PROVE names[i] # Blank /\ names[i] \notin AnsiNames
    BY <2>2, <2>3 DEF AnsiNames
  <2>5. Proper(b, WaitFunctions) /\ \A i \in 1 .. 8 : names[i] \in PointersIn(WaitFunctions)
    BY <2>1, <2>4, NamesFit
  <2> QED
    BY <2>2, <2>5 DEF LocateWrappers, EventWrappers
<1> QED
  BY <1>1, <1>2, <1>3, <1>4, <1>5, <1>6, Zenon

\* The tables in which a name and its symbol may differ.
LEMMA PairTables ==
  /\ Proper("windows", ListFunctions)
  /\ {"SCardListReaderGroups", "SCardListReaderGroupsW"} \subseteq PointersIn(ListFunctions)
  /\ Proper("windows", ConnectFunctions)
  /\ StatusWrapper \cup StateWrappers \subseteq PointersIn(ConnectFunctions)
<1>0. /\ DOMAIN AnsiVariant = AnsiNames
      /\ AnsiVariant["SCardConnect"] = "SCardConnectA"
      /\ AnsiVariant["SCardStatus"] = "SCardStatusA"
      /\ AnsiVariant["SCardListReaders"] = "SCardListReadersA"
      /\ AnsiVariant["SCardListReaderGroups"] = "SCardListReaderGroupsA"
  BY DEF AnsiVariant, AnsiNames
<1>1. /\ Fits("windows", <<"SCardStatus", "SCardStatusA">>)
      /\ Fits("windows", <<"SCardConnect", "SCardConnectA">>)
      /\ Fits("windows", <<"SCardListReaders", "SCardListReadersA">>)
      /\ Fits("windows", <<"SCardListReaderGroups", "SCardListReaderGroupsA">>)
  <2>1. /\ "SCardStatus" # Blank /\ "SCardConnect" # Blank
        /\ "SCardListReaders" # Blank /\ "SCardListReaderGroups" # Blank
    BY Zenon DEF Blank
  <2> QED
    BY <1>0, <2>1 DEF Fits, Meant, AnsiNames
<1>2. /\ Fits("windows", <<"SCardConnectW", "SCardConnectW">>)
      /\ Fits("windows", <<"SCardListReadersW", "SCardListReadersW">>)
      /\ Fits("windows", <<"SCardListReaderGroupsW", "SCardListReaderGroupsW">>)
      /\ Fits("windows", <<"SCardCancelTransaction", "SCardCancelTransaction">>)
      /\ Fits("windows", <<"SCardState", "SCardState">>)
      /\ Fits("windows", <<"SCardStatusW", "SCardStatusW">>)
  <2>1. /\ "SCardConnectW" # Blank /\ "SCardListReadersW" # Blank
        /\ "SCardListReaderGroupsW" # Blank /\ "SCardCancelTransaction" # Blank
        /\ "SCardState" # Blank /\ "SCardStatusW" # Blank
    BY Zenon DEF Blank
  <2> QED
    BY <1>0, <2>1 DEF Fits, Meant, AnsiNames
<1>3. /\ Proper("windows", ListFunctions)
      /\ {"SCardListReaderGroups", "SCardListReaderGroupsW"} \subseteq PointersIn(ListFunctions)
  <2> DEFINE s == ListFunctions
  <2>1. s = [i \in 1 .. 8 |-> s[i]] /\ DOMAIN s = 1 .. 8
    BY DEF ListFunctions
  <2>2. /\ s[1] = <<"SCardStatus", "SCardStatusA">>
        /\ s[2] = <<"SCardConnectW", "SCardConnectW">>
        /\ s[3] = <<"SCardListReadersW", "SCardListReadersW">>
        /\ s[4] = <<"SCardListReaders", "SCardListReadersA">>
        /\ s[5] = <<"SCardListReaderGroups", "SCardListReaderGroupsA">>
        /\ s[6] = <<"SCardListReaderGroupsW", "SCardListReaderGroupsW">>
        /\ s[7] = <<"SCardListReaders", "SCardListReadersA">>
        /\ s[8] = <<"SCardListReadersW", "SCardListReadersW">>
    BY DEF ListFunctions
  <2> HIDE DEF s
  <2>3. ASSUME NEW i \in 1 .. 8 PROVE Fits("windows", s[i])
    BY <1>1, <1>2, <2>2
  <2>4. Proper("windows", s)
    BY <2>1, <2>3, TablesAreSequences, Zenon DEF Proper, Items
  <2>5. \A i \in 1 .. 8 : s[i][1] \in PointersIn(s)
    BY <2>1, Zenon DEF PointersIn, Items
  <2>6. "SCardListReaderGroups" \in PointersIn(s) /\ "SCardListReaderGroupsW" \in PointersIn(s)
    BY <2>2, <2>5
  <2> QED
    BY <2>4, <2>6, Zenon DEF s
<1>4. /\ Proper("windows", ConnectFunctions)
      /\ StatusWrapper \cup StateWrappers \subseteq PointersIn(ConnectFunctions)
  <2> DEFINE s == ConnectFunctions
  <2>1. s = [i \in 1 .. 6 |-> s[i]] /\ DOMAIN s = 1 .. 6
    BY DEF ConnectFunctions
  <2>2. /\ s[1] = <<"SCardConnect", "SCardConnectA">>
        /\ s[2] = <<"SCardConnectW", "SCardConnectW">>
        /\ s[3] = <<"SCardCancelTransaction", "SCardCancelTransaction">>
        /\ s[4] = <<"SCardState", "SCardState">>
        /\ s[5] = <<"SCardStatus", "SCardStatusA">>
        /\ s[6] = <<"SCardStatusW", "SCardStatusW">>
    BY DEF ConnectFunctions
  <2> HIDE DEF s
  <2>3. ASSUME NEW i \in 1 .. 6 PROVE Fits("windows", s[i])
    BY <1>1, <1>2, <2>2
  <2>4. Proper("windows", s)
    BY <2>1, <2>3, TablesAreSequences, Zenon DEF Proper, Items
  <2>5. \A i \in 1 .. 6 : s[i][1] \in PointersIn(s)
    BY <2>1, Zenon DEF PointersIn, Items
  <2>6. StatusWrapper \cup StateWrappers \subseteq PointersIn(s)
    BY <2>2, <2>5 DEF StatusWrapper, StateWrappers
  <2> QED
    BY <2>4, <2>6, Zenon DEF s
<1> QED
  BY <1>3, <1>4

\* The dialogs of the Windows tables, with the misspelt name.
LEMMA DialogTable ==
  Proper("windows", DialogFunctions) /\ DialogWrappers \subseteq PointersIn(DialogFunctions)
<1> DEFINE names == <<"SCardUIDlgSelectCardA", "SCardUIDlgSelectCardW", "GetOpenCardNameA",
                      "GetOpenCardNameW">>
           last  == <<Misspelt>>
<1>1. names = [i \in 1 .. 4 |-> names[i]] /\ DOMAIN names = 1 .. 4
  OBVIOUS
<1>2. /\ names[1] = "SCardUIDlgSelectCardA" /\ names[2] = "SCardUIDlgSelectCardW"
      /\ names[3] = "GetOpenCardNameA" /\ names[4] = "GetOpenCardNameW"
  OBVIOUS
<1>3. last = [i \in 1 .. 1 |-> last[i]] /\ DOMAIN last = 1 .. 1 /\ last[1] = Misspelt
  OBVIOUS
<1>4. DialogFunctions = Both(Own(names), last)
  BY Zenon DEF DialogFunctions, Misspelt, Blank, Both
<1> HIDE DEF names, last
<1>5. /\ "SCardUIDlgSelectCardA" # Blank /\ "SCardUIDlgSelectCardW" # Blank
      /\ "GetOpenCardNameA" # Blank /\ "GetOpenCardNameW" # Blank
  BY Zenon DEF Blank
<1>5a. ASSUME NEW i \in 1 .. 4 PROVE names[i] # Blank /\ names[i] \notin AnsiNames
  BY <1>2, <1>5 DEF AnsiNames
<1>6. /\ Proper("windows", Own(names))
      /\ \A i \in 1 .. 4 : names[i] \in PointersIn(Own(names))
  BY <1>1, <1>5a, NamesFit
<1>7. Proper("windows", last) /\ Misspelt \in Items(last)
  <2>1. "SCardDlgExtendedError" # Blank
    BY Zenon DEF Blank
  <2>2. Fits("windows", Misspelt)
    BY <2>1 DEF Fits, Misspelt
  <2>3. Items(last) = {Misspelt}
    <3>1. 1 .. 1 = {1}
      OBVIOUS
    <3> QED
      BY <1>3, <3>1, Zenon DEF Items
  <2>4. IsTable(last)
    BY <1>3, TablesAreSequences
  <2> QED
    BY <2>2, <2>3, <2>4, Zenon DEF Proper
<1>8. /\ Proper("windows", DialogFunctions)
      /\ PointersIn(DialogFunctions) = PointersIn(Own(names)) \cup PointersIn(last)
  BY <1>4, <1>6, <1>7, ProperJoining
<1>9. Misspelt[1] \in PointersIn(last)
  BY <1>7, Zenon DEF PointersIn
<1>10. Misspelt[1] = "SCardDlgExtendedError"
  BY DEF Misspelt
<1> QED
  BY <1>2, <1>6, <1>8, <1>9, <1>10 DEF DialogWrappers

LEMMA LinuxOwnTable ==
  /\ Proper("linux", LinuxFunctions)
  /\ {"SCardStatus", "SCardListReaderGroups"} \cup LinuxWrapper
       \subseteq PointersIn(LinuxFunctions)
<1> DEFINE names == <<"SCardConnect", "SCardStatus", "SCardGetStatusChange", "SCardListReaders",
                      "SCardListReaderGroups">>
<1>1. names = [i \in 1 .. 5 |-> names[i]] /\ DOMAIN names = 1 .. 5
  OBVIOUS
<1>2. /\ names[1] = "SCardConnect" /\ names[2] = "SCardStatus"
      /\ names[3] = "SCardGetStatusChange" /\ names[4] = "SCardListReaders"
      /\ names[5] = "SCardListReaderGroups"
  OBVIOUS
<1>3. LinuxFunctions = Own(names)
  BY DEF LinuxFunctions
<1> HIDE DEF names
<1>4. /\ "SCardConnect" # Blank /\ "SCardStatus" # Blank /\ "SCardGetStatusChange" # Blank
      /\ "SCardListReaders" # Blank /\ "SCardListReaderGroups" # Blank
  BY Zenon DEF Blank
<1>5. ASSUME NEW i \in 1 .. 5 PROVE names[i] # Blank
  BY <1>2, <1>4
<1>6. Proper("linux", LinuxFunctions) /\ \A i \in 1 .. 5 : names[i] \in PointersIn(LinuxFunctions)
  BY <1>1, <1>3, <1>5, NamesFit
<1> QED
  BY <1>2, <1>6 DEF LinuxWrapper

LEMMA WholeTable ==
  ASSUME NEW b \in {"windows", "linux"}
  PROVE  /\ Proper(b, Resolutions[b])
         /\ Forwarded(b) \subseteq PointersIn(Resolutions[b])
<1>0. /\ Proper(b, ContextFunctions) /\ Proper(b, HandleFunctions)
      /\ Proper(b, CardTypeQueries) /\ Proper(b, ReaderDatabase)
      /\ Proper(b, CardTypeDatabase) /\ Proper(b, WaitFunctions)
  BY OwnTables
<1>1. CASE b = "linux"
  <2> DEFINE h == ContextFunctions \o HandleFunctions
  <2>1. Resolutions[b] = h \o LinuxFunctions
    BY <1>1 DEF Resolutions
  <2>d. h = Both(ContextFunctions, HandleFunctions) /\ Resolutions[b] = Both(h, LinuxFunctions)
    BY <2>1 DEF Both
  <2> HIDE DEF h
  <2>2. Proper(b, h) /\ PointersIn(h) = PointersIn(ContextFunctions)
                                          \cup PointersIn(HandleFunctions)
    BY <1>0, <2>d, ProperJoining
  <2>3. Proper(b, LinuxFunctions)
    BY <1>1, LinuxOwnTable, Zenon
  <2>4. /\ Proper(b, Resolutions[b])
        /\ PointersIn(Resolutions[b]) = PointersIn(h) \cup PointersIn(LinuxFunctions)
    BY <2>d, <2>2, <2>3, ProperJoining
  <2>5. Forwarded(b) = ContextWrappers \cup ControlWrapper \cup SetAttribWrapper
                       \cup GroupListWrapper \cup StatusWrapper \cup LinuxWrapper
    BY <1>1 DEF Forwarded
  <2>6. /\ GroupListWrapper \cup StatusWrapper \cup LinuxWrapper
             \subseteq PointersIn(LinuxFunctions)
        /\ ContextWrappers \subseteq PointersIn(ContextFunctions)
        /\ ControlWrapper \cup SetAttribWrapper \subseteq PointersIn(HandleFunctions)
    BY OwnTables, LinuxOwnTable DEF GroupListWrapper, StatusWrapper
  <2> QED
    BY <2>2, <2>4, <2>5, <2>6, Zenon
<1>2. CASE b = "windows"
  <2> DEFINE s1 == ContextFunctions \o HandleFunctions
             s2 == s1 \o ListFunctions
             s3 == s2 \o CardTypeQueries
             s4 == s3 \o ReaderDatabase
             s5 == s4 \o CardTypeDatabase
             s6 == s5 \o WaitFunctions
             s7 == s6 \o ConnectFunctions
             s8 == s7 \o DialogFunctions
  <2>0. /\ Proper(b, ListFunctions) /\ Proper(b, ConnectFunctions) /\ Proper(b, DialogFunctions)
    BY <1>2, PairTables, DialogTable, Zenon
  <2>s. Resolutions[b] = s8
    BY <1>2 DEF Resolutions
  <2>d. /\ s1 = Both(ContextFunctions, HandleFunctions)
        /\ s2 = Both(s1, ListFunctions)
        /\ s3 = Both(s2, CardTypeQueries)
        /\ s4 = Both(s3, ReaderDatabase)
        /\ s5 = Both(s4, CardTypeDatabase)
        /\ s6 = Both(s5, WaitFunctions)
        /\ s7 = Both(s6, ConnectFunctions)
        /\ s8 = Both(s7, DialogFunctions)
    BY DEF Both
  <2> HIDE DEF s1, s2, s3, s4, s5, s6, s7, s8
  <2>1. Proper(b, s1) /\ PointersIn(s1) = PointersIn(ContextFunctions)
                                           \cup PointersIn(HandleFunctions)
    BY <1>0, <2>0, <2>d, ProperJoining
  <2>2. Proper(b, s2) /\ PointersIn(s2) = PointersIn(s1) \cup PointersIn(ListFunctions)
    BY <1>0, <2>0, <2>d, <2>1, ProperJoining
  <2>3. Proper(b, s3) /\ PointersIn(s3) = PointersIn(s2) \cup PointersIn(CardTypeQueries)
    BY <1>0, <2>0, <2>d, <2>2, ProperJoining
  <2>4. Proper(b, s4) /\ PointersIn(s4) = PointersIn(s3) \cup PointersIn(ReaderDatabase)
    BY <1>0, <2>0, <2>d, <2>3, ProperJoining
  <2>5. Proper(b, s5) /\ PointersIn(s5) = PointersIn(s4) \cup PointersIn(CardTypeDatabase)
    BY <1>0, <2>0, <2>d, <2>4, ProperJoining
  <2>6. Proper(b, s6) /\ PointersIn(s6) = PointersIn(s5) \cup PointersIn(WaitFunctions)
    BY <1>0, <2>0, <2>d, <2>5, ProperJoining
  <2>7. Proper(b, s7) /\ PointersIn(s7) = PointersIn(s6) \cup PointersIn(ConnectFunctions)
    BY <1>0, <2>0, <2>d, <2>6, ProperJoining
  <2>8. Proper(b, s8) /\ PointersIn(s8) = PointersIn(s7) \cup PointersIn(DialogFunctions)
    BY <1>0, <2>0, <2>d, <2>7, ProperJoining
  <2>p. Proper(b, s8)
    BY <2>8
  <2>a. /\ PointersIn(ContextFunctions) \subseteq PointersIn(s8)
        /\ PointersIn(HandleFunctions) \subseteq PointersIn(s8)
        /\ PointersIn(ListFunctions) \subseteq PointersIn(s8)
        /\ PointersIn(CardTypeQueries) \subseteq PointersIn(s8)
        /\ PointersIn(ReaderDatabase) \subseteq PointersIn(s8)
        /\ PointersIn(CardTypeDatabase) \subseteq PointersIn(s8)
        /\ PointersIn(WaitFunctions) \subseteq PointersIn(s8)
        /\ PointersIn(ConnectFunctions) \subseteq PointersIn(s8)
        /\ PointersIn(DialogFunctions) \subseteq PointersIn(s8)
    BY <2>1, <2>2, <2>3, <2>4, <2>5, <2>6, <2>7, <2>8
  <2>f. Forwarded(b) = ContextWrappers \cup ControlWrapper \cup SetAttribWrapper
                       \cup GroupListWrapper \cup StatusWrapper \cup ListWrappers
                       \cup ProviderWrappers \cup GroupWrappers \cup ReaderWrappers
                       \cup CardTypeWrappers \cup LocateWrappers \cup DialogWrappers
                       \cup EventWrappers \cup StateWrappers
    BY <1>2 DEF Forwarded
  <2>w. /\ ContextWrappers \subseteq PointersIn(s8)
        /\ ControlWrapper \cup SetAttribWrapper \subseteq PointersIn(s8)
        /\ GroupListWrapper \cup ListWrappers \subseteq PointersIn(s8)
        /\ ProviderWrappers \subseteq PointersIn(s8)
        /\ GroupWrappers \cup ReaderWrappers \subseteq PointersIn(s8)
        /\ CardTypeWrappers \subseteq PointersIn(s8)
        /\ LocateWrappers \cup EventWrappers \subseteq PointersIn(s8)
        /\ StatusWrapper \cup StateWrappers \subseteq PointersIn(s8)
        /\ DialogWrappers \subseteq PointersIn(s8)
    BY <2>a, OwnTables, PairTables, DialogTable DEF CardLists, GroupListWrapper
  <2> QED
    BY <2>s, <2>p, <2>f, <2>w, Zenon
<1> QED
  BY <1>1, <1>2

Passes(b, exports, i) ==
  Resolutions[b][i][2] \in exports \/ Resolutions[b][i][1] \in Optional

\* The first symbol that stops the resolution, if any does.
LEMMA StopFound ==
  ASSUME NEW b, IsTable(Resolutions[b]), NEW exports
  PROVE  /\ FirstMissing(b, exports) \in 0 .. Len(Resolutions[b])
         /\ FirstMissing(b, exports) = 0
              => \A i \in DOMAIN Resolutions[b] : Passes(b, exports, i)
<1> DEFINE s == Resolutions[b]
           I == {i \in 1 .. Len(s) : s[i][2] \notin exports /\ s[i][1] \notin Optional}
<1>1. FirstMissing(b, exports) = IF I # {} THEN Min(I) ELSE 0
  BY DEF FirstMissing, SelectInSeq
<1>2. Len(s) \in Nat /\ DOMAIN s = 1 .. Len(s)
  BY DEF IsTable
<1>3. I \in SUBSET (1 .. Len(s)) /\ \A i \in DOMAIN s : i \notin I => Passes(b, exports, i)
  BY <1>2 DEF Passes
<1> HIDE DEF I, s
<1>4. I # {} => Min(I) \in I
  <2> SUFFICES ASSUME I # {} PROVE Min(I) \in I
    OBVIOUS
  <2>1. I \in SUBSET Nat
    BY <1>2, <1>3
  <2>2. First(I) \in I /\ \A j \in I : First(I) <= j
    BY <2>1, FirstIsLeast
  <2>3. \A j \in I : First(I) =< j
    BY <2>2
  <2> QED
    BY <2>2, <2>3, Zenon DEF Min
<1>5. FirstMissing(b, exports) \in 0 .. Len(s)
  <2>1. I # {} => Min(I) \in 1 .. Len(s)
    BY <1>3, <1>4, Zenon
  <2>2. 0 \in 0 .. Len(s) /\ 1 .. Len(s) \subseteq 0 .. Len(s)
    BY <1>2
  <2> QED
    BY <1>1, <2>1, <2>2, Zenon
<1>6. FirstMissing(b, exports) = 0 => I = {}
  BY <1>1, <1>2, <1>3, <1>4
<1> QED
  BY <1>3, <1>5, <1>6 DEF s

\* Where the resolution stops, and the row that sets a pointer last.
Stop(b, exports) ==
  IF FirstMissing(b, exports) = 0 THEN Len(Resolutions[b]) ELSE FirstMissing(b, exports)
Row(b, exports, p) ==
  SelectLastInSeq(SubSeq(Resolutions[b], 1, Stop(b, exports)), LAMBDA r : r[1] = p)


LEMMA LastRow ==
  ASSUME NEW b, IsTable(Resolutions[b]), NEW exports, NEW p,
         Stop(b, exports) \in 0 .. Len(Resolutions[b])
  PROVE  IF \E i \in 1 .. Stop(b, exports) : Resolutions[b][i][1] = p
           THEN /\ Row(b, exports, p) \in 1 .. Stop(b, exports)
                /\ Resolutions[b][Row(b, exports, p)][1] = p
           ELSE Row(b, exports, p) = 0
<1> DEFINE s == Resolutions[b]
           n == Stop(b, exports)
           k == Row(b, exports, p)
           I == {i \in 1 .. Len(SubSeq(s, 1, n)) : SubSeq(s, 1, n)[i][1] = p}
<1>1. k = IF I # {} THEN Max(I) ELSE 0
  BY DEF Row, SelectLastInSeq
<1>0. Len(s) \in Nat /\ DOMAIN s = 1 .. Len(s) /\ n \in 0 .. Len(s) /\ s \in Seq(Items(s))
  BY DEF IsTable
<1> HIDE DEF k, s, n
<1>2. I = {i \in 1 .. n : s[i][1] = p}
  BY <1>0
<1>3. I \in SUBSET (1 .. n) /\ n \in Nat
  BY <1>0, <1>2
<1> HIDE DEF I
<1>4. I # {} => Max(I) \in I
  <2> SUFFICES ASSUME I # {} PROVE Max(I) \in I
    OBVIOUS
  <2>1. PICK i \in I : \A j \in I : j <= i
    BY <1>3, LargestExists
  <2>2. \A j \in I : i >= j
    BY <2>1, <1>3
  <2> QED
    BY <2>1, <2>2, Zenon DEF Max
<1>5. IF \E i \in 1 .. n : s[i][1] = p THEN k \in 1 .. n /\ s[k][1] = p ELSE k = 0
  BY <1>1, <1>2, <1>3, <1>4
<1> QED
  BY <1>5 DEF k, s, n

LEMMA ResolvedByRow ==
  ASSUME NEW b, NEW exports, NEW p \in Pointers[b]
  PROVE  Resolved(b, exports)[p] =
           IF Row(b, exports, p) = 0 \/ Resolutions[b][Row(b, exports, p)][2] \notin exports
             THEN Unresolved ELSE Resolutions[b][Row(b, exports, p)][2]
  BY Zenon DEF Resolved, Row, Stop

LEMMA PointersOfTable ==
  ASSUME NEW b \in {"windows", "linux"}
  PROVE  Pointers[b] = PointersIn(Resolutions[b])
  BY Zenon DEF Pointers, PointersIn, Items, ToSet

ExportedBut(b, gap) == {Meant(b, p) : p \in Pointers[b]} \ gap

\* No library exports the misspelt symbol.
LEMMA BlankNotExported ==
  ASSUME NEW b \in {"windows", "linux"}, NEW gap
  PROVE  Blank \notin ExportedBut(b, gap)
<1>1. ASSUME NEW p \in Pointers[b] PROVE Meant(b, p) # Blank
  <2>1. PICK r \in Items(Resolutions[b]) : p = r[1]
    <3>1. p \in PointersIn(Resolutions[b])
      BY PointersOfTable
    <3> QED
      BY <3>1, Zenon DEF PointersIn
  <2>2. p # Blank
    BY <2>1, WholeTable DEF Proper, Fits
  <2>3. p \in DOMAIN AnsiVariant => AnsiVariant[p] # Blank
    <3>1. /\ "SCardConnectA" # Blank /\ "SCardStatusA" # Blank
          /\ "SCardListReadersA" # Blank /\ "SCardListReaderGroupsA" # Blank
      BY Zenon DEF Blank
    <3> QED
      BY <3>1 DEF AnsiVariant
  <2> QED
    BY <2>2, <2>3 DEF Meant
<1> QED
  BY <1>1, Zenon DEF ExportedBut

Reaches(b, f, pointer) ==
  \/ pointer = Meant(b, f)
  \/ pointer = Unresolved /\ (b = "linux" \/ f \in Optional)

\* A function that is handed on reaches its counterpart or, if it may be missing, nothing.
LEMMA ForwardedReaches ==
  ASSUME NEW b \in {"windows", "linux"}, NEW gap, NEW f \in Forwarded(b),
         b = "linux" \/ FirstMissing(b, ExportedBut(b, gap)) = 0
  PROVE  Reaches(b, f, Resolved(b, ExportedBut(b, gap))[f])
<1> DEFINE exports == ExportedBut(b, gap)
           s == Resolutions[b]
           n == Stop(b, exports)
           k == Row(b, exports, f)
<1>0. IsTable(s) /\ (\A r \in Items(s) : Fits(b, r)) /\ f \in PointersIn(s)
  BY WholeTable DEF Proper
<1>1. Len(s) \in Nat /\ DOMAIN s = 1 .. Len(s)
  BY <1>0 DEF IsTable
<1>2. /\ FirstMissing(b, exports) \in 0 .. Len(s)
      /\ FirstMissing(b, exports) = 0 => \A i \in DOMAIN s : Passes(b, exports, i)
  BY <1>0, StopFound
<1>3. n \in 0 .. Len(s) /\ (FirstMissing(b, exports) = 0 => n = Len(s))
  BY <1>1, <1>2 DEF Stop
<1>3a. 1 .. n \subseteq 1 .. Len(s)
  BY <1>1, <1>3
<1>4. Resolved(b, exports)[f] =
        IF k = 0 \/ s[k][2] \notin exports THEN Unresolved ELSE s[k][2]
  BY <1>0, PointersOfTable, ResolvedByRow
<1>5. Blank \notin exports
  BY BlankNotExported
<1>6. IF \E i \in 1 .. n : s[i][1] = f THEN k \in 1 .. n /\ s[k][1] = f ELSE k = 0
  BY <1>0, <1>3, LastRow
<1>7. \E i \in DOMAIN s : s[i][1] = f
  BY <1>0, Zenon DEF PointersIn, Items
<1> HIDE DEF exports, s, n, k
<1>8. CASE k = 0
  <2>1. Resolved(b, exports)[f] = Unresolved
    BY <1>4, <1>8
  <2>2. b = "linux"
    <3> SUFFICES ASSUME FirstMissing(b, exports) = 0 PROVE FALSE
      BY DEF exports
    <3>1. \E i \in 1 .. n : s[i][1] = f
      BY <1>1, <1>3, <1>7
    <3>2. k \in 1 .. n
      BY <1>6, <3>1, Zenon
    <3> QED
      BY <1>3, <1>8, <3>2
  <2> QED
    BY <2>1, <2>2, Zenon DEF Reaches, exports
<1>9. CASE k # 0
  <2>1. k \in DOMAIN s /\ s[k][1] = f
    <3>1. k \in 1 .. n /\ s[k][1] = f
      BY <1>6, <1>9, Zenon
    <3>2. k \in 1 .. Len(s)
      BY <3>1, <1>3a, Zenon
    <3> QED
      BY <3>1, <3>2, <1>1, Zenon
  <2>2. Fits(b, s[k])
    BY <1>0, <2>1, Zenon DEF Items
  <2>3. CASE s[k][2] \notin exports
    <3>1. Resolved(b, exports)[f] = Unresolved
      BY <1>4, <2>3, Zenon
    <3>2. b = "linux" \/ f \in Optional
      BY <1>2, <2>1, <2>3 DEF Passes, s, exports
    <3> QED
      BY <3>1, <3>2, Zenon DEF Reaches, exports
  <2>4. CASE s[k][2] \in exports
    <3>1. Resolved(b, exports)[f] = s[k][2]
      BY <1>4, <1>9, <2>4, Zenon
    <3>0. Misspelt[2] = Blank
      BY DEF Misspelt
    <3>2. s[k] # Misspelt
      BY <1>5, <2>4, <3>0, Zenon
    <3>3. s[k][2] = Meant(b, f)
      BY <2>1, <2>2, <3>2, Zenon DEF Fits
    <3>4. Reaches(b, f, s[k][2])
      BY <3>3, Zenon DEF Reaches
    <3> QED
      BY <3>1, <3>4, Zenon DEF exports
  <2> QED
    BY <2>3, <2>4
<1> QED
  BY <1>8, <1>9

-----------------------------------------------------------------------------
(* The pointers of a running process                                       *)

Untouched(b, p) == p = [q \in Pointers[b] |-> Unresolved]
Initialized(b, p) ==
  \E gap \in Gaps :
    /\ p = Resolved(b, ExportedBut(b, gap))
    /\ b = "linux" \/ FirstMissing(b, ExportedBut(b, gap)) = 0

PointersOK ==
  /\ phase \in Early \cup {"load"} => Untouched(build, pointers)
  /\ phase = "running" => \/ Initialized(build, pointers)
                          \/ build = "linux" /\ Untouched(build, pointers)

LEMMA PointersOKStep ==
  ASSUME StartOK, PointersOK, [StartNext]_vars
  PROVE  PointersOK'
<1>1. CASE FindRules \/ Parse \/ LoadRule \/ RulesLoaded \/ LogPaths \/ Remote_Connect \/ SendTag
  <2>1. /\ phase \in Early /\ phase' # "running" /\ pointers' = pointers /\ build' = build
    BY <1>1 DEF FindRules, Parse, LoadRule, RulesLoaded, LogPaths, Remote_Connect, SendTag,
                library, Phase, Early
  <2> QED
    BY <2>1 DEF PointersOK, Untouched
<1>2. CASE SendCommand
  <2>1. phase = "running" /\ phase' = "running" /\ pointers' = pointers /\ build' = build
    BY <1>2 DEF SendCommand, library, Phase
  <2> QED
    BY <2>1 DEF PointersOK, Untouched, Initialized, Early
<1>3. CASE Initialize
  <2>0. phase = "load" /\ phase' \in {"running", "unload"} /\ build' = build /\ build \in Builds
    BY <1>3 DEF Initialize, Phase, StartOK
  <2> SUFFICES ASSUME phase' = "running"
               PROVE  \/ Initialized(build', pointers')
                      \/ build' = "linux" /\ Untouched(build', pointers')
    BY <2>0 DEF PointersOK, Early
  <2>1. CASE Phase("load", IF build = "linux" THEN "running" ELSE "unload") /\ UNCHANGED library
    <3>1. build = "linux" /\ pointers' = pointers /\ Untouched(build, pointers)
      BY <2>0, <2>1 DEF Phase, library, PointersOK
    <3> QED
      BY <2>0, <3>1 DEF Untouched
  <2>2. CASE \E gap \in Gaps :
               LET o == Outcomes[build][gap]
               IN  /\ Phase("load", IF build = "linux" \/ o.answer THEN "running" ELSE "unload")
                   /\ original' = o.exports
                   /\ pointers' = o.pointers
    <3>1. PICK gap \in Gaps :
            /\ Phase("load", IF build = "linux" \/ Outcomes[build][gap].answer
                               THEN "running" ELSE "unload")
            /\ pointers' = Outcomes[build][gap].pointers
      BY <2>2, Zenon
    <3>2. /\ Outcomes[build][gap].pointers = Resolved(build, ExportedBut(build, gap))
          /\ Outcomes[build][gap].answer = (FirstMissing(build, ExportedBut(build, gap)) = 0)
      BY <2>0, OutcomeFields, Zenon DEF ExportedBut
    <3>3. build = "linux" \/ Outcomes[build][gap].answer
      BY <3>1 DEF Phase
    <3>4. build = "linux" \/ FirstMissing(build, ExportedBut(build, gap)) = 0
      BY <3>2, <3>3, Zenon
    <3>5. pointers' = Resolved(build, ExportedBut(build, gap))
      BY <3>1, <3>2, Zenon
    <3>6. Initialized(build, pointers')
      BY <3>4, <3>5, Zenon DEF Initialized
    <3> QED
      BY <2>0, <3>6
  <2> QED
    BY <1>3, <2>1, <2>2, Zenon DEF Initialize
<1>4. CASE Unload \/ Destroy \/ \E f \in Forwarded(build) : CallOfMissing(f)
  <2>1. phase' \in {"unload", "gone", "crashed"}
    BY <1>4 DEF Unload, Destroy, CallOfMissing, Phase
  <2> QED
    BY <2>1 DEF PointersOK, Early
<1>5. CASE UNCHANGED vars
  BY <1>5 DEF vars, library, PointersOK, Untouched, Initialized
<1> QED
  BY <1>1, <1>2, <1>3, <1>4, <1>5 DEF StartNext

\* A call that is handed on reaches the function it names, or a null pointer where the
\* answer of initialize() lets one pass (OriginalLibrary, InitInstance).
THEOREM CallsReachTheRightFunction == StartSpec => []CallsReachTheirName
<1>1. StartInit => PointersOK
  <2>a. SUFFICES ASSUME StartInit PROVE PointersOK
    OBVIOUS
  <2>1. phase = "look" /\ pointers = [p \in Pointers[build] |-> Unresolved]
    BY <2>a, Zenon DEF StartInit
  <2> QED
    BY <2>1 DEF PointersOK, Untouched
<1>2. StartOK /\ PointersOK /\ [StartNext]_vars => PointersOK'
  BY PointersOKStep
<1>3. StartOK /\ PointersOK => CallsReachTheirName
  <2> SUFFICES ASSUME StartOK, PointersOK, phase = "running", NEW f \in Forwarded(build)
               PROVE  Reaches(build, f, pointers[f])
    BY Zenon DEF CallsReachTheirName, Reaches
  <2>0. build \in {"windows", "linux"}
    BY StartupAssumption DEF StartOK
  <2>1. CASE build = "linux" /\ Untouched(build, pointers)
    <3>1. f \in Pointers[build]
      BY <2>0, WholeTable, PointersOfTable
    <3>2. pointers[f] = Unresolved
      BY <2>1, <3>1, Zenon DEF Untouched
    <3> QED
      BY <2>1, <3>2, Zenon DEF Reaches
  <2>2. CASE Initialized(build, pointers)
    <3>1. PICK gap \in Gaps :
            /\ pointers = Resolved(build, ExportedBut(build, gap))
            /\ build = "linux" \/ FirstMissing(build, ExportedBut(build, gap)) = 0
      BY <2>2, Zenon DEF Initialized
    <3> QED
      BY <2>0, <3>1, ForwardedReaches
  <2> QED
    BY <2>1, <2>2, Zenon DEF PointersOK
<1> QED
  BY <1>1, <1>2, <1>3, TypesHold, PTL DEF StartSpec
=============================================================================
