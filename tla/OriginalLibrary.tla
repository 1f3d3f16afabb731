-------------------------- MODULE OriginalLibrary --------------------------
(***************************************************************************)
(* The pointers to the functions of the original library: in which order   *)
(* and under which names initialize() resolves them, where it gives up,    *)
(* and through which pointer each exported function of the stub calls.     *)
(***************************************************************************)
EXTENDS Integers, Sequences, SequencesExt

Unresolved == ""   \* a null pointer

\* <<pointer, symbol it is resolved by>>
Own(names) == [i \in DOMAIN names |-> <<names[i], names[i]>>]

ContextFunctions ==
  Own(<<"SCardTransmit", "SCardDisconnect", "SCardFreeMemory", "SCardEstablishContext",
        "SCardReleaseContext", "SCardIsValidContext", "SCardFreeMemory", "SCardCancel">>)

\* Fault: a line of the table is copied and not changed throughout.
HandleFunctions_Copied ==
  Own(<<"SCardReconnect", "SCardDisconnect", "SCardBeginTransaction", "SCardEndTransaction",
        "SCardTransmit", "SCardControl", "SCardGetAttrib">>)
  \o << <<"SCardSetAttrib", "SCardGetAttrib">> >>

HandleFunctions ==
  Own(<<"SCardReconnect", "SCardDisconnect", "SCardBeginTransaction", "SCardEndTransaction",
        "SCardTransmit", "SCardControl", "SCardGetAttrib", "SCardSetAttrib">>)

ListFunctions ==
  << <<"SCardStatus", "SCardStatusA">>, <<"SCardConnectW", "SCardConnectW">>,
     <<"SCardListReadersW", "SCardListReadersW">>, <<"SCardListReaders", "SCardListReadersA">>,
     <<"SCardListReaderGroups", "SCardListReaderGroupsA">>,
     <<"SCardListReaderGroupsW", "SCardListReaderGroupsW">>,
     <<"SCardListReaders", "SCardListReadersA">>,
     <<"SCardListReadersW", "SCardListReadersW">> >>

CardTypeQueries ==
  Own(<<"SCardListCardsA", "SCardListCardsW", "SCardListInterfacesA",
        "SCardListInterfacesW", "SCardGetProviderIdA", "SCardGetProviderIdW",
        "SCardGetCardTypeProviderNameA", "SCardGetCardTypeProviderNameW">>)

ReaderDatabase ==
  Own(<<"SCardIntroduceReaderGroupA", "SCardIntroduceReaderGroupW",
        "SCardForgetReaderGroupA", "SCardForgetReaderGroupW",
        "SCardIntroduceReaderA", "SCardIntroduceReaderW", "SCardForgetReaderA",
        "SCardForgetReaderW", "SCardAddReaderToGroupA", "SCardAddReaderToGroupW",
        "SCardRemoveReaderFromGroupA", "SCardRemoveReaderFromGroupW">>)

CardTypeDatabase ==
  Own(<<"SCardIntroduceCardTypeA", "SCardIntroduceCardTypeW",
        "SCardSetCardTypeProviderNameA", "SCardSetCardTypeProviderNameW",
        "SCardForgetCardTypeA", "SCardForgetCardTypeW">>)

WaitFunctions ==
  Own(<<"SCardAccessStartedEvent", "SCardReleaseStartedEvent",
        "SCardLocateCardsA", "SCardLocateCardsW", "SCardLocateCardsByATRA",
        "SCardLocateCardsByATRW", "SCardGetStatusChangeA", "SCardGetStatusChangeW">>)

ConnectFunctions ==
  << <<"SCardConnect", "SCardConnectA">>, <<"SCardConnectW", "SCardConnectW">>,
     <<"SCardCancelTransaction", "SCardCancelTransaction">>, <<"SCardState", "SCardState">>,
     <<"SCardStatus", "SCardStatusA">>, <<"SCardStatusW", "SCardStatusW">> >>

\* The last name ends in a blank; no library exports it.
DialogFunctions ==
  Own(<<"SCardUIDlgSelectCardA", "SCardUIDlgSelectCardW", "GetOpenCardNameA",
        "GetOpenCardNameW">>)
  \o << <<"SCardDlgExtendedError", "SCardDlgExtendedError ">> >>

LinuxFunctions ==
  Own(<<"SCardConnect", "SCardStatus", "SCardGetStatusChange", "SCardListReaders",
        "SCardListReaderGroups">>)

\* A failure to resolve these is passed over.
Optional ==
  {"SCardCancelTransaction", "SCardUIDlgSelectCardA", "SCardUIDlgSelectCardW",
   "GetOpenCardNameA", "GetOpenCardNameW", "SCardDlgExtendedError"}

Resolutions ==
  [windows |-> ContextFunctions \o HandleFunctions \o ListFunctions \o CardTypeQueries
               \o ReaderDatabase \o CardTypeDatabase \o WaitFunctions \o ConnectFunctions
               \o DialogFunctions,
   linux   |-> ContextFunctions \o HandleFunctions \o LinuxFunctions]

Pointers ==
  [build \in {"windows", "linux"} |-> {r[1] : r \in ToSet(Resolutions[build])}]

-----------------------------------------------------------------------------
(* exports: the symbols the original library has.  The resolution stops at *)
(* the first one that is missing and not optional; the pointers after it   *)
(* stay null.                                                              *)
FirstMissing(build, exports) ==
  SelectInSeq(Resolutions[build], LAMBDA r : r[2] \notin exports /\ r[1] \notin Optional)

Resolved(build, exports) ==
  LET stop == FirstMissing(build, exports)
      n    == IF stop = 0 THEN Len(Resolutions[build]) ELSE stop
      last(p) == SelectLastInSeq(SubSeq(Resolutions[build], 1, n), LAMBDA r : r[1] = p)
  IN  [p \in Pointers[build] |->
         IF last(p) = 0 \/ Resolutions[build][last(p)][2] \notin exports
           THEN Unresolved ELSE Resolutions[build][last(p)][2]]

-----------------------------------------------------------------------------
(* The exported functions that only log the call and hand it on, each      *)
(* through the pointer of its own name; those on a handle do so for cards  *)
(* of the original library and answer for remote ones themselves.          *)
ContextWrappers   == {"SCardIsValidContext", "SCardCancel"}
ControlWrapper    == {"SCardControl"}
SetAttribWrapper  == {"SCardSetAttrib"}
GroupListWrapper  == {"SCardListReaderGroups"}
ListWrappers      == {"SCardListReaderGroupsW", "SCardListCardsA", "SCardListCardsW",
                      "SCardListInterfacesA", "SCardListInterfacesW"}
ProviderWrappers  == {"SCardGetProviderIdA", "SCardGetProviderIdW",
                      "SCardGetCardTypeProviderNameA", "SCardGetCardTypeProviderNameW"}
GroupWrappers     == {"SCardIntroduceReaderGroupA", "SCardIntroduceReaderGroupW",
                      "SCardForgetReaderGroupA", "SCardForgetReaderGroupW"}
ReaderWrappers    == {"SCardIntroduceReaderA", "SCardIntroduceReaderW",
                      "SCardForgetReaderA", "SCardForgetReaderW",
                      "SCardAddReaderToGroupA", "SCardAddReaderToGroupW",
                      "SCardRemoveReaderFromGroupA", "SCardRemoveReaderFromGroupW"}
CardTypeWrappers  == {"SCardIntroduceCardTypeA", "SCardIntroduceCardTypeW",
                      "SCardSetCardTypeProviderNameA", "SCardSetCardTypeProviderNameW",
                      "SCardForgetCardTypeA", "SCardForgetCardTypeW"}
LocateWrappers    == {"SCardLocateCardsA", "SCardLocateCardsW",
                      "SCardLocateCardsByATRA", "SCardLocateCardsByATRW"}
DialogWrappers    == {"SCardUIDlgSelectCardA", "SCardUIDlgSelectCardW",
                      "GetOpenCardNameA", "GetOpenCardNameW", "SCardDlgExtendedError"}
EventWrappers     == {"SCardAccessStartedEvent", "SCardReleaseStartedEvent"}
StatusWrapper     == {"SCardStatus"}
StateWrappers     == {"SCardState", "SCardStatusW", "SCardCancelTransaction"}
LinuxWrapper      == {"SCardGetStatusChange"}

Forwarded(build) ==
  ContextWrappers \cup ControlWrapper \cup SetAttribWrapper \cup GroupListWrapper
  \cup StatusWrapper
  \cup IF build = "windows"
         THEN ListWrappers \cup ProviderWrappers \cup GroupWrappers \cup ReaderWrappers
              \cup CardTypeWrappers \cup LocateWrappers \cup DialogWrappers \cup EventWrappers \cup StateWrappers
         ELSE LinuxWrapper

\* The function of the original library that the application means by f: on Windows
\* the names without a letter are those of the ANSI variants.
AnsiVariant ==
  [SCardConnect |-> "SCardConnectA", SCardStatus |-> "SCardStatusA",
   SCardListReaders |-> "SCardListReadersA", SCardListReaderGroups |-> "SCardListReaderGroupsA"]

Meant(build, f) == IF build = "windows" /\ f \in DOMAIN AnsiVariant THEN AnsiVariant[f] ELSE f
=============================================================================
