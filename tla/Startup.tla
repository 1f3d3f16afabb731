------------------------------ MODULE Startup ------------------------------
(***************************************************************************)
(* The life of the library in a process: the rules file is looked for and  *)
(* loaded section by section, on Windows the proxy is contacted, the       *)
(* original library is loaded and its functions are resolved, calls are    *)
(* handed on, and everything is given back at the end.  On Windows this is *)
(* InitInstance, whose answer decides whether the process starts; on Linux *)
(* it is the constructor of theApp, which has no answer.                   *)
(***************************************************************************)
EXTENDS RuleLoader, OriginalLibrary

CONSTANTS
  Builds,      \* "windows", "linux"
  Bytes,       \* the tokens that stand for bytes of APDUs
  Gaps,        \* sets of symbols an original library may lack
  MaxCommands  \* bound: exchanges with the proxy

ASSUME StartupAssumption ==
  /\ Builds \subseteq {"windows", "linux"}
  /\ MaxCommands \in Nat
  /\ NULL \notin {"open", "closed", "freed"}

VARIABLES
  build,
  phase,        \* where the start or the end is
  ruleDir,      \* where the rules file was found: "cwd", "env", "none"
  sections,     \* sections of the rules file that have been loaded
  settings,     \* m_winscardConfig and m_remoteConfig
  rulesList,
  rulesActive,  \* m_bRulesActive
  logDir,       \* the directory of the log files
  pSocket,      \* NULL, "open", "closed", or "freed" when it dangles
  nofSockets,   \* Socket::nofSockets_
  lost,         \* sockets whose constructor threw after they had been counted
  winsock,      \* is Winsock started?
  commands,     \* exchanges with the proxy
  original,     \* the symbols of the loaded original library, NULL when none is
  pointers      \* the Original_ pointers

rules   == <<ruleDir, sections, settings, rulesList, rulesActive, logDir>>
sockets == <<pSocket, nofSockets, lost, winsock, commands>>
library == <<original, pointers>>
vars    == <<fileVars, build, phase, rules, sockets, library>>

StartInit ==
  /\ FileInit
  /\ outOfMemory = FALSE
  /\ build \in Builds
  /\ phase = "look"
  /\ ruleDir = "none"
  /\ sections = 0
  /\ settings = Defaults
  /\ rulesList = <<>>
  /\ rulesActive = FALSE
  /\ logDir = "unset"
  /\ pSocket = NULL
  /\ nofSockets = 0
  /\ lost = 0
  /\ winsock = FALSE
  /\ commands = 0
  /\ original = NULL
  /\ pointers = [p \in Pointers[build] |-> Unresolved]

Phase(from, to) == phase = from /\ phase' = to /\ UNCHANGED build

-----------------------------------------------------------------------------
(* LoadRules *)

\* Where there is no rules file, file is empty.
FindRules ==
  /\ \/ Phase("look", "parse") /\ ruleDir' \in {"cwd", "env"}
     \/ Phase("look", "paths") /\ file = <<>> /\ UNCHANGED ruleDir
  /\ UNCHANGED <<fileVars, sections, settings, rulesList, rulesActive, logDir, sockets, library>>

Parse ==
  /\ phase = "parse"
  /\ Open \/ TooLong \/ Continue \/ TakeLine \/ Finish
  /\ UNCHANGED <<build, phase, rules, sockets, library>>

\* The next section of the dictionary.  An exception leaves InitInstance, or the
\* constructor, and nothing catches it.
LoadRule ==
  /\ load = "done"
  /\ sections < iniparser_getnsec(dict)
  /\ LET name == Sections(dict)[sections + 1][1]
     IN  /\ settings' =
              CASE name = <<"winscard">> -> LoadSettings(settings, dict, "winscard")
                [] name = <<"remote">> /\ build = "windows" ->
                     LoadSettings(settings, dict, "remote")
                [] OTHER -> settings
         /\ IF IsRuleSection(name)
              THEN \E stray \in Directions :
                     LET r == RuleOf(dict, name, stray)
                     IN  /\ Phase("parse", IF r.throws THEN "terminated" ELSE "parse")
                         /\ rulesList' = IF r.throws THEN rulesList ELSE Append(rulesList, r.rule)
              ELSE Phase("parse", "parse") /\ UNCHANGED rulesList
  /\ sections' = sections + 1
  /\ UNCHANGED <<fileVars, ruleDir, rulesActive, logDir, sockets, library>>

\* A rules file that could not be read makes the rules active, too.
RulesLoaded ==
  /\ load \in {"done", "failed"}
  /\ sections = iniparser_getnsec(dict)
  /\ Phase("parse", "paths")
  /\ IF load = "done" THEN Free ELSE UNCHANGED fileVars
  /\ rulesActive' = TRUE
  /\ UNCHANGED <<ruleDir, sections, settings, rulesList, logDir, sockets, library>>

\* baseDir is uninitialised when there is no rules file.
LogPaths ==
  /\ Phase("paths", IF build = "windows" /\ settings["redirect"] THEN "connect" ELSE "load")
  /\ logDir' = IF settings["log_base_path"] # <<>> THEN "forced"
                 ELSE IF ruleDir = "none" THEN "undefined" ELSE ruleDir
  /\ UNCHANGED <<fileVars, ruleDir, sections, settings, rulesList, rulesActive, sockets, library>>

-----------------------------------------------------------------------------
(* The socket of the proxy.  The base object counts itself; when it has    *)
(* no socket its constructor throws, and the count stays.  When the host   *)
(* cannot be reached the derived constructor throws, and the base object   *)
(* is destroyed again.                                                     *)

Counted(n) == nofSockets' = n /\ winsock' = (n > 0)

NoSocket(n) == Counted(n + 1) /\ lost' = lost + 1
\* Fault: the base object is not destroyed.
NotConnected_Counted(n) == Counted(n + 1) /\ UNCHANGED lost

NotConnected(n) == Counted(n) /\ UNCHANGED lost
Connected(n) == Counted(n + 1) /\ UNCHANGED lost

\* The probe; it is closed and deleted when it is connected.
Remote_Connect ==
  /\ \/ Phase("connect", "load") /\ (NoSocket(nofSockets) \/ NotConnected(nofSockets))
     \/ Phase("connect", "tag")  /\ NotConnected(nofSockets)
  /\ UNCHANGED <<fileVars, rules, pSocket, commands, library>>

\* The socket of an exchange: kept, or deleted before the next one is made.
Remote_SendRequest ==
  LET perCommand == settings["new_socket_per_command"]
      deletes    == perCommand /\ pSocket # NULL
      n          == IF deletes THEN nofSockets - 1 ELSE nofSockets
  IN  IF pSocket = NULL \/ deletes
        THEN \/ Connected(n) /\ pSocket' = IF perCommand THEN "closed" ELSE "open"
             \/ /\ NoSocket(n) \/ NotConnected(n)
                /\ pSocket' = IF deletes THEN "freed" ELSE NULL
        ELSE UNCHANGED <<pSocket, nofSockets, winsock, lost>>

\* The remote tag holds the name of the program, if that is known.
SendTag ==
  /\ Phase("tag", "load")
  /\ Remote_SendRequest \/ UNCHANGED <<pSocket, nofSockets, winsock, lost>>
  /\ UNCHANGED <<fileVars, rules, commands, library>>

\* A command meets a socket that dangles: RemoteProxy.  Here the calls end before.
SendCommand ==
  /\ Phase("running", "running")
  /\ build = "windows"
  /\ pSocket # "freed"
  /\ commands < MaxCommands
  /\ commands' = commands + 1
  /\ Remote_SendRequest
  /\ UNCHANGED <<fileVars, rules, library>>

-----------------------------------------------------------------------------
(* The original library *)

\* What initialize() makes of an original library that lacks some symbols.
Outcomes ==
  [b \in Builds |-> [gap \in Gaps |->
     LET exports == {Meant(b, p) : p \in Pointers[b]} \ gap
     IN  [exports |-> exports, pointers |-> Resolved(b, exports),
          answer |-> FirstMissing(b, exports) = 0]]]

Initialize ==
  /\ \/ /\ Phase("load", IF build = "linux" THEN "running" ELSE "unload")
        /\ UNCHANGED library
     \/ \E gap \in Gaps :
          LET o == Outcomes[build][gap]
          IN  /\ Phase("load", IF build = "linux" \/ o.answer THEN "running" ELSE "unload")
              /\ original' = o.exports
              /\ pointers' = o.pointers
  /\ UNCHANGED <<fileVars, rules, sockets>>

\* A call that is only handed on changes nothing here, unless it jumps through
\* a null pointer: nothing is checked before.
CallOfMissing(f) ==
  /\ Phase("running", "crashed")
  /\ pointers[f] = Unresolved
  /\ UNCHANGED <<fileVars, rules, sockets, library>>

\* The process ends, or Windows unloads a library that InitInstance refused.
Unload == Phase("running", "unload") /\ UNCHANGED <<fileVars, rules, sockets, library>>

\* The destructor of theApp; a socket that dangles is deleted, too.
Destroy ==
  /\ Phase("unload", IF pSocket = "freed" THEN "crashed" ELSE "gone")
  /\ original' = NULL
  /\ pSocket' = NULL
  /\ IF pSocket \in {"open", "closed"} THEN Counted(nofSockets - 1)
                                       ELSE UNCHANGED <<nofSockets, winsock>>
  /\ UNCHANGED <<fileVars, rules, lost, commands, pointers>>

StartNext ==
  \/ FindRules \/ Parse \/ LoadRule \/ RulesLoaded \/ LogPaths
  \/ Remote_Connect \/ SendTag \/ SendCommand
  \/ Initialize \/ (\E f \in Forwarded(build) : CallOfMissing(f)) \/ Unload \/ Destroy

StartSpec == StartInit /\ [][StartNext]_vars

-----------------------------------------------------------------------------
Phases == {"look", "parse", "paths", "connect", "tag", "load", "running", "unload", "gone",
           "crashed", "terminated"}

StartTypeOK ==
  /\ phase = "parse" => FileTypeOK
  /\ build \in Builds
  /\ phase \in Phases
  /\ ruleDir \in {"cwd", "env", "none"}
  /\ sections \in Nat
  /\ DOMAIN settings = DOMAIN Defaults
  /\ rulesActive \in BOOLEAN
  /\ logDir \in {"unset", "undefined", "forced", "cwd", "env"}
  /\ pSocket \in {NULL, "open", "closed", "freed"}
  /\ nofSockets \in Nat /\ lost \in Nat /\ winsock \in BOOLEAN
  /\ commands \in 0 .. MaxCommands
  /\ DOMAIN pointers = Pointers[build]

-----------------------------------------------------------------------------
(* What the rules file says, without a dictionary                          *)

HasRules == ruleDir # "none" /\ load = "freed"
Written  == IF HasRules THEN Meaning(file, Len(file), {}) ELSE Contents

TextIn(s, x) == IF <<s, x>> \in DOMAIN Written THEN Written[<<s, x>>] ELSE <<>>
TextOf(s, x) == TextIn(<<s>>, <<x>>)

\* The readers in a text: what is neither a separator nor behind a doubled one.
Listed(text) ==
  {text[i] : i \in {j \in DOMAIN text :
     /\ text[j] # "|"
     /\ \A m \in 1 .. j - 1 : text[m] = "|" => text[m + 1] # "|"}}

SettingsAsWritten ==
  /\ \A s \in {"winscard", "remote"} :
       LET counts == s = "winscard" \/ build = "windows"
       IN  /\ \A x \in Flags(s) : settings[x] = (counts /\ IsTrue(TextOf(s, x)))
           /\ \A x \in (Texts(s) \cup Numbers(s)) \ {"virtual_readers"} :
                settings[x] = IF counts /\ TextOf(s, x) # <<>>
                                THEN IF x \in Texts(s) THEN TextOf(s, x) ELSE Number(TextOf(s, x))
                                ELSE Defaults[x]
  /\ ToSet(settings["virtual_readers"]) = Listed(TextOf("winscard", "virtual_readers"))

\* The sections with rules and the lines that first name them.
NameOn(i) == SectionAt(file, i, {})

RuleLines ==
  {i \in 1 .. Len(file) :
     /\ Whole(file, i) /\ Status(file, i) = "section"
     /\ IsRuleSection(NameOn(i))
     /\ \A j \in 1 .. i - 1 :
          Whole(file, j) /\ Status(file, j) = "section" => NameOn(j) # NameOn(i)}

RulesInFileOrder ==
  LET lines == SetToSortSeq(IF HasRules THEN RuleLines ELSE {}, <)
  IN  /\ Len(rulesList) = Len(lines)
      /\ \A i \in DOMAIN lines : rulesList[i].ruleName = NameOn(lines[i])

\* The elementary rules of a text, one for each of its bytes, in their order: the
\* name at the start of its element says which byte of the APDU is meant, and
\* that of data is followed by a position and an equals sign.
Bytewise(text, history, in) ==
  LET places   == {q \in DOMAIN text : text[q] \in Bytes}
      start(q) == 1 + Max({0} \cup {c \in Commas(text) : c < q})
      at(q)    == IF text[start(q)] = "data"
                    THEN Digit[text[start(q) + 1]] + (q - start(q) - 3)
                           + (IF in = INPUT_APDU THEN OFFSET_CDATA ELSE 0)
                    ELSE Element[text[start(q)]]
      ordered  == SetToSortSeq(places, <)
  IN  [i \in DOMAIN ordered |-> SingleRule(history, in, at(ordered[i]), text[ordered[i]])]

MatchText(r)  == TextIn(r.ruleName, <<"match", "1">>)
ActionText(r) == TextIn(r.ruleName, <<"action">>)

\* A line that names no direction has that of the MATCH line, which may have any.
MatchAsWritten(r) ==
  \E in \in Directions :
    /\ ElementNumber(MatchText(r), "in", in) = in
    /\ r.matchRules = Bytewise(MatchText(r), ElementNumber(MatchText(r), "t", 0), in)

ActionAsWritten(r) ==
  \E in \in Directions :
    /\ ElementNumber(ActionText(r), "in", ElementNumber(MatchText(r), "in", in)) = in
    /\ r.actionRules = Bytewise(ActionText(r), 0, in)

EndsWithComma(text) == text # <<>> => Last(text) = ","
DataFromStart(text) == \A p \in DOMAIN text : text[p] = "data" => text[p + 1] = "0"
IsNumbered(name)    == Len(name) > 1 /\ name[2] \in DOMAIN Digit

RulesAsWritten ==
  \A i \in DOMAIN rulesList :
    LET r == rulesList[i]
        number(x, none) == IF TextIn(r.ruleName, x) = <<>> THEN none
                                                          ELSE Number(TextIn(r.ruleName, x))
    IN  /\ r.usage = number(<<"usage">>, 0)
        /\ r.direction = number(<<"apduin">>, INPUT_APDU)
        /\ EndsWithComma(MatchText(r)) /\ DataFromStart(MatchText(r)) => MatchAsWritten(r)
        /\ EndsWithComma(ActionText(r)) /\ IsNumbered(r.ruleName) => ActionAsWritten(r)

(* When the rules are loaded every setting has the last value the file     *)
(* gives it, or its default; the rules are those of the file in the order  *)
(* in which their sections are first named, which is the order ApplyRules  *)
(* tries them in; and each of them has, byte by byte, the elements, places *)
(* in the APDU, direction and history of the MATCH1 and the ACTION line of *)
(* its own section, provided that a comma ends the line, that the data of  *)
(* the MATCH line start at position 0 and, for the ACTION line, that a     *)
(* digit follows RULE in the section's name.  A file with a faulty line    *)
(* gives neither settings nor rules; but the rules are active if and only  *)
(* if there was a file, with or without a fault.                           *)
LoadedAsWritten ==
  phase = "paths" =>
    /\ SettingsAsWritten /\ RulesInFileOrder /\ RulesAsWritten
    /\ rulesActive = (ruleDir # "none")

(* As src/README.md:139-140 writes them, whose MATCH1 and ACTION lines end *)
(* without a comma: every element of a line is a part of the rule.  It     *)
(* does not hold of an element without a comma behind it.                  *)
LastElementCounts ==
  phase = "paths" =>
    \A i \in DOMAIN rulesList :
      LET r == rulesList[i]
      IN  /\ DataFromStart(MatchText(r)) => MatchAsWritten(r)
          /\ IsNumbered(r.ruleName) => ActionAsWritten(r)

(* As the comment at src/Winscard/Winscard.cpp:3908 says, the data of a    *)
(* MATCH line start on the position that its name gives.  It does not      *)
(* hold: they start at 0.                                                  *)
DataStartOnPosition ==
  phase = "paths" =>
    \A i \in DOMAIN rulesList :
      EndsWithComma(MatchText(rulesList[i])) => MatchAsWritten(rulesList[i])

(* A call that is only handed on reaches the function of the original      *)
(* library that the application means.  On Windows a process that got past *)
(* InitInstance may jump through a null pointer only for the functions     *)
(* that may be missing (SCardDlgExtendedError, whose name is misspelt,     *)
(* among them); on Linux, where the answer of initialize() is dropped, it  *)
(* may for any.                                                            *)
CallsReachTheirName ==
  phase = "running" =>
    \A f \in Forwarded(build) :
      \/ pointers[f] = Meant(build, f)
      \/ pointers[f] = Unresolved /\ (build = "linux" \/ f \in Optional)

(* Socket::nofSockets_ is the number of socket objects there are and of    *)
(* those whose constructor threw for want of a socket; Winsock is started  *)
(* while that number is not zero, so it is stopped in the end unless a     *)
(* constructor threw.                                                      *)
SocketsBalanced ==
  /\ nofSockets = lost + (IF pSocket \in {"open", "closed"} THEN 1 ELSE 0)
  /\ winsock = (nofSockets > 0)
=============================================================================
