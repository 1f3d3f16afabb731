----------------------------- MODULE RuleLoader -----------------------------
(***************************************************************************)
(* What a section of winscard_rules.txt does to the library's settings and *)
(* to the list of rules.  The text of a MATCH or ACTION line is a list of  *)
(* elements, each ended by a comma; what comes after the last comma is not *)
(* looked at.  Of the MATCH lines only MATCH1 is ever found.  A section    *)
(* name, an element name and a number are tokens for their letters and for *)
(* each of their digits; bytes are tokens and stay as they are.            *)
(***************************************************************************)
EXTENDS IniFile

OFFSET_CDATA == 5
INPUT_APDU   == 1
Directions   == {0, 1}

\* CLA_ELEM, INS_ELEM, P1_ELEM, P2_ELEM, LC_ELEM, LE_ELEM
Element == [cla |-> 0, ins |-> 1, p1 |-> 2, p2 |-> 3, lc |-> 4, le |-> 299]

Digit == [d \in {"0", "1", "2", "3", "4"} |->
            CASE d = "0" -> 0 [] d = "1" -> 1 [] d = "2" -> 2 [] d = "3" -> 3 [] d = "4" -> 4]

Number(text) ==   \* strtol: the digits at the start
  LET stop == SelectInSeq(text, LAMBDA x : x \notin DOMAIN Digit)
  IN  FoldLeft(LAMBDA n, d : 10 * n + Digit[d], 0,
               IF stop = 0 THEN text ELSE SubSeq(text, 1, stop - 1))

-----------------------------------------------------------------------------
(* The settings                                                            *)

Flags(s) ==
  CASE s = "winscard" -> {"auto_request_data", "force_connect_shared_mode",
                          "force_apdu_nonzero_input_data", "log_exchanged_apdu",
                          "modify_apdu_by_rules"}
    [] s = "remote"   -> {"redirect", "new_socket_per_command"}

Texts(s) ==
  CASE s = "winscard" -> {"log_base_path", "reader_ordered_first", "virtual_readers"}
    [] s = "remote"   -> {"remote_reader_prefix", "ip", "port"}

Numbers(s) ==
  CASE s = "winscard" -> {}
    [] s = "remote"   -> {"measure_byte_counter", "measure_byte_delay", "read_ratio",
                          "num_samples"}

\* Of a build without TRAFFIC_LOGGING.
Defaults ==
  [remote_reader_prefix |-> <<"Simona">>]
  @@ [x \in Flags("winscard") \cup Flags("remote") |-> FALSE]
  @@ [x \in Texts("winscard") \cup Texts("remote") |-> <<>>]
  @@ [x \in Numbers("remote") |-> IF x = "read_ratio" THEN 1 ELSE
                                  IF x = "num_samples" THEN 1000 ELSE 0]

IsTrue(text)  == text # <<>> /\ Head(text) = "1"
IsFalse(text) == text # <<>> /\ Head(text) = "0"

iniparser_getboolean(d, k, notfound) ==
  LET text == iniparser_getstring(d, k, <<>>)
  IN  CASE IsTrue(text) -> TRUE [] IsFalse(text) -> FALSE [] OTHER -> notfound

\* String_ParseSeparatedArray: the non-empty items, each a token here, up to a
\* doubled separator.
SeparatedItems(text) ==
  LET doubled == {i \in 1 .. Len(text) - 1 : text[i] = "|" /\ text[i + 1] = "|"}
      end     == IF doubled = {} THEN Len(text) ELSE First(doubled) - 1
  IN  SelectSeq(SubSeq(text, 1, end), LAMBDA x : x # "|")

\* Fault: the settings of the other section are given up.
LoadSettings_Section(settings, d, s) ==
  [x \in Flags(s) \cup Texts(s) \cup Numbers(s) |-> settings[x]]

\* The flags, texts and numbers of a section that have a value there.
LoadSettings(settings, d, s) ==
  LET text(x) == iniparser_getstring(d, <<<<s>>, <<x>>>>, <<>>)
      new(x)  == CASE x \in Flags(s) ->
                        iniparser_getboolean(d, <<<<s>>, <<x>>>>, settings[x])
                   [] x = "virtual_readers" /\ x \in Texts(s) /\ text(x) # <<>> ->
                        SeparatedItems(text(x))
                   [] x \in Texts(s) \ {"virtual_readers"} /\ text(x) # <<>> -> text(x)
                   [] x \in Numbers(s) /\ text(x) # <<>> -> Number(text(x))
                   [] OTHER -> settings[x]
  IN  [x \in DOMAIN settings |-> new(x)]

-----------------------------------------------------------------------------
(* The rules                                                               *)

Commas(text) == {i \in DOMAIN text : text[i] = ","}

\* Where the element with this name is, 0 when it is nowhere.
ElementPlace(text, name) ==
  LET at == {i \in 1 .. Len(text) - 1 : text[i] = name /\ text[i + 1] = "="}
  IN  IF at = {} THEN 0 ELSE First(at)

ElementNumber(text, name, none) ==
  LET p == ElementPlace(text, name)
  IN  IF p = 0 THEN none ELSE Number(SubSeq(text, p + 2, p + 2))

\* The text without it, and without the comma that ends it.  Without a comma
\* everything after it goes, and nothing if it is the first element.
WithoutElement(text, name) ==
  LET p     == ElementPlace(text, name)
      after == {i \in Commas(text) : p <= i}
  IN  CASE p = 0 \/ (after = {} /\ p = 1) -> text
        [] after = {} /\ p > 1 -> SubSeq(text, 1, p - 1)
        [] OTHER -> SubSeq(text, 1, p - 1) \o SubSeq(text, First(after) + 1, Len(text))

\* The elements of a text, each without its comma; what has no comma is dropped.
Parts(text) ==
  LET ends == SetToSortSeq(Commas(text), <)
  IN  [j \in DOMAIN ends |->
         SubSeq(text, IF j = 1 THEN 1 ELSE ends[j - 1] + 1, ends[j] - 1)]

NameOf(part)  == Before(part, "=")
BytesOf(part) == After(part, "=")
IsData(part)  == NameOf(part) # <<>> /\ Head(NameOf(part)) = "data"

\* In a MATCH line the digits are searched for and then not read: the offset is 0.
MatchOffset(part) == [throws |-> Len(NameOf(part)) = 1, offset |-> 0]

\* In an ACTION line they are read from the place of the first digit of the name
\* of the section, both counted after the four letters "rule" and "data".
ActionOffset(name, part) ==
  LET digits == Tail(NameOf(part))
      skip   == SelectInSeq(Tail(name), LAMBDA x : x \in DOMAIN Digit) - 1
  IN  [throws |-> skip < 0 \/ skip > Len(digits),
       offset |-> IF skip < 0 \/ skip > Len(digits) THEN 0
                    ELSE Number(SubSeq(digits, skip + 1, Len(digits)))]

SingleRule(history, in, element, value) ==
  [valid |-> TRUE, history |-> history, apduDirection |-> in,
   element |-> element, value |-> value]

\* Fault: the offset is not moved on with the bytes.
Elementary_Stays(part, names, offset, history, in) ==
  LET at == IF in = INPUT_APDU THEN offset + OFFSET_CDATA ELSE offset
  IN  CASE Len(NameOf(part)) = 1 /\ Head(NameOf(part)) \in names ->
             <<SingleRule(history, in, Element[Head(NameOf(part))], Head(BytesOf(part)))>>
        [] IsData(part) ->
             [i \in DOMAIN BytesOf(part) |-> SingleRule(history, in, at, BytesOf(part)[i])]
        [] OTHER -> <<>>

\* The elementary rules of one element: one for each of its data bytes.
Elementary(part, names, offset, history, in) ==
  LET from == IF in = INPUT_APDU THEN offset + OFFSET_CDATA ELSE offset
  IN  CASE Len(NameOf(part)) = 1 /\ Head(NameOf(part)) \in names ->
             <<SingleRule(history, in, Element[Head(NameOf(part))], Head(BytesOf(part)))>>
        [] IsData(part) ->
             [i \in DOMAIN BytesOf(part) |->
                SingleRule(history, in, from + i - 1, BytesOf(part)[i])]
        [] OTHER -> <<>>

Header == {"cla", "ins", "p1", "p2", "lc"}

LoadMatch(text, stray) ==
  LET history == ElementNumber(text, "t", 0)
      noTime  == WithoutElement(text, "t")
      in      == ElementNumber(noTime, "in", stray)
      parts   == Parts(WithoutElement(noTime, "in"))
  IN  [in |-> in,
       throws |-> \E j \in DOMAIN parts : IsData(parts[j]) /\ MatchOffset(parts[j]).throws,
       rules  |-> FlattenSeq([j \in DOMAIN parts |->
                     Elementary(parts[j], Header, MatchOffset(parts[j]).offset, history, in)])]

\* The direction of the MATCH line holds on when there is none here.
LoadAction(text, name, before) ==
  LET in    == ElementNumber(text, "in", before)
      parts == Parts(WithoutElement(text, "in"))
      off(j) == IF IsData(parts[j]) THEN ActionOffset(name, parts[j])
                                    ELSE [throws |-> FALSE, offset |-> 0]
  IN  [throws |-> \E j \in DOMAIN parts : off(j).throws,
       rules  |-> FlattenSeq([j \in DOMAIN parts |->
                     Elementary(parts[j], Header \cup {"le"}, off(j).offset, 0, in)])]

\* stray: what the uninitialised apduDirection of singleRule holds.
RuleOf(d, name, stray) ==
  LET text(x) == iniparser_getstring(d, <<name, x>>, <<>>)
      number(x, none) == IF text(x) = <<>> THEN none ELSE Number(text(x))
      match  == LoadMatch(text(<<"match", "1">>), stray)
      action == LoadAction(text(<<"action">>), name, match.in)
  IN  [throws |-> match.throws \/ action.throws,
       rule   |-> [ruleName |-> name, usage |-> number(<<"usage">>, 0),
                   direction |-> number(<<"apduin">>, INPUT_APDU),
                   msDelay |-> number(<<"delay">>, 0),
                   matchRules |-> match.rules, actionRules |-> action.rules]]

IsRuleSection(name) == name # <<>> /\ Head(name) = "rule"
=============================================================================
