------------------------------ MODULE IniFile ------------------------------
(***************************************************************************)
(* The loading of an INI file into a dictionary, line by line, and what    *)
(* the application may then do with the dictionary.  Text is a sequence of *)
(* tokens: "[", "]", "=", the comment mark ";" (the code takes # too), the *)
(* quote, the backslash, and words, each of them as one character.  Blanks *)
(* between tokens and at the ends of a line mean nothing and are left out, *)
(* and with them a section whose name is blank; where a saved line is      *)
(* measured, the blanks that saving puts in are counted.                   *)
(***************************************************************************)
EXTENDS IniDictionary, Sequences, SequencesExt

CONSTANTS
  Tokens,       \* the tokens of text
  Files,        \* the files there may be, sequences of lines of tokens
  Edits,        \* the names the application sets or unsets afterwards
  MaxEdits,     \* bound: how often it does
  ASCIILINESZ,  \* tokens a line may have, continuation lines included
  KeyWidth,     \* columns that a key takes at least when it is saved
  Quote,        \* the character "
  Backslash,    \* the character that continues a line
  Lower         \* words with capitals, and what they are in lower case

ASSUME IniFileAssumption ==
  /\ Values = Seq(Tokens)
  /\ Names = Seq(Values)
  /\ Files \subseteq Seq(Seq(Tokens))
  /\ Edits \subseteq Names
  /\ \A x \in DOMAIN Lower : Lower[x] \in Tokens \ DOMAIN Lower
  /\ Backslash \notin {"]", "="}
  /\ "edited" \in Tokens
  /\ ASCIILINESZ \in Nat /\ KeyWidth \in Nat /\ MaxEdits \in Nat

VARIABLES
  file,     \* the lines of the file
  lineno,   \* lines read
  line,     \* text kept from lines that end in a backslash
  section,  \* name of the last section line
  errs,     \* has a line been refused?
  load,     \* "start", "reading", perhaps "breaking", "done" or "failed", "freed"
  edits     \* changes made to the loaded dictionary

reading  == <<file, lineno, line, section, errs>>
fileVars == <<dict, outOfMemory, file, lineno, line, section, errs, load, edits>>

-----------------------------------------------------------------------------
(* The parts of a line.                                                    *)
Place(text, token)  == SelectInSeq(text, LAMBDA x : x = token)
Before(text, token) ==
  IF Place(text, token) = 0 THEN text ELSE SubSeq(text, 1, Place(text, token) - 1)
After(text, token)  == SubSeq(text, Place(text, token) + 1, Len(text))

IsComment(text) == Head(text) = ";"
IsSection(text) == Head(text) = "[" /\ Last(text) = "]"
IsValue(text)   == Place(text, "=") > 1

iniparser_line(text) ==
  IF text = <<>>          THEN "empty"
  ELSE IF IsComment(text) THEN "comment"
  ELSE IF IsSection(text) THEN "section"
  ELSE IF IsValue(text)   THEN "value"
  ELSE "error"

\* A line of which no copy can be made counts as empty.
Statuses(text) == {iniparser_line(text)} \cup (IF outOfMemory THEN {"empty"} ELSE {})

strlwc(text) == [i \in DOMAIN text |-> IF text[i] \in DOMAIN Lower THEN Lower[text[i]] ELSE text[i]]

\* "[]" gives no name: the one in the buffer is cut to less than the length of the line.
NameIn(text, old) ==
  LET name == Before(Tail(text), "]")
  IN  strlwc(IF name # <<>> THEN name
               ELSE SubSeq(old, 1, IF Len(text) <= Len(old) THEN Len(text) - 1 ELSE Len(old)))

KeyIn(text) == strlwc(Before(text, "="))

\* A quoted value may hold comment marks; an empty one is taken unquoted.
ValueIn(text) ==
  LET rest  == After(text, "=")
      plain == Before(rest, ";")
  IN  IF rest # <<>> /\ Head(rest) = Quote /\ Before(Tail(rest), Quote) # <<>>
        THEN Before(Tail(rest), Quote)
        ELSE IF plain = <<Quote, Quote>> THEN <<>> ELSE plain

IsContinued(text) == text # <<>> /\ Last(text) = Backslash

-----------------------------------------------------------------------------
FileInit ==
  /\ Init
  /\ file \in Files
  /\ lineno = 0
  /\ line = <<>>
  /\ section = <<>>
  /\ errs = FALSE
  /\ load = "start"
  /\ edits = 0

Open ==
  /\ load = "start"
  /\ \/ New /\ load' = "reading"
     \/ UNCHANGED <<dict, outOfMemory>> /\ load' = "failed"   \* no such file, no memory
  /\ UNCHANGED <<reading, edits>>

Text == line \o file[lineno + 1]

Reads ==
  /\ load = "reading"
  /\ lineno < Len(file)
  /\ lineno' = lineno + 1
  /\ UNCHANGED <<file, edits>>

\* Fault: the dictionary is kept.
TooLong_Keeps ==
  /\ Reads
  /\ Len(Text) > ASCIILINESZ
  /\ load' = "failed"
  /\ UNCHANGED <<dict, outOfMemory, line, section, errs>>

TooLong ==
  /\ Reads
  /\ Len(Text) > ASCIILINESZ
  /\ Del
  /\ load' = "failed"
  /\ UNCHANGED <<line, section, errs>>

\* Fault: the text kept before is forgotten.
Continue_Forgets ==
  /\ Reads
  /\ Len(Text) <= ASCIILINESZ
  /\ IsContinued(Text)
  /\ line' = Front(file[lineno + 1])
  /\ UNCHANGED <<dict, outOfMemory, section, errs, load>>

Continue ==
  /\ Reads
  /\ Len(Text) <= ASCIILINESZ
  /\ IsContinued(Text)
  /\ line' = Front(Text)
  /\ UNCHANGED <<dict, outOfMemory, section, errs, load>>

Enter(k, v) ==
  \/ Set(k, v) /\ load' = load
  \/ SetFails(k) /\ load' = "breaking"

TakeLine ==
  /\ Reads
  /\ Len(Text) <= ASCIILINESZ
  /\ ~IsContinued(Text)
  /\ line' = <<>>
  /\ \E status \in Statuses(Text) :
       /\ section' = IF status = "section" THEN NameIn(Text, section) ELSE section
       /\ errs' = (errs \/ status = "error")
       /\ CASE status = "section" -> Enter(<<section'>>, NULL)
            [] status = "value"   -> Enter(<<section, KeyIn(Text)>>, ValueIn(Text))
            [] OTHER              -> UNCHANGED <<dict, outOfMemory, load>>

\* Fault: lines that were refused are passed over.
Finish_Keeps ==
  /\ \/ load = "reading" /\ lineno = Len(file)
     \/ load = "breaking"
  /\ load' = "done"
  /\ UNCHANGED <<dict, outOfMemory, reading, edits>>

\* The end of the file, or the end of the loop when an entry found no room.
Finish ==
  /\ \/ load = "reading" /\ lineno = Len(file)
     \/ load = "breaking"
  /\ IF errs THEN Del /\ load' = "failed"
             ELSE load' = "done" /\ UNCHANGED <<dict, outOfMemory>>
  /\ UNCHANGED <<reading, edits>>

\* The application may name an entry in capitals.
Entry(k) == [i \in DOMAIN k |-> strlwc(k[i])]

Edit ==
  /\ load = "done"
  /\ edits < MaxEdits
  /\ edits' = edits + 1
  /\ \E e \in Edits :
       LET k == Entry(e) IN Set(k, <<"edited">>) \/ SetFails(k) \/ Unset(k)
  /\ UNCHANGED <<reading, load>>

Free ==
  /\ load = "done"
  /\ Del
  /\ load' = "freed"
  /\ UNCHANGED <<reading, edits>>

FileNext == Open \/ TooLong \/ Continue \/ TakeLine \/ Finish \/ Edit \/ Free

FileSpec == FileInit /\ [][FileNext]_fileVars
-----------------------------------------------------------------------------
(* Reading the dictionary.  A name holds a colon, and is that of a key,    *)
(* when it has two parts.                                                  *)
Entries(d) == {d.key[i] : i \in Used(d)}

\* The j-th of some slots in the order of the arrays, and the names there.
SlotAt(slots, j) == CHOOSE i \in slots : Cardinality({m \in slots : m <= i}) = j

NamesIn(d, slots) == [j \in 1 .. Cardinality(slots) |-> d.key[SlotAt(slots, j)]]

Sections(d)       == NamesIn(d, {i \in Used(d) : Len(d.key[i]) = 1})
SectionKeys(d, s) == NamesIn(d, {i \in Used(d) : Len(d.key[i]) = 2 /\ d.key[i][1] = s})

iniparser_getnsec(d)                == IF d = None THEN 0 ELSE Len(Sections(d))
iniparser_find_entry(d, k)          == d # None /\ SlotsOf(d, Entry(k)) # {}
iniparser_getstring(d, k, notfound) ==
  IF d = None THEN notfound ELSE dictionary_get(d, Entry(k), notfound)

\* The lines a dictionary is saved as: its sections, each with its keys, or
\* the keys as they are when there is no section.
Assignment(d, k, written) ==
  written \o <<"=">> \o (IF dictionary_get(d, k, NULL) = NULL THEN <<>>
                           ELSE dictionary_get(d, k, NULL))

DumpSection(d, s) ==
  LET keys == SectionKeys(d, s)
  IN  <<(<<"[">> \o s \o <<"]">>)>>
      \o [j \in DOMAIN keys |-> Assignment(d, keys[j], keys[j][2])]

\* Fault: the last section is left out.
DumpIni_Short(d) ==
  FlattenSeq([j \in 1 .. iniparser_getnsec(d) - 1 |-> DumpSection(d, Sections(d)[j][1])])

DumpIni(d) ==
  LET all == NamesIn(d, Used(d))
  IN  IF iniparser_getnsec(d) < 1
        THEN [j \in DOMAIN all |-> Assignment(d, all[j], all[j][1] \o <<":">> \o all[j][2])]
        ELSE FlattenSeq([j \in DOMAIN Sections(d) |-> DumpSection(d, Sections(d)[j][1])])

-----------------------------------------------------------------------------
(* What the first n lines of a file mean, without a dictionary, when some  *)
(* of them are lost.                                                       *)
Joined(f, i) ==   \* line i with the lines continued into it
  LET text[j \in DOMAIN f] ==
        IF j > 1 /\ IsContinued(text[j - 1]) THEN Front(text[j - 1]) \o f[j] ELSE f[j]
  IN  text[i]

Whole(f, i) == ~IsContinued(Joined(f, i))

Status(f, i) == iniparser_line(Joined(f, i))

SectionAt(f, i, lost) ==
  LET name[j \in 0 .. Len(f)] ==
        IF j = 0 THEN <<>>
          ELSE IF j \notin lost /\ Whole(f, j) /\ Status(f, j) = "section"
                 THEN NameIn(Joined(f, j), name[j - 1])
                 ELSE name[j - 1]
  IN  name[i]

NameAt(f, i, lost) ==
  IF Status(f, i) = "section" THEN <<SectionAt(f, i, lost)>>
    ELSE <<SectionAt(f, i, lost), KeyIn(Joined(f, i))>>

ValueAt(f, i) == IF Status(f, i) = "section" THEN NULL ELSE ValueIn(Joined(f, i))

Meaning(f, n, lost) ==
  LET entering == {i \in (1 .. n) \ lost : Whole(f, i) /\ Status(f, i) \in {"section", "value"}}
      last(k)  == CHOOSE i \in entering :
                    /\ NameAt(f, i, lost) = k
                    /\ \A j \in entering : NameAt(f, j, lost) = k => j <= i
  IN  [k \in {NameAt(f, i, lost) : i \in entering} |-> ValueAt(f, last(k))]

Refused(f) ==
  \E i \in 1 .. Len(f) :
    \/ Whole(f, i) /\ Status(f, i) = "error"
    \/ Len(Joined(f, i)) > ASCIILINESZ

-----------------------------------------------------------------------------
FileTypeOK ==
  /\ TypeOK
  /\ lineno \in 0 .. Len(file)
  /\ load \in {"start", "reading", "breaking", "done", "failed", "freed"}
  /\ (dict = None) = (load \in {"start", "failed", "freed"})
  /\ edits \in 0 .. MaxEdits

(* While and after a file is loaded, the dictionary holds what the lines   *)
(* read so far mean: the last value given to a name, in a section that may *)
(* be opened again, lines joined at backslashes and cut at comments.  With *)
(* too little memory some lines are passed over, the line of a section     *)
(* among them, whose keys then are taken for those of the section before,  *)
(* and of what the others mean entries or their values are missing; but    *)
(* nothing is older than the last line that was not passed over.           *)
LoadsWhatIsWritten ==
  load \in {"reading", "breaking", "done"} /\ edits = 0 =>
    IF outOfMemory
      THEN \E lost \in SUBSET (1 .. lineno) :
             LET meant == Meaning(file, lineno, lost)
             IN  \A k \in DOMAIN Contents :
                   k \in DOMAIN meant /\ Contents[k] \in {NULL, meant[k]}
      ELSE Contents = Meaning(file, lineno, {})

(* One line that cannot be read costs the whole file, wherever it is: the  *)
(* load answers NULL if and only if some line is too long or is none of    *)
(* the forms iniparser_line knows.                                         *)
RefusedAsAWhole ==
  load \in {"done", "failed"} /\ lineno > 0 /\ ~outOfMemory =>
    (load = "failed") = Refused(file)

(* A dictionary saved as a file is loaded again as the same dictionary,    *)
(* provided a section without a name is the first, every key is in a       *)
(* section that has an entry, names do not hold the characters that end    *)
(* them in a file or begin like another line, as the application may call  *)
(* an entry, no value needs the quotes it was written with, and no line is *)
(* too long as it is saved.                                                *)
NamesSectionLine(s) == Place(s, "]") = 0
BeginsValueLine(x)  == x # <<>> /\ Head(x) \notin {"[", ";"} /\ Place(x, "=") = 0

Plain(v) == v # NULL /\ \A x \in {";", Quote, Backslash} : Place(v, x) = 0

CanBeSaved(d) ==
  /\ <<<<>>>> \in Entries(d) => Sections(d)[1] = <<<<>>>>
  /\ \A k \in Entries(d) :
       \/ Len(k) = 1 /\ Contents[k] = NULL /\ NamesSectionLine(k[1])
       \/ /\ Len(k) = 2 /\ <<k[1]>> \in Entries(d)
          /\ BeginsValueLine(k[2]) /\ Plain(Contents[k])

\* The columns of the line an entry is saved as: "%-30s = %s" for a key.
Columns(k) ==
  IF Len(k) = 1 THEN Len(k[1]) + 2
    ELSE (IF Len(k[2]) < KeyWidth THEN KeyWidth ELSE Len(k[2])) + 3 + Len(Contents[k])

SavedFits == \A k \in DOMAIN Contents : Columns(k) <= ASCIILINESZ

SavedReadsBack ==
  load = "done" /\ CanBeSaved(dict) /\ SavedFits =>
    LET saved == DumpIni(dict)
    IN  ~Refused(saved) /\ Meaning(saved, Len(saved), {}) = Contents

(* What the comments of iniparser_dump_ini and iniparser_dumpsection_ini   *)
(* promise, a loadable file: none of its lines is longer than what         *)
(* iniparser_load takes.  It does not hold, since keys are padded.         *)
SavedIsLoadable == load = "done" /\ CanBeSaved(dict) => SavedFits
=============================================================================
