---------------------------- MODULE Conversions ----------------------------
(***************************************************************************)
(* The conversions of CCommonFnc between bytes and text.  Characters are   *)
(* numbers, as in the code, and a text is a sequence of them.              *)
(***************************************************************************)
EXTENDS Integers, Sequences, FiniteSets, SequencesExt

Byte == 0 .. 255

NUL       == 0
LineFeed  == 10
Blank     == 32
Equals    == 61    \* =
Separator == 124   \* |, VIRTUAL_READERS_SEPARATOR

-----------------------------------------------------------------------------
(* Hexadecimal text *)

HexDigit(n) == IF n < 10 THEN 48 + n ELSE 87 + n   \* "%.2x": small letters

\* The value strtol gives a character, -1 if it is no digit.
DigitValue(c) ==
  CASE c \in 48 .. 57  -> c - 48
    [] c \in 65 .. 70  -> c - 55
    [] c \in 97 .. 102 -> c - 87
    [] OTHER           -> -1

\* With blanks between the bytes for people, without for the proxy.
BYTE_ConvertFromArrayToHexString(bytes, bAddSpace) ==
  LET width == IF bAddSpace THEN 3 ELSE 2
      last  == width * Len(bytes) - (IF bAddSpace /\ bytes # <<>> THEN 1 ELSE 0)
  IN  [p \in 1 .. last |->
         LET byte  == bytes[(p - 1) \div width + 1]
             place == (p - 1) % width
         IN  CASE place = 0 -> HexDigit(byte \div 16)
               [] place = 1 -> HexDigit(byte % 16)
               [] OTHER     -> Blank]

\* strtol of two characters, or of the one that is left at the end: what follows a
\* character that is no digit is not read; a tab or a sign before the digit is.
BYTE_ConvertFromHexNumToByte(hexNum) ==
  LET d(i) == IF i <= Len(hexNum) THEN DigitValue(hexNum[i]) ELSE -1
  IN  CASE d(1) >= 0 /\ d(2) < 0  -> d(1)
        [] d(1) >= 0 /\ d(2) >= 0 -> 16 * d(1) + d(2)
        [] d(2) >= 0 /\ hexNum[1] \in {9, 11, 12, 13, 43} -> d(2)
        [] d(2) >= 0 /\ hexNum[1] = 45 -> (256 - d(2)) % 256
        [] OTHER -> 0

\* The n-th of some positions in a text.
Nth(positions, n) == CHOOSE i \in positions : Cardinality({j \in positions : j <= i}) = n

\* Blanks and line ends are removed wherever they are.
WithoutBlanks(text) ==
  LET kept == {i \in DOMAIN text : text[i] \notin {Blank, LineFeed}}
  IN  [n \in 1 .. Cardinality(kept) |-> text[Nth(kept, n)]]

\* An array that is too short is not written, but the length it should have is told.
BYTE_ConvertFromHexStringToArray(hexaString, room) ==
  LET digits == WithoutBlanks(hexaString)
      n      == (Len(digits) + 1) \div 2
      bytes  == [i \in 1 .. n |->
                   BYTE_ConvertFromHexNumToByte(
                     SubSeq(digits, 2 * i - 1, IF 2 * i <= Len(digits) THEN 2 * i ELSE 2 * i - 1))]
  IN  [status |-> IF n > room THEN "STAT_NOT_ENOUGHT_MEMORY" ELSE "STAT_OK",
       bytes  |-> IF n > room THEN <<>> ELSE bytes,
       length |-> n]

-----------------------------------------------------------------------------
(* Base64 *)

base64_chars(n) ==
  CASE n < 26 -> 65 + n
    [] n \in 26 .. 51 -> 71 + n
    [] n \in 52 .. 61 -> n - 4
    [] n = 62 -> 43
    [] n = 63 -> 47

is_base64(c) == c \in (65 .. 90) \cup (97 .. 122) \cup (48 .. 57) \cup {43, 47}

\* base64_chars.find
Sextet(c) ==
  CASE c \in 65 .. 90  -> c - 65
    [] c \in 97 .. 122 -> c - 71
    [] c \in 48 .. 57  -> c + 4
    [] c = 43 -> 62
    [] c = 47 -> 63

\* Three bytes make four characters; the last group is filled up with zeros, and
\* the characters that stand for none of its bytes are padding.
base64_encode(bytes) ==
  LET n       == Len(bytes)
      byte(i) == IF i <= n THEN bytes[i] ELSE 0
  IN  [p \in 1 .. 4 * ((n + 2) \div 3) |->
         LET g == 3 * ((p - 1) \div 4)
             k == (p - 1) % 4
         IN  IF g + k > n THEN Equals
             ELSE base64_chars(
               CASE k = 0 -> byte(g + 1) \div 4
                 [] k = 1 -> (byte(g + 1) % 4) * 16 + byte(g + 2) \div 16
                 [] k = 2 -> (byte(g + 2) % 16) * 4 + byte(g + 3) \div 64
                 [] k = 3 -> byte(g + 3) % 64)]

\* How many characters are read: up to the padding, or to one that is none of the 64.
Coded(text) ==
  LET ends == {i \in DOMAIN text : text[i] = Equals \/ ~is_base64(text[i])}
  IN  IF ends = {} THEN Len(text) ELSE Min(ends) - 1

\* m characters of a last group that is not full make m - 1 bytes.
DecodedLength(m) == 3 * (m \div 4) + (IF m % 4 = 0 THEN 0 ELSE (m % 4) - 1)

base64_decode(text) ==
  [q \in 1 .. DecodedLength(Coded(text)) |->
     LET six(i) == Sextet(text[4 * ((q - 1) \div 3) + i])
     IN  CASE (q - 1) % 3 = 0 -> six(1) * 4 + six(2) \div 16
           [] (q - 1) % 3 = 1 -> (six(2) % 16) * 16 + six(3) \div 4
           [] (q - 1) % 3 = 2 -> (six(3) % 4) * 64 + six(4)]

-----------------------------------------------------------------------------
(* Lists of names in one text *)

\* A text with a mark behind it; an empty one is left out.
Marked(text, mark) == IF text = <<>> THEN <<>> ELSE text \o <<mark>>

\* String_SerializeAsSeparatedArray
Terminated(list, mark) ==
  LET upTo[n \in 0 .. Len(list)] == IF n = 0 THEN <<>> ELSE upTo[n - 1] \o Marked(list[n], mark)
  IN  upTo[Len(list)]

\* The non-empty items, up to a doubled separator.
String_ParseSeparatedArray(text) ==
  LET doubled == {i \in 1 .. Len(text) - 1 : text[i] = Separator /\ text[i + 1] = Separator}
      end     == IF doubled = {} THEN Len(text) ELSE Min(doubled) - 1
      starts  == {i \in 1 .. end : text[i] # Separator /\ (i = 1 \/ text[i - 1] = Separator)}
      stop(i) == Min({j \in i .. end : j = end \/ text[j + 1] = Separator})
  IN  [k \in 1 .. Cardinality(starts) |-> SubSeq(text, Nth(starts, k), stop(Nth(starts, k)))]
=============================================================================
