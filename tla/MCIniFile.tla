----------------------------- MODULE MCIniFile -----------------------------
(* Files of up to MaxLines lines in every order: two sections, the name of *)
(* one of them the start of the other's, a section without a name, a key   *)
(* with two values, once written with a capital, a quoted value with a     *)
(* comment mark, a comment and a value that are continued, one that is     *)
(* continued twice, a value that would not read back, a line that is none  *)
(* of these, and a line that is longer than the buffer when it is appended *)
(* to another; a value that was continued is too long when it is saved.    *)
EXTENDS IniFile

CONSTANT MaxLines

MCLines ==
  { <<>>, <<"[", "s", "]">>, <<"[", "s", "t", "]">>, <<"[", "]">>,
    <<"k", "=", "1">>, <<"K", "=", Quote, "2", ";", Quote>>, <<"m", "=">>,
    <<"k", "=", "1", Backslash>>, <<";", "x", Backslash>>,
    <<"[", "s", "]", Backslash>>, <<"x">>, <<"k", "=", "3", Backslash, Backslash>>,
    <<"[", "=", "]", ";">> }

MCFiles   == SeqOf(MCLines, MaxLines)
MCTokens  == UNION {ToSet(l) : l \in MCLines} \cup {"edited", "k"}
MCValues  == Seq(Tokens)
MCNames   == Seq(Values)
MCEdits   == {<<<<"s">>, <<"K">>>>, <<<<"s", "t">>>>}
MCLower   == [K |-> "k"]
MCHash(k) == Len(k)
=============================================================================
