---------------------------- MODULE MCReaderList ----------------------------
(* Readers with names of one, two, three or four letters; a preferred one is found *)
(* among the physical readers, among the virtual ones, in both, as part of a name, *)
(* in the ANSI variant only, or not.  Coded names have no, one or two characters   *)
(* of padding, one contains a code above 127, and one name is decoded to nothing.  *)
EXTENDS ReaderList

A == 65
B == 66
C == 67

Plain(name) == [name |-> name, coded |-> FALSE]
InBase64(name) == [name |-> name, coded |-> TRUE]

MCPreferences   == {<<>>, <<B>>, <<A, B>>, <<A, A, A, A>>}
MCRealLists     == {<<>>, << <<A>>, <<B>> >>, << <<A, B>>, <<C>> >>}
MCStaticLists   == {<<>>, << <<C>> >>}
MCAnnouncements == {<<InBase64(<<C, B, A, 255>>), Plain(<<B>>), InBase64(<<C, A>>)>>,
                    <<InBase64(<<C, A, C>>)>>, <<Plain(<<Equals>>)>>}
=============================================================================
