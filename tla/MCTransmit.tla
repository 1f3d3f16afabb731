---------------------------- MODULE MCTransmit ----------------------------
EXTENDS Transmit, TLC

\* A command from the bytes it consists of.
Command(bytes) ==
  [b |-> [e \in Index |-> IF e < Len(bytes) THEN bytes[e + 1] ELSE 0], len |-> Len(bytes)]

\* With a data byte, without one, without Lc, with an Le in the place of Lc, and the
\* application's own GET RESPONSE.
MCCommands ==
  {Command(<<1, 1, 0, 0, 1, 3>>), Command(<<0, 1, 0, 0>>), Command(<<1, 3, 0, 0, 2>>),
   Command(<<0, INS_C0, 0, 0, 0>>)}

In(h, e, v)  == [history |-> h, apduDirection |-> "INPUT_APDU", element |-> e, value |-> v]
Out(e, v)    == [history |-> 0, apduDirection |-> "OUTPUT_APDU", element |-> e, value |-> v]
Set(e, v)    == [valid |-> TRUE, element |-> e, value |-> v]
Rule(d, m, a) == [direction |-> d, usage |-> 1, matchRules |-> m, actionRules |-> a]

\* Two rules that change the same byte of a command, one of them for the answer
\* before it; one on the answer to a given command, and one that sets its length.
MCRules ==
  <<Rule("INPUT_APDU", <<In(0, 0, 1), In(0, 1, 1)>>, <<Set(1, 2), Set(5, 4)>>),
    Rule("INPUT_APDU", <<In(0, 0, 1), Out(0, 3)>>, <<Set(1, 0), Set(2, 1)>>),
    Rule("OUTPUT_APDU", <<In(0, 0, 1), In(1, 0, 0)>>, <<Set(0, 5)>>),
    Rule("OUTPUT_APDU", <<In(0, 1, 3)>>, <<Set(LE_ELEM, 1)>>)>>

Symmetry == Permutations(Threads)

MCDatas   == {<<>>, <<SW61>>, <<1, 2>>}
MCConfigs == {c \in Options : c.force => c.modify}
===========================================================================
