----------------------------- MODULE PacketTree -----------------------------
(***************************************************************************)
(* The log parser: the lines of winscard_log.txt are read one by one, the  *)
(* commands with the same header go into one tree and their answers into   *)
(* another, as prefix trees whose nodes hold the bytes that packets share. *)
(* A node is divided where two packets part.  A packet is not stored; it   *)
(* is the way from its leaf to the root when the trees are written, after  *)
(* all nodes have been cut into single bytes if simpleNodes is set.        *)
(***************************************************************************)
EXTENDS Integers, Sequences, FiniteSets, SequencesExt

CONSTANTS
  Headers,     \* headers of commands, sequences of HeaderLength bytes
  Sent,        \* what may follow the header, the empty sequence included
  Answers,     \* answers of the card
  HeaderLength,
  MaxLines     \* bound: lines of the log that are read

ASSUME PacketTreeAssumption ==
  /\ HeaderLength \in Nat \ {0}
  /\ \A s \in Headers \cup Sent \cup Answers : s \in Seq(Range(s))
  /\ \A h \in Headers : Len(h) = HeaderLength
  /\ \A a \in Answers : a # <<>>
  /\ MaxLines \in Nat

VARIABLES
  settings,             \* simpleNodes, separatePackets
  phase,                \* "parse", "simplify", "write", "done"
  node,                 \* all nodes, by identifier
  packets,              \* the trees, by header
  lastProcessedPacket,  \* header of the last command, <<>> before the first
  ac,
  printed,              \* what printPackets and OutputTree have made of the trees
  unprinted,            \* trees still to be written
  aborted,              \* trees whose writing ended with an exception
  log,                  \* observed: the commands read, with their answers
  lines,                \* observed: number of lines read
  failed,               \* observed: an exception has ended the parsing
  split                 \* observed: nodes that took part in a division

vars == <<settings, phase, node, packets, lastProcessedPacket, ac, printed, unprinted,
          aborted, log, lines, failed, split>>

Init ==
  /\ settings \in [simpleNodes : BOOLEAN, separatePackets : BOOLEAN]
  /\ phase = "parse"
  /\ node = <<>>
  /\ packets = <<>>
  /\ lastProcessedPacket = <<>>
  /\ ac = 1
  /\ printed = <<>>
  /\ unprinted = {}
  /\ aborted = {}
  /\ log = <<>>
  /\ lines = 0
  /\ failed = FALSE
  /\ split = {}

-----------------------------------------------------------------------------
(* Node *)

\* Map.put: the value under a key, in place of the one that was there.
put(map, key, value) ==
  [k \in {key} \cup DOMAIN map |-> IF k = key THEN value ELSE map[k]]

NewNode(data, count) == [data |-> data, parent |-> 0, childNodes |-> <<>>, count |-> count]

addChild(nodes, p, c) ==
  [nodes EXCEPT ![p].childNodes = put(@, nodes[c].data[1], c), ![c].parent = p]

\* Fault: counting starts from zero.
AddNew_Zero(nodes, p, data, count) ==
  addChild(Append(nodes, NewNode(data, 0)), p, Len(nodes) + 1)

\* A new node below p; it gets the next identifier.
AddNew(nodes, p, data, count) ==
  addChild(Append(nodes, NewNode(data, count)), p, Len(nodes) + 1)

incrementCount(nodes, S) == [n \in DOMAIN nodes |->
  IF n \in S THEN [nodes[n] EXCEPT !.count = @ + 1] ELSE nodes[n]]

\* Fault: the new node is not entered in the parent.
divide_Detached(nodes, n, index) ==
  LET d     == nodes[n].data
      lower == [nodes EXCEPT ![n].data = SubSeq(d, index + 1, Len(d))]
  IN  addChild(Append(lower, NewNode(SubSeq(d, 1, index), 1)), Len(nodes) + 1, n)

\* Fault: off by one.
divide_Early(nodes, n, index) ==
  LET d     == nodes[n].data
      k     == IF index > 1 THEN index - 1 ELSE index
      lower == [nodes EXCEPT ![n].data = SubSeq(d, k + 1, Len(d))]
  IN  addChild(AddNew(lower, nodes[n].parent, SubSeq(d, 1, k), 1), Len(nodes) + 1, n)

\* The first bytes of a node move to a new node between it and its parent.
divide(nodes, n, index) ==
  LET d     == nodes[n].data
      lower == [nodes EXCEPT ![n].data = SubSeq(d, index + 1, Len(d))]
  IN  addChild(AddNew(lower, nodes[n].parent, SubSeq(d, 1, index), 1), Len(nodes) + 1, n)

-----------------------------------------------------------------------------
(* Tree *)

\* What a stream shares with a node, and what is left of it.
Arrive(nodes, passed, n, stream) ==
  LET shared == Len(LongestCommonPrefix({nodes[n].data, stream}))
  IN  [passed |-> passed \cup {n}, last |-> n, shared |-> shared,
       rest |-> SubSeq(stream, shared + 1, Len(stream))]

\* The stream has all of the node in it, and goes on into a child.
GoesOn(nodes, w) ==
  /\ w.shared = Len(nodes[w.last].data)
  /\ w.rest # <<>>
  /\ w.rest[1] \in DOMAIN nodes[w.last].childNodes

\* The nodes a stream passes from a child of the root on; each takes a byte of it.
Walk(nodes, start, stream) ==
  LET w[k \in 0 .. Len(stream)] ==
        IF k = 0 THEN Arrive(nodes, {}, start, stream)
        ELSE IF GoesOn(nodes, w[k - 1])
        THEN Arrive(nodes, w[k - 1].passed,
                    nodes[w[k - 1].last].childNodes[w[k - 1].rest[1]], w[k - 1].rest)
        ELSE w[k - 1]
  IN  w[Len(stream)]

\* A stream that ends inside a node gets that node for a leaf, as if it were longer.
merge(nodes, root, stream) ==
  LET counted == incrementCount(nodes, {root})
      w       == Walk(nodes, nodes[root].childNodes[stream[1]], stream)
      passed  == incrementCount(counted, w.passed)
      divided == divide(passed, w.last, w.shared)
  IN  IF stream[1] \notin DOMAIN nodes[root].childNodes
      THEN [nodes |-> AddNew(counted, root, stream, 1), leaf |-> Len(nodes) + 1, split |-> {}]
      ELSE IF w.rest = <<>> THEN [nodes |-> passed, leaf |-> w.last, split |-> {}]
      ELSE IF w.shared < Len(nodes[w.last].data)
      THEN [nodes |-> AddNew(divided, Len(divided), w.rest, 1), leaf |-> Len(divided) + 1,
            split |-> {w.last, Len(divided)}]
      ELSE [nodes |-> AddNew(passed, w.last, w.rest, 1), leaf |-> Len(nodes) + 1,
            split |-> {}]

\* Fault: the leaf is not kept.
Packet_Empty(leaf) == [transmittedLeafNode |-> 0, receivedLeafNode |-> 0, ac |-> 0]

Packet(leaf) == [transmittedLeafNode |-> leaf, receivedLeafNode |-> 0, ac |-> 0]

\* The constructor: a root with the first command below it, a root for the answers.
Tree(nodes, header, data) ==
  LET roots == Append(nodes, NewNode(header, 1))
  IN  Append(AddNew(roots, Len(roots), data, 1), NewNode(header, 0))

-----------------------------------------------------------------------------
(* Parser: one action per kind of line *)

Reads == phase = "parse" /\ lines < MaxLines /\ lines' = lines + 1

\* printData follows, whether the file was read to its end or not.
StartWriting ==
  /\ phase' = IF settings.simpleNodes THEN "simplify" ELSE "write"
  /\ unprinted' = DOMAIN packets

handleTransmittedData(h, data) ==
  /\ Reads
  /\ data # <<>>
  /\ IF h \notin DOMAIN packets
     THEN LET n == Len(node) IN
          /\ node' = Tree(node, h, data)
          /\ packets' = put(packets, h, [root |-> n + 1, receivedRoot |-> n + 3,
                                         streamPackets |-> <<Packet(n + 2)>>])
          /\ split' = split
     ELSE LET m == merge(node, packets[h].root, data) IN
          /\ node' = m.nodes
          /\ packets' = [packets EXCEPT ![h].streamPackets = Append(@, Packet(m.leaf))]
          /\ split' = split \cup m.split
  /\ lastProcessedPacket' = h
  /\ log' = Append(log, [header |-> h, sent |-> data, answers |-> <<>>])
  /\ UNCHANGED <<settings, phase, ac, printed, unprinted, aborted, failed>>

\* A command that is only a header has no first byte to look for: the exception ends
\* the reading of the file, after the root has been counted.
handleTransmittedDataThrows(h) ==
  /\ Reads
  /\ <<>> \in Sent
  /\ node' = IF h \in DOMAIN packets THEN incrementCount(node, {packets[h].root}) ELSE node
  /\ failed' = TRUE
  /\ StartWriting
  /\ UNCHANGED <<settings, packets, lastProcessedPacket, ac, printed, aborted, log, split>>

lastPacket(h) == Len(packets[h].streamPackets)

\* An answer before the first command is reported and dropped.
handleReceivedData(data) ==
  LET h == lastProcessedPacket IN
  /\ Reads
  /\ h # <<>>
  /\ LET m == merge(node, packets[h].receivedRoot, data) IN
     /\ node' = m.nodes
     /\ packets' = [packets EXCEPT
                      ![h].streamPackets[lastPacket(h)].receivedLeafNode = m.leaf]
     /\ split' = split \cup m.split
  /\ log' = [log EXCEPT ![Len(log)].answers = Append(@, data)]
  /\ UNCHANGED <<settings, phase, lastProcessedPacket, ac, printed, unprinted, aborted,
                 failed>>

\* Fault: the counter does not advance with the packet it numbers.
handleResponseTime_NotCounted ==
  LET h == lastProcessedPacket IN
  /\ Reads
  /\ h # <<>>
  /\ packets' = [packets EXCEPT ![h].streamPackets[lastPacket(h)].ac = ac]
  /\ UNCHANGED <<settings, phase, node, lastProcessedPacket, ac, printed, unprinted, aborted,
                 log, failed, split>>

handleResponseTime ==
  LET h == lastProcessedPacket IN
  /\ Reads
  /\ h # <<>>
  /\ packets' = [packets EXCEPT ![h].streamPackets[lastPacket(h)].ac = ac]
  /\ ac' = ac + 1
  /\ UNCHANGED <<settings, phase, node, lastProcessedPacket, printed, unprinted, aborted, log,
                 failed, split>>

\* There is no tree to take the time.
handleResponseTimeThrows ==
  /\ Reads
  /\ lastProcessedPacket = <<>>
  /\ failed' = TRUE
  /\ StartWriting
  /\ UNCHANGED <<settings, node, packets, lastProcessedPacket, ac, printed, aborted, log,
                 split>>

parseFileEnds ==
  /\ phase = "parse"
  /\ StartWriting
  /\ UNCHANGED <<settings, node, packets, lastProcessedPacket, ac, printed, aborted, log, lines,
                 failed, split>>

-----------------------------------------------------------------------------
(* Writer *)

Roots == UNION {{packets[h].root, packets[h].receivedRoot} : h \in DOMAIN packets}

\* The nodes of the trees.
InTree == {n \in DOMAIN node : n \in Roots \/
             (node[n].parent # 0 /\ n \in Range(node[node[n].parent].childNodes))}

\* One turn of the loop: all bytes of a node but the last move to new nodes above it.
simplifyNodes(n) ==
  LET d   == node[n].data
      k   == Len(node)
      new == [i \in 1 .. Len(d) - 1 |->
                [data |-> <<d[i]>>, count |-> node[n].count,
                 parent |-> IF i = 1 THEN node[n].parent ELSE k + i - 1,
                 childNodes |-> put(<<>>, d[i + 1], IF i = Len(d) - 1 THEN n ELSE k + i + 1)]]
  IN  /\ phase = "simplify"
      /\ Len(d) > 1
      /\ n \in InTree \ Roots
      /\ node' = [node EXCEPT ![node[n].parent].childNodes = put(@, d[1], k + 1),
                              ![n].data = <<Last(d)>>,
                              ![n].parent = k + Len(d) - 1] \o new
      /\ UNCHANGED <<settings, phase, packets, lastProcessedPacket, ac, printed, unprinted,
                     aborted, log, lines, failed, split>>

simplifyNodesEnds ==
  /\ phase = "simplify"
  /\ \A n \in InTree \ Roots : Len(node[n].data) = 1
  /\ phase' = "write"
  /\ UNCHANGED <<settings, node, packets, lastProcessedPacket, ac, printed, unprinted, aborted,
                 log, lines, failed, split>>

\* The bytes from the root to a node.
getDataFromLeafNode(leaf) ==
  LET up[n \in 0 .. Len(node)] == IF n = 0 THEN <<>> ELSE up[node[n].parent] \o node[n].data
  IN  up[leaf]

\* A packet without its header, as it is written.
Written(leaf) ==
  LET data == getDataFromLeafNode(leaf) IN SubSeq(data, HeaderLength + 1, Len(data))

addReceivedMessage(received, answer) ==
  put(received, answer, IF answer \in DOMAIN received THEN received[answer] + 1 ELSE 1)

\* Fault: the answers of a repeated command are dropped.
addPacket_FirstAnswer(output, sent, answer) ==
  IF sent \in DOMAIN output THEN [output EXCEPT ![sent].count = @ + 1]
  ELSE put(output, sent, [count |-> 1, received |-> put(<<>>, answer, 1)])

\* A command that is there already is counted, and so is its answer.
addPacket(output, sent, answer) ==
  IF sent \in DOMAIN output
  THEN [output EXCEPT ![sent].count = @ + 1,
                      ![sent].received = addReceivedMessage(@, answer)]
  ELSE put(output, sent, [count |-> 1, received |-> put(<<>>, answer, 1)])

prepareAnalyzedPackets(h) ==
  LET ps == packets[h].streamPackets
      output[i \in 0 .. Len(ps)] ==
        IF i = 0 THEN <<>>
        ELSE addPacket(output[i - 1], Written(ps[i].transmittedLeafNode),
                                      Written(ps[i].receivedLeafNode))
  IN  output[Len(ps)]

\* A packet without an answer has no leaf, and too few bytes for a header: the
\* exception ends the file that is being written.
Unanswered(h) == \E p \in Range(packets[h].streamPackets) : p.receivedLeafNode = 0

write(h) ==
  /\ phase = "write"
  /\ h \in unprinted
  /\ IF Unanswered(h)
     THEN /\ aborted' = aborted \cup {h}
          /\ unprinted' = IF settings.separatePackets THEN unprinted \ {h} ELSE {}
          /\ printed' = printed
     ELSE /\ printed' = put(printed, h, prepareAnalyzedPackets(h))
          /\ unprinted' = unprinted \ {h}
          /\ aborted' = aborted
  /\ UNCHANGED <<settings, phase, node, packets, lastProcessedPacket, ac, log, lines, failed,
                 split>>

writeEnds ==
  /\ phase = "write"
  /\ unprinted = {}
  /\ phase' = "done"
  /\ UNCHANGED <<settings, node, packets, lastProcessedPacket, ac, printed, unprinted, aborted,
                 log, lines, failed, split>>

Next ==
  \/ \E h \in Headers, d \in Sent : handleTransmittedData(h, d)
  \/ \E h \in Headers : handleTransmittedDataThrows(h)
  \/ \E a \in Answers : handleReceivedData(a)
  \/ handleResponseTime
  \/ handleResponseTimeThrows
  \/ parseFileEnds
  \/ \E n \in DOMAIN node : simplifyNodes(n)
  \/ simplifyNodesEnds
  \/ \E h \in Headers : write(h)
  \/ writeEnds

Spec == Init /\ [][Next]_vars
-----------------------------------------------------------------------------
(* Properties *)

Bytes == UNION {Range(s) : s \in Headers \cup Sent \cup Answers}

\* Nodes hold at least one byte, refer to nodes, and every packet has a leaf (Node.java:
\* "every node need to have value").
TypeOK ==
  /\ settings \in [simpleNodes : BOOLEAN, separatePackets : BOOLEAN]
  /\ phase \in {"parse", "simplify", "write", "done"}
  /\ \A n \in DOMAIN node :
       /\ node[n].data \in Seq(Bytes) \ {<<>>}
       /\ node[n].parent \in 0 .. Len(node)
       /\ node[n].count \in Nat
       /\ DOMAIN node[n].childNodes \subseteq Bytes
       /\ Range(node[n].childNodes) \subseteq DOMAIN node
  /\ DOMAIN packets \subseteq Headers
  /\ \A h \in DOMAIN packets : \A p \in Range(packets[h].streamPackets) :
       p.transmittedLeafNode \in DOMAIN node /\ p.receivedLeafNode \in 0 .. Len(node)
  /\ lastProcessedPacket \in {<<>>} \cup DOMAIN packets
  /\ ac \in Nat /\ failed \in BOOLEAN
  /\ unprinted \cup aborted \cup DOMAIN printed \subseteq Headers

\* The commands of one tree, in the order of its packets.
Entries(h) ==
  LET of[k \in 0 .. Len(log)] ==
        IF k = 0 THEN <<>>
        ELSE IF log[k].header = h THEN Append(of[k - 1], log[k]) ELSE of[k - 1]
  IN  of[Len(log)]

\* A packet is written as it was read.  The exception is one that ends inside a node: it
\* is written as long as that node, so as a part of an earlier packet.
Faithful(w, stream, earlier) ==
  w = stream \/ (IsStrictPrefix(stream, w) /\ \E e \in earlier : IsPrefix(w, e))

\* The number of packet k of the log, 0 if it has none.
AcOf(k) ==
  LET h == log[k].header
      i == Cardinality({j \in 1 .. k : log[j].header = h})
  IN  packets[h].streamPackets[i].ac

\* The numbers written beside the packets order them as the log does, across all trees.
AcInOrder ==
  \A j, k \in DOMAIN log : j < k /\ AcOf(j) # 0 /\ AcOf(k) # 0 => AcOf(j) < AcOf(k)

\* However often nodes are divided by later packets and cut into bytes by simplifyNodes,
\* every packet of the log still reads from its leaf as it was, with the last answer that
\* followed it, in the order of the log, and numbered in that order.
PacketsReadBack ==
  /\ AcInOrder
  /\ \A h \in DOMAIN packets :
       LET es == Entries(h)
           ps == packets[h].streamPackets
       IN  /\ Len(es) = Len(ps)
           /\ \A i \in DOMAIN ps :
                /\ Faithful(Written(ps[i].transmittedLeafNode), es[i].sent,
                            {es[j].sent : j \in 1 .. i - 1})
                /\ IF es[i].answers = <<>> THEN ps[i].receivedLeafNode = 0
                   ELSE Faithful(Written(ps[i].receivedLeafNode), Last(es[i].answers),
                                 UNION {Range(es[j].answers) : j \in 1 .. i})

\* The root above a node that is linked both ways, all the way up; 0 if there is none.
RootAbove(leaf) ==
  LET up[n \in 0 .. Len(node)] ==
        IF n \in Roots \/ n = 0 THEN n
        ELSE IF n \in InTree THEN up[node[n].parent] ELSE 0
  IN  up[leaf]

\* Child maps and parent references agree, and the leaf of every packet hangs in the tree
\* of its header: a division or simplification never leaves a packet outside of what
\* is drawn from the root.
TreeShape ==
  /\ \A n \in DOMAIN node : \A b \in DOMAIN node[n].childNodes :
       LET c == node[n].childNodes[b] IN node[c].parent = n /\ node[c].data[1] = b
  /\ \A h \in DOMAIN packets : \A p \in Range(packets[h].streamPackets) :
       /\ RootAbove(p.transmittedLeafNode) = packets[h].root
       /\ p.receivedLeafNode # 0 => RootAbove(p.receivedLeafNode) = packets[h].receivedRoot

\* The streams among ss that reach a node.
Reaching(n, ss) ==
  LET above == Written(node[n].parent)
  IN  Cardinality({i \in DOMAIN ss : IsPrefix(above \o <<node[n].data[1]>>, ss[i])})

\* The count of a root is the number of packets, and the count of a node that no division
\* touched is the number of packets through it (Node.java: "Represents occurence
\* count").  A division leaves both halves with wrong counts.
CountsExact ==
  phase = "parse" =>
    \A h \in DOMAIN packets :
      LET es  == Entries(h)
          out == [i \in DOMAIN es |-> es[i].sent]
          in  == FlattenSeq([i \in DOMAIN es |-> es[i].answers])
      IN  /\ node[packets[h].root].count = Len(out)
          /\ node[packets[h].receivedRoot].count = Len(in)
          /\ \A n \in InTree \ (Roots \cup split) :
               /\ RootAbove(n) = packets[h].root => node[n].count = Reaching(n, out)
               /\ RootAbove(n) = packets[h].receivedRoot => node[n].count = Reaching(n, in)

\* In a tree that is written, every command and every answer to it is counted as often as
\* the packets say, none twice and none dropped; a tree is missing only if a packet
\* without an answer, of its own or in the same file, stopped the writing.
PrintedIsComplete ==
  /\ \A h \in DOMAIN printed :
       LET ps       == packets[h].streamPackets
           With(s)  == {i \in DOMAIN ps : Written(ps[i].transmittedLeafNode) = s}
           Got(s,a) == {i \in With(s) : Written(ps[i].receivedLeafNode) = a}
       IN  /\ DOMAIN printed[h] = {Written(p.transmittedLeafNode) : p \in Range(ps)}
           /\ \A s \in DOMAIN printed[h] :
                /\ printed[h][s].count = Cardinality(With(s))
                /\ DOMAIN printed[h][s].received =
                     {Written(ps[i].receivedLeafNode) : i \in With(s)}
                /\ \A a \in DOMAIN printed[h][s].received :
                     printed[h][s].received[a] = Cardinality(Got(s, a))
  /\ phase = "done" =>
       \A h \in DOMAIN packets \ DOMAIN printed :
         \E g \in IF settings.separatePackets THEN {h} ELSE DOMAIN packets : Unanswered(g)
=============================================================================
