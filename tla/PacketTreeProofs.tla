--------------------------- MODULE PacketTreeProofs ---------------------------
(***************************************************************************)
(* Theorems about the log parser, for every set of headers, commands and   *)
(* answers and for logs of any length.                                     *)
(*                                                                         *)
(* The argument rests on what no operation on the nodes changes.  Each     *)
(* node has a path, the bytes from its root down to its own last byte, and *)
(* a root above it; merge, divide and simplifyNodes add nodes, move bytes  *)
(* between them and change parents, but every node that is there keeps its *)
(* path and its root (Grown).  So a leaf, once it has been found for a     *)
(* packet, reads the same for ever.  On this the invariants are built:     *)
(*   StateOK   the nodes are a forest with paths, its roots are those of   *)
(*             the trees, and the leaf of every packet hangs in its tree;  *)
(*   LogOK     each packet reads as its line of the log, and every node is *)
(*             the beginning of a text that was read;                      *)
(*   NumberOK  the numbers given are in the order of the lines;            *)
(*   PrintOK   what is printed is the summary of the packets.              *)
(* Some facts are given names (ChildAdded, Merged, Replaced...) so that a  *)
(* proof can cite them as a whole and open them where they are needed.     *)
(***************************************************************************)
EXTENDS PacketTree, FiniteSetTheorems, NaturalsInduction, TLAPS
-----------------------------------------------------------------------------
(* Induction, with the set of the good numbers in place of a predicate. *)
LEMMA SetInduction ==
  ASSUME NEW S, 0 \in S, \A n \in Nat : n \in S => n + 1 \in S
  PROVE  \A n \in Nat : n \in S
<1>0. 0 \in S /\ (\A n \in Nat : n \in S => n + 1 \in S)
  OBVIOUS
<1> DEFINE T == {n \in Nat : n \notin S}
<1> SUFFICES ASSUME T # {} PROVE FALSE
  OBVIOUS
<1>1. T \subseteq Nat
  OBVIOUS
<1>2. \E x \in T : \A y \in T : ~(<<y, x>> \in OpToRel(<, Nat))
  BY <1>1, NatLessThanWellFounded, WFMin, Zenon
<1>3. PICK x \in T : \A y \in T : ~(<<y, x>> \in OpToRel(<, Nat))
  BY <1>2
<1>4. x \in Nat /\ x \notin S /\ x # 0
  BY <1>0, <1>3
<1>5. x - 1 \in Nat /\ (x - 1) + 1 = x /\ x - 1 < x
  BY <1>4
<1>6. x - 1 \notin S
  BY <1>0, <1>4, <1>5
<1>7. x - 1 \in T
  BY <1>5, <1>6
<1>8. <<x - 1, x>> \in OpToRel(<, Nat)
  BY <1>4, <1>5 DEF OpToRel
<1> QED
  BY <1>3, <1>7, <1>8

-----------------------------------------------------------------------------
(* Nodes                                                                   *)

\* Commands, answers and the data of nodes.
Texts == Seq(Bytes) \ {<<>>}
Maps  == UNION {[S -> Nat] : S \in SUBSET Bytes}
\* The objects of class Node.
Nodes == [data : Texts, parent : Nat, childNodes : Maps, count : Nat]

\* What the log holds are sequences of bytes; headers and answers are never empty.
LEMMA InputsAreTexts ==
  /\ \A h \in Headers : h \in Texts /\ Len(h) = HeaderLength
  /\ \A d \in Sent : d \in Seq(Bytes)
  /\ \A a \in Answers : a \in Texts
<1>1. ASSUME NEW s \in Headers \cup Sent \cup Answers PROVE s \in Seq(Bytes)
  <2>1. s \in Seq(Range(s))
    BY PacketTreeAssumption
  <2>2. Range(s) \subseteq Bytes
    BY DEF Bytes
  <2> QED
    BY <2>1, <2>2
<1>2. \A h \in Headers : Len(h) = HeaderLength /\ h # <<>>
  <2>1. Len(<<>>) = 0 /\ HeaderLength # 0
    BY PacketTreeAssumption
  <2> QED
    BY <2>1, PacketTreeAssumption, Zenon
<1>3. \A a \in Answers : a # <<>>
  BY PacketTreeAssumption
<1> QED
  BY <1>1, <1>2, <1>3 DEF Texts

\* The child map of a node leads from bytes to identifiers.
LEMMA MapFacts ==
  ASSUME NEW m \in Maps
  PROVE  DOMAIN m \subseteq Bytes /\ \A b \in DOMAIN m : m[b] \in Nat
  BY DEF Maps

\* Map.put changes one key and no other.
LEMMA PutFacts ==
  ASSUME NEW m, NEW k, NEW v
  PROVE  /\ DOMAIN put(m, k, v) = {k} \cup DOMAIN m
         /\ put(m, k, v)[k] = v
         /\ \A j \in DOMAIN m : j # k => put(m, k, v)[j] = m[j]
  BY DEF put

\* A child map stays one when a child is entered.
LEMMA PutIsMap ==
  ASSUME NEW m \in Maps, NEW k \in Bytes, NEW v \in Nat
  PROVE  put(m, k, v) \in Maps
<1>1. DOMAIN m \subseteq Bytes /\ \A b \in DOMAIN m : m[b] \in Nat
  BY MapFacts
<1>2. put(m, k, v) \in [{k} \cup DOMAIN m -> Nat]
  BY <1>1 DEF put
<1>3. {k} \cup DOMAIN m \in SUBSET Bytes
  BY <1>1
<1> QED
  BY <1>2, <1>3, Zenon DEF Maps

\* A node without children has a child map.
LEMMA EmptyIsMap == <<>> \in Maps
<1>1. <<>> \in [{} -> Nat]
  OBVIOUS
<1> QED
  BY <1>1, Zenon DEF Maps

\* The length of a part of a byte sequence (Arrays.copyOfRange).
LEMMA PartsOfTexts ==
  ASSUME NEW d \in Seq(Bytes), NEW i \in 1 .. Len(d) + 1, NEW j \in 0 .. Len(d)
  PROVE  SubSeq(d, i, j) \in Seq(Bytes) /\ Len(SubSeq(d, i, j)) = IF j < i THEN 0 ELSE j + 1 - i
  OBVIOUS

\* A text has a first byte.
LEMMA TextFacts ==
  ASSUME NEW d \in Texts
  PROVE  /\ d \in Seq(Bytes) /\ d # <<>> /\ Len(d) \in Nat \ {0} /\ d[1] \in Bytes
         /\ 1 \in DOMAIN d /\ DOMAIN d = 1 .. Len(d)
  BY DEF Texts

\* A byte sequence with a length is a text.
LEMMA LongIsText ==
  ASSUME NEW d \in Seq(Bytes), Len(d) # 0
  PROVE  d \in Texts
  BY DEF Texts

\* A node from its fields.
Record(d, p, m, c) == [data |-> d, parent |-> p, childNodes |-> m, count |-> c]

\* A node is the record of its four fields.
LEMMA NodeFacts ==
  ASSUME NEW r \in Nodes
  PROVE  /\ r.data \in Texts /\ r.parent \in Nat /\ r.childNodes \in Maps /\ r.count \in Nat
         /\ r = Record(r.data, r.parent, r.childNodes, r.count)
  BY DEF Nodes, Record

\* The fields of a node that is made, and that it is a node.
LEMMA RecordIsNode ==
  ASSUME NEW d, NEW p, NEW m, NEW c
  PROVE  /\ Record(d, p, m, c).data = d /\ Record(d, p, m, c).parent = p
         /\ Record(d, p, m, c).childNodes = m /\ Record(d, p, m, c).count = c
         /\ (d \in Texts /\ p \in Nat /\ m \in Maps /\ c \in Nat) => Record(d, p, m, c) \in Nodes
  BY DEF Nodes, Record

\* The elements of a sequence.
LEMMA SeqFacts ==
  ASSUME NEW S, NEW s \in Seq(S)
  PROVE  Len(s) \in Nat /\ DOMAIN s = 1 .. Len(s) /\ \A i \in DOMAIN s : s[i] \in S
  OBVIOUS

\* A function on 1 .. n is a sequence of length n.
LEMMA IsSeq ==
  ASSUME NEW S, NEW n \in Nat, NEW s, s = [i \in 1 .. n |-> s[i]], \A i \in 1 .. n : s[i] \in S
  PROVE  s \in Seq(S) /\ Len(s) = n /\ DOMAIN s = 1 .. n
<1>1. s \in [1 .. n -> S]
  OBVIOUS
<1> QED
  BY <1>1

\* One more element at the end; the others stay where they were.
LEMMA AppendFacts ==
  ASSUME NEW S, NEW s \in Seq(S), NEW x \in S
  PROVE  /\ Append(s, x) \in Seq(S) /\ Len(Append(s, x)) = Len(s) + 1
         /\ Append(s, x)[Len(s) + 1] = x
         /\ \A i \in DOMAIN s : Append(s, x)[i] = s[i]
         /\ DOMAIN Append(s, x) = DOMAIN s \cup {Len(s) + 1}
  OBVIOUS

\* A child is entered with its parent, and nothing else changes.
ChildAdded(nodes, p, c, new) ==
  /\ new \in Seq(Nodes) /\ Len(new) = Len(nodes) /\ DOMAIN new = DOMAIN nodes
  /\ \A n \in DOMAIN nodes :
       /\ new[n].data = nodes[n].data /\ new[n].count = nodes[n].count
       /\ n # c => new[n].parent = nodes[n].parent
       /\ n # p => new[n].childNodes = nodes[n].childNodes
  /\ new[c].parent = p
  /\ new[p].childNodes = put(nodes[p].childNodes, nodes[c].data[1], c)

\* Node.addChild sets one child map and one parent, and no other field.
LEMMA addChildFacts ==
  ASSUME NEW nodes \in Seq(Nodes), NEW p \in DOMAIN nodes, NEW c \in DOMAIN nodes,
         NEW new, new = addChild(nodes, p, c)
  PROVE  ChildAdded(nodes, p, c, new)
<1>1. Len(nodes) \in Nat /\ DOMAIN nodes = 1 .. Len(nodes) /\ \A n \in DOMAIN nodes : nodes[n] \in Nodes
  BY SeqFacts
<1>2. p \in Nat /\ c \in Nat
  BY <1>1
<1>3. new = [n \in 1 .. Len(nodes) |-> new[n]]
  BY <1>1 DEF addChild
<1>4. ASSUME NEW n \in DOMAIN nodes
      PROVE  /\ new[n] \in Nodes
             /\ new[n].data = nodes[n].data /\ new[n].count = nodes[n].count
             /\ new[n].parent = IF n = c THEN p ELSE nodes[n].parent
             /\ new[n].childNodes = IF n = p THEN put(nodes[n].childNodes, nodes[c].data[1], c)
                                              ELSE nodes[n].childNodes
  <2> DEFINE r == nodes[n]
             m == put(r.childNodes, nodes[c].data[1], c)
             parent == IF n = c THEN p ELSE r.parent
             children == IF n = p THEN m ELSE r.childNodes
  <2>1. /\ r.data \in Texts /\ r.parent \in Nat /\ r.childNodes \in Maps /\ r.count \in Nat
        /\ r = Record(r.data, r.parent, r.childNodes, r.count)
    BY <1>1, NodeFacts
  <2>2. nodes[c].data[1] \in Bytes
    BY <1>1, NodeFacts, TextFacts
  <2>3. m \in Maps
    BY <1>2, <2>1, <2>2, PutIsMap
  <2>4. parent \in Nat /\ children \in Maps
    BY <1>2, <2>1, <2>3
  <2> HIDE DEF m
  <2>5. new[n] = IF n = c
                   THEN IF n = p THEN [[r EXCEPT !.childNodes = m] EXCEPT !.parent = p]
                                 ELSE [r EXCEPT !.parent = p]
                   ELSE IF n = p THEN [r EXCEPT !.childNodes = m] ELSE r
    BY <1>1 DEF addChild, m
  <2> HIDE DEF r
  <2>6. PICK d0, p0, m0, c0 : r = Record(d0, p0, m0, c0)
    BY <2>1, Zenon
  <2>8. r.data = d0 /\ r.parent = p0 /\ r.childNodes = m0 /\ r.count = c0
    BY <2>6, RecordIsNode
  <2>9. /\ [r EXCEPT !.childNodes = m] = Record(d0, p0, m, c0)
        /\ [r EXCEPT !.parent = p] = Record(d0, p, m0, c0)
        /\ [[r EXCEPT !.childNodes = m] EXCEPT !.parent = p] = Record(d0, p, m, c0)
    <3>1. /\ [r EXCEPT !.childNodes = m] = Record(d0, p0, m, c0)
          /\ [r EXCEPT !.parent = p] = Record(d0, p, m0, c0)
      BY <2>6 DEF Record
    <3>2. [Record(d0, p0, m, c0) EXCEPT !.parent = p] = Record(d0, p, m, c0)
      BY DEF Record
    <3> QED
      BY <3>1, <3>2, Zenon
  <2>7. new[n] = Record(r.data, parent, children, r.count)
    BY <2>5, <2>6, <2>8, <2>9, Zenon
  <2> HIDE DEF parent, children
  <2>10. /\ new[n].data = r.data /\ new[n].parent = parent /\ new[n].childNodes = children
         /\ new[n].count = r.count /\ new[n] \in Nodes
    BY <2>1, <2>4, <2>7, RecordIsNode
  <2> QED
    BY <2>10 DEF r, m, parent, children
<1>5. \A n \in 1 .. Len(nodes) : new[n] \in Nodes
  BY <1>1, <1>4
<1>6. new \in Seq(Nodes) /\ Len(new) = Len(nodes) /\ DOMAIN new = DOMAIN nodes
  BY <1>1, <1>3, <1>5, IsSeq
<1> QED
  BY <1>4, <1>6 DEF ChildAdded

\* The fields of a node.
LEMMA FieldFacts ==
  ASSUME NEW nodes \in Seq(Nodes), NEW n \in DOMAIN nodes
  PROVE  /\ nodes[n].data \in Texts /\ nodes[n].parent \in Nat
         /\ nodes[n].childNodes \in Maps /\ nodes[n].count \in Nat
         /\ nodes[n] = Record(nodes[n].data, nodes[n].parent, nodes[n].childNodes, nodes[n].count)
         /\ n \in Nat \ {0}
<1>1. nodes[n] \in Nodes /\ n \in Nat \ {0}
  OBVIOUS
<1> QED
  BY <1>1, NodeFacts

\* Only counts change.
LEMMA incrementCountFacts ==
  ASSUME NEW nodes \in Seq(Nodes), NEW S, NEW new, new = incrementCount(nodes, S)
  PROVE  /\ new \in Seq(Nodes) /\ Len(new) = Len(nodes) /\ DOMAIN new = DOMAIN nodes
         /\ \A n \in DOMAIN nodes :
              /\ new[n].data = nodes[n].data /\ new[n].parent = nodes[n].parent
              /\ new[n].childNodes = nodes[n].childNodes
              /\ new[n].count = IF n \in S THEN nodes[n].count + 1 ELSE nodes[n].count
<1>1. Len(nodes) \in Nat /\ DOMAIN nodes = 1 .. Len(nodes)
  BY SeqFacts
<1>2. new = [n \in 1 .. Len(nodes) |-> new[n]]
  BY <1>1 DEF incrementCount
<1>3. ASSUME NEW n \in DOMAIN nodes
      PROVE  /\ new[n] \in Nodes
             /\ new[n].data = nodes[n].data /\ new[n].parent = nodes[n].parent
             /\ new[n].childNodes = nodes[n].childNodes
             /\ new[n].count = IF n \in S THEN nodes[n].count + 1 ELSE nodes[n].count
  <2> DEFINE count == IF n \in S THEN nodes[n].count + 1 ELSE nodes[n].count
  <2>1. /\ nodes[n].data \in Texts /\ nodes[n].parent \in Nat
        /\ nodes[n].childNodes \in Maps /\ nodes[n].count \in Nat
        /\ nodes[n] = Record(nodes[n].data, nodes[n].parent, nodes[n].childNodes, nodes[n].count)
    BY FieldFacts
  <2>2. count \in Nat
    BY <2>1
  <2>4. new[n] = IF n \in S THEN [nodes[n] EXCEPT !.count = @ + 1] ELSE nodes[n]
    BY DEF incrementCount
  <2>5. PICK d, p, m, c : nodes[n] = Record(d, p, m, c)
    BY <2>1, Zenon
  <2>6. nodes[n].data = d /\ nodes[n].parent = p /\ nodes[n].childNodes = m /\ nodes[n].count = c
    BY <2>5, RecordIsNode
  <2>7. [nodes[n] EXCEPT !.count = @ + 1] = Record(d, p, m, c + 1)
    <3> DEFINE r == nodes[n]
    <3>1. r = Record(d, p, m, c) /\ r.count = c
      BY <2>5, <2>6
    <3> HIDE DEF r
    <3>2. [r EXCEPT !.count = @ + 1] = Record(d, p, m, c + 1)
      BY <3>1 DEF Record
    <3> QED
      BY <3>2, Zenon DEF r
  <2>8. new[n] = Record(d, p, m, count)
    BY <2>4, <2>5, <2>6, <2>7, Zenon
  <2> HIDE DEF count
  <2>9. /\ new[n].data = d /\ new[n].parent = p /\ new[n].childNodes = m
        /\ new[n].count = count /\ new[n] \in Nodes
    BY <2>1, <2>2, <2>6, <2>8, RecordIsNode
  <2> QED
    BY <2>6, <2>9 DEF count
<1>4. \A n \in 1 .. Len(nodes) : new[n] \in Nodes
  BY <1>1, <1>3
<1>5. new \in Seq(Nodes) /\ Len(new) = Len(nodes) /\ DOMAIN new = DOMAIN nodes
  BY <1>1, <1>2, <1>4, IsSeq
<1> QED
  BY <1>3, <1>5

\* A new node k hangs below p, and nothing else changes.
NodeAdded(nodes, p, data, count, new, k) ==
  /\ new \in Seq(Nodes) /\ Len(new) = k /\ k \notin DOMAIN nodes /\ k \in Nat
  /\ DOMAIN new = DOMAIN nodes \cup {k}
  /\ new[k].data = data /\ new[k].parent = p /\ new[k].childNodes = <<>>
  /\ new[k].count = count
  /\ \A n \in DOMAIN nodes :
       /\ new[n].data = nodes[n].data /\ new[n].parent = nodes[n].parent
       /\ new[n].count = nodes[n].count
       /\ n # p => new[n].childNodes = nodes[n].childNodes
  /\ new[p].childNodes = put(nodes[p].childNodes, data[1], k)

\* A node is added below another: it gets the next identifier, and its parent one child.
LEMMA AddNewFacts ==
  ASSUME NEW nodes \in Seq(Nodes), NEW p \in DOMAIN nodes, NEW data \in Texts, NEW count \in Nat,
         NEW new, new = AddNew(nodes, p, data, count), NEW k, k = Len(nodes) + 1
  PROVE  NodeAdded(nodes, p, data, count, new, k)
<1> DEFINE x == NewNode(data, count)
           longer == Append(nodes, x)
<1>1. x = Record(data, 0, <<>>, count) /\ x \in Nodes
  BY EmptyIsMap, RecordIsNode DEF NewNode, Record
<1>2. Len(nodes) \in Nat /\ DOMAIN nodes = 1 .. Len(nodes)
  BY SeqFacts
<1> HIDE DEF x
<1>3. /\ longer \in Seq(Nodes) /\ Len(longer) = k /\ longer[k] = x
      /\ \A n \in DOMAIN nodes : longer[n] = nodes[n]
      /\ DOMAIN longer = DOMAIN nodes \cup {k}
  BY <1>1, AppendFacts
<1>4. k \notin DOMAIN nodes /\ p # k
  BY <1>2
<1>5. new = addChild(longer, p, k)
  BY DEF AddNew, x
<1> HIDE DEF longer
<1>6. ChildAdded(longer, p, k, new)
  <2>1. p \in DOMAIN longer /\ k \in DOMAIN longer
    BY <1>3
  <2> QED
    BY <1>3, <1>5, <2>1, addChildFacts
<1>7. x.data = data /\ x.parent = 0 /\ x.childNodes = <<>> /\ x.count = count
  BY <1>1, RecordIsNode
<1>8. new[k].data = data /\ new[k].parent = p /\ new[k].childNodes = <<>> /\ new[k].count = count
  BY <1>3, <1>4, <1>6, <1>7 DEF ChildAdded
<1>9. \A n \in DOMAIN nodes :
        /\ new[n].data = nodes[n].data /\ new[n].parent = nodes[n].parent
        /\ new[n].count = nodes[n].count
        /\ n # p => new[n].childNodes = nodes[n].childNodes
  BY <1>3, <1>4, <1>6 DEF ChildAdded
<1>10. new[p].childNodes = put(nodes[p].childNodes, data[1], k)
  BY <1>3, <1>6, <1>7 DEF ChildAdded
<1>11. new \in Seq(Nodes) /\ Len(new) = k /\ k \in Nat /\ DOMAIN new = DOMAIN nodes \cup {k}
  BY <1>2, <1>3, <1>6 DEF ChildAdded
<1> QED
  BY <1>4, <1>8, <1>9, <1>10, <1>11 DEF NodeAdded

\* Both parts of a divided text are texts.
LEMMA CutFacts ==
  ASSUME NEW d \in Seq(Bytes), NEW i \in 1 .. Len(d) - 1
  PROVE  /\ SubSeq(d, 1, i) \in Texts /\ Len(SubSeq(d, 1, i)) = i
         /\ SubSeq(d, 1, i)[1] = d[1]
         /\ SubSeq(d, i + 1, Len(d)) \in Texts /\ Len(SubSeq(d, i + 1, Len(d))) = Len(d) - i
         /\ SubSeq(d, i + 1, Len(d))[1] = d[i + 1]
<1>1. Len(d) \in Nat /\ i \in Nat \ {0} /\ i < Len(d)
  OBVIOUS
<1>2. SubSeq(d, 1, i) \in Seq(Bytes) /\ Len(SubSeq(d, 1, i)) = i /\ SubSeq(d, 1, i)[1] = d[1]
  BY <1>1
<1>3. SubSeq(d, i + 1, Len(d)) \in Seq(Bytes) /\ Len(SubSeq(d, i + 1, Len(d))) = Len(d) - i
  BY <1>1
<1>4. SubSeq(d, i + 1, Len(d))[1] = d[i + 1]
  BY <1>1
<1>5. i # 0 /\ Len(d) - i # 0
  BY <1>1
<1>6. SubSeq(d, 1, i) \in Texts
  BY <1>2, <1>5, LongIsText, Zenon
<1>7. SubSeq(d, i + 1, Len(d)) \in Texts
  BY <1>3, <1>5, LongIsText, Zenon
<1> QED
  BY <1>2, <1>3, <1>4, <1>6, <1>7, Zenon

\* The new node k stands between n and its parent; the bytes are shared out.
Divided(nodes, n, index, new, k) ==
  LET d == nodes[n].data
      q == nodes[n].parent
  IN  /\ new \in Seq(Nodes) /\ Len(new) = k /\ k \notin DOMAIN nodes /\ k \in Nat
      /\ DOMAIN new = DOMAIN nodes \cup {k}
      /\ new[k].data = SubSeq(d, 1, index) /\ new[k].parent = q
      /\ new[k].childNodes = put(<<>>, d[index + 1], n) /\ new[k].count = 1
      /\ new[n].data = SubSeq(d, index + 1, Len(d)) /\ new[n].parent = k
      /\ new[n].childNodes = nodes[n].childNodes
      /\ \A i \in DOMAIN nodes :
           /\ new[i].count = nodes[i].count
           /\ i # n => new[i].data = nodes[i].data /\ new[i].parent = nodes[i].parent
           /\ i # q => new[i].childNodes = nodes[i].childNodes
      /\ new[q].childNodes = put(nodes[q].childNodes, d[1], k)

\* Node.divide, field by field: a new node takes the place of n below its parent, n is the
\* only child of the new node, and the two share the bytes n had.
LEMMA divideFacts ==
  ASSUME NEW nodes \in Seq(Nodes), NEW n \in DOMAIN nodes, NEW d, d = nodes[n].data,
         NEW index \in 1 .. Len(d) - 1, NEW q, q = nodes[n].parent, q \in DOMAIN nodes, q # n,
         NEW new, new = divide(nodes, n, index), NEW k, k = Len(nodes) + 1
  PROVE  Divided(nodes, n, index, new, k)
<1> DEFINE low   == SubSeq(d, index + 1, Len(d))
           high  == SubSeq(d, 1, index)
           lower == [nodes EXCEPT ![n].data = low]
           upper == AddNew(lower, q, high, 1)
<1>1. Len(nodes) \in Nat /\ DOMAIN nodes = 1 .. Len(nodes)
  BY SeqFacts
<1>2. d \in Texts /\ d \in Seq(Bytes) /\ Len(d) \in Nat
  BY FieldFacts, TextFacts
<1>3. high \in Texts /\ high[1] = d[1] /\ low \in Texts /\ low[1] = d[index + 1]
  BY <1>2, CutFacts
<1>5. new = addChild(upper, k, n)
  BY DEF divide
<1> HIDE DEF low, high
<1>4. /\ lower \in Seq(Nodes) /\ Len(lower) = Len(nodes) /\ DOMAIN lower = DOMAIN nodes
      /\ lower[n].data = low /\ lower[n].parent = q
      /\ lower[n].childNodes = nodes[n].childNodes /\ lower[n].count = nodes[n].count
      /\ \A i \in DOMAIN nodes \ {n} : lower[i] = nodes[i]
  <2>1. \A i \in DOMAIN nodes \ {n} : lower[i] = nodes[i]
    BY <1>1
  <2>2. /\ nodes[n].parent \in Nat /\ nodes[n].childNodes \in Maps /\ nodes[n].count \in Nat
        /\ nodes[n] = Record(nodes[n].data, nodes[n].parent, nodes[n].childNodes, nodes[n].count)
    BY FieldFacts
  <2>3. PICK e, p, m, c : nodes[n] = Record(e, p, m, c)
    BY <2>2, Zenon
  <2>4. nodes[n].parent = p /\ nodes[n].childNodes = m /\ nodes[n].count = c
    BY <2>3, RecordIsNode
  <2>5. [nodes[n] EXCEPT !.data = low] = Record(low, p, m, c)
    <3> DEFINE r == nodes[n]
    <3>1. r = Record(e, p, m, c)
      BY <2>3
    <3> HIDE DEF r
    <3>2. [r EXCEPT !.data = low] = Record(low, p, m, c)
      BY <3>1 DEF Record
    <3> QED
      BY <3>2, Zenon DEF r
  <2>6. lower[n] = Record(low, p, m, c) /\ Record(low, p, m, c) \in Nodes
    <3>1. lower[n] = [nodes[n] EXCEPT !.data = low]
      OBVIOUS
    <3>2. Record(low, p, m, c) \in Nodes
      BY <1>3, <2>2, <2>4, RecordIsNode
    <3> QED
      BY <2>5, <3>1, <3>2, Zenon
  <2>7. lower = [i \in 1 .. Len(nodes) |-> lower[i]]
    BY <1>1
  <2>8. \A i \in 1 .. Len(nodes) : lower[i] \in Nodes
    BY <1>1, <2>1, <2>6, SeqFacts
  <2> HIDE DEF lower
  <2>9. lower \in Seq(Nodes) /\ Len(lower) = Len(nodes) /\ DOMAIN lower = DOMAIN nodes
    BY <1>1, <2>7, <2>8, IsSeq
  <2>10. lower[n].data = low /\ lower[n].parent = p /\ lower[n].childNodes = m /\ lower[n].count = c
    BY <2>6, RecordIsNode
  <2> QED
    BY <2>1, <2>4, <2>9, <2>10
<1> HIDE DEF lower
<1>6. NodeAdded(lower, q, high, 1, upper, k)
  <2>1. lower \in Seq(Nodes) /\ q \in DOMAIN lower /\ high \in Texts /\ 1 \in Nat
    BY <1>3, <1>4
  <2>2. k = Len(lower) + 1
    BY <1>4
  <2> QED
    BY <2>1, <2>2, AddNewFacts
<1> HIDE DEF upper
<1>7. ChildAdded(upper, k, n, new)
  <2>1. upper \in Seq(Nodes) /\ k \in DOMAIN upper /\ n \in DOMAIN upper
    BY <1>4, <1>6 DEF NodeAdded
  <2> QED
    BY <1>5, <2>1, addChildFacts
<1>8. k # n /\ k # q /\ k \notin DOMAIN nodes /\ k \in Nat /\ k \in DOMAIN upper /\ n \in DOMAIN upper
  BY <1>4, <1>6 DEF NodeAdded
<1>9. new[k].data = high /\ new[k].parent = q /\ new[k].childNodes = put(<<>>, d[index + 1], n)
      /\ new[k].count = 1
  BY <1>3, <1>4, <1>6, <1>7, <1>8 DEF NodeAdded, ChildAdded
<1>10. new[n].data = low /\ new[n].childNodes = nodes[n].childNodes /\ new[n].parent = k
  BY <1>4, <1>6, <1>7, <1>8 DEF NodeAdded, ChildAdded
<1>11. ASSUME NEW i \in DOMAIN nodes
       PROVE  /\ new[i].count = nodes[i].count
              /\ i # n => new[i].data = nodes[i].data /\ new[i].parent = nodes[i].parent
              /\ i # q => new[i].childNodes = nodes[i].childNodes
  <2>1. i # k /\ i \in DOMAIN upper
    BY <1>4, <1>6, <1>8 DEF NodeAdded
  <2>2. CASE i = n
    BY <1>4, <1>6, <1>7, <2>1, <2>2 DEF NodeAdded, ChildAdded
  <2>3. CASE i # n
    BY <1>4, <1>6, <1>7, <2>1, <2>3 DEF NodeAdded, ChildAdded
  <2> QED
    BY <2>2, <2>3
<1>12. new[q].childNodes = put(nodes[q].childNodes, d[1], k)
  BY <1>3, <1>4, <1>6, <1>7, <1>8 DEF NodeAdded, ChildAdded
<1>13. new \in Seq(Nodes) /\ Len(new) = k /\ DOMAIN new = DOMAIN nodes \cup {k}
  BY <1>4, <1>6, <1>7 DEF NodeAdded, ChildAdded
<1> QED
  BY <1>8, <1>9, <1>10, <1>11, <1>12, <1>13 DEF Divided, low, high

-----------------------------------------------------------------------------
(* Common prefixes                                                         *)

\* A set of numbers up to N has a largest one.
LEMMA MaxExists ==
  ASSUME NEW N \in Nat, NEW S \in SUBSET (0 .. N), S # {}
  PROVE  \E m \in S : \A l \in S : l <= m
<1> DEFINE G == {n \in Nat : (\A l \in S : l <= n) => \E m \in S : \A l \in S : l <= m}
<1>0. \A l \in S : l \in Nat /\ l <= N
  OBVIOUS
<1>1. 0 \in G
  <2> SUFFICES ASSUME \A l \in S : l <= 0 PROVE \E m \in S : \A l \in S : l <= m
    OBVIOUS
  <2>1. PICK m \in S : TRUE
    OBVIOUS
  <2>2. \A l \in S : l = 0
    BY <1>0
  <2> QED
    BY <2>1, <2>2
<1>2. ASSUME NEW n \in Nat, n \in G PROVE n + 1 \in G
  <2> SUFFICES ASSUME \A l \in S : l <= n + 1 PROVE \E m \in S : \A l \in S : l <= m
    OBVIOUS
  <2>1. CASE n + 1 \in S
    BY <2>1
  <2>2. CASE n + 1 \notin S
    <3>1. \A l \in S : l <= n
      BY <1>0, <2>2
    <3> QED
      BY <1>2, <3>1
  <2> QED
    BY <2>1, <2>2
<1> HIDE DEF G
<1>3. \A n \in Nat : n \in G
  BY <1>1, <1>2, SetInduction
<1>4. N \in G
  BY <1>3
<1> QED
  BY <1>0, <1>4 DEF G

\* The lengths to which two sequences agree.
Agree(a, b) == {l \in 0 .. Len(a) : l <= Len(b) /\ \A i \in 1 .. l : a[i] = b[i]}

\* The first l bytes of a sequence.
LEMMA FrontFacts ==
  ASSUME NEW a \in Seq(Bytes), NEW l \in 0 .. Len(a), NEW x, x = SubSeq(a, 1, l)
  PROVE  x \in Seq(Bytes) /\ Len(x) = l /\ \A i \in 1 .. l : x[i] = a[i]
<1>1. x \in Seq(Bytes) /\ Len(x) = l
  BY PartsOfTexts
<1>2. \A i \in 1 .. l : x[i] = a[i]
  OBVIOUS
<1> QED
  BY <1>1, <1>2

\* Two byte sequences with the same bytes are the same.
LEMMA SameSeq ==
  ASSUME NEW a \in Seq(Bytes), NEW b \in Seq(Bytes), Len(a) = Len(b),
         \A i \in 1 .. Len(a) : a[i] = b[i]
  PROVE  a = b
  OBVIOUS

\* IsPrefix, byte by byte.
LEMMA PrefixFacts ==
  ASSUME NEW a \in Seq(Bytes), NEW b \in Seq(Bytes)
  PROVE  IsPrefix(a, b) <=> Len(a) <= Len(b) /\ \A i \in 1 .. Len(a) : a[i] = b[i]
<1> DEFINE l == Len(a)
<1>1. l \in Nat /\ Len(b) \in Nat
  OBVIOUS
<1>2. CASE l <= Len(b)
  <2> DEFINE x == SubSeq(a, 1, l)
             y == SubSeq(b, 1, l)
  <2>0. l \in 0 .. Len(a) /\ l \in 0 .. Len(b)
    BY <1>1, <1>2
  <2>1. x \in Seq(Bytes) /\ Len(x) = l /\ \A i \in 1 .. l : x[i] = a[i]
    BY <2>0, FrontFacts
  <2>2. y \in Seq(Bytes) /\ Len(y) = l /\ \A i \in 1 .. l : y[i] = b[i]
    BY <2>0, FrontFacts
  <2>3. IsPrefix(a, b) <=> x = y
    BY <1>2 DEF IsPrefix
  <2> HIDE DEF x, y
  <2>4. x = y <=> \A i \in 1 .. l : a[i] = b[i]
    <3>1. ASSUME x = y PROVE \A i \in 1 .. l : a[i] = b[i]
      BY <2>1, <2>2, <3>1
    <3>2. ASSUME \A i \in 1 .. l : a[i] = b[i] PROVE x = y
      BY <2>1, <2>2, <3>2, SameSeq
    <3> QED
      BY <3>1, <3>2
  <2> QED
    BY <1>2, <2>3, <2>4
<1>3. CASE ~(l <= Len(b))
  BY <1>3 DEF IsPrefix
<1> QED
  BY <1>2, <1>3

\* The lengths of the common prefixes are those up to which the sequences agree.
LEMMA CommonPrefixFacts ==
  ASSUME NEW a \in Seq(Bytes), NEW b \in Seq(Bytes)
  PROVE  /\ \A x \in CommonPrefixes({a, b}) : Len(x) \in Agree(a, b)
         /\ \A l \in Agree(a, b) : \E x \in CommonPrefixes({a, b}) : Len(x) = l
<1>0. Len(a) \in Nat /\ Len(b) \in Nat
  OBVIOUS
<1>1. ASSUME NEW x \in CommonPrefixes({a, b}) PROVE Len(x) \in Agree(a, b)
  <2>1. IsPrefix(x, a) /\ IsPrefix(x, b)
    BY <1>1 DEF CommonPrefixes
  <2>2. PICK s \in {a, b} : x \in Prefixes(s)
    BY <1>1 DEF CommonPrefixes
  <2>3. PICK l \in 0 .. Len(s) : x = SubSeq(s, 1, l)
    BY <2>2 DEF Prefixes
  <2>4. x \in Seq(Bytes) /\ Len(x) = l
    BY <2>3, FrontFacts
  <2>5. Len(x) <= Len(a) /\ (\A i \in 1 .. Len(x) : x[i] = a[i])
    BY <2>1, <2>4, PrefixFacts
  <2>6. Len(x) <= Len(b) /\ (\A i \in 1 .. Len(x) : x[i] = b[i])
    BY <2>1, <2>4, PrefixFacts
  <2>7. l \in Nat
    BY <1>0, <2>3
  <2> QED
    BY <1>0, <2>4, <2>5, <2>6, <2>7 DEF Agree
<1>2. ASSUME NEW l \in Agree(a, b) PROVE \E x \in CommonPrefixes({a, b}) : Len(x) = l
  <2> DEFINE x == SubSeq(a, 1, l)
  <2>0. l \in 0 .. Len(a) /\ l <= Len(b) /\ \A i \in 1 .. l : a[i] = b[i]
    BY DEF Agree
  <2>1. x \in Seq(Bytes) /\ Len(x) = l /\ \A i \in 1 .. l : x[i] = a[i]
    BY <2>0, FrontFacts
  <2>2. x \in Prefixes(a)
    BY <2>0 DEF Prefixes
  <2> HIDE DEF x
  <2>3. IsPrefix(x, a)
    BY <1>0, <2>0, <2>1, PrefixFacts
  <2>4. IsPrefix(x, b)
    BY <1>0, <2>0, <2>1, PrefixFacts
  <2>5. x \in CommonPrefixes({a, b})
    BY <2>2, <2>3, <2>4 DEF CommonPrefixes
  <2> QED
    BY <2>1, <2>5
<1> QED
  BY <1>1, <1>2

\* The longest common prefix is as long as the sequences agree.
LEMMA LongestFacts ==
  ASSUME NEW a \in Seq(Bytes), NEW b \in Seq(Bytes),
         NEW L, L = Len(LongestCommonPrefix({a, b}))
  PROVE  L \in Agree(a, b) /\ \A l \in Agree(a, b) : l <= L
<1> DEFINE C == CommonPrefixes({a, b})
<1>1. /\ \A x \in C : Len(x) \in Agree(a, b)
      /\ \A l \in Agree(a, b) : \E x \in C : Len(x) = l
  BY CommonPrefixFacts
<1>2. PICK m \in Agree(a, b) : \A l \in Agree(a, b) : l <= m
  <2>1. Len(a) \in Nat /\ Agree(a, b) \in SUBSET (0 .. Len(a)) /\ 0 \in Agree(a, b)
    BY DEF Agree
  <2> QED
    BY <2>1, MaxExists
<1> HIDE DEF C
<1>3. \E x \in C : \A y \in C : Len(y) <= Len(x)
  BY <1>1, <1>2
<1>4. LongestCommonPrefix({a, b}) = CHOOSE x \in C : \A y \in C : Len(y) <= Len(x)
  BY DEF LongestCommonPrefix, C
<1>5. LongestCommonPrefix({a, b}) \in C
      /\ \A y \in C : Len(y) <= Len(LongestCommonPrefix({a, b}))
  BY <1>3, <1>4
<1> QED
  BY <1>1, <1>5

\* The first byte after a shared part, where both go on, is another.
PartAt(a, b, L) == L < Len(a) /\ L < Len(b) => a[L + 1] # b[L + 1]

\* A stream and a node with the same first byte share at least that byte, and differ after
\* what they share.
LEMMA SharedFacts ==
  ASSUME NEW a \in Texts, NEW b \in Texts, a[1] = b[1],
         NEW L, L = Len(LongestCommonPrefix({a, b}))
  PROVE  /\ L \in 1 .. Len(a) /\ L \in 1 .. Len(b)
         /\ \A i \in 1 .. L : a[i] = b[i]
         /\ PartAt(a, b, L)
<1>1. a \in Seq(Bytes) /\ b \in Seq(Bytes) /\ Len(a) \in Nat \ {0} /\ Len(b) \in Nat \ {0}
  BY TextFacts
<1>2. L \in Agree(a, b) /\ \A l \in Agree(a, b) : l <= L
  BY <1>1, LongestFacts
<1>3. 1 \in Agree(a, b)
  BY <1>1 DEF Agree
<1>4. L \in 0 .. Len(a) /\ L <= Len(b) /\ \A i \in 1 .. L : a[i] = b[i]
  BY <1>2 DEF Agree
<1>5. L >= 1
  BY <1>2, <1>3, <1>4
<1>6. L \in Nat
  BY <1>4, <1>1
<1>7. ASSUME L < Len(a), L < Len(b), a[L + 1] = b[L + 1] PROVE FALSE
  <2>1. \A i \in 1 .. L + 1 : a[i] = b[i]
    <3>1. ASSUME NEW i \in 1 .. L + 1 PROVE a[i] = b[i]
      <4>1. i \in 1 .. L \/ i = L + 1
        BY <1>6
      <4> QED
        BY <1>4, <1>7, <4>1
    <3> QED
      BY <3>1
  <2>2. L + 1 \in 0 .. Len(a) /\ L + 1 <= Len(b)
    BY <1>1, <1>6, <1>7
  <2>3. L + 1 \in Agree(a, b)
    BY <2>1, <2>2 DEF Agree
  <2>4. L + 1 <= L
    BY <1>2, <2>3
  <2> QED
    BY <1>6, <2>4
<1>8. PartAt(a, b, L)
  BY <1>7 DEF PartAt
<1>9. L \in 1 .. Len(a) /\ L \in 1 .. Len(b)
  BY <1>1, <1>4, <1>5, <1>6
<1> QED
  BY <1>4, <1>8, <1>9

-----------------------------------------------------------------------------
(* Trees: what stays of a node whatever becomes of the trees               *)

\* Concatenation, under a name that the provers can match.
Both(s, t) == s \o t

\* Concatenation, byte by byte.
LEMMA BothFacts ==
  ASSUME NEW s \in Seq(Bytes), NEW t \in Seq(Bytes)
  PROVE  /\ Both(s, t) \in Seq(Bytes) /\ Len(Both(s, t)) = Len(s) + Len(t)
         /\ \A i \in 1 .. Len(s) : Both(s, t)[i] = s[i]
         /\ \A i \in 1 .. Len(t) : Both(s, t)[Len(s) + i] = t[i]
         /\ Both(s, <<>>) = s
<1>1. Both(s, t) \in Seq(Bytes) /\ Len(Both(s, t)) = Len(s) + Len(t)
  BY DEF Both
<1>2. \A i \in 1 .. Len(s) : Both(s, t)[i] = s[i]
  BY DEF Both
<1>3. \A i \in 1 .. Len(t) : Both(s, t)[Len(s) + i] = t[i]
  BY DEF Both
<1>4. Both(s, <<>>) = s
  BY DEF Both
<1> QED
  BY <1>1, <1>2, <1>3, <1>4

\* Concatenation is associative.
LEMMA BothAssoc ==
  ASSUME NEW s \in Seq(Bytes), NEW t \in Seq(Bytes), NEW u \in Seq(Bytes)
  PROVE  Both(Both(s, t), u) = Both(s, Both(t, u))
<1> DEFINE x == Both(Both(s, t), u)
           y == Both(s, Both(t, u))
<1>0. Len(s) \in Nat /\ Len(t) \in Nat /\ Len(u) \in Nat
  OBVIOUS
<1>1. Both(s, t) \in Seq(Bytes) /\ Both(t, u) \in Seq(Bytes)
      /\ Len(Both(s, t)) = Len(s) + Len(t) /\ Len(Both(t, u)) = Len(t) + Len(u)
  BY BothFacts
<1>2. x \in Seq(Bytes) /\ y \in Seq(Bytes) /\ Len(x) = Len(s) + Len(t) + Len(u)
      /\ Len(y) = Len(s) + Len(t) + Len(u)
  <2>1. x \in Seq(Bytes) /\ Len(x) = Len(Both(s, t)) + Len(u)
    BY <1>1, BothFacts, Zenon
  <2>2. y \in Seq(Bytes) /\ Len(y) = Len(s) + Len(Both(t, u))
    BY <1>1, BothFacts, Zenon
  <2> HIDE DEF x, y
  <2> QED
    BY <1>0, <1>1, <2>1, <2>2
<1>3. ASSUME NEW i \in 1 .. Len(x) PROVE x[i] = y[i]
  <2>1. CASE i <= Len(s)
    <3>1. i \in 1 .. Len(s) /\ i \in 1 .. Len(Both(s, t))
      BY <1>0, <1>1, <2>1
    <3>2. x[i] = Both(s, t)[i]
      BY <1>1, <3>1, BothFacts
    <3>3. Both(s, t)[i] = s[i]
      BY <3>1, BothFacts
    <3>4. y[i] = s[i]
      BY <1>1, <3>1, BothFacts
    <3> QED
      BY <3>2, <3>3, <3>4
  <2>2. CASE i > Len(s) /\ i <= Len(s) + Len(t)
    <3> DEFINE j == i - Len(s)
    <3>1. j \in 1 .. Len(t) /\ j \in 1 .. Len(Both(t, u)) /\ i \in 1 .. Len(Both(s, t)) /\ i = Len(s) + j
      BY <1>0, <1>1, <2>2
    <3> HIDE DEF j
    <3>2. x[i] = Both(s, t)[i]
      BY <1>1, <3>1, BothFacts
    <3>3. Both(s, t)[i] = t[j]
      BY <3>1, BothFacts
    <3>4. y[i] = Both(t, u)[j]
      BY <1>1, <3>1, BothFacts
    <3>5. Both(t, u)[j] = t[j]
      BY <3>1, BothFacts
    <3> QED
      BY <3>2, <3>3, <3>4, <3>5
  <2>3. CASE i > Len(s) + Len(t)
    <3> DEFINE j == i - Len(s) - Len(t)
    <3>1. j \in 1 .. Len(u) /\ Len(t) + j \in 1 .. Len(Both(t, u)) /\ i = Len(s) + (Len(t) + j)
          /\ i = Len(Both(s, t)) + j
      BY <1>0, <1>1, <1>2, <2>3
    <3> HIDE DEF j
    <3>2. x[Len(Both(s, t)) + j] = u[j]
      <4> DEFINE w == Both(s, t)
      <4>1. w \in Seq(Bytes) /\ x = Both(w, u)
        BY <1>1
      <4> HIDE DEF w, x
      <4>2. x[Len(w) + j] = u[j]
        BY <3>1, <4>1, BothFacts
      <4> QED
        BY <4>2 DEF w
    <3> DEFINE m == Len(t) + j
    <3>6. m \in 1 .. Len(Both(t, u)) /\ m = Len(t) + j
      BY <3>1
    <3> HIDE DEF m
    <3>7. y[Len(s) + m] = Both(t, u)[m]
      BY <1>1, <3>6, BothFacts
    <3>4. y[Len(s) + (Len(t) + j)] = Both(t, u)[Len(t) + j]
      BY <3>6, <3>7, Zenon
    <3>5. Both(t, u)[Len(t) + j] = u[j]
      BY <3>1, BothFacts
    <3> QED
      BY <3>1, <3>2, <3>4, <3>5, Zenon
  <2> QED
    BY <1>0, <1>2, <2>1, <2>2, <2>3
<1> HIDE DEF x, y
<1>4. x = y
  BY <1>2, <1>3, SameSeq
<1> QED
  BY <1>4 DEF x, y

\* A byte sequence that is cut in two and joined again is what it was.
LEMMA CutAndJoin ==
  ASSUME NEW d \in Seq(Bytes), NEW i \in 0 .. Len(d)
  PROVE  /\ SubSeq(d, 1, i) \in Seq(Bytes) /\ SubSeq(d, i + 1, Len(d)) \in Seq(Bytes)
         /\ Both(SubSeq(d, 1, i), SubSeq(d, i + 1, Len(d))) = d
<1> DEFINE s == SubSeq(d, 1, i)
           t == SubSeq(d, i + 1, Len(d))
<1>0. Len(d) \in Nat /\ i \in Nat /\ i <= Len(d)
  OBVIOUS
<1>1. s \in Seq(Bytes) /\ Len(s) = i /\ \A j \in 1 .. i : s[j] = d[j]
  BY FrontFacts
<1>2. t \in Seq(Bytes) /\ Len(t) = Len(d) - i
  BY <1>0
<1>3. \A j \in 1 .. Len(d) - i : t[j] = d[i + j]
  BY <1>0
<1> HIDE DEF s, t
<1>4. Both(s, t) \in Seq(Bytes) /\ Len(Both(s, t)) = Len(d)
  <2>1. Both(s, t) \in Seq(Bytes) /\ Len(Both(s, t)) = Len(s) + Len(t)
    BY <1>1, <1>2, BothFacts, Zenon
  <2> QED
    BY <1>0, <1>1, <1>2, <2>1
<1>5. ASSUME NEW j \in 1 .. Len(Both(s, t)) PROVE Both(s, t)[j] = d[j]
  <2>1. CASE j <= i
    <3>1. j \in 1 .. Len(s)
      BY <1>1, <2>1
    <3>2. Both(s, t)[j] = s[j]
      BY <1>1, <1>2, <3>1, BothFacts
    <3> QED
      BY <1>1, <3>1, <3>2
  <2>2. CASE j > i
    <3>1. j - i \in 1 .. Len(t) /\ j = Len(s) + (j - i) /\ j - i \in 1 .. Len(d) - i /\ i + (j - i) = j
      BY <1>0, <1>1, <1>2, <1>4, <2>2
    <3>2. Both(s, t)[Len(s) + (j - i)] = t[j - i]
      BY <1>1, <1>2, <3>1, BothFacts
    <3>3. t[j - i] = d[i + (j - i)]
      BY <1>3, <3>1
    <3> QED
      BY <3>1, <3>2, <3>3
  <2> QED
    BY <1>0, <2>1, <2>2
<1>6. Both(s, t) = d
  BY <1>4, <1>5, SameSeq
<1> QED
  BY <1>1, <1>2, <1>6 DEF s, t

\* Child maps and parents agree.
Linked(nodes) ==
  /\ nodes \in Seq(Nodes)
  /\ \A n \in DOMAIN nodes : \A b \in DOMAIN nodes[n].childNodes :
       LET c == nodes[n].childNodes[b]
       IN  c \in DOMAIN nodes /\ nodes[c].parent = n /\ nodes[c].data[1] = b
  /\ \A n \in DOMAIN nodes :
       LET p == nodes[n].parent
       IN  p # 0 => /\ p \in DOMAIN nodes
                    /\ nodes[n].data[1] \in DOMAIN nodes[p].childNodes
                    /\ nodes[p].childNodes[nodes[n].data[1]] = n

\* The bytes from the root to each node.
IsPath(nodes, path) ==
  /\ path \in [DOMAIN nodes -> Seq(Bytes)]
  /\ \A n \in DOMAIN nodes :
       /\ nodes[n].parent = 0 => path[n] = nodes[n].data
       /\ nodes[n].parent # 0 => path[n] = Both(path[nodes[n].parent], nodes[n].data)

\* The root above each node.
IsTop(nodes, top) ==
  /\ top \in [DOMAIN nodes -> DOMAIN nodes]
  /\ \A n \in DOMAIN nodes :
       /\ nodes[top[n]].parent = 0
       /\ nodes[n].parent = 0 => top[n] = n
       /\ nodes[n].parent # 0 => top[n] = top[nodes[n].parent]

\* The paths, once it is known that there are some.
Path(nodes) == CHOOSE path : IsPath(nodes, path)
Top(nodes)  == CHOOSE top : IsTop(nodes, top)

\* Linked nodes without a cycle: a path grows from node to node.
Forest(nodes) ==
  /\ Linked(nodes)
  /\ \E path : IsPath(nodes, path)
  /\ \E top : IsTop(nodes, top)

\* What a node of a linked sequence of nodes looks like, and its parent and children.
LEMMA LinkedFacts ==
  ASSUME NEW nodes, Linked(nodes), NEW n \in DOMAIN nodes
  PROVE  /\ nodes \in Seq(Nodes) /\ n \in Nat \ {0}
         /\ nodes[n].data \in Texts /\ nodes[n].data \in Seq(Bytes) /\ nodes[n].data[1] \in Bytes
         /\ Len(nodes[n].data) \in Nat \ {0}
         /\ nodes[n].childNodes \in Maps /\ nodes[n].count \in Nat /\ nodes[n].parent \in Nat
         /\ nodes[n].parent # 0 =>
              /\ nodes[n].parent \in DOMAIN nodes
              /\ nodes[n].data[1] \in DOMAIN nodes[nodes[n].parent].childNodes
              /\ nodes[nodes[n].parent].childNodes[nodes[n].data[1]] = n
         /\ \A b \in DOMAIN nodes[n].childNodes :
              /\ b \in Bytes
              /\ nodes[n].childNodes[b] \in DOMAIN nodes
              /\ nodes[nodes[n].childNodes[b]].parent = n
              /\ nodes[nodes[n].childNodes[b]].data[1] = b
<1>1. nodes \in Seq(Nodes)
  BY DEF Linked
<1>2. /\ nodes[n].data \in Texts /\ nodes[n].parent \in Nat
      /\ nodes[n].childNodes \in Maps /\ nodes[n].count \in Nat /\ n \in Nat \ {0}
  BY <1>1, FieldFacts
<1>3. /\ nodes[n].data \in Seq(Bytes) /\ nodes[n].data[1] \in Bytes
      /\ Len(nodes[n].data) \in Nat \ {0}
  BY <1>2, TextFacts
<1>4. DOMAIN nodes[n].childNodes \subseteq Bytes
  BY <1>2, MapFacts
<1>5. nodes[n].parent # 0 =>
              /\ nodes[n].parent \in DOMAIN nodes
              /\ nodes[n].data[1] \in DOMAIN nodes[nodes[n].parent].childNodes
              /\ nodes[nodes[n].parent].childNodes[nodes[n].data[1]] = n
  BY Zenon DEF Linked
<1>6. \A b \in DOMAIN nodes[n].childNodes :
              /\ nodes[n].childNodes[b] \in DOMAIN nodes
              /\ nodes[nodes[n].childNodes[b]].parent = n
              /\ nodes[nodes[n].childNodes[b]].data[1] = b
  BY Zenon DEF Linked
<1> QED
  BY <1>1, <1>2, <1>3, <1>4, <1>5, <1>6

\* The path of a node is that of its parent and its own bytes, and is never empty.
LEMMA PathStep ==
  ASSUME NEW nodes, Linked(nodes), NEW path, IsPath(nodes, path), NEW n \in DOMAIN nodes
  PROVE  /\ path[n] \in Seq(Bytes) /\ Len(path[n]) \in Nat \ {0}
         /\ nodes[n].parent = 0 => path[n] = nodes[n].data
         /\ nodes[n].parent # 0 =>
              /\ nodes[n].parent \in DOMAIN nodes
              /\ path[n] = Both(path[nodes[n].parent], nodes[n].data)
              /\ Len(path[n]) = Len(path[nodes[n].parent]) + Len(nodes[n].data)
              /\ Len(path[nodes[n].parent]) < Len(path[n])
<1> DEFINE p == nodes[n].parent
           d == nodes[n].data
<1>1. d \in Seq(Bytes) /\ Len(d) \in Nat \ {0} /\ (p # 0 => p \in DOMAIN nodes)
  BY LinkedFacts
<1>2. path[n] \in Seq(Bytes) /\ (p # 0 => path[p] \in Seq(Bytes))
  BY <1>1 DEF IsPath
<1>3. /\ p = 0 => path[n] = d
      /\ p # 0 => path[n] = Both(path[p], d)
  BY DEF IsPath
<1> HIDE DEF p, d
<1>4. p # 0 => Len(path[n]) = Len(path[p]) + Len(d)
  BY <1>1, <1>2, <1>3, BothFacts, Zenon
<1>5. Len(path[n]) \in Nat /\ (p # 0 => Len(path[p]) \in Nat)
  BY <1>2
<1>6. Len(path[n]) # 0
  <2>1. CASE p = 0
    BY <1>1, <1>3, <2>1
  <2>2. CASE p # 0
    BY <1>1, <1>4, <1>5, <2>2
  <2> QED
    BY <2>1, <2>2
<1>7. p # 0 => Len(path[p]) < Len(path[n])
  BY <1>1, <1>4, <1>5
<1> QED
  BY <1>1, <1>2, <1>3, <1>4, <1>5, <1>6, <1>7 DEF p, d

\* The step from the path of the parent, as one fact.
StepOfPath(nodes, path, n) ==
  nodes[n].parent # 0 => /\ nodes[n].parent \in DOMAIN nodes
                         /\ path[n] = Both(path[nodes[n].parent], nodes[n].data)
                         /\ Len(path[nodes[n].parent]) < Len(path[n])

\* The path of a node is that of its parent and its own bytes.
LEMMA StepsDown ==
  ASSUME NEW nodes, Linked(nodes), NEW path, IsPath(nodes, path), NEW n \in DOMAIN nodes
  PROVE  StepOfPath(nodes, path, n)
<1> DEFINE p == nodes[n].parent
           d == nodes[n].data
<1>1. /\ path[n] \in Seq(Bytes) /\ Len(path[n]) \in Nat \ {0}
      /\ p # 0 => p \in DOMAIN nodes /\ path[n] = Both(path[p], d)
      /\ p # 0 => Len(path[p]) < Len(path[n])
  <2>1. path[n] \in Seq(Bytes) /\ Len(path[n]) \in Nat \ {0}
    BY PathStep, Zenon
  <2>2. p # 0 => p \in DOMAIN nodes /\ path[n] = Both(path[p], d)
    BY PathStep
  <2>3. p # 0 => Len(path[p]) < Len(path[n])
    BY PathStep, Zenon
  <2> QED
    BY <2>1, <2>2, <2>3
<1> QED
  BY <1>1 DEF StepOfPath

\* The parents leave no choice for the paths.
LEMMA PathUnique ==
  ASSUME NEW nodes, Linked(nodes), NEW path, IsPath(nodes, path), NEW other, IsPath(nodes, other)
  PROVE  path = other
<1> DEFINE G == {k \in Nat : \A n \in DOMAIN nodes : Len(path[n]) <= k => path[n] = other[n]}
<1>0. \A n \in DOMAIN nodes : Len(path[n]) \in Nat \ {0}
  BY PathStep
<1>1. 0 \in G
  BY <1>0
<1>2. ASSUME NEW k \in Nat, k \in G PROVE k + 1 \in G
  <2> SUFFICES ASSUME NEW n \in DOMAIN nodes, Len(path[n]) <= k + 1 PROVE path[n] = other[n]
    OBVIOUS
  <2> DEFINE p == nodes[n].parent
             d == nodes[n].data
  <2>1. p = 0 => path[n] = d /\ other[n] = d
    BY DEF IsPath
  <2>2. p # 0 => p \in DOMAIN nodes /\ Len(path[p]) < Len(path[n])
    BY PathStep
  <2>5. p # 0 => path[n] = Both(path[p], d) /\ other[n] = Both(other[p], d)
    BY DEF IsPath
  <2> HIDE DEF p
  <2>3. p # 0 => Len(path[p]) <= k
    BY <1>0, <2>2
  <2>4. p # 0 => path[p] = other[p]
    BY <1>2, <2>2, <2>3
  <2> QED
    BY <2>1, <2>4, <2>5
<1> HIDE DEF G
<1>3. \A k \in Nat : k \in G
  BY <1>1, <1>2, SetInduction
<1>4. \A n \in DOMAIN nodes : path[n] = other[n]
  <2> SUFFICES ASSUME NEW n \in DOMAIN nodes PROVE path[n] = other[n]
    OBVIOUS
  <2>1. Len(path[n]) \in Nat /\ Len(path[n]) <= Len(path[n])
    BY <1>0
  <2>2. Len(path[n]) \in G
    BY <1>3, <2>1
  <2> QED
    BY <2>1, <2>2 DEF G
<1> QED
  BY <1>4 DEF IsPath

\* The parents leave no choice for the roots above the nodes.
LEMMA TopUnique ==
  ASSUME NEW nodes, Linked(nodes), NEW path, IsPath(nodes, path),
         NEW top, IsTop(nodes, top), NEW other, IsTop(nodes, other)
  PROVE  top = other
<1> DEFINE G == {k \in Nat : \A n \in DOMAIN nodes : Len(path[n]) <= k => top[n] = other[n]}
<1>0. \A n \in DOMAIN nodes : Len(path[n]) \in Nat \ {0}
  BY PathStep
<1>1. 0 \in G
  BY <1>0
<1>2. ASSUME NEW k \in Nat, k \in G PROVE k + 1 \in G
  <2> SUFFICES ASSUME NEW n \in DOMAIN nodes, Len(path[n]) <= k + 1 PROVE top[n] = other[n]
    OBVIOUS
  <2> DEFINE p == nodes[n].parent
  <2>1. /\ p = 0 => top[n] = n /\ other[n] = n
        /\ p # 0 => top[n] = top[p] /\ other[n] = other[p]
    BY DEF IsTop
  <2>2. p # 0 => p \in DOMAIN nodes /\ Len(path[p]) < Len(path[n])
    BY PathStep
  <2> HIDE DEF p
  <2>3. p # 0 => Len(path[p]) <= k
    BY <1>0, <2>2
  <2>4. p # 0 => top[p] = other[p]
    BY <1>2, <2>2, <2>3
  <2> QED
    BY <2>1, <2>4
<1> HIDE DEF G
<1>3. \A k \in Nat : k \in G
  BY <1>1, <1>2, SetInduction
<1>4. \A n \in DOMAIN nodes : top[n] = other[n]
  <2> SUFFICES ASSUME NEW n \in DOMAIN nodes PROVE top[n] = other[n]
    OBVIOUS
  <2>1. Len(path[n]) \in Nat /\ Len(path[n]) <= Len(path[n])
    BY <1>0
  <2>2. Len(path[n]) \in G
    BY <1>3, <2>1
  <2> QED
    BY <2>1, <2>2 DEF G
<1> QED
  BY <1>4 DEF IsTop

\* The nodes of a forest have paths and roots above them.
LEMMA ForestFacts ==
  ASSUME NEW nodes, Forest(nodes)
  PROVE  Linked(nodes) /\ IsPath(nodes, Path(nodes)) /\ IsTop(nodes, Top(nodes))
<1>1. Linked(nodes) /\ (\E path : IsPath(nodes, path)) /\ (\E top : IsTop(nodes, top))
  BY DEF Forest
<1>2. IsPath(nodes, Path(nodes))
  BY <1>1, Zenon DEF Path
<1>3. IsTop(nodes, Top(nodes))
  BY <1>1, Zenon DEF Top
<1> QED
  BY <1>1, <1>2, <1>3

\* Nodes for which paths and roots can be given are a forest, and those are its paths and
\* roots.
LEMMA ForestFrom ==
  ASSUME NEW nodes, Linked(nodes), NEW path, IsPath(nodes, path), NEW top, IsTop(nodes, top)
  PROVE  Forest(nodes) /\ Path(nodes) = path /\ Top(nodes) = top
<1>1. Forest(nodes)
  BY Zenon DEF Forest
<1>2. IsPath(nodes, Path(nodes)) /\ IsTop(nodes, Top(nodes))
  BY <1>1, ForestFacts
<1> QED
  BY <1>1, <1>2, PathUnique, TopUnique

\* The trees may grow between the nodes, and every node keeps its place: its bytes up to
\* the root, and the root.
Grown(nodes, new) ==
  /\ Forest(new)
  /\ \A n \in DOMAIN nodes :
       /\ n \in DOMAIN new
       /\ Path(new)[n] = Path(nodes)[n] /\ Top(new)[n] = Top(nodes)[n]
       /\ new[n].parent = 0 <=> nodes[n].parent = 0

\* A forest that grows twice has grown.
LEMMA GrownTwice ==
  ASSUME NEW a, NEW b, Grown(a, b), NEW c, Grown(b, c)
  PROVE  Grown(a, c)
  BY DEF Grown

\* Counting (Node.incrementCount) changes no path and no link.
LEMMA incrementCountGrown ==
  ASSUME NEW nodes, Forest(nodes), NEW S, NEW new, new = incrementCount(nodes, S)
  PROVE  /\ Grown(nodes, new) /\ Len(new) = Len(nodes) /\ DOMAIN new = DOMAIN nodes
         /\ \A n \in DOMAIN nodes :
              /\ new[n].data = nodes[n].data /\ new[n].parent = nodes[n].parent
              /\ new[n].childNodes = nodes[n].childNodes
<1> DEFINE path == Path(nodes)
           top  == Top(nodes)
<1>1. Linked(nodes) /\ IsPath(nodes, path) /\ IsTop(nodes, top)
  BY ForestFacts
<1> HIDE DEF path, top
<1>2. nodes \in Seq(Nodes)
  BY <1>1 DEF Linked
<1>3. /\ new \in Seq(Nodes) /\ Len(new) = Len(nodes) /\ DOMAIN new = DOMAIN nodes
      /\ \A n \in DOMAIN nodes :
           /\ new[n].data = nodes[n].data /\ new[n].parent = nodes[n].parent
           /\ new[n].childNodes = nodes[n].childNodes
  BY <1>2, incrementCountFacts
<1>4. Linked(new)
  <2>1. ASSUME NEW n \in DOMAIN new, NEW b \in DOMAIN new[n].childNodes
        PROVE  LET c == new[n].childNodes[b]
               IN  c \in DOMAIN new /\ new[c].parent = n /\ new[c].data[1] = b
    <3> DEFINE c == nodes[n].childNodes[b]
    <3>1. n \in DOMAIN nodes /\ b \in DOMAIN nodes[n].childNodes /\ new[n].childNodes[b] = c
      BY <1>3
    <3>2. c \in DOMAIN nodes /\ nodes[c].parent = n /\ nodes[c].data[1] = b
      BY <1>1, <3>1, LinkedFacts
    <3> QED
      BY <1>3, <3>1, <3>2
  <2>2. ASSUME NEW n \in DOMAIN new
        PROVE  LET p == new[n].parent
               IN  p # 0 => /\ p \in DOMAIN new
                            /\ new[n].data[1] \in DOMAIN new[p].childNodes
                            /\ new[p].childNodes[new[n].data[1]] = n
    <3> DEFINE p == nodes[n].parent
               b == nodes[n].data[1]
    <3>1. n \in DOMAIN nodes /\ new[n].parent = p /\ new[n].data[1] = b
      BY <1>3
    <3>2. p # 0 => /\ p \in DOMAIN nodes /\ b \in DOMAIN nodes[p].childNodes
                   /\ nodes[p].childNodes[b] = n
      BY <1>1, <3>1, LinkedFacts
    <3> HIDE DEF p, b
    <3> QED
      BY <1>3, <3>1, <3>2
  <2> QED
    BY <1>3, <2>1, <2>2 DEF Linked
<1>5. IsPath(new, path)
  BY <1>1, <1>3 DEF IsPath
<1>6. IsTop(new, top)
  BY <1>1, <1>3 DEF IsTop
<1>7. Forest(new) /\ Path(new) = path /\ Top(new) = top
  BY <1>4, <1>5, <1>6, ForestFrom
<1> QED
  BY <1>3, <1>7 DEF Grown, path, top

\* A node with a new first byte is added below another: the forest grows by it, and its
\* path is that of its parent and its data.
LEMMA AddNewGrown ==
  ASSUME NEW nodes, Forest(nodes), NEW p \in DOMAIN nodes, NEW data \in Texts,
         data[1] \notin DOMAIN nodes[p].childNodes, NEW count \in Nat,
         NEW new, new = AddNew(nodes, p, data, count), NEW k, k = Len(nodes) + 1
  PROVE  /\ Grown(nodes, new) /\ NodeAdded(nodes, p, data, count, new, k)
         /\ Path(new)[k] = Both(Path(nodes)[p], data) /\ Top(new)[k] = Top(nodes)[p]
<1> DEFINE path == Path(nodes)
           top  == Top(nodes)
           path2 == [n \in DOMAIN new |-> IF n = k THEN Both(path[p], data) ELSE path[n]]
           top2  == [n \in DOMAIN new |-> IF n = k THEN top[p] ELSE top[n]]
<1>1. Linked(nodes) /\ IsPath(nodes, path) /\ IsTop(nodes, top)
  BY ForestFacts
<1> HIDE DEF path, top
<1>2. nodes \in Seq(Nodes)
  BY <1>1 DEF Linked
<1>3. NodeAdded(nodes, p, data, count, new, k)
  BY <1>2, AddNewFacts
<1>4. /\ new \in Seq(Nodes) /\ k \notin DOMAIN nodes /\ k \in DOMAIN new
      /\ DOMAIN new = DOMAIN nodes \cup {k}
      /\ new[k].data = data /\ new[k].parent = p /\ new[k].childNodes = <<>>
      /\ \A n \in DOMAIN nodes :
           /\ new[n].data = nodes[n].data /\ new[n].parent = nodes[n].parent
           /\ n # p => new[n].childNodes = nodes[n].childNodes
      /\ new[p].childNodes = put(nodes[p].childNodes, data[1], k)
  BY <1>3 DEF NodeAdded
<1>5. \A n \in DOMAIN nodes : n # k /\ n # 0 /\ n \in DOMAIN new
  BY <1>1, <1>4, LinkedFacts
<1>6. /\ DOMAIN new[p].childNodes = {data[1]} \cup DOMAIN nodes[p].childNodes
      /\ new[p].childNodes[data[1]] = k
      /\ \A b \in DOMAIN nodes[p].childNodes : new[p].childNodes[b] = nodes[p].childNodes[b]
  <2> DEFINE m == nodes[p].childNodes
             a == data[1]
  <2>1. a \notin DOMAIN m /\ new[p].childNodes = put(m, a, k)
    BY <1>4
  <2> HIDE DEF m, a
  <2>2. /\ DOMAIN put(m, a, k) = {a} \cup DOMAIN m /\ put(m, a, k)[a] = k
        /\ \A b \in DOMAIN m : b # a => put(m, a, k)[b] = m[b]
    BY DEF put
  <2>3. /\ DOMAIN new[p].childNodes = {a} \cup DOMAIN m /\ new[p].childNodes[a] = k
        /\ \A b \in DOMAIN m : new[p].childNodes[b] = m[b]
    BY <2>1, <2>2
  <2> QED
    BY <2>3 DEF m, a
<1>7. Linked(new)
  <2>1. ASSUME NEW n \in DOMAIN new, NEW b \in DOMAIN new[n].childNodes
        PROVE  LET c == new[n].childNodes[b]
               IN  c \in DOMAIN new /\ new[c].parent = n /\ new[c].data[1] = b
    <3>1. CASE n = k
      BY <1>4, <2>1, <3>1
    <3>2. CASE n = p /\ b = data[1]
      BY <1>4, <1>6, <3>2
    <3>3. CASE n = p /\ b # data[1]
      <4> DEFINE c == nodes[n].childNodes[b]
      <4>1. b \in DOMAIN nodes[n].childNodes /\ new[n].childNodes[b] = c
        BY <1>6, <2>1, <3>3
      <4>2. c \in DOMAIN nodes /\ nodes[c].parent = n /\ nodes[c].data[1] = b
        BY <1>1, <3>3, <4>1, LinkedFacts
      <4> QED
        BY <1>4, <1>5, <4>1, <4>2
    <3>4. CASE n # k /\ n # p
      <4> DEFINE c == nodes[n].childNodes[b]
      <4>0. n \in DOMAIN nodes
        BY <1>4, <3>4
      <4>1. b \in DOMAIN nodes[n].childNodes /\ new[n].childNodes[b] = c
        BY <1>4, <2>1, <3>4, <4>0
      <4>2. c \in DOMAIN nodes /\ nodes[c].parent = n /\ nodes[c].data[1] = b
        BY <1>1, <4>0, <4>1, LinkedFacts
      <4> QED
        BY <1>4, <1>5, <4>1, <4>2
    <3> QED
      BY <3>1, <3>2, <3>3, <3>4
  <2>2. ASSUME NEW n \in DOMAIN new
        PROVE  LET q == new[n].parent
               IN  q # 0 => /\ q \in DOMAIN new
                            /\ new[n].data[1] \in DOMAIN new[q].childNodes
                            /\ new[q].childNodes[new[n].data[1]] = n
    <3>1. CASE n = k
      BY <1>4, <1>5, <1>6, <3>1
    <3>2. CASE n # k
      <4> DEFINE q == nodes[n].parent
                 b == nodes[n].data[1]
      <4>1. n \in DOMAIN nodes /\ new[n].parent = q /\ new[n].data[1] = b
        BY <1>4, <3>2
      <4>2. q # 0 => q \in DOMAIN nodes /\ b \in DOMAIN nodes[q].childNodes
                     /\ nodes[q].childNodes[b] = n
        BY <1>1, <4>1, LinkedFacts
      <4> HIDE DEF q, b
      <4>3. CASE q # 0 /\ q = p
        BY <1>4, <1>6, <4>1, <4>2, <4>3
      <4>4. CASE q # 0 /\ q # p
        BY <1>4, <4>1, <4>2, <4>4
      <4> QED
        BY <4>1, <4>3, <4>4
    <3> QED
      BY <3>1, <3>2
  <2> QED
    BY <1>4, <2>1, <2>2 DEF Linked
<1>8. IsPath(new, path2)
  <2>1. path[p] \in Seq(Bytes) /\ data \in Seq(Bytes)
    BY <1>1, PathStep, TextFacts
  <2>2. Both(path[p], data) \in Seq(Bytes)
    BY <2>1, BothFacts
  <2>3. path2 \in [DOMAIN new -> Seq(Bytes)]
    BY <1>1, <1>4, <2>2 DEF IsPath
  <2>4. ASSUME NEW n \in DOMAIN new
        PROVE  /\ new[n].parent = 0 => path2[n] = new[n].data
               /\ new[n].parent # 0 => path2[n] = Both(path2[new[n].parent], new[n].data)
    <3>1. CASE n = k
      <4>1. path2[k] = Both(path[p], data) /\ path2[p] = path[p]
        BY <1>4, <1>5
      <4> QED
        BY <1>4, <1>5, <3>1, <4>1
    <3>2. CASE n # k
      <4>1. n \in DOMAIN nodes /\ new[n].parent = nodes[n].parent /\ new[n].data = nodes[n].data
            /\ path2[n] = path[n]
        BY <1>4, <3>2
      <4>2. nodes[n].parent # 0 => path2[nodes[n].parent] = path[nodes[n].parent]
        BY <1>1, <1>4, <1>5, <4>1, LinkedFacts
      <4>3. /\ nodes[n].parent = 0 => path[n] = nodes[n].data
            /\ nodes[n].parent # 0 => path[n] = Both(path[nodes[n].parent], nodes[n].data)
        BY <1>1, <4>1 DEF IsPath
      <4> HIDE DEF path2
      <4> QED
        BY <4>1, <4>2, <4>3
    <3> QED
      BY <3>1, <3>2
  <2> HIDE DEF path2
  <2> QED
    BY <2>3, <2>4 DEF IsPath
<1>9. IsTop(new, top2)
  <2>1. \A n \in DOMAIN nodes : top[n] \in DOMAIN nodes /\ nodes[top[n]].parent = 0
    BY <1>1 DEF IsTop
  <2>3. top2 \in [DOMAIN new -> DOMAIN new]
    BY <1>4, <2>1
  <2>4. ASSUME NEW n \in DOMAIN new
        PROVE  /\ new[top2[n]].parent = 0
               /\ new[n].parent = 0 => top2[n] = n
               /\ new[n].parent # 0 => top2[n] = top2[new[n].parent]
    <3>1. CASE n = k
      <4>1. top2[k] = top[p] /\ top2[p] = top[p]
        BY <1>4, <1>5
      <4> QED
        BY <1>4, <1>5, <2>1, <3>1, <4>1
    <3>2. CASE n # k
      <4>1. n \in DOMAIN nodes /\ new[n].parent = nodes[n].parent /\ top2[n] = top[n]
        BY <1>4, <3>2
      <4>2. nodes[n].parent # 0 => top2[nodes[n].parent] = top[nodes[n].parent]
        BY <1>1, <1>4, <1>5, <4>1, LinkedFacts
      <4>3. /\ nodes[n].parent = 0 => top[n] = n
            /\ nodes[n].parent # 0 => top[n] = top[nodes[n].parent]
        BY <1>1, <4>1 DEF IsTop
      <4>4. new[top[n]].parent = 0
        BY <1>4, <2>1, <4>1
      <4> HIDE DEF top2
      <4> QED
        BY <4>1, <4>2, <4>3, <4>4
    <3> QED
      BY <3>1, <3>2
  <2> HIDE DEF top2
  <2> QED
    BY <2>3, <2>4 DEF IsTop
<1>10. Forest(new) /\ Path(new) = path2 /\ Top(new) = top2
  <2> HIDE DEF path2, top2
  <2> QED
    BY <1>7, <1>8, <1>9, ForestFrom
<1>11. path2[k] = Both(path[p], data) /\ top2[k] = top[p]
       /\ \A n \in DOMAIN nodes : path2[n] = path[n] /\ top2[n] = top[n]
  BY <1>4, <1>5
<1> HIDE DEF path2, top2
<1>12. Grown(nodes, new)
  BY <1>4, <1>5, <1>10, <1>11 DEF Grown, path, top
<1> QED
  BY <1>3, <1>10, <1>11, <1>12 DEF path, top

\* Node.divide keeps the path of every node, the divided one included; the new node has
\* the first part of it.
LEMMA divideGrown ==
  ASSUME NEW nodes, Forest(nodes), NEW n \in DOMAIN nodes, nodes[n].parent # 0,
         NEW index \in 1 .. Len(nodes[n].data) - 1,
         NEW new, new = divide(nodes, n, index), NEW k, k = Len(nodes) + 1
  PROVE  /\ Grown(nodes, new) /\ Divided(nodes, n, index, new, k)
         /\ Path(new)[k] = Both(Path(nodes)[nodes[n].parent], SubSeq(nodes[n].data, 1, index))
         /\ Top(new)[k] = Top(nodes)[n] /\ new[k].parent # 0
<1> DEFINE path == Path(nodes)
           top  == Top(nodes)
           d    == nodes[n].data
           q    == nodes[n].parent
           high == SubSeq(d, 1, index)
           low  == SubSeq(d, index + 1, Len(d))
           path2 == [i \in DOMAIN new |-> IF i = k THEN Both(path[q], high) ELSE path[i]]
           top2  == [i \in DOMAIN new |-> IF i = k THEN top[n] ELSE top[i]]
<1>1. Linked(nodes) /\ IsPath(nodes, path) /\ IsTop(nodes, top)
  BY ForestFacts
<1>2. nodes \in Seq(Nodes)
  BY <1>1 DEF Linked
<1>3. /\ q \in DOMAIN nodes /\ q # 0 /\ Len(path[q]) < Len(path[n])
      /\ path[n] = Both(path[q], d)
      /\ Len(path[q]) \in Nat /\ Len(path[n]) \in Nat
      /\ path[q] \in Seq(Bytes)
  <2> HIDE DEF path
  <2>3. IsPath(nodes, path) /\ Linked(nodes)
    BY <1>1
  <2>4. Len(path[n]) \in Nat
    BY <2>3, PathStep
  <2>5. q # 0 => /\ q \in DOMAIN nodes /\ path[n] = Both(path[q], d)
                 /\ Len(path[q]) < Len(path[n])
    <3>1. StepOfPath(nodes, path, n)
      BY <2>3, StepsDown
    <3> QED
      BY <3>1 DEF StepOfPath
  <2>1. /\ q \in DOMAIN nodes /\ q # 0 /\ Len(path[q]) < Len(path[n])
        /\ path[n] = Both(path[q], d) /\ Len(path[n]) \in Nat
    BY <2>4, <2>5
  <2> HIDE DEF q
  <2>2. path[q] \in Seq(Bytes) /\ Len(path[q]) \in Nat
    BY <1>1, <2>1, PathStep
  <2> QED
    BY <2>1, <2>2
<1>4. q # n
  BY <1>3
<1>5. d \in Seq(Bytes) /\ Len(d) \in Nat /\ nodes[q].childNodes[d[1]] = n
      /\ d[1] \in DOMAIN nodes[q].childNodes
  BY <1>1, LinkedFacts
<1>6. /\ high \in Texts /\ high[1] = d[1] /\ high \in Seq(Bytes)
      /\ low \in Texts /\ low[1] = d[index + 1] /\ low \in Seq(Bytes)
  BY <1>5, CutFacts, TextFacts
<1>7. Both(high, low) = d
  <2>1. index \in 0 .. Len(d)
    BY <1>5
  <2> HIDE DEF d
  <2> QED
    BY <1>5, <2>1, CutAndJoin, Zenon
<1>8. Divided(nodes, n, index, new, k)
  BY <1>2, <1>3, <1>4, divideFacts
<1> HIDE DEF path, top
<1>9. /\ new \in Seq(Nodes) /\ k \notin DOMAIN nodes /\ k \in DOMAIN new
      /\ DOMAIN new = DOMAIN nodes \cup {k}
      /\ new[k].data = high /\ new[k].parent = q
      /\ new[k].childNodes = put(<<>>, d[index + 1], n)
      /\ new[n].data = low /\ new[n].parent = k
      /\ new[n].childNodes = nodes[n].childNodes
      /\ \A i \in DOMAIN nodes :
           /\ i # n => new[i].data = nodes[i].data /\ new[i].parent = nodes[i].parent
           /\ i # q => new[i].childNodes = nodes[i].childNodes
      /\ new[q].childNodes = put(nodes[q].childNodes, d[1], k)
  BY <1>8 DEF Divided
<1>10. /\ \A i \in DOMAIN nodes : i # k /\ i # 0 /\ i \in DOMAIN new
       /\ k # 0
  BY <1>1, <1>9, LinkedFacts
<1> HIDE DEF d, q, high, low
<1>11. /\ DOMAIN new[q].childNodes = DOMAIN nodes[q].childNodes
       /\ new[q].childNodes[d[1]] = k
       /\ \A b \in DOMAIN nodes[q].childNodes :
            b # d[1] => new[q].childNodes[b] = nodes[q].childNodes[b]
  <2> DEFINE m == nodes[q].childNodes
             a == d[1]
  <2>1. a \in DOMAIN m /\ new[q].childNodes = put(m, a, k)
    BY <1>5, <1>9
  <2> HIDE DEF m, a
  <2>2. /\ DOMAIN put(m, a, k) = DOMAIN m /\ put(m, a, k)[a] = k
        /\ \A b \in DOMAIN m : b # a => put(m, a, k)[b] = m[b]
    BY <2>1 DEF put
  <2>3. /\ DOMAIN new[q].childNodes = DOMAIN m /\ new[q].childNodes[a] = k
        /\ \A b \in DOMAIN m : b # a => new[q].childNodes[b] = m[b]
    BY <2>1, <2>2
  <2> QED
    BY <2>3 DEF m, a
<1>12. DOMAIN new[k].childNodes = {d[index + 1]} /\ new[k].childNodes[d[index + 1]] = n
  BY <1>9 DEF put
<1>13. nodes[n].data = d /\ nodes[n].parent = q
  BY DEF d, q
<1>14. Linked(new)
  <2>1. ASSUME NEW i \in DOMAIN new, NEW b \in DOMAIN new[i].childNodes
        PROVE  LET c == new[i].childNodes[b]
               IN  c \in DOMAIN new /\ new[c].parent = i /\ new[c].data[1] = b
    <3>1. CASE i = k
      <4>1. b = d[index + 1] /\ new[i].childNodes[b] = n
        BY <1>12, <2>1, <3>1
      <4> QED
        BY <1>6, <1>9, <3>1, <4>1
    <3>2. CASE i = q /\ b = d[1]
      BY <1>6, <1>9, <1>11, <3>2
    <3>3. CASE i = q /\ b # d[1]
      <4> DEFINE c == nodes[q].childNodes[b]
      <4>1. b \in DOMAIN nodes[q].childNodes /\ new[i].childNodes[b] = c
        BY <1>11, <2>1, <3>3
      <4>2. c \in DOMAIN nodes /\ nodes[c].parent = q /\ nodes[c].data[1] = b
        BY <1>1, <1>3, <4>1, LinkedFacts
      <4>3. c # n
        BY <1>13, <3>3, <4>2
      <4> QED
        BY <1>9, <3>3, <4>1, <4>2, <4>3
    <3>4. CASE i # k /\ i # q
      <4> DEFINE c == nodes[i].childNodes[b]
      <4>0. i \in DOMAIN nodes
        BY <1>9, <3>4
      <4>1. b \in DOMAIN nodes[i].childNodes /\ new[i].childNodes[b] = c
        BY <1>9, <2>1, <3>4, <4>0
      <4>2. c \in DOMAIN nodes /\ nodes[c].parent = i /\ nodes[c].data[1] = b
        BY <1>1, <4>0, <4>1, LinkedFacts
      <4>3. c # n
        BY <1>13, <3>4, <4>2
      <4> QED
        BY <1>9, <4>1, <4>2, <4>3
    <3> QED
      BY <3>1, <3>2, <3>3, <3>4
  <2>2. ASSUME NEW i \in DOMAIN new
        PROVE  LET r == new[i].parent
               IN  r # 0 => /\ r \in DOMAIN new
                            /\ new[i].data[1] \in DOMAIN new[r].childNodes
                            /\ new[r].childNodes[new[i].data[1]] = i
    <3>1. CASE i = k
      <4>1. new[i].parent = q /\ new[i].data[1] = d[1] /\ q \in DOMAIN new
        BY <1>3, <1>6, <1>9, <3>1
      <4> QED
        BY <1>5, <1>11, <3>1, <4>1
    <3>2. CASE i = n
      <4>1. new[i].parent = k /\ new[i].data[1] = d[index + 1]
        BY <1>6, <1>9, <3>2
      <4> QED
        BY <1>9, <1>12, <3>2, <4>1
    <3>3. CASE i # k /\ i # n
      <4> DEFINE r == nodes[i].parent
                 b == nodes[i].data[1]
      <4>1. i \in DOMAIN nodes /\ new[i].parent = r /\ new[i].data[1] = b
        BY <1>9, <3>3
      <4>2. r # 0 => r \in DOMAIN nodes /\ b \in DOMAIN nodes[r].childNodes
                     /\ nodes[r].childNodes[b] = i
        BY <1>1, <4>1, LinkedFacts
      <4> HIDE DEF r, b
      <4>3. CASE r # 0 /\ r = q
        <5>1. b # d[1]
          BY <1>5, <3>3, <4>2, <4>3
        <5> QED
          BY <1>9, <1>11, <4>1, <4>2, <4>3, <5>1
      <4>4. CASE r # 0 /\ r # q
        <5>1. new[r].childNodes = nodes[r].childNodes /\ r \in DOMAIN new
          BY <1>9, <4>2, <4>4
        <5> QED
          BY <4>1, <4>2, <4>4, <5>1
      <4> QED
        BY <4>1, <4>3, <4>4
    <3> QED
      BY <3>1, <3>2, <3>3
  <2> QED
    BY <1>9, <2>1, <2>2 DEF Linked
<1>15. path2[k] = Both(path[q], high) /\ top2[k] = top[n]
       /\ \A i \in DOMAIN nodes : path2[i] = path[i] /\ top2[i] = top[i]
  BY <1>9, <1>10
<1>16. IsPath(new, path2)
  <2>2. Both(path[q], high) \in Seq(Bytes)
    BY <1>3, <1>6, BothFacts
  <2>3. path2 \in [DOMAIN new -> Seq(Bytes)]
    BY <1>1, <1>9, <2>2 DEF IsPath
  <2> HIDE DEF path2
  <2>4. ASSUME NEW i \in DOMAIN new
        PROVE  /\ new[i].parent = 0 => path2[i] = new[i].data
               /\ new[i].parent # 0 => path2[i] = Both(path2[new[i].parent], new[i].data)
    <3>1. CASE i = k
      <4>1. path2[q] = path[q] /\ new[i].parent = q /\ new[i].data = high
        BY <1>3, <1>9, <1>15, <3>1
      <4> QED
        BY <1>3, <1>15, <3>1, <4>1
    <3>2. CASE i = n
      <4>1. Both(Both(path[q], high), low) = Both(path[q], Both(high, low))
        BY <1>3, <1>6, BothAssoc
      <4>2. path[n] = Both(path2[k], low)
        BY <1>3, <1>7, <1>15, <4>1
      <4> QED
        BY <1>9, <1>10, <1>15, <3>2, <4>2
    <3>3. CASE i # k /\ i # n
      <4>1. i \in DOMAIN nodes /\ new[i].parent = nodes[i].parent /\ new[i].data = nodes[i].data
            /\ path2[i] = path[i]
        BY <1>9, <1>15, <3>3
      <4>2. nodes[i].parent # 0 => path2[nodes[i].parent] = path[nodes[i].parent]
        BY <1>1, <1>15, <4>1, LinkedFacts
      <4>3. /\ nodes[i].parent = 0 => path[i] = nodes[i].data
            /\ nodes[i].parent # 0 => path[i] = Both(path[nodes[i].parent], nodes[i].data)
        BY <1>1, <4>1 DEF IsPath
      <4> QED
        BY <4>1, <4>2, <4>3
    <3> QED
      BY <3>1, <3>2, <3>3
  <2> QED
    BY <2>3, <2>4 DEF IsPath
<1>17. IsTop(new, top2)
  <2>1. \A i \in DOMAIN nodes : top[i] \in DOMAIN nodes /\ nodes[top[i]].parent = 0
    BY <1>1 DEF IsTop
  <2>2. \A i \in DOMAIN nodes : top[i] # n /\ new[top[i]].parent = 0
    BY <1>3, <1>9, <1>13, <2>1
  <2>3. top2 \in [DOMAIN new -> DOMAIN new]
    BY <1>9, <2>1
  <2> HIDE DEF top2
  <2>4. ASSUME NEW i \in DOMAIN new
        PROVE  /\ new[top2[i]].parent = 0
               /\ new[i].parent = 0 => top2[i] = i
               /\ new[i].parent # 0 => top2[i] = top2[new[i].parent]
    <3>0. top[n] = top[q]
      BY <1>1, <1>3, <1>13 DEF IsTop
    <3>1. CASE i = k
      <4>1. new[i].parent = q /\ top2[q] = top[q]
        BY <1>3, <1>9, <1>15, <3>1
      <4> QED
        BY <1>3, <1>15, <2>2, <3>0, <3>1, <4>1
    <3>2. CASE i = n
      BY <1>9, <1>10, <1>15, <2>2, <3>2
    <3>3. CASE i # k /\ i # n
      <4>1. i \in DOMAIN nodes /\ new[i].parent = nodes[i].parent /\ top2[i] = top[i]
        BY <1>9, <1>15, <3>3
      <4>2. nodes[i].parent # 0 => top2[nodes[i].parent] = top[nodes[i].parent]
        BY <1>1, <1>15, <4>1, LinkedFacts
      <4>3. /\ nodes[i].parent = 0 => top[i] = i
            /\ nodes[i].parent # 0 => top[i] = top[nodes[i].parent]
        BY <1>1, <4>1 DEF IsTop
      <4> QED
        BY <2>2, <4>1, <4>2, <4>3
    <3> QED
      BY <3>1, <3>2, <3>3
  <2> QED
    BY <2>3, <2>4 DEF IsTop
<1> HIDE DEF path2, top2
<1>18. Forest(new) /\ Path(new) = path2 /\ Top(new) = top2
  BY <1>14, <1>16, <1>17, ForestFrom
<1>19. \A i \in DOMAIN nodes : new[i].parent = 0 <=> nodes[i].parent = 0
  BY <1>3, <1>9, <1>10, <1>13
<1>20. Grown(nodes, new)
  BY <1>10, <1>15, <1>18, <1>19 DEF Grown, path, top
<1> QED
  BY <1>3, <1>8, <1>9, <1>15, <1>18, <1>20 DEF path, top, d, q, high

\* A new root.
\* A new node k has neither a parent nor children.
RootAdded(nodes, data, count, new, k) ==
  /\ Grown(nodes, new) /\ Len(new) = k /\ DOMAIN new = DOMAIN nodes \cup {k}
  /\ k \notin DOMAIN nodes
  /\ new[k].parent = 0 /\ new[k].childNodes = <<>> /\ new[k].data = data
  /\ new[k].count = count
  /\ Path(new)[k] = data /\ Top(new)[k] = k
  /\ \A n \in DOMAIN nodes : new[n] = nodes[n]

\* A new root leaves the other trees alone.
LEMMA RootGrown ==
  ASSUME NEW nodes, Forest(nodes), NEW data \in Texts, NEW count \in Nat,
         NEW new, new = Append(nodes, NewNode(data, count)), NEW k, k = Len(nodes) + 1
  PROVE  RootAdded(nodes, data, count, new, k)
<1> DEFINE path == Path(nodes)
           top  == Top(nodes)
           x    == NewNode(data, count)
           path2 == [n \in DOMAIN new |-> IF n = k THEN data ELSE path[n]]
           top2  == [n \in DOMAIN new |-> IF n = k THEN k ELSE top[n]]
<1>1. Linked(nodes) /\ IsPath(nodes, path) /\ IsTop(nodes, top)
  BY ForestFacts
<1> HIDE DEF path, top
<1>2. nodes \in Seq(Nodes) /\ Len(nodes) \in Nat
  BY <1>1 DEF Linked
<1>3. x = Record(data, 0, <<>>, count) /\ x \in Nodes
  BY EmptyIsMap, RecordIsNode DEF NewNode, Record
<1>4. x.data = data /\ x.parent = 0 /\ x.childNodes = <<>> /\ x.count = count
  BY <1>3, RecordIsNode
<1> HIDE DEF x
<1>5. /\ new \in Seq(Nodes) /\ Len(new) = k /\ new[k] = x
      /\ \A n \in DOMAIN nodes : new[n] = nodes[n]
      /\ DOMAIN new = DOMAIN nodes \cup {k}
  BY <1>2, <1>3, AppendFacts DEF x
<1>6. /\ \A n \in DOMAIN nodes : n # k /\ n # 0 /\ n \in DOMAIN new
      /\ k \notin DOMAIN nodes
  BY <1>2, <1>5
<1>7. Linked(new)
  <2>1. ASSUME NEW n \in DOMAIN new, NEW b \in DOMAIN new[n].childNodes
        PROVE  LET c == new[n].childNodes[b]
               IN  c \in DOMAIN new /\ new[c].parent = n /\ new[c].data[1] = b
    <3>1. CASE n = k
      BY <1>4, <1>5, <2>1, <3>1
    <3>2. CASE n # k
      <4> DEFINE c == nodes[n].childNodes[b]
      <4>1. n \in DOMAIN nodes /\ b \in DOMAIN nodes[n].childNodes /\ new[n].childNodes[b] = c
        BY <1>5, <2>1, <3>2
      <4>2. c \in DOMAIN nodes /\ nodes[c].parent = n /\ nodes[c].data[1] = b
        BY <1>1, <4>1, LinkedFacts
      <4> QED
        BY <1>5, <4>1, <4>2
    <3> QED
      BY <3>1, <3>2
  <2>2. ASSUME NEW n \in DOMAIN new
        PROVE  LET q == new[n].parent
               IN  q # 0 => /\ q \in DOMAIN new
                            /\ new[n].data[1] \in DOMAIN new[q].childNodes
                            /\ new[q].childNodes[new[n].data[1]] = n
    <3>1. CASE n = k
      BY <1>4, <1>5, <3>1
    <3>2. CASE n # k
      <4> DEFINE q == nodes[n].parent
                 b == nodes[n].data[1]
      <4>1. n \in DOMAIN nodes /\ new[n].parent = q /\ new[n].data[1] = b
        BY <1>5, <3>2
      <4>2. q # 0 => q \in DOMAIN nodes /\ b \in DOMAIN nodes[q].childNodes
                     /\ nodes[q].childNodes[b] = n
        BY <1>1, <4>1, LinkedFacts
      <4> HIDE DEF q, b
      <4> QED
        BY <1>5, <4>1, <4>2
    <3> QED
      BY <3>1, <3>2
  <2> QED
    BY <1>5, <2>1, <2>2 DEF Linked
<1>8. path2[k] = data /\ top2[k] = k
      /\ \A n \in DOMAIN nodes : path2[n] = path[n] /\ top2[n] = top[n]
  BY <1>5, <1>6
<1>9. IsPath(new, path2)
  <2>1. data \in Seq(Bytes)
    BY TextFacts
  <2>2. path2 \in [DOMAIN new -> Seq(Bytes)]
    BY <1>1, <1>5, <2>1 DEF IsPath
  <2> HIDE DEF path2
  <2>3. ASSUME NEW n \in DOMAIN new
        PROVE  /\ new[n].parent = 0 => path2[n] = new[n].data
               /\ new[n].parent # 0 => path2[n] = Both(path2[new[n].parent], new[n].data)
    <3>1. CASE n = k
      BY <1>4, <1>5, <1>8, <3>1
    <3>2. CASE n # k
      <4>1. n \in DOMAIN nodes /\ new[n] = nodes[n] /\ path2[n] = path[n]
        BY <1>5, <1>8, <3>2
      <4>2. nodes[n].parent # 0 => path2[nodes[n].parent] = path[nodes[n].parent]
        BY <1>1, <1>8, <4>1, LinkedFacts
      <4>3. /\ nodes[n].parent = 0 => path[n] = nodes[n].data
            /\ nodes[n].parent # 0 => path[n] = Both(path[nodes[n].parent], nodes[n].data)
        BY <1>1, <4>1 DEF IsPath
      <4> QED
        BY <4>1, <4>2, <4>3
    <3> QED
      BY <3>1, <3>2
  <2> QED
    BY <2>2, <2>3 DEF IsPath
<1>10. IsTop(new, top2)
  <2>1. \A n \in DOMAIN nodes : top[n] \in DOMAIN nodes /\ nodes[top[n]].parent = 0
    BY <1>1 DEF IsTop
  <2>2. top2 \in [DOMAIN new -> DOMAIN new]
    BY <1>5, <2>1
  <2> HIDE DEF top2
  <2>3. ASSUME NEW n \in DOMAIN new
        PROVE  /\ new[top2[n]].parent = 0
               /\ new[n].parent = 0 => top2[n] = n
               /\ new[n].parent # 0 => top2[n] = top2[new[n].parent]
    <3>1. CASE n = k
      BY <1>4, <1>5, <1>8, <3>1
    <3>2. CASE n # k
      <4>1. n \in DOMAIN nodes /\ new[n] = nodes[n] /\ top2[n] = top[n]
        BY <1>5, <1>8, <3>2
      <4>2. nodes[n].parent # 0 => top2[nodes[n].parent] = top[nodes[n].parent]
        BY <1>1, <1>8, <4>1, LinkedFacts
      <4>3. /\ nodes[n].parent = 0 => top[n] = n
            /\ nodes[n].parent # 0 => top[n] = top[nodes[n].parent]
        BY <1>1, <4>1 DEF IsTop
      <4>4. new[top[n]].parent = 0
        BY <1>5, <2>1, <4>1
      <4> QED
        BY <4>1, <4>2, <4>3, <4>4
    <3> QED
      BY <3>1, <3>2
  <2> QED
    BY <2>2, <2>3 DEF IsTop
<1> HIDE DEF path2, top2
<1>11. Forest(new) /\ Path(new) = path2 /\ Top(new) = top2
  BY <1>7, <1>9, <1>10, ForestFrom
<1>12. Grown(nodes, new)
  BY <1>5, <1>6, <1>8, <1>11 DEF Grown, path, top
<1> QED
  BY <1>4, <1>5, <1>6, <1>8, <1>11, <1>12 DEF RootAdded

-----------------------------------------------------------------------------
(* simplifyNodes                                                           *)

\* The i-th of the nodes that take over all bytes of n but the last.
Slice(nodes, n, i) ==
  LET d == nodes[n].data
      k == Len(nodes)
  IN  [data |-> <<d[i]>>, count |-> nodes[n].count,
       parent |-> IF i = 1 THEN nodes[n].parent ELSE k + i - 1,
       childNodes |-> put(<<>>, d[i + 1], IF i = Len(d) - 1 THEN n ELSE k + i + 1)]

Simplified(nodes, n) ==
  LET d   == nodes[n].data
      k   == Len(nodes)
  IN  [nodes EXCEPT ![nodes[n].parent].childNodes = put(@, d[1], k + 1),
                    ![n].data = <<Last(d)>>,
                    ![n].parent = k + Len(d) - 1] \o [i \in 1 .. Len(d) - 1 |-> Slice(nodes, n, i)]

\* What simplifyNodes makes of n and of the nodes there were.
Sliced(nodes, n, new) ==
  LET d == nodes[n].data
      q == nodes[n].parent
      k == Len(nodes)
  IN  /\ new \in Seq(Nodes) /\ Len(new) = k + Len(d) - 1
      /\ \A i \in 1 .. Len(d) - 1 : new[k + i] = Slice(nodes, n, i)
      /\ \A i \in DOMAIN nodes :
           /\ i # n => new[i].data = nodes[i].data /\ new[i].parent = nodes[i].parent
           /\ i # q => new[i].childNodes = nodes[i].childNodes
      /\ new[n].data = <<Last(d)>> /\ new[n].parent = k + Len(d) - 1
      /\ new[q].childNodes = put(nodes[q].childNodes, d[1], k + 1)

\* A single byte is a text.
LEMMA OneByte ==
  ASSUME NEW b \in Bytes
  PROVE  <<b>> \in Texts /\ <<b>>[1] = b /\ Len(<<b>>) = 1 /\ <<b>> \in Seq(Bytes)
<1>1. <<b>> \in Seq(Bytes) /\ Len(<<b>>) = 1 /\ <<b>>[1] = b
  OBVIOUS
<1>2. 1 # 0
  OBVIOUS
<1> QED
  BY <1>1, <1>2, LongIsText, Zenon

\* The fields of the node that Tree.simplifyNodes makes for byte i.
LEMMA SliceFacts ==
  ASSUME NEW nodes \in Seq(Nodes), NEW n \in DOMAIN nodes, Len(nodes[n].data) > 1,
         NEW i \in 1 .. Len(nodes[n].data) - 1, NEW s, s = Slice(nodes, n, i)
  PROVE  /\ s \in Nodes /\ s.data = <<nodes[n].data[i]>>
         /\ s.parent = IF i = 1 THEN nodes[n].parent ELSE Len(nodes) + i - 1
         /\ DOMAIN s.childNodes = {nodes[n].data[i + 1]}
         /\ s.childNodes[nodes[n].data[i + 1]] =
              IF i = Len(nodes[n].data) - 1 THEN n ELSE Len(nodes) + i + 1
<1> DEFINE d == nodes[n].data
           p == IF i = 1 THEN nodes[n].parent ELSE Len(nodes) + i - 1
           c == IF i = Len(d) - 1 THEN n ELSE Len(nodes) + i + 1
           m == put(<<>>, d[i + 1], c)
           a == d[i + 1]
<1>1. nodes[n].parent \in Nat /\ nodes[n].count \in Nat /\ d \in Texts /\ n \in Nat
  BY FieldFacts
<1>2. d \in Seq(Bytes) /\ Len(d) \in Nat /\ Len(nodes) \in Nat
  BY <1>1, TextFacts
<1>3. d[i] \in Bytes /\ a \in Bytes
  BY <1>2
<1>4. p \in Nat /\ c \in Nat
  BY <1>1, <1>2
<1>5. s = Record(<<d[i]>>, p, m, nodes[n].count)
  BY DEF Slice, Record
<1> HIDE DEF d, p, c
<1>6. m \in Maps /\ DOMAIN m = {a} /\ m[a] = c
  <2> HIDE DEF a
  <2>1. put(<<>>, a, c) \in Maps
    BY <1>3, <1>4, EmptyIsMap, PutIsMap
  <2>2. DOMAIN put(<<>>, a, c) = {a} /\ put(<<>>, a, c)[a] = c
    BY DEF put
  <2> QED
    BY <2>1, <2>2 DEF a
<1> HIDE DEF m
<1>7. <<d[i]>> \in Texts
  BY <1>3, OneByte
<1>8. s.data = <<d[i]>> /\ s.parent = p /\ s.childNodes = m /\ s \in Nodes
  BY <1>1, <1>4, <1>5, <1>6, <1>7, RecordIsNode
<1> QED
  BY <1>6, <1>8 DEF d, p, c, a

Appended(S, s, t, u) ==
  /\ u \in Seq(S) /\ Len(u) = Len(s) + Len(t)
  /\ \A i \in 1 .. Len(s) : u[i] = s[i]
  /\ \A i \in 1 .. Len(t) : u[Len(s) + i] = t[i]

\* The elements of two sequences one after the other.
LEMMA ConcatFacts ==
  ASSUME NEW S, NEW s \in Seq(S), NEW t \in Seq(S), NEW u, u = s \o t
  PROVE  Appended(S, s, t, u)
  BY DEF Appended

\* One turn of Tree.simplifyNodes, field by field: the new nodes are a chain of single
\* bytes from the parent of n to n, and n keeps its last byte.
LEMMA SimplifiedFacts ==
  ASSUME NEW nodes \in Seq(Nodes), NEW n \in DOMAIN nodes, Len(nodes[n].data) > 1,
         nodes[n].parent \in DOMAIN nodes, nodes[n].parent # n,
         NEW new, new = Simplified(nodes, n)
  PROVE  Sliced(nodes, n, new)
<1> DEFINE d == nodes[n].data
           q == nodes[n].parent
           k == Len(nodes)
           L == Len(d)
           last == <<Last(d)>>
           m    == put(nodes[q].childNodes, d[1], k + 1)
           old == [nodes EXCEPT ![q].childNodes = m, ![n].data = last, ![n].parent = k + L - 1]
           cut == [i \in 1 .. L - 1 |-> Slice(nodes, n, i)]
<1>1. nodes[n].parent \in Nat /\ nodes[n].count \in Nat /\ d \in Texts /\ n \in Nat
      /\ nodes[n].childNodes \in Maps
  BY FieldFacts
<1>2. d \in Seq(Bytes) /\ L \in Nat /\ k \in Nat /\ DOMAIN nodes = 1 .. k /\ d[1] \in Bytes
  BY <1>1, TextFacts
<1>3. last \in Texts
  <2>1. Last(d) \in Bytes
    BY <1>2 DEF Last
  <2> QED
    BY <2>1, OneByte
<1>4. m \in Maps
  <2>1. nodes[q].childNodes \in Maps
    BY FieldFacts
  <2> QED
    BY <1>2, <2>1, PutIsMap
<1>5. new = old \o cut
  BY DEF Simplified
<1>6. cut \in Seq(Nodes) /\ Len(cut) = L - 1 /\ \A i \in 1 .. L - 1 : cut[i] = Slice(nodes, n, i)
  <2>1. \A i \in 1 .. L - 1 : Slice(nodes, n, i) \in Nodes
    BY SliceFacts
  <2>2. L - 1 \in Nat
    BY <1>2
  <2> HIDE DEF L
  <2>3. cut \in [1 .. L - 1 -> Nodes]
    BY <2>1
  <2> QED
    BY <2>2, <2>3
<1> HIDE DEF cut, m, last
<1>7. /\ old = [i \in 1 .. k |-> old[i]]
      /\ \A i \in DOMAIN nodes : i # n /\ i # q => old[i] = nodes[i]
      /\ old[q] = [nodes[q] EXCEPT !.childNodes = m]
      /\ old[n] = [[nodes[n] EXCEPT !.data = last] EXCEPT !.parent = k + L - 1]
  BY <1>2
<1> DEFINE kk == k + L - 1
<1>8. kk \in Nat
  BY <1>1, <1>2
<1> HIDE DEF kk
<1>9. /\ old[q].data = nodes[q].data /\ old[q].parent = nodes[q].parent
      /\ old[q].childNodes = m /\ old[q] \in Nodes
  <2> DEFINE r == nodes[q]
             t == old[q]
  <2>1. /\ r.data \in Texts /\ r.parent \in Nat /\ r.childNodes \in Maps /\ r.count \in Nat
        /\ r = Record(r.data, r.parent, r.childNodes, r.count)
    BY FieldFacts
  <2>2. t = [r EXCEPT !.childNodes = m]
    BY <1>7
  <2> HIDE DEF r, t
  <2>3. PICK d0, p0, m0, c0 : r = Record(d0, p0, m0, c0)
    BY <2>1, Zenon
  <2>4. r.data = d0 /\ r.parent = p0 /\ r.childNodes = m0 /\ r.count = c0
    BY <2>3, RecordIsNode
  <2>5. t = Record(d0, p0, m, c0)
    BY <2>2, <2>3 DEF Record
  <2>6. t.data = d0 /\ t.parent = p0 /\ t.childNodes = m /\ t \in Nodes
    BY <1>4, <2>1, <2>4, <2>5, RecordIsNode
  <2> QED
    BY <2>4, <2>6 DEF r, t
<1>10. /\ old[n].data = last /\ old[n].parent = kk
       /\ old[n].childNodes = nodes[n].childNodes /\ old[n] \in Nodes
  <2> DEFINE r == nodes[n]
             t == old[n]
  <2>1. /\ r.data \in Texts /\ r.parent \in Nat /\ r.childNodes \in Maps /\ r.count \in Nat
        /\ r = Record(r.data, r.parent, r.childNodes, r.count)
    BY FieldFacts
  <2>2. t = [[r EXCEPT !.data = last] EXCEPT !.parent = kk]
    BY <1>7 DEF kk
  <2> HIDE DEF r, t
  <2>3. PICK d0, p0, m0, c0 : r = Record(d0, p0, m0, c0)
    BY <2>1, Zenon
  <2>4. r.data = d0 /\ r.parent = p0 /\ r.childNodes = m0 /\ r.count = c0
    BY <2>3, RecordIsNode
  <2>5. t = Record(last, kk, m0, c0)
    BY <2>2, <2>3 DEF Record
  <2>6. t.data = last /\ t.parent = kk /\ t.childNodes = m0 /\ t \in Nodes
    BY <1>3, <1>8, <2>1, <2>4, <2>5, RecordIsNode
  <2> QED
    BY <2>4, <2>6 DEF r, t
<1> HIDE DEF old
<1>11. \A i \in 1 .. k : old[i] \in Nodes
  BY <1>2, <1>7, <1>9, <1>10, SeqFacts
<1>12. old \in Seq(Nodes) /\ Len(old) = k
  BY <1>2, <1>7, <1>11, IsSeq
<1>13. /\ new \in Seq(Nodes) /\ Len(new) = k + (L - 1)
       /\ \A i \in 1 .. k : new[i] = old[i]
       /\ \A i \in 1 .. L - 1 : new[k + i] = cut[i]
  <2> HIDE DEF L, k
  <2>1. Appended(Nodes, old, cut, new)
    BY <1>5, <1>6, <1>12, ConcatFacts
  <2> QED
    BY <1>6, <1>12, <2>1 DEF Appended
<1>14. kk = k + (L - 1) /\ kk = k + L - 1
  BY <1>1, <1>2 DEF kk
<1>15. ASSUME NEW i \in DOMAIN nodes
       PROVE  /\ i # n => new[i].data = nodes[i].data /\ new[i].parent = nodes[i].parent
              /\ i # q => new[i].childNodes = nodes[i].childNodes
  <2>1. new[i] = old[i]
    BY <1>2, <1>13
  <2> QED
    BY <1>7, <1>9, <1>10, <2>1
<1>16. new[n].data = last /\ new[n].parent = kk /\ new[q].childNodes = m
  BY <1>2, <1>9, <1>10, <1>13
<1> QED
  BY <1>6, <1>13, <1>14, <1>15, <1>16 DEF Sliced, last, m

\* The first i bytes are the first i - 1 and byte i.
LEMMA OneMore ==
  ASSUME NEW d \in Seq(Bytes), NEW i \in 1 .. Len(d)
  PROVE  /\ <<d[i]>> \in Seq(Bytes) /\ SubSeq(d, 1, i - 1) \in Seq(Bytes)
         /\ SubSeq(d, 1, i) \in Seq(Bytes)
         /\ Both(SubSeq(d, 1, i - 1), <<d[i]>>) = SubSeq(d, 1, i)
         /\ SubSeq(d, 1, 1) = <<d[1]>> /\ SubSeq(d, 1, Len(d)) = d
<1> DEFINE s == SubSeq(d, 1, i - 1)
           t == <<d[i]>>
           u == SubSeq(d, 1, i)
<1>0. Len(d) \in Nat /\ i \in Nat \ {0} /\ i <= Len(d) /\ i - 1 \in 0 .. Len(d) /\ i \in 0 .. Len(d)
      /\ 1 \in 0 .. Len(d) /\ Len(d) \in 0 .. Len(d) /\ i \in DOMAIN d /\ 1 \in DOMAIN d
  OBVIOUS
<1>1. s \in Seq(Bytes) /\ Len(s) = i - 1 /\ \A j \in 1 .. i - 1 : s[j] = d[j]
  BY <1>0, FrontFacts
<1>2. t \in Seq(Bytes) /\ Len(t) = 1 /\ t[1] = d[i]
  <2>1. d[i] \in Bytes
    BY <1>0
  <2> QED
    BY <2>1, OneByte
<1>3. u \in Seq(Bytes) /\ Len(u) = i /\ \A j \in 1 .. i : u[j] = d[j]
  BY <1>0, FrontFacts
<1> HIDE DEF s, t, u
<1>4. Both(s, t) \in Seq(Bytes) /\ Len(Both(s, t)) = i
  <2>1. Both(s, t) \in Seq(Bytes) /\ Len(Both(s, t)) = Len(s) + Len(t)
    BY <1>1, <1>2, BothFacts, Zenon
  <2> QED
    BY <1>0, <1>1, <1>2, <2>1
<1>5. ASSUME NEW j \in 1 .. i PROVE Both(s, t)[j] = u[j]
  <2>1. CASE j < i
    <3>1. j \in 1 .. Len(s) /\ j \in 1 .. i - 1
      BY <1>0, <1>1, <2>1
    <3>2. Both(s, t)[j] = s[j]
      BY <1>1, <1>2, <3>1, BothFacts
    <3> QED
      BY <1>1, <1>3, <3>1, <3>2
  <2>2. CASE j = i
    <3>1. 1 \in 1 .. Len(t) /\ Len(s) + 1 = i
      BY <1>0, <1>1, <1>2
    <3>2. Both(s, t)[Len(s) + 1] = t[1]
      BY <1>1, <1>2, <3>1, BothFacts
    <3> QED
      BY <1>2, <1>3, <2>2, <3>1, <3>2
  <2> QED
    BY <1>0, <2>1, <2>2
<1>6. Both(s, t) = u
  BY <1>3, <1>4, <1>5, SameSeq
<1>7. SubSeq(d, 1, 1) = <<d[1]>> /\ SubSeq(d, 1, Len(d)) = d
  <2> DEFINE v == SubSeq(d, 1, 1)
             w == SubSeq(d, 1, Len(d))
             x == <<d[1]>>
  <2>1. v \in Seq(Bytes) /\ Len(v) = 1 /\ \A j \in 1 .. 1 : v[j] = d[j]
    BY <1>0, FrontFacts
  <2>2. w \in Seq(Bytes) /\ Len(w) = Len(d) /\ \A j \in 1 .. Len(d) : w[j] = d[j]
    BY <1>0, FrontFacts
  <2>3. x \in Seq(Bytes) /\ Len(x) = 1 /\ x[1] = d[1]
    BY <1>0, OneByte
  <2> HIDE DEF v, w, x
  <2>4. v = x
    <3>1. \A j \in 1 .. 1 : v[j] = x[j]
      BY <2>1, <2>3
    <3> QED
      BY <2>1, <2>3, <3>1, SameSeq
  <2>5. w = d
    BY <2>2, SameSeq
  <2> QED
    BY <2>4, <2>5 DEF v, w, x
<1> QED
  BY <1>1, <1>2, <1>3, <1>6, <1>7 DEF s, t, u

\* One turn of Tree.simplifyNodes keeps the path of every node; the path of a new node is
\* a prefix of that of n.
LEMMA SimplifiedGrown ==
  ASSUME NEW nodes, Forest(nodes), NEW n \in DOMAIN nodes, nodes[n].parent # 0,
         Len(nodes[n].data) > 1,
         NEW new, new = Simplified(nodes, n)
  PROVE  /\ Grown(nodes, new) /\ Sliced(nodes, n, new)
         /\ \A i \in DOMAIN new \ DOMAIN nodes :
              /\ new[i].parent # 0 /\ Top(new)[i] = Top(nodes)[n]
              /\ i - Len(nodes) \in 1 .. Len(nodes[n].data) - 1
              /\ Path(new)[i] = Both(Path(nodes)[nodes[n].parent],
                                     SubSeq(nodes[n].data, 1, i - Len(nodes)))
<1> DEFINE path == Path(nodes)
           top  == Top(nodes)
           d    == nodes[n].data
           q    == nodes[n].parent
           L    == Len(d)
           k    == Len(nodes)
           path2 == [j \in DOMAIN new |-> IF j \in DOMAIN nodes THEN path[j]
                                          ELSE Both(path[q], SubSeq(d, 1, j - k))]
           top2  == [j \in DOMAIN new |-> IF j \in DOMAIN nodes THEN top[j] ELSE top[n]]
<1>1. Linked(nodes) /\ IsPath(nodes, path) /\ IsTop(nodes, top)
  BY ForestFacts
<1>2. nodes \in Seq(Nodes)
  BY <1>1 DEF Linked
<1>3. /\ q \in DOMAIN nodes /\ q # 0 /\ Len(path[q]) < Len(path[n])
      /\ path[n] = Both(path[q], d)
      /\ Len(path[q]) \in Nat /\ Len(path[n]) \in Nat
      /\ path[q] \in Seq(Bytes)
  <2> HIDE DEF path
  <2>3. IsPath(nodes, path) /\ Linked(nodes)
    BY <1>1
  <2>4. Len(path[n]) \in Nat
    BY <2>3, PathStep
  <2>5. q # 0 => /\ q \in DOMAIN nodes /\ path[n] = Both(path[q], d)
                 /\ Len(path[q]) < Len(path[n])
    <3>1. StepOfPath(nodes, path, n)
      BY <2>3, StepsDown
    <3> QED
      BY <3>1 DEF StepOfPath
  <2>1. /\ q \in DOMAIN nodes /\ q # 0 /\ Len(path[q]) < Len(path[n])
        /\ path[n] = Both(path[q], d) /\ Len(path[n]) \in Nat
    BY <2>4, <2>5
  <2> HIDE DEF q
  <2>2. path[q] \in Seq(Bytes) /\ Len(path[q]) \in Nat
    BY <1>1, <2>1, PathStep
  <2> QED
    BY <2>1, <2>2
<1>4. q # n
  BY <1>3
<1>5. d \in Seq(Bytes) /\ L \in Nat /\ L > 1 /\ nodes[q].childNodes[d[1]] = n
      /\ d[1] \in DOMAIN nodes[q].childNodes
  BY <1>1, LinkedFacts
<1>6. Sliced(nodes, n, new)
  BY <1>2, <1>3, <1>4, SimplifiedFacts
<1> HIDE DEF path, top
<1>7. k \in Nat /\ DOMAIN nodes = 1 .. k
  BY <1>2
<1>8. /\ new \in Seq(Nodes) /\ DOMAIN new = 1 .. k + L - 1
      /\ \A i \in DOMAIN nodes :
           /\ i # n => new[i].data = nodes[i].data /\ new[i].parent = nodes[i].parent
           /\ i # q => new[i].childNodes = nodes[i].childNodes
      /\ new[n].data = <<d[L]>> /\ new[n].parent = k + L - 1
      /\ new[q].childNodes = put(nodes[q].childNodes, d[1], k + 1)
  BY <1>6 DEF Sliced, Last
<1>9. \A i \in 1 .. L - 1 :
        /\ new[k + i].data = <<d[i]>>
        /\ new[k + i].parent = IF i = 1 THEN q ELSE k + i - 1
        /\ DOMAIN new[k + i].childNodes = {d[i + 1]}
        /\ new[k + i].childNodes[d[i + 1]] = IF i = L - 1 THEN n ELSE k + i + 1
  <2> SUFFICES ASSUME NEW i \in 1 .. L - 1
               PROVE  /\ new[k + i].data = <<d[i]>>
                      /\ new[k + i].parent = IF i = 1 THEN q ELSE k + i - 1
                      /\ DOMAIN new[k + i].childNodes = {d[i + 1]}
                      /\ new[k + i].childNodes[d[i + 1]] = IF i = L - 1 THEN n ELSE k + i + 1
    OBVIOUS
  <2> DEFINE s == new[k + i]
  <2>1. s = Slice(nodes, n, i)
    BY <1>6 DEF Sliced
  <2> HIDE DEF s
  <2>2. /\ s.data = <<d[i]>> /\ s.parent = IF i = 1 THEN q ELSE k + i - 1
        /\ DOMAIN s.childNodes = {d[i + 1]}
        /\ s.childNodes[d[i + 1]] = IF i = L - 1 THEN n ELSE k + i + 1
    BY <1>2, <2>1, SliceFacts
  <2> QED
    BY <2>2 DEF s
<1>10. /\ \A i \in DOMAIN nodes : i # 0 /\ i \in DOMAIN new /\ i <= k /\ i \in Nat
       /\ \A i \in 1 .. L - 1 : k + i \in DOMAIN new /\ k + i \notin DOMAIN nodes /\ k + i # 0
       /\ \A j \in DOMAIN new \ DOMAIN nodes : j - k \in 1 .. L - 1 /\ j = k + (j - k)
  <2>1. DOMAIN new = 1 .. k + L - 1 /\ DOMAIN nodes = 1 .. k /\ k \in Nat /\ L \in Nat /\ L > 1
    BY <1>5, <1>7, <1>8
  <2> HIDE DEF k, L
  <2>2. \A i \in DOMAIN nodes : i # 0 /\ i \in DOMAIN new /\ i <= k /\ i \in Nat
    BY <2>1
  <2>3. \A i \in 1 .. L - 1 : k + i \in DOMAIN new /\ k + i \notin DOMAIN nodes /\ k + i # 0
    BY <2>1
  <2>4. \A j \in DOMAIN new \ DOMAIN nodes : j - k \in 1 .. L - 1 /\ j = k + (j - k)
    BY <2>1
  <2> QED
    BY <2>2, <2>3, <2>4
<1>11. nodes[n].data = d /\ nodes[n].parent = q
  BY DEF d, q
<1> HIDE DEF d, q, k, L
<1>12. /\ DOMAIN new[q].childNodes = DOMAIN nodes[q].childNodes
       /\ new[q].childNodes[d[1]] = k + 1
       /\ \A b \in DOMAIN nodes[q].childNodes :
            b # d[1] => new[q].childNodes[b] = nodes[q].childNodes[b]
  <2> DEFINE m == nodes[q].childNodes
             a == d[1]
             v == k + 1
  <2>1. a \in DOMAIN m /\ new[q].childNodes = put(m, a, v)
    BY <1>5, <1>8
  <2> HIDE DEF m, a, v
  <2>2. /\ DOMAIN put(m, a, v) = DOMAIN m /\ put(m, a, v)[a] = v
        /\ \A b \in DOMAIN m : b # a => put(m, a, v)[b] = m[b]
    BY <2>1 DEF put
  <2>3. /\ DOMAIN new[q].childNodes = DOMAIN m /\ new[q].childNodes[a] = v
        /\ \A b \in DOMAIN m : b # a => new[q].childNodes[b] = m[b]
    BY <2>1, <2>2
  <2> QED
    BY <2>3 DEF m, a, v
<1>13. /\ \A i \in 1 .. L : <<d[i]>>[1] = d[i]
       /\ 1 \in 1 .. L - 1 /\ L - 1 \in 1 .. L - 1 /\ k + (L - 1) = k + L - 1
       /\ L - 1 + 1 = L /\ L \in 1 .. L
  BY <1>5, <1>7
<1>14. Linked(new)
  <2>1. ASSUME NEW i \in DOMAIN new, NEW b \in DOMAIN new[i].childNodes
        PROVE  LET c == new[i].childNodes[b]
               IN  c \in DOMAIN new /\ new[c].parent = i /\ new[c].data[1] = b
    <3>1. CASE i \notin DOMAIN nodes
      <4> DEFINE j == i - k
      <4>1. j \in 1 .. L - 1 /\ i = k + j
        BY <1>10, <3>1
      <4> HIDE DEF j
      <4>2. b = d[j + 1] /\ new[i].childNodes[b] = IF j = L - 1 THEN n ELSE k + j + 1
        BY <1>9, <2>1, <4>1
      <4>3. CASE j = L - 1
        <5>1. b = d[L] /\ i = k + L - 1 /\ new[i].childNodes[b] = n
          BY <1>13, <4>1, <4>2, <4>3
        <5> QED
          BY <1>8, <1>10, <1>13, <5>1
      <4>4. CASE j # L - 1
        <5>1. j + 1 \in 1 .. L - 1 /\ j + 1 # 1 /\ k + (j + 1) - 1 = i /\ k + (j + 1) = k + j + 1
              /\ j + 1 \in 1 .. L
          BY <1>5, <1>7, <4>1, <4>4
        <5>2. new[k + (j + 1)].parent = i /\ new[k + (j + 1)].data = <<d[j + 1]>>
          BY <1>9, <5>1
        <5>3. new[i].childNodes[b] = k + (j + 1) /\ k + (j + 1) \in DOMAIN new
          BY <1>10, <4>2, <4>4, <5>1
        <5>4. new[k + (j + 1)].data[1] = b
          BY <1>13, <4>2, <5>1, <5>2
        <5> QED
          BY <5>2, <5>3, <5>4, Zenon
      <4> QED
        BY <4>3, <4>4
    <3>2. CASE i = q /\ b = d[1]
      <4>1. new[k + 1].parent = q /\ new[k + 1].data = <<d[1]>> /\ k + 1 \in DOMAIN new
        BY <1>9, <1>10, <1>13
      <4>2. <<d[1]>>[1] = d[1]
        OBVIOUS
      <4> QED
        BY <1>12, <3>2, <4>1, <4>2
    <3>3. CASE i = q /\ b # d[1]
      <4> DEFINE c == nodes[q].childNodes[b]
      <4>1. b \in DOMAIN nodes[q].childNodes /\ new[i].childNodes[b] = c
        BY <1>12, <2>1, <3>3
      <4>2. c \in DOMAIN nodes /\ nodes[c].parent = q /\ nodes[c].data[1] = b
        BY <1>1, <1>3, <4>1, LinkedFacts
      <4> HIDE DEF c
      <4>3. c # n
        BY <1>11, <3>3, <4>2
      <4>4. c \in DOMAIN new /\ new[c].parent = q /\ new[c].data[1] = b
        BY <1>8, <1>10, <4>2, <4>3
      <4> QED
        BY <3>3, <4>1, <4>4
    <3>4. CASE i \in DOMAIN nodes /\ i # q
      <4> DEFINE c == nodes[i].childNodes[b]
      <4>1. b \in DOMAIN nodes[i].childNodes /\ new[i].childNodes[b] = c
        BY <1>8, <2>1, <3>4
      <4>2. c \in DOMAIN nodes /\ nodes[c].parent = i /\ nodes[c].data[1] = b
        BY <1>1, <3>4, <4>1, LinkedFacts
      <4> HIDE DEF c
      <4>3. c # n
        BY <1>11, <3>4, <4>2
      <4>4. c \in DOMAIN new /\ new[c].parent = i /\ new[c].data[1] = b
        BY <1>8, <1>10, <4>2, <4>3
      <4> QED
        BY <4>1, <4>4
    <3> QED
      BY <3>1, <3>2, <3>3, <3>4
  <2>2. ASSUME NEW i \in DOMAIN new
        PROVE  LET r == new[i].parent
               IN  r # 0 => /\ r \in DOMAIN new
                            /\ new[i].data[1] \in DOMAIN new[r].childNodes
                            /\ new[r].childNodes[new[i].data[1]] = i
    <3>1. CASE i \notin DOMAIN nodes
      <4> DEFINE j == i - k
      <4>1. j \in 1 .. L - 1 /\ i = k + j
        BY <1>10, <3>1
      <4> HIDE DEF j
      <4>2. new[i].data[1] = d[j] /\ new[i].parent = IF j = 1 THEN q ELSE k + j - 1
        BY <1>5, <1>9, <1>13, <4>1
      <4>3. CASE j = 1
        <5>1. q \in DOMAIN new /\ i = k + 1 /\ new[i].parent = q /\ new[i].data[1] = d[1]
          BY <1>3, <1>10, <4>1, <4>2, <4>3
        <5> QED
          BY <1>5, <1>12, <5>1
      <4>4. CASE j # 1
        <5>1. j - 1 \in 1 .. L - 1 /\ j - 1 # L - 1 /\ k + (j - 1) + 1 = i /\ k + (j - 1) = k + j - 1
              /\ (j - 1) + 1 = j
          BY <1>5, <1>7, <4>1, <4>4
        <5>2. DOMAIN new[k + (j - 1)].childNodes = {d[j]} /\ new[k + (j - 1)].childNodes[d[j]] = i
          BY <1>9, <5>1
        <5>3. new[i].parent = k + (j - 1) /\ k + (j - 1) \in DOMAIN new
          BY <1>10, <4>2, <4>4, <5>1
        <5> QED
          BY <4>2, <5>2, <5>3
      <4> QED
        BY <4>3, <4>4
    <3>2. CASE i = n
      <4>1. new[i].parent = k + (L - 1) /\ new[i].data[1] = d[L] /\ k + (L - 1) \in DOMAIN new
        BY <1>8, <1>10, <1>13, <3>2
      <4>2. /\ DOMAIN new[k + (L - 1)].childNodes = {d[L - 1 + 1]}
            /\ new[k + (L - 1)].childNodes[d[L - 1 + 1]] = n
        BY <1>9, <1>13
      <4> QED
        BY <1>13, <3>2, <4>1, <4>2
    <3>3. CASE i \in DOMAIN nodes /\ i # n
      <4> DEFINE r == nodes[i].parent
                 b == nodes[i].data[1]
      <4>1. i \in DOMAIN nodes /\ new[i].parent = r /\ new[i].data[1] = b
        BY <1>8, <3>3
      <4>2. r # 0 => r \in DOMAIN nodes /\ b \in DOMAIN nodes[r].childNodes
                     /\ nodes[r].childNodes[b] = i
        BY <1>1, <4>1, LinkedFacts
      <4> HIDE DEF r, b
      <4>3. CASE r # 0 /\ r = q
        <5>1. b # d[1]
          BY <1>5, <3>3, <4>2, <4>3
        <5> QED
          BY <1>10, <1>12, <4>1, <4>2, <4>3, <5>1
      <4>4. CASE r # 0 /\ r # q
        <5>1. new[r].childNodes = nodes[r].childNodes /\ r \in DOMAIN new
          BY <1>8, <1>10, <4>2, <4>4
        <5> QED
          BY <4>1, <4>2, <4>4, <5>1
      <4> QED
        BY <4>1, <4>3, <4>4
    <3> QED
      BY <3>1, <3>2, <3>3
  <2> QED
    BY <1>8, <2>1, <2>2 DEF Linked
<1>15. \A i \in 1 .. L - 1 :
         /\ i \in 1 .. L /\ SubSeq(d, 1, i) \in Seq(Bytes)
         /\ Both(path[q], SubSeq(d, 1, i)) \in Seq(Bytes)
  <2> SUFFICES ASSUME NEW i \in 1 .. L - 1
               PROVE  /\ i \in 1 .. L /\ SubSeq(d, 1, i) \in Seq(Bytes)
                      /\ Both(path[q], SubSeq(d, 1, i)) \in Seq(Bytes)
    OBVIOUS
  <2>1. i \in 1 .. L
    BY <1>5
  <2>2. SubSeq(d, 1, i) \in Seq(Bytes)
    BY <1>5, <2>1, OneMore DEF L
  <2> QED
    BY <1>3, <2>1, <2>2, BothFacts
<1>16. /\ \A i \in DOMAIN nodes : path2[i] = path[i] /\ top2[i] = top[i]
       /\ \A i \in 1 .. L - 1 :
            path2[k + i] = Both(path[q], SubSeq(d, 1, i)) /\ top2[k + i] = top[n]
  <2>0. \A j \in DOMAIN new :
          /\ path2[j] = (IF j \in DOMAIN nodes THEN path[j]
                         ELSE Both(path[q], SubSeq(d, 1, j - k)))
          /\ top2[j] = (IF j \in DOMAIN nodes THEN top[j] ELSE top[n])
    OBVIOUS
  <2>1. \A i \in DOMAIN nodes : path2[i] = path[i] /\ top2[i] = top[i]
    BY <1>10
  <2>2. ASSUME NEW i \in 1 .. L - 1
        PROVE  path2[k + i] = Both(path[q], SubSeq(d, 1, i)) /\ top2[k + i] = top[n]
    <3>4. k \in Nat /\ i \in Nat
      BY <1>7
    <3>5. (k + i) - k = i
      BY <3>4
    <3>6. k + i \in DOMAIN new /\ k + i \notin DOMAIN nodes
      BY <1>10, Zenon
    <3>1. k + i \in DOMAIN new /\ k + i \notin DOMAIN nodes /\ (k + i) - k = i
      BY <3>5, <3>6
    <3> DEFINE j == k + i
    <3>3. j \in DOMAIN new /\ j \notin DOMAIN nodes /\ j - k = i
      BY <3>1
    <3> HIDE DEF j, path2, top2
    <3>2. path2[j] = (IF j \in DOMAIN nodes THEN path[j] ELSE Both(path[q], SubSeq(d, 1, j - k)))
          /\ top2[j] = (IF j \in DOMAIN nodes THEN top[j] ELSE top[n])
      BY <2>0, <3>3
    <3>7. path2[j] = Both(path[q], SubSeq(d, 1, i)) /\ top2[j] = top[n]
      BY <3>2, <3>3
    <3> QED
      BY <3>7 DEF j
  <2> QED
    BY <2>1, <2>2
<1>17. IsPath(new, path2)
  <2>1. ASSUME NEW j \in DOMAIN new PROVE path2[j] \in Seq(Bytes)
    <3>1. CASE j \in DOMAIN nodes
      BY <1>1, <1>16, <3>1 DEF IsPath
    <3>2. CASE j \notin DOMAIN nodes
      <4>1. j - k \in 1 .. L - 1 /\ j = k + (j - k)
        BY <1>10, <3>2
      <4>2. path2[k + (j - k)] \in Seq(Bytes)
        BY <1>15, <1>16, <4>1
      <4> QED
        BY <4>1, <4>2
    <3> QED
      BY <3>1, <3>2
  <2>2. path2 = [j \in DOMAIN new |-> path2[j]]
    OBVIOUS
  <2> HIDE DEF path2
  <2>3. path2 \in [DOMAIN new -> Seq(Bytes)]
    BY <2>1, <2>2
  <2>4. ASSUME NEW i \in DOMAIN new
        PROVE  /\ new[i].parent = 0 => path2[i] = new[i].data
               /\ new[i].parent # 0 => path2[i] = Both(path2[new[i].parent], new[i].data)
    <3>1. CASE i \notin DOMAIN nodes
      <4> DEFINE j == i - k
      <4>1. j \in 1 .. L - 1 /\ i = k + j
        BY <1>10, <3>1
      <4> HIDE DEF j
      <4>2. /\ new[i].data = <<d[j]>> /\ new[i].parent = IF j = 1 THEN q ELSE k + j - 1
            /\ path2[i] = Both(path[q], SubSeq(d, 1, j)) /\ j \in 1 .. L
        BY <1>9, <1>15, <1>16, <4>1
      <4>3. CASE j = 1
        <5>1. SubSeq(d, 1, j) = <<d[j]>>
          BY <1>5, <4>2, <4>3, OneMore DEF L
        <5>2. new[i].parent = q /\ path2[q] = path[q]
          BY <1>3, <1>16, <4>2, <4>3
        <5> QED
          BY <1>3, <4>2, <5>1, <5>2, Zenon
      <4>4. CASE j # 1
        <5>1. j - 1 \in 1 .. L - 1 /\ k + (j - 1) = k + j - 1 /\ k + (j - 1) # 0
          BY <1>5, <1>7, <4>1, <4>4
        <5>2. new[i].parent = k + (j - 1) /\ path2[k + (j - 1)] = Both(path[q], SubSeq(d, 1, j - 1))
          BY <1>16, <4>2, <4>4, <5>1
        <5>3. /\ Both(SubSeq(d, 1, j - 1), <<d[j]>>) = SubSeq(d, 1, j)
              /\ SubSeq(d, 1, j - 1) \in Seq(Bytes) /\ <<d[j]>> \in Seq(Bytes)
          BY <1>5, <4>2, OneMore DEF L
        <5>4. Both(Both(path[q], SubSeq(d, 1, j - 1)), <<d[j]>>)
                = Both(path[q], Both(SubSeq(d, 1, j - 1), <<d[j]>>))
          BY <1>3, <5>3, BothAssoc
        <5> QED
          BY <4>2, <5>1, <5>2, <5>3, <5>4, Zenon
      <4> QED
        BY <4>3, <4>4
    <3>2. CASE i = n
      <4>1. /\ new[i].parent = k + (L - 1) /\ new[i].data = <<d[L]>> /\ k + (L - 1) # 0
            /\ path2[k + (L - 1)] = Both(path[q], SubSeq(d, 1, L - 1))
        BY <1>8, <1>10, <1>13, <1>16, <3>2
      <4>2. /\ Both(SubSeq(d, 1, L - 1), <<d[L]>>) = SubSeq(d, 1, L) /\ SubSeq(d, 1, L) = d
            /\ SubSeq(d, 1, L - 1) \in Seq(Bytes) /\ <<d[L]>> \in Seq(Bytes)
        BY <1>5, <1>13, OneMore DEF L
      <4>3. Both(Both(path[q], SubSeq(d, 1, L - 1)), <<d[L]>>)
              = Both(path[q], Both(SubSeq(d, 1, L - 1), <<d[L]>>))
        BY <1>3, <4>2, BothAssoc
      <4>4. path2[n] = path[n]
        BY <1>16
      <4> QED
        BY <1>3, <3>2, <4>1, <4>2, <4>3, <4>4, Zenon
    <3>3. CASE i \in DOMAIN nodes /\ i # n
      <4>1. i \in DOMAIN nodes /\ new[i].parent = nodes[i].parent /\ new[i].data = nodes[i].data
            /\ path2[i] = path[i]
        BY <1>8, <1>16, <3>3
      <4>2. nodes[i].parent # 0 => path2[nodes[i].parent] = path[nodes[i].parent]
        BY <1>1, <1>16, <4>1, LinkedFacts
      <4>3. /\ nodes[i].parent = 0 => path[i] = nodes[i].data
            /\ nodes[i].parent # 0 => path[i] = Both(path[nodes[i].parent], nodes[i].data)
        BY <1>1, <4>1 DEF IsPath
      <4> QED
        BY <4>1, <4>2, <4>3
    <3> QED
      BY <3>1, <3>2, <3>3
  <2> QED
    BY <2>3, <2>4 DEF IsPath
<1>18. IsTop(new, top2)
  <2>1. \A i \in DOMAIN nodes : top[i] \in DOMAIN nodes /\ nodes[top[i]].parent = 0
    BY <1>1 DEF IsTop
  <2>2. \A i \in DOMAIN nodes : top[i] # n /\ new[top[i]].parent = 0
    BY <1>3, <1>8, <1>11, <2>1
  <2>3. top2 \in [DOMAIN new -> DOMAIN new]
    BY <1>10, <2>1
  <2> HIDE DEF top2
  <2>5. \A j \in DOMAIN new \ DOMAIN nodes : top2[j] = top[n]
    BY <1>10, <1>16
  <2>4. ASSUME NEW i \in DOMAIN new
        PROVE  /\ new[top2[i]].parent = 0
               /\ new[i].parent = 0 => top2[i] = i
               /\ new[i].parent # 0 => top2[i] = top2[new[i].parent]
    <3>0. top[n] = top[q]
      BY <1>1, <1>3, <1>11 DEF IsTop
    <3>1. CASE i \notin DOMAIN nodes
      <4> DEFINE j == i - k
      <4>1. j \in 1 .. L - 1 /\ i = k + j
        BY <1>10, <3>1
      <4> HIDE DEF j
      <4>2. new[i].parent = IF j = 1 THEN q ELSE k + j - 1
        BY <1>9, <4>1
      <4>3. top2[i] = top[n]
        BY <2>5, <3>1
      <4>4. CASE j = 1
        BY <1>3, <1>16, <2>2, <3>0, <4>2, <4>3, <4>4
      <4>5. CASE j # 1
        <5>1. j - 1 \in 1 .. L - 1 /\ k + (j - 1) = k + j - 1 /\ k + (j - 1) # 0
          BY <1>5, <1>7, <4>1, <4>5
        <5>2. new[i].parent = k + (j - 1) /\ top2[k + (j - 1)] = top[n]
          BY <1>16, <4>2, <4>5, <5>1
        <5> QED
          BY <2>2, <4>3, <5>1, <5>2
      <4> QED
        BY <4>4, <4>5
    <3>2. CASE i = n
      <4>1. new[i].parent = k + (L - 1) /\ k + (L - 1) # 0 /\ top2[k + (L - 1)] = top[n]
        BY <1>8, <1>10, <1>13, <1>16, <3>2
      <4> QED
        BY <1>16, <2>2, <3>2, <4>1
    <3>3. CASE i \in DOMAIN nodes /\ i # n
      <4>1. i \in DOMAIN nodes /\ new[i].parent = nodes[i].parent /\ top2[i] = top[i]
        BY <1>8, <1>16, <3>3
      <4>2. nodes[i].parent # 0 => top2[nodes[i].parent] = top[nodes[i].parent]
        BY <1>1, <1>16, <4>1, LinkedFacts
      <4>3. /\ nodes[i].parent = 0 => top[i] = i
            /\ nodes[i].parent # 0 => top[i] = top[nodes[i].parent]
        BY <1>1, <4>1 DEF IsTop
      <4> QED
        BY <2>2, <4>1, <4>2, <4>3
    <3> QED
      BY <3>1, <3>2, <3>3
  <2> QED
    BY <2>3, <2>4 DEF IsTop
<1> HIDE DEF path2, top2
<1>19. Forest(new) /\ Path(new) = path2 /\ Top(new) = top2
  BY <1>14, <1>17, <1>18, ForestFrom
<1>20. \A i \in DOMAIN nodes : new[i].parent = 0 <=> nodes[i].parent = 0
  <2>1. k + L - 1 # 0
    BY <1>5, <1>7
  <2> QED
    BY <1>3, <1>8, <1>11, <2>1
<1>21. Grown(nodes, new)
  BY <1>10, <1>16, <1>19, <1>20 DEF Grown, path, top
<1>22. ASSUME NEW i \in DOMAIN new \ DOMAIN nodes
       PROVE  /\ new[i].parent # 0 /\ Top(new)[i] = top[n]
              /\ i - k \in 1 .. L - 1
              /\ Path(new)[i] = Both(path[q], SubSeq(d, 1, i - k))
  <2> DEFINE j == i - k
  <2>1. j \in 1 .. L - 1 /\ i = k + j
    BY <1>10
  <2> HIDE DEF j
  <2>2. top2[i] = top[n] /\ path2[i] = Both(path[q], SubSeq(d, 1, j))
    BY <1>16, <2>1
  <2>3. new[i].parent = IF j = 1 THEN q ELSE k + j - 1
    BY <1>9, <2>1
  <2>4. j # 1 => k + j - 1 # 0
    BY <1>5, <1>7, <2>1
  <2> QED
    BY <1>3, <1>19, <2>1, <2>2, <2>3, <2>4 DEF j
<1> QED
  BY <1>6, <1>21, <1>22 DEF path, top, d, q, k, L

-----------------------------------------------------------------------------
(* The way of a stream through a tree                                      *)

\* Stop k of the way, from the stop before it.
Stop(nodes, start, stream, w, k) ==
  IF k = 0 THEN Arrive(nodes, {}, start, stream)
  ELSE IF GoesOn(nodes, w[k - 1])
  THEN Arrive(nodes, w[k - 1].passed,
              nodes[w[k - 1].last].childNodes[w[k - 1].rest[1]], w[k - 1].rest)
  ELSE w[k - 1]

\* A stop of the walk depends on the one before it only.
LEMMA StopDependsOnLast ==
  ASSUME NEW nodes, NEW start, NEW stream, NEW v, NEW w, NEW k, k # 0 => v[k - 1] = w[k - 1]
  PROVE  Stop(nodes, start, stream, v, k) = Stop(nodes, start, stream, w, k)
<1>1. CASE k = 0
  BY <1>1, Zenon DEF Stop
<1>2. CASE k # 0
  BY <1>2, Zenon DEF Stop
<1> QED
  BY <1>1, <1>2

\* The stops 0 to n.
IsWay(nodes, start, stream, n, w) == w = [k \in 0 .. n |-> Stop(nodes, start, stream, w, k)]

\* The recursion of the walk has a solution for every number of stops.
LEMMA WayExists ==
  ASSUME NEW nodes, NEW start, NEW stream
  PROVE  \A n \in Nat : \E w : IsWay(nodes, start, stream, n, w)
<1> DEFINE S == {n \in Nat : \E w : IsWay(nodes, start, stream, n, w)}
<1>1. 0 \in S
  <2> DEFINE w == [k \in 0 .. 0 |-> Stop(nodes, start, stream, <<>>, k)]
  <2>1. \A k \in 0 .. 0 : k = 0
    OBVIOUS
  <2>2. \A k \in 0 .. 0 : Stop(nodes, start, stream, <<>>, k) = Stop(nodes, start, stream, w, k)
    BY <2>1, StopDependsOnLast, Zenon
  <2>3. IsWay(nodes, start, stream, 0, w)
    BY <2>2, Zenon DEF IsWay
  <2> QED
    BY <2>3
<1>2. ASSUME NEW n \in Nat, n \in S PROVE n + 1 \in S
  <2>1. PICK v : v = [k \in 0 .. n |-> Stop(nodes, start, stream, v, k)]
    BY <1>2 DEF IsWay
  <2> DEFINE w == [k \in 0 .. n + 1 |->
                     IF k = n + 1 THEN Stop(nodes, start, stream, v, n + 1) ELSE v[k]]
  <2>2. ASSUME NEW k \in 0 .. n + 1 PROVE w[k] = Stop(nodes, start, stream, w, k)
    <3>1. ASSUME k # 0 PROVE v[k - 1] = w[k - 1]
      <4>1. k - 1 \in 0 .. n + 1 /\ k - 1 # n + 1
        BY <3>1, <1>2
      <4> QED
        BY <4>1, Zenon
    <3> HIDE DEF w
    <3>2. Stop(nodes, start, stream, v, k) = Stop(nodes, start, stream, w, k)
      BY <3>1, StopDependsOnLast, Zenon
    <3>3. CASE k = n + 1
      BY <3>2, <3>3, Zenon DEF w
    <3>4. CASE k # n + 1
      <4>1. k \in 0 .. n
        BY <3>4, <1>2
      <4>2. v[k] = Stop(nodes, start, stream, v, k)
        BY <4>1, <2>1, Zenon
      <4> QED
        BY <4>2, <3>2, <3>4, Zenon DEF w
    <3> QED
      BY <3>3, <3>4
  <2>3. w = [k \in 0 .. n + 1 |-> Stop(nodes, start, stream, w, k)]
    <3> DEFINE u == [k \in 0 .. n + 1 |-> Stop(nodes, start, stream, w, k)]
    <3>1. DOMAIN w = DOMAIN u /\ \A k \in DOMAIN w : w[k] = u[k]
      BY <2>2, Zenon
    <3>2. w = [k \in DOMAIN w |-> w[k]] /\ u = [k \in DOMAIN u |-> u[k]]
      OBVIOUS
    <3> HIDE DEF w, u
    <3>3. w = u
      BY <3>1, <3>2, Zenon
    <3> QED
      BY <3>3, Zenon DEF u
  <2> HIDE DEF w
  <2>4. IsWay(nodes, start, stream, n + 1, w)
    BY <2>3, Zenon DEF IsWay
  <2> QED
    BY <2>4
<1>3. \A n \in Nat : n \in S
  <2> HIDE DEF S
  <2> QED
    BY <1>1, <1>2, SetInduction
<1> QED
  BY <1>3, Zenon

\* Walk is the last of its stops, and each follows from the one before it.
LEMMA WalkUnfolds ==
  ASSUME NEW nodes, NEW start, NEW stream \in Seq(Bytes)
  PROVE  \E w : /\ Walk(nodes, start, stream) = w[Len(stream)]
                /\ \A k \in 0 .. Len(stream) : w[k] = Stop(nodes, start, stream, w, k)
<1> DEFINE way == CHOOSE w : w = [k \in 0 .. Len(stream) |-> Stop(nodes, start, stream, w, k)]
<1>1. Len(stream) \in Nat
  OBVIOUS
<1>2. \E w : w = [k \in 0 .. Len(stream) |-> Stop(nodes, start, stream, w, k)]
  <2>1. \E w : IsWay(nodes, start, stream, Len(stream), w)
    BY <1>1, WayExists
  <2> QED
    BY <2>1, Zenon DEF IsWay
<1>3. way = [k \in 0 .. Len(stream) |-> Stop(nodes, start, stream, way, k)]
  BY <1>2, Zenon
<1>4. Walk(nodes, start, stream) = way[Len(stream)]
  BY Zenon DEF Walk, Stop
<1> HIDE DEF way
<1>5. \A k \in 0 .. Len(stream) : way[k] = Stop(nodes, start, stream, way, k)
  BY <1>3, Zenon
<1> QED
  BY <1>4, <1>5

\* Where a stream stands that came down from a node: it has the bytes up to a place in
\* the last node, and either a rest that parts there or one that can go on below.
Arrived(nodes, root, stream, s) ==
  LET d == nodes[s.last].data
  IN  /\ s.last \in DOMAIN nodes /\ nodes[s.last].parent # 0
      /\ Top(nodes)[s.last] = Top(nodes)[root]
      /\ s.shared \in 1 .. Len(d) /\ s.rest \in Seq(Bytes)
      /\ Both(Both(Path(nodes)[nodes[s.last].parent], SubSeq(d, 1, s.shared)), s.rest)
           = Both(Path(nodes)[root], stream)
      /\ s.shared < Len(d) /\ s.rest # <<>> => s.rest[1] # d[s.shared + 1]

\* At a child with the next byte the stream shares at least that byte, and path and rest
\* still make up the stream.
LEMMA ArriveFacts ==
  ASSUME NEW nodes, Forest(nodes), NEW root \in DOMAIN nodes, NEW stream \in Seq(Bytes),
         NEW q \in DOMAIN nodes, NEW rest \in Texts, rest[1] \in DOMAIN nodes[q].childNodes,
         Top(nodes)[q] = Top(nodes)[root],
         Both(Path(nodes)[q], rest) = Both(Path(nodes)[root], stream),
         NEW passed, NEW s, s = Arrive(nodes, passed, nodes[q].childNodes[rest[1]], rest)
  PROVE  Arrived(nodes, root, stream, s) /\ Len(s.rest) < Len(rest)
<1> DEFINE n    == nodes[q].childNodes[rest[1]]
           d    == nodes[n].data
           sh   == Len(LongestCommonPrefix({d, rest}))
           path == Path(nodes)
           top  == Top(nodes)
           low  == SubSeq(rest, sh + 1, Len(rest))
           high == SubSeq(d, 1, sh)
<1>1. Linked(nodes) /\ IsPath(nodes, path) /\ IsTop(nodes, top)
  BY ForestFacts
<1>2. s.last = n /\ s.shared = sh /\ s.rest = low
  BY DEF Arrive
<1>3. n \in DOMAIN nodes /\ nodes[n].parent = q /\ d[1] = rest[1] /\ q # 0
  <2> HIDE DEF path, top
  <2>1. q # 0
    BY <1>1, LinkedFacts
  <2> QED
    BY <1>1, <2>1, LinkedFacts
<1> HIDE DEF n
<1>4. d \in Texts /\ d \in Seq(Bytes) /\ rest \in Seq(Bytes) /\ rest # <<>>
      /\ Len(d) \in Nat /\ Len(rest) \in Nat
  <2> HIDE DEF path, top
  <2>1. d \in Texts
    BY <1>1, <1>3, LinkedFacts
  <2> HIDE DEF d
  <2>2. d \in Seq(Bytes) /\ rest \in Seq(Bytes) /\ rest # <<>>
    BY <2>1, TextFacts
  <2> QED
    BY <2>1, <2>2
<1>5. /\ sh \in 1 .. Len(d) /\ sh \in 1 .. Len(rest)
      /\ \A i \in 1 .. sh : d[i] = rest[i]
      /\ sh < Len(d) /\ sh < Len(rest) => d[sh + 1] # rest[sh + 1]
  <2>1. d \in Texts /\ d[1] = rest[1]
    BY <1>3, <1>4
  <2>2. sh = Len(LongestCommonPrefix({d, rest}))
    OBVIOUS
  <2> HIDE DEF d, sh
  <2>3. /\ sh \in 1 .. Len(d) /\ sh \in 1 .. Len(rest)
        /\ \A i \in 1 .. sh : d[i] = rest[i]
        /\ PartAt(d, rest, sh)
    BY <2>1, <2>2, SharedFacts
  <2> QED
    BY <2>3 DEF PartAt
<1>6. top[n] = top[q]
  <2> HIDE DEF top
  <2>1. nodes[n].parent # 0 => top[n] = top[nodes[n].parent]
    BY <1>1, <1>3 DEF IsTop
  <2> QED
    BY <1>3, <2>1
<1>7. path[q] \in Seq(Bytes)
  BY <1>1 DEF IsPath
<1> HIDE DEF sh, d
<1>8. /\ high \in Seq(Bytes) /\ low \in Seq(Bytes) /\ Both(high, low) = rest
      /\ Len(low) = Len(rest) - sh
  <2> DEFINE front == SubSeq(rest, 1, sh)
  <2>1. sh \in 0 .. Len(d) /\ sh \in 0 .. Len(rest)
    BY <1>4, <1>5
  <2>2. front \in Seq(Bytes) /\ low \in Seq(Bytes) /\ Both(front, low) = rest
    BY <1>4, <2>1, CutAndJoin
  <2>3. front \in Seq(Bytes) /\ Len(front) = sh /\ \A i \in 1 .. sh : front[i] = rest[i]
    BY <1>4, <2>1, FrontFacts
  <2>4. high \in Seq(Bytes) /\ Len(high) = sh /\ \A i \in 1 .. sh : high[i] = d[i]
    BY <1>4, <2>1, FrontFacts
  <2>5. Len(low) = Len(rest) - sh
    BY <1>4, <2>1
  <2> HIDE DEF front, high, low
  <2>6. front = high
    BY <1>5, <2>3, <2>4, SameSeq
  <2> QED
    BY <2>2, <2>4, <2>5, <2>6
<1>9. low # <<>> => sh < Len(rest) /\ low[1] = rest[sh + 1]
  <2>1. CASE sh < Len(rest)
    BY <1>4, <1>5, <2>1
  <2>2. CASE sh = Len(rest)
    <3>1. Len(low) = 0
      BY <1>4, <1>5, <1>8, <2>2
    <3> HIDE DEF low
    <3>2. low = <<>>
      BY <1>8, <3>1
    <3> QED
      BY <3>2
  <2> QED
    BY <1>4, <1>5, <2>1, <2>2
<1> HIDE DEF low, high, path, top
<1>10. Both(Both(path[q], high), low) = Both(path[root], stream)
  <2>1. Both(Both(path[q], high), low) = Both(path[q], Both(high, low))
    BY <1>7, <1>8, BothAssoc
  <2> QED
    BY <1>8, <2>1, Zenon DEF path
<1>11. Len(low) < Len(rest)
  BY <1>4, <1>5, <1>8
<1>12. sh < Len(d) /\ low # <<>> => low[1] # d[sh + 1]
  BY <1>5, <1>9
<1>13. /\ s.last \in DOMAIN nodes /\ nodes[s.last].parent # 0 /\ nodes[s.last].data = d
       /\ nodes[s.last].parent = q
  BY <1>2, <1>3 DEF d
<1>14. Top(nodes)[s.last] = Top(nodes)[root]
  BY <1>2, <1>6 DEF top
<1>15. Both(Both(Path(nodes)[nodes[s.last].parent], SubSeq(d, 1, s.shared)), s.rest)
           = Both(Path(nodes)[root], stream)
  BY <1>2, <1>10, <1>13 DEF path, high
<1> QED
  BY <1>2, <1>5, <1>8, <1>11, <1>12, <1>13, <1>14, <1>15 DEF Arrived

\* A stream that has all of a node goes on from there.
LEMMA GoesOnFacts ==
  ASSUME NEW nodes, Forest(nodes), NEW root, NEW stream, NEW s,
         Arrived(nodes, root, stream, s), s.shared = Len(nodes[s.last].data)
  PROVE  Both(Path(nodes)[s.last], s.rest) = Both(Path(nodes)[root], stream)
<1> DEFINE path == Path(nodes)
           n    == s.last
           d    == nodes[n].data
           q    == nodes[n].parent
<1>1. Linked(nodes) /\ IsPath(nodes, path)
  BY ForestFacts
<1>2. n \in DOMAIN nodes /\ q # 0
      /\ Both(Both(path[q], SubSeq(d, 1, s.shared)), s.rest) = Both(path[root], stream)
  BY DEF Arrived
<1>3. path[n] = Both(path[q], d)
  <2> HIDE DEF path
  <2> QED
    BY <1>1, <1>2 DEF IsPath
<1>4. d \in Seq(Bytes)
  BY <1>1, <1>2, LinkedFacts
<1>5. SubSeq(d, 1, Len(d)) = d
  <2> HIDE DEF d
  <2> QED
    BY <1>4
<1> QED
  BY <1>2, <1>3, <1>5

\* Where Tree.merge ends its way down: at a node of the tree, with path, shared bytes and
\* rest making up the stream, and no child to go on to.
LEMMA WalkFacts ==
  ASSUME NEW nodes, Forest(nodes), NEW root \in DOMAIN nodes, NEW stream \in Texts,
         stream[1] \in DOMAIN nodes[root].childNodes,
         NEW s, s = Walk(nodes, nodes[root].childNodes[stream[1]], stream)
  PROVE  Arrived(nodes, root, stream, s) /\ ~GoesOn(nodes, s)
<1> DEFINE start == nodes[root].childNodes[stream[1]]
           N     == Len(stream)
<1>0. stream \in Seq(Bytes) /\ N \in Nat
  BY TextFacts
<1>1. PICK w : /\ Walk(nodes, start, stream) = w[N]
               /\ \A k \in 0 .. N : w[k] = Stop(nodes, start, stream, w, k)
  BY <1>0, WalkUnfolds
<1> DEFINE Good(k) == /\ Arrived(nodes, root, stream, w[k])
                      /\ GoesOn(nodes, w[k]) => Len(w[k].rest) + k < N
           G == {k \in Nat : k <= N => Good(k)}
<1>2. 0 \in G
  <2>1. 0 \in 0 .. N
    BY <1>0
  <2>2. w[0] = Arrive(nodes, {}, start, stream)
    BY <1>1, <2>1 DEF Stop
  <2>3. Arrived(nodes, root, stream, w[0]) /\ Len(w[0].rest) < Len(stream)
    BY <1>0, <2>2, ArriveFacts
  <2>4. w[0].rest \in Seq(Bytes)
    BY <2>3 DEF Arrived
  <2>5. Len(w[0].rest) \in Nat
    BY <2>4
  <2> QED
    BY <2>3, <2>5
<1>3. ASSUME NEW k \in Nat, k \in G PROVE k + 1 \in G
  <2> SUFFICES ASSUME k + 1 <= N PROVE Good(k + 1)
    OBVIOUS
  <2>1. k <= N /\ k + 1 \in 0 .. N /\ k + 1 # 0 /\ (k + 1) - 1 = k
    BY <1>0
  <2>2. Good(k)
    BY <1>3, <2>1
  <2> DEFINE u == w[k]
  <2>3. w[k + 1] = Stop(nodes, start, stream, w, k + 1)
    BY <1>1, <2>1
  <2>4. w[k + 1] = IF GoesOn(nodes, u)
                   THEN Arrive(nodes, u.passed, nodes[u.last].childNodes[u.rest[1]], u.rest)
                   ELSE u
    <3> HIDE DEF Good, G
    <3> QED
      BY <2>1, <2>3, Zenon DEF Stop
  <2>5. Arrived(nodes, root, stream, u) /\ (GoesOn(nodes, u) => Len(u.rest) + k < N)
    BY <2>2
  <2> HIDE DEF u
  <2>6. CASE ~GoesOn(nodes, u)
    BY <2>4, <2>5, <2>6
  <2>7. CASE GoesOn(nodes, u)
    <3>1. /\ u.last \in DOMAIN nodes /\ Top(nodes)[u.last] = Top(nodes)[root]
          /\ u.rest \in Seq(Bytes)
      BY <2>5 DEF Arrived
    <3>2. /\ u.shared = Len(nodes[u.last].data) /\ u.rest # <<>>
          /\ u.rest[1] \in DOMAIN nodes[u.last].childNodes
      BY <2>7 DEF GoesOn
    <3>3. u.rest \in Texts
      BY <3>1, <3>2 DEF Texts
    <3>4. Both(Path(nodes)[u.last], u.rest) = Both(Path(nodes)[root], stream)
      BY <2>5, <3>2, GoesOnFacts
    <3>5. w[k + 1] = Arrive(nodes, u.passed, nodes[u.last].childNodes[u.rest[1]], u.rest)
      BY <2>4, <2>7
    <3>6. Arrived(nodes, root, stream, w[k + 1]) /\ Len(w[k + 1].rest) < Len(u.rest)
      BY <1>0, <3>1, <3>2, <3>3, <3>4, <3>5, ArriveFacts
    <3>7. w[k + 1].rest \in Seq(Bytes)
      BY <3>6 DEF Arrived
    <3>8. Len(w[k + 1].rest) \in Nat /\ Len(u.rest) \in Nat
      BY <3>1, <3>7
    <3>9. Len(w[k + 1].rest) + (k + 1) < N
      <4> DEFINE x == Len(w[k + 1].rest)
                 y == Len(u.rest)
      <4>1. y + k < N /\ x < y /\ x \in Nat /\ y \in Nat
        BY <2>5, <2>7, <3>6, <3>8
      <4> HIDE DEF x, y, N
      <4>2. x + (k + 1) < N
        BY <1>0, <4>1
      <4> QED
        BY <4>2 DEF x
    <3> DEFINE v == w[k + 1]
    <3> HIDE DEF v
    <3>10. Arrived(nodes, root, stream, v) /\ (GoesOn(nodes, v) => Len(v.rest) + (k + 1) < N)
      BY <3>6, <3>9 DEF v
    <3> QED
      BY <3>10, Zenon DEF v
  <2> QED
    BY <2>6, <2>7
<1>4. N \in G
  <2> HIDE DEF G
  <2>1. \A k \in Nat : k \in G
    BY <1>2, <1>3, SetInduction
  <2> QED
    BY <1>0, <2>1
<1>5. Good(N)
  BY <1>0, <1>4
<1>6. s = w[N]
  BY <1>1
<1>7. w[N].rest \in Seq(Bytes)
  BY <1>5 DEF Arrived
<1>8. Len(w[N].rest) \in Nat
  BY <1>7
<1>9. ~GoesOn(nodes, w[N])
  BY <1>0, <1>5, <1>8
<1> QED
  BY <1>5, <1>6, <1>9

\* A sequence is a prefix of its continuation.
LEMMA PrefixOfBoth ==
  ASSUME NEW s \in Seq(Bytes), NEW t \in Seq(Bytes)
  PROVE  IsPrefix(s, Both(s, t))
<1>1. /\ Both(s, t) \in Seq(Bytes) /\ Len(Both(s, t)) = Len(s) + Len(t)
      /\ \A i \in 1 .. Len(s) : Both(s, t)[i] = s[i]
  BY BothFacts
<1>2. Len(s) \in Nat /\ Len(t) \in Nat
  OBVIOUS
<1>3. Len(s) <= Len(Both(s, t))
  BY <1>1, <1>2
<1> QED
  BY <1>1, <1>3, PrefixFacts

\* A sequence is a prefix of itself.
LEMMA PrefixOfItself ==
  ASSUME NEW s \in Seq(Bytes)
  PROVE  IsPrefix(s, s)
<1>1. Len(s) \in Nat
  OBVIOUS
<1> QED
  BY <1>1, PrefixFacts

\* A first part of a node after the path to it is a prefix of the path of the node.
LEMMA PrefixBelow ==
  ASSUME NEW s \in Seq(Bytes), NEW d \in Seq(Bytes), NEW i \in 0 .. Len(d)
  PROVE  IsPrefix(Both(s, SubSeq(d, 1, i)), Both(s, d))
<1> DEFINE high == SubSeq(d, 1, i)
           low  == SubSeq(d, i + 1, Len(d))
<1>1. high \in Seq(Bytes) /\ low \in Seq(Bytes) /\ Both(high, low) = d
  BY CutAndJoin
<1> HIDE DEF high, low
<1>2. Both(Both(s, high), low) = Both(s, Both(high, low))
  BY <1>1, BothAssoc
<1>3. Both(s, high) \in Seq(Bytes)
  BY <1>1, BothFacts
<1>4. IsPrefix(Both(s, high), Both(Both(s, high), low))
  BY <1>1, <1>3, PrefixOfBoth
<1> QED
  BY <1>1, <1>2, <1>4 DEF high

\* A stream has been merged below a root: its leaf hangs below that root, and has all of
\* the stream, or more of an earlier one; every new node has a front of the stream.
Merged(nodes, root, stream, new, leaf) ==
  LET whole == Both(Path(nodes)[root], stream)
  IN  /\ Grown(nodes, new)
      /\ leaf \in DOMAIN new /\ new[leaf].parent # 0 /\ Top(new)[leaf] = Top(nodes)[root]
      /\ \/ Path(new)[leaf] = whole
         \/ leaf \in DOMAIN nodes /\ IsPrefix(whole, Path(nodes)[leaf])
      /\ \A n \in DOMAIN new \ DOMAIN nodes :
           /\ new[n].parent # 0 /\ Top(new)[n] = Top(nodes)[root]
           /\ IsPrefix(Path(new)[n], whole)

\* A leaf of its own, below a node where no child begins like the rest of the stream.
LEMMA NewLeafMerged ==
  ASSUME NEW nodes, Forest(nodes), NEW root \in DOMAIN nodes, NEW stream \in Seq(Bytes),
         NEW mid, Grown(nodes, mid), NEW p \in DOMAIN mid,
         Top(mid)[p] = Top(nodes)[root],
         \A n \in DOMAIN mid \ DOMAIN nodes :
           /\ mid[n].parent # 0 /\ Top(mid)[n] = Top(nodes)[root]
           /\ IsPrefix(Path(mid)[n], Both(Path(nodes)[root], stream)),
         NEW rest \in Texts, rest[1] \notin DOMAIN mid[p].childNodes,
         Both(Path(mid)[p], rest) = Both(Path(nodes)[root], stream),
         NEW new, new = AddNew(mid, p, rest, 1), NEW leaf, leaf = Len(mid) + 1
  PROVE  Merged(nodes, root, stream, new, leaf)
<1> DEFINE whole == Both(Path(nodes)[root], stream)
<1>0. Forest(mid) /\ 1 \in Nat
  BY DEF Grown
<1>1. Grown(mid, new) /\ NodeAdded(mid, p, rest, 1, new, leaf)
  BY <1>0, AddNewGrown
<1>2. Path(new)[leaf] = Both(Path(mid)[p], rest) /\ Top(new)[leaf] = Top(mid)[p]
  BY <1>0, AddNewGrown
<1>3. leaf \in DOMAIN new /\ new[leaf].parent = p /\ DOMAIN new = DOMAIN mid \cup {leaf}
  BY <1>1 DEF NodeAdded
<1>4. p # 0
  <2>1. Linked(mid)
    BY <1>0 DEF Forest
  <2> QED
    BY <2>1, LinkedFacts
<1>5. Grown(nodes, new)
  BY <1>1, GrownTwice
<1>6. whole \in Seq(Bytes)
  <2>1. Path(nodes)[root] \in Seq(Bytes)
    BY ForestFacts DEF IsPath
  <2> QED
    BY <2>1, BothFacts
<1>7. Path(new)[leaf] = whole /\ IsPrefix(Path(new)[leaf], whole)
  <2>1. Path(new)[leaf] = whole
    BY <1>2
  <2> HIDE DEF whole
  <2> QED
    BY <1>6, <2>1, PrefixOfItself
<1>8. ASSUME NEW n \in DOMAIN new \ DOMAIN nodes
      PROVE  new[n].parent # 0 /\ Top(new)[n] = Top(nodes)[root] /\ IsPrefix(Path(new)[n], whole)
  <2>1. CASE n = leaf
    BY <1>2, <1>3, <1>4, <1>7, <2>1
  <2>2. CASE n # leaf
    <3>1. n \in DOMAIN mid \ DOMAIN nodes
      BY <1>3, <2>2
    <3>2. mid[n].parent # 0 /\ Top(mid)[n] = Top(nodes)[root] /\ IsPrefix(Path(mid)[n], whole)
      BY <3>1
    <3>3. /\ Path(new)[n] = Path(mid)[n] /\ Top(new)[n] = Top(mid)[n]
          /\ new[n].parent = 0 <=> mid[n].parent = 0
      BY <1>1, <3>1 DEF Grown
    <3> QED
      BY <3>2, <3>3
  <2> QED
    BY <2>1, <2>2
<1> QED
  BY <1>2, <1>3, <1>4, <1>5, <1>7, <1>8 DEF Merged

\* Tree.merge, whichever of its branches is taken: the forest grows, the leaf hangs below
\* the same root, and its path is the stream or continues it to the end of a node that was
\* there.
LEMMA mergeFacts ==
  ASSUME NEW nodes, Forest(nodes), NEW root \in DOMAIN nodes, NEW stream \in Texts,
         NEW m, m = merge(nodes, root, stream)
  PROVE  Merged(nodes, root, stream, m.nodes, m.leaf)
<1> DEFINE counted == incrementCount(nodes, {root})
           w       == Walk(nodes, nodes[root].childNodes[stream[1]], stream)
           passed  == incrementCount(counted, w.passed)
           divided == divide(passed, w.last, w.shared)
           whole   == Both(Path(nodes)[root], stream)
<1>0. stream \in Seq(Bytes)
  BY TextFacts
<1>1. /\ Grown(nodes, counted) /\ Len(counted) = Len(nodes) /\ DOMAIN counted = DOMAIN nodes
      /\ \A n \in DOMAIN nodes :
           /\ counted[n].data = nodes[n].data /\ counted[n].parent = nodes[n].parent
           /\ counted[n].childNodes = nodes[n].childNodes
  BY incrementCountGrown
<1>2. CASE stream[1] \notin DOMAIN nodes[root].childNodes
  <2>1. /\ m.nodes = AddNew(counted, root, stream, 1) /\ m.leaf = Len(counted) + 1
    BY <1>1, <1>2 DEF merge
  <2> HIDE DEF counted
  <2>2. /\ Top(counted)[root] = Top(nodes)[root] /\ Path(counted)[root] = Path(nodes)[root]
        /\ root \in DOMAIN counted
    BY <1>1 DEF Grown
  <2>3. /\ DOMAIN counted \ DOMAIN nodes = {}
        /\ stream[1] \notin DOMAIN counted[root].childNodes
    BY <1>1, <1>2
  <2>4. Both(Path(counted)[root], stream) = Both(Path(nodes)[root], stream)
    BY <2>2
  <2> QED
    BY <1>0, <1>1, <2>1, <2>2, <2>3, <2>4, NewLeafMerged
<1>3. CASE stream[1] \in DOMAIN nodes[root].childNodes
  <2>1. Arrived(nodes, root, stream, w) /\ ~GoesOn(nodes, w)
    BY <1>3, WalkFacts
  <2>2. /\ Grown(counted, passed) /\ Len(passed) = Len(counted)
        /\ DOMAIN passed = DOMAIN counted
        /\ \A n \in DOMAIN counted :
             /\ passed[n].data = counted[n].data /\ passed[n].parent = counted[n].parent
             /\ passed[n].childNodes = counted[n].childNodes
    <3> HIDE DEF counted, w
    <3>1. Forest(counted)
      BY <1>1 DEF Grown
    <3> QED
      BY <3>1, incrementCountGrown
  <2> DEFINE n == w.last
             d == nodes[n].data
  <2>m. m = IF w.rest = <<>> THEN [nodes |-> passed, leaf |-> n, split |-> {}]
            ELSE IF w.shared < Len(passed[n].data)
            THEN [nodes |-> AddNew(divided, Len(divided), w.rest, 1), leaf |-> Len(divided) + 1,
                  split |-> {n, Len(divided)}]
            ELSE [nodes |-> AddNew(passed, n, w.rest, 1), leaf |-> Len(passed) + 1,
                  split |-> {}]
    <3>1. m = IF w.rest = <<>> THEN [nodes |-> passed, leaf |-> n, split |-> {}]
            ELSE IF w.shared < Len(nodes[n].data)
            THEN [nodes |-> AddNew(divided, Len(divided), w.rest, 1), leaf |-> Len(divided) + 1,
                  split |-> {n, Len(divided)}]
            ELSE [nodes |-> AddNew(passed, n, w.rest, 1), leaf |-> Len(nodes) + 1,
                  split |-> {}]
      BY <1>3, Zenon DEF merge
    <3>2. passed[n].data = nodes[n].data /\ Len(passed) = Len(nodes)
      <4> HIDE DEF counted, passed, w
      <4>1. n \in DOMAIN nodes
        BY <2>1 DEF Arrived
      <4> QED
        BY <1>1, <2>2, <4>1
    <3> HIDE DEF counted, passed, divided, w
    <3> QED
      BY <3>1, <3>2, Zenon
  <2> HIDE DEF counted, w
  <2>3. Grown(nodes, passed) /\ DOMAIN passed = DOMAIN nodes
    <3> HIDE DEF passed
    <3>1. Grown(nodes, passed)
      BY <1>1, <2>2, GrownTwice
    <3> QED
      BY <1>1, <2>2, <3>1
  <2> HIDE DEF passed, n
  <2>4. /\ n \in DOMAIN nodes /\ nodes[n].parent # 0 /\ Top(nodes)[n] = Top(nodes)[root]
        /\ w.shared \in 1 .. Len(d) /\ w.rest \in Seq(Bytes)
        /\ Both(Both(Path(nodes)[nodes[n].parent], SubSeq(d, 1, w.shared)), w.rest) = whole
        /\ w.shared < Len(d) /\ w.rest # <<>> => w.rest[1] # d[w.shared + 1]
    BY <2>1 DEF Arrived, n
  <2>5. /\ n \in DOMAIN passed /\ passed[n].data = d
        /\ passed[n].parent = nodes[n].parent
        /\ passed[n].childNodes = nodes[n].childNodes
    BY <1>1, <2>2, <2>4
  <2> DEFINE q == nodes[n].parent
  <2>6. /\ Forest(passed)
        /\ q \in DOMAIN passed /\ Path(passed)[q] = Path(nodes)[q]
        /\ Path(passed)[q] \in Seq(Bytes) /\ d \in Seq(Bytes) /\ Len(d) \in Nat
        /\ Path(nodes)[n] = Both(Path(nodes)[q], d)
    <3>1. Forest(passed)
      BY <2>3 DEF Grown
    <3>2. Linked(nodes) /\ IsPath(nodes, Path(nodes)) /\ IsPath(passed, Path(passed))
      BY <3>1, ForestFacts
    <3>3. q \in DOMAIN nodes
      BY <2>4, <3>2, LinkedFacts
    <3>4. d \in Seq(Bytes)
      BY <2>4, <3>2, LinkedFacts
    <3>5. Path(passed)[q] = Path(nodes)[q]
      BY <2>3, <3>3 DEF Grown
    <3>6. Path(passed)[q] \in Seq(Bytes)
      BY <2>3, <3>2, <3>3 DEF IsPath
    <3>7. Path(nodes)[n] = Both(Path(nodes)[q], d)
      BY <2>4, <3>2 DEF IsPath
    <3>8. Len(d) \in Nat
      <4> HIDE DEF d
      <4> QED
        BY <3>4
    <3> QED
      BY <2>3, <3>1, <3>3, <3>4, <3>5, <3>6, <3>7, <3>8
  <2>7. /\ Path(passed)[n] = Path(nodes)[n] /\ Top(passed)[n] = Top(nodes)[n]
    BY <2>3, <2>4 DEF Grown
  <2> HIDE DEF d, q, whole, divided
  <2>8. CASE w.rest = <<>>
    <3>1. m.nodes = passed /\ m.leaf = n
      BY <2>m, <2>8
    <3> DEFINE high == SubSeq(d, 1, w.shared)
    <3>2. w.shared \in 0 .. Len(d)
      BY <2>4, <2>6
    <3>3. high \in Seq(Bytes)
      BY <2>6, <3>2, FrontFacts
    <3>4. Both(Path(nodes)[q], high) = whole
      <4> HIDE DEF high
      <4>1. Both(Path(nodes)[q], high) \in Seq(Bytes)
        BY <2>6, <3>3, BothFacts
      <4>2. Both(Both(Path(nodes)[q], high), <<>>) = Both(Path(nodes)[q], high)
        BY <3>3, <4>1, BothFacts
      <4> QED
        BY <2>4, <2>8, <4>2 DEF high, q
    <3>5. IsPrefix(whole, Path(nodes)[n])
      BY <2>6, <3>2, <3>4, PrefixBelow
    <3>6. DOMAIN passed \ DOMAIN nodes = {}
      BY <2>3
    <3> QED
      BY <2>3, <2>4, <2>5, <2>7, <3>1, <3>5, <3>6 DEF Merged, whole
  <2>9. CASE w.rest # <<>> /\ w.shared < Len(d)
    <3> DEFINE k == Len(passed) + 1
    <3>1. /\ m.nodes = AddNew(divided, Len(divided), w.rest, 1)
          /\ m.leaf = Len(divided) + 1
      BY <2>m, <2>5, <2>9
    <3>2. w.shared \in 1 .. Len(passed[n].data) - 1
      BY <2>4, <2>5, <2>6, <2>9
    <3>3. passed[n].parent # 0
      BY <2>4, <2>5
    <3>4. Grown(passed, divided) /\ Divided(passed, n, w.shared, divided, k)
      BY <2>5, <2>6, <3>2, <3>3, divideGrown DEF divided, n
    <3>5. /\ Path(divided)[k] = Both(Path(passed)[passed[n].parent],
                                     SubSeq(passed[n].data, 1, w.shared))
          /\ Top(divided)[k] = Top(passed)[n] /\ divided[k].parent # 0
      BY <2>5, <2>6, <3>2, <3>3, divideGrown DEF divided, n
    <3>6. /\ DOMAIN divided = DOMAIN passed \cup {k} /\ Len(divided) = k
          /\ divided[k].childNodes = put(<<>>, passed[n].data[w.shared + 1], n)
      BY <3>4 DEF Divided
    <3> HIDE DEF k
    <3>7. DOMAIN divided[k].childNodes = {d[w.shared + 1]}
      <4>1. divided[k].childNodes = put(<<>>, d[w.shared + 1], n)
        BY <2>5, <3>6
      <4> DEFINE b == d[w.shared + 1]
      <4> HIDE DEF b
      <4>2. DOMAIN put(<<>>, b, n) = {b}
        BY DEF put
      <4> QED
        BY <4>1, <4>2 DEF b
    <3>8. w.rest[1] \notin DOMAIN divided[k].childNodes
      BY <2>4, <2>9, <3>7
    <3>9. w.rest \in Texts
      BY <2>4, <2>9 DEF Texts
    <3> DEFINE high == SubSeq(d, 1, w.shared)
    <3>10. Path(divided)[k] = Both(Path(nodes)[q], high)
      BY <2>5, <2>6, <3>5 DEF q
    <3>11. Both(Path(divided)[k], w.rest) = whole
      BY <2>4, <3>10 DEF q
    <3>12. Path(divided)[k] \in Seq(Bytes)
      <4>1. w.shared \in 0 .. Len(d)
        BY <2>4, <2>6
      <4>2. high \in Seq(Bytes)
        BY <2>6, <4>1, FrontFacts
      <4>3. Path(nodes)[q] \in Seq(Bytes)
        BY <2>6
      <4> HIDE DEF high
      <4>4. Both(Path(nodes)[q], high) \in Seq(Bytes)
        BY <4>2, <4>3, BothFacts
      <4> QED
        BY <3>10, <4>4 DEF high
    <3>13. IsPrefix(Path(divided)[k], whole)
      <4>1. IsPrefix(Path(divided)[k], Both(Path(divided)[k], w.rest))
        BY <2>4, <3>12, PrefixOfBoth
      <4> QED
        BY <3>11, <4>1
    <3>14. Grown(nodes, divided)
      BY <2>3, <3>4, GrownTwice
    <3>15. Top(divided)[k] = Top(nodes)[root]
      BY <2>4, <2>7, <3>5
    <3>16. \A i \in DOMAIN divided \ DOMAIN nodes :
             /\ divided[i].parent # 0 /\ Top(divided)[i] = Top(nodes)[root]
             /\ IsPrefix(Path(divided)[i], Both(Path(nodes)[root], stream))
      BY <2>3, <3>5, <3>6, <3>13, <3>15 DEF whole
    <3>17. k \in DOMAIN divided
      BY <3>6
    <3>18. /\ m.nodes = AddNew(divided, k, w.rest, 1) /\ m.leaf = Len(divided) + 1
      BY <3>1, <3>6
    <3>19. Both(Path(divided)[k], w.rest) = Both(Path(nodes)[root], stream)
      BY <3>11 DEF whole
    <3> QED
      BY <1>0, <3>8, <3>9, <3>14, <3>15, <3>16, <3>17, <3>18, <3>19, NewLeafMerged
  <2>10. CASE w.rest # <<>> /\ ~(w.shared < Len(d))
    <3>1. m.nodes = AddNew(passed, n, w.rest, 1) /\ m.leaf = Len(passed) + 1
      BY <2>m, <2>5, <2>10
    <3>2. w.shared = Len(d)
      BY <2>4, <2>6, <2>10
    <3>3. w.rest[1] \notin DOMAIN passed[n].childNodes
      BY <2>1, <2>5, <2>10, <3>2 DEF GoesOn, d, n
    <3>4. Both(Path(nodes)[n], w.rest) = whole
      BY <2>1, <3>2, GoesOnFacts DEF d, n, whole
    <3>5. w.rest \in Texts
      BY <2>4, <2>10 DEF Texts
    <3>6. Both(Path(passed)[n], w.rest) = Both(Path(nodes)[root], stream)
      BY <2>7, <3>4 DEF whole
    <3>7. DOMAIN passed \ DOMAIN nodes = {}
      BY <2>3
    <3>8. Top(passed)[n] = Top(nodes)[root]
      BY <2>4, <2>7
    <3> QED
      BY <1>0, <2>3, <2>5, <3>1, <3>3, <3>5, <3>6, <3>7, <3>8, NewLeafMerged
  <2> QED
    BY <2>8, <2>9, <2>10
<1> QED
  BY <1>2, <1>3

-----------------------------------------------------------------------------
(* The trees of the parser                                                 *)

\* The objects of class Packet.
Leaves == [transmittedLeafNode : Nat, receivedLeafNode : Nat, ac : Nat]
Trees  == [root : Nat, receivedRoot : Nat, streamPackets : Seq(Leaves) \ {<<>>}]

\* A root with the header for its data.
IsRoot(nodes, n, h) == n \in DOMAIN nodes /\ nodes[n].parent = 0 /\ Path(nodes)[n] = h

\* The leaf is a node below the root.
Hangs(nodes, leaf, root) ==
  leaf \in DOMAIN nodes /\ nodes[leaf].parent # 0 /\ Top(nodes)[leaf] = root

\* The leaves of a packet hang in the two trees of its header.
LeavesHang(nodes, t, p) ==
  /\ Hangs(nodes, p.transmittedLeafNode, t.root)
  /\ p.receivedLeafNode # 0 => Hangs(nodes, p.receivedLeafNode, t.receivedRoot)

\* A tree in its place: two roots with the header, and packets whose leaves hang below
\* them.
TreeFits(nodes, t, h) ==
  /\ t \in Trees /\ t.root # t.receivedRoot
  /\ IsRoot(nodes, t.root, h) /\ IsRoot(nodes, t.receivedRoot, h)
  /\ \A i \in DOMAIN t.streamPackets : LeavesHang(nodes, t, t.streamPackets[i])

\* All trees are parts of one forest, whose roots are theirs.
TreesFit(nodes, ps) ==
  /\ Forest(nodes)
  /\ ps = [h \in DOMAIN ps |-> ps[h]] /\ DOMAIN ps \subseteq Headers
  /\ \A h \in DOMAIN ps : TreeFits(nodes, ps[h], h)
  /\ \A n \in DOMAIN nodes : nodes[n].parent = 0 =>
       \E h \in DOMAIN ps : n \in {ps[h].root, ps[h].receivedRoot}

\* A leaf still hangs below its root when the forest has grown.
LEMMA GrownKeepsLeaf ==
  ASSUME NEW nodes, NEW new, Grown(nodes, new), NEW leaf, NEW root, Hangs(nodes, leaf, root)
  PROVE  Hangs(new, leaf, root)
  BY DEF Grown, Hangs

\* A tree still fits its header when the forest has grown.
LEMMA GrownKeepsTree ==
  ASSUME NEW nodes, NEW new, Grown(nodes, new), NEW t, NEW h, TreeFits(nodes, t, h)
  PROVE  TreeFits(new, t, h)
<1>1. IsRoot(new, t.root, h) /\ IsRoot(new, t.receivedRoot, h)
  BY DEF TreeFits, Grown, IsRoot
<1>2. ASSUME NEW i \in DOMAIN t.streamPackets PROVE LeavesHang(new, t, t.streamPackets[i])
  BY GrownKeepsLeaf DEF TreeFits, LeavesHang
<1>3. t \in Trees /\ t.root # t.receivedRoot
  BY DEF TreeFits
<1> QED
  BY <1>1, <1>2, <1>3 DEF TreeFits

\* All trees still fit when the forest has grown by no root.
LEMMA GrownFits ==
  ASSUME NEW nodes, NEW ps, TreesFit(nodes, ps), NEW new, Grown(nodes, new),
         \A n \in DOMAIN new \ DOMAIN nodes : new[n].parent # 0
  PROVE  TreesFit(new, ps)
<1>1. Forest(new)
  BY DEF Grown
<1>2. \A h \in DOMAIN ps : TreeFits(new, ps[h], h)
  BY GrownKeepsTree DEF TreesFit
<1>3. ASSUME NEW n \in DOMAIN new, new[n].parent = 0
      PROVE  n \in DOMAIN nodes /\ nodes[n].parent = 0
  BY <1>3 DEF Grown
<1>4. ps = [h \in DOMAIN ps |-> ps[h]] /\ DOMAIN ps \subseteq Headers
  BY DEF TreesFit
<1>5. \A n \in DOMAIN new : new[n].parent = 0 =>
        \E h \in DOMAIN ps : n \in {ps[h].root, ps[h].receivedRoot}
  BY <1>3 DEF TreesFit
<1> QED
  BY <1>1, <1>2, <1>4, <1>5 DEF TreesFit

\* A tree may be replaced by another with the same roots.
LEMMA ReplacedFits ==
  ASSUME NEW nodes, NEW ps, TreesFit(nodes, ps), NEW h \in DOMAIN ps,
         NEW t, TreeFits(nodes, t, h), t.root = ps[h].root, t.receivedRoot = ps[h].receivedRoot,
         NEW qs
  PROVE  qs = [ps EXCEPT ![h] = t] =>
           TreesFit(nodes, qs)
<1>equal. SUFFICES ASSUME qs = [ps EXCEPT ![h] = t]
       PROVE  TreesFit(nodes, qs)
  OBVIOUS
<1> USE <1>equal
<1>1. DOMAIN qs = DOMAIN ps /\ qs[h] = t /\ \A g \in DOMAIN ps : g # h => qs[g] = ps[g]
  OBVIOUS
<1>2. qs = [g \in DOMAIN qs |-> qs[g]]
  OBVIOUS
<1>3. \A g \in DOMAIN qs : qs[g].root = ps[g].root /\ qs[g].receivedRoot = ps[g].receivedRoot
  BY <1>1
<1>4. ASSUME NEW g \in DOMAIN qs PROVE TreeFits(nodes, qs[g], g)
  BY <1>1 DEF TreesFit
<1>5. ASSUME NEW n \in DOMAIN nodes, nodes[n].parent = 0
      PROVE  \E g \in DOMAIN qs : n \in {qs[g].root, qs[g].receivedRoot}
  <2>1. PICK g \in DOMAIN ps : n \in {ps[g].root, ps[g].receivedRoot}
    BY <1>5 DEF TreesFit
  <2> QED
    BY <1>1, <1>3, <2>1
<1>6. Forest(nodes) /\ DOMAIN qs \subseteq Headers
  BY <1>1 DEF TreesFit
<1> HIDE <1>equal
<1> QED
  BY <1>2, <1>4, <1>5, <1>6 DEF TreesFit

TreeRecord(r, rr, sp) == [root |-> r, receivedRoot |-> rr, streamPackets |-> sp]
LeafRecord(t, r, a) == [transmittedLeafNode |-> t, receivedLeafNode |-> r, ac |-> a]

\* The fields of a tree that is made.
LEMMA TreeFields ==
  ASSUME NEW r, NEW rr, NEW sp
  PROVE  /\ TreeRecord(r, rr, sp).root = r /\ TreeRecord(r, rr, sp).receivedRoot = rr
         /\ TreeRecord(r, rr, sp).streamPackets = sp
         /\ (r \in Nat /\ rr \in Nat /\ sp \in Seq(Leaves) \ {<<>>}) => TreeRecord(r, rr, sp) \in Trees
  BY DEF TreeRecord, Trees

\* The fields of a packet that is made.
LEMMA LeafFields ==
  ASSUME NEW t, NEW r, NEW a
  PROVE  /\ LeafRecord(t, r, a).transmittedLeafNode = t /\ LeafRecord(t, r, a).receivedLeafNode = r
         /\ LeafRecord(t, r, a).ac = a
         /\ (t \in Nat /\ r \in Nat /\ a \in Nat) => LeafRecord(t, r, a) \in Leaves
  BY DEF LeafRecord, Leaves

\* A tree is the record of its fields, and has at least one packet.
LEMMA TreeParts ==
  ASSUME NEW t \in Trees
  PROVE  /\ t.root \in Nat /\ t.receivedRoot \in Nat /\ t.streamPackets \in Seq(Leaves)
         /\ t.streamPackets # <<>>
         /\ t = TreeRecord(t.root, t.receivedRoot, t.streamPackets)
         /\ Len(t.streamPackets) \in Nat \ {0}
         /\ DOMAIN t.streamPackets = 1 .. Len(t.streamPackets)
         /\ Len(t.streamPackets) \in DOMAIN t.streamPackets
<1>1. /\ t.root \in Nat /\ t.receivedRoot \in Nat /\ t.streamPackets \in Seq(Leaves)
      /\ t.streamPackets # <<>>
  BY DEF Trees
<1>2. t = TreeRecord(t.root, t.receivedRoot, t.streamPackets)
  BY DEF Trees, TreeRecord
<1> DEFINE sp == t.streamPackets
<1>3. sp \in Seq(Leaves) /\ sp # <<>>
  BY <1>1
<1> HIDE DEF sp
<1>4. Len(sp) \in Nat \ {0} /\ DOMAIN sp = 1 .. Len(sp) /\ Len(sp) \in DOMAIN sp
  BY <1>3
<1> QED
  BY <1>1, <1>2, <1>4 DEF sp

\* A packet is the record of its fields.
LEMMA LeafParts ==
  ASSUME NEW p \in Leaves
  PROVE  /\ p.transmittedLeafNode \in Nat /\ p.receivedLeafNode \in Nat /\ p.ac \in Nat
         /\ p = LeafRecord(p.transmittedLeafNode, p.receivedLeafNode, p.ac)
  BY DEF Leaves, LeafRecord

\* A tree with other packets.
LEMMA NewPackets ==
  ASSUME NEW t \in Trees, NEW sp
  PROVE  [t EXCEPT !.streamPackets = sp] = TreeRecord(t.root, t.receivedRoot, sp)
<1>1. PICK r, rr, old : t = TreeRecord(r, rr, old)
  BY TreeParts, Zenon
<1>2. t.root = r /\ t.receivedRoot = rr
  BY <1>1, TreeFields
<1>3. [t EXCEPT !.streamPackets = sp] = TreeRecord(r, rr, sp)
  BY <1>1 DEF TreeRecord
<1> QED
  BY <1>2, <1>3

\* The leaves of a packet hang in the trees, whichever packets there are besides.
LEMMA SameLeaves ==
  ASSUME NEW nodes, NEW t, NEW u, u.root = t.root, u.receivedRoot = t.receivedRoot,
         NEW p, LeavesHang(nodes, t, p)
  PROVE  LeavesHang(nodes, u, p)
  BY DEF LeavesHang

\* A tree fits its header with any packets whose leaves hang in it.
LEMMA RefittedTree ==
  ASSUME NEW nodes, NEW t, NEW h, TreeFits(nodes, t, h),
         NEW sp \in Seq(Leaves), sp # <<>>,
         \A i \in DOMAIN sp : LeavesHang(nodes, t, sp[i])
  PROVE  TreeFits(nodes, TreeRecord(t.root, t.receivedRoot, sp), h)
<1> DEFINE u == TreeRecord(t.root, t.receivedRoot, sp)
<1>1. t \in Trees /\ t.root # t.receivedRoot
      /\ IsRoot(nodes, t.root, h) /\ IsRoot(nodes, t.receivedRoot, h)
  BY DEF TreeFits
<1>2. t.root \in Nat /\ t.receivedRoot \in Nat
  BY <1>1, TreeParts
<1>3. /\ u.root = t.root /\ u.receivedRoot = t.receivedRoot /\ u.streamPackets = sp
  BY TreeFields
<1>4. u \in Trees
  BY <1>2, TreeFields
<1> HIDE DEF u
<1>5. \A i \in DOMAIN u.streamPackets : LeavesHang(nodes, u, u.streamPackets[i])
  BY <1>3, SameLeaves
<1>6. IsRoot(nodes, u.root, h) /\ IsRoot(nodes, u.receivedRoot, h) /\ u.root # u.receivedRoot
  BY <1>1, <1>3
<1>7. TreeFits(nodes, u, h)
  BY <1>4, <1>5, <1>6 DEF TreeFits
<1> QED
  BY <1>7 DEF u

\* A new packet has no answer and no number.
LEMMA PacketIsLeaf ==
  ASSUME NEW leaf \in Nat
  PROVE  Packet(leaf) = LeafRecord(leaf, 0, 0) /\ Packet(leaf) \in Leaves
<1>1. Packet(leaf) = LeafRecord(leaf, 0, 0)
  BY DEF Packet, LeafRecord
<1> QED
  BY <1>1, LeafFields

\* A packet is added to a tree.
LEMMA PacketAdded ==
  ASSUME NEW nodes, NEW ps, TreesFit(nodes, ps), NEW h \in DOMAIN ps,
         NEW leaf, Hangs(nodes, leaf, ps[h].root),
         NEW qs, qs = [ps EXCEPT ![h].streamPackets = Append(@, Packet(leaf))]
  PROVE  TreesFit(nodes, qs)
<1> DEFINE t  == ps[h]
           sp == Append(t.streamPackets, Packet(leaf))
           u  == TreeRecord(t.root, t.receivedRoot, sp)
<1>1. TreeFits(nodes, t, h) /\ t \in Trees
  BY DEF TreesFit, TreeFits
<1>2. leaf \in Nat
  <2>1. leaf \in DOMAIN nodes /\ nodes \in Seq(Nodes)
    BY DEF Hangs, TreesFit, Forest, Linked
  <2> QED
    BY <2>1
<1>3. Packet(leaf) \in Leaves /\ Packet(leaf) = LeafRecord(leaf, 0, 0)
  BY <1>2, PacketIsLeaf
<1>4. qs = [ps EXCEPT ![h] = [ps[h] EXCEPT !.streamPackets = sp]]
  OBVIOUS
<1>5. [t EXCEPT !.streamPackets = sp] = u
  BY <1>1, NewPackets
<1>6. LeavesHang(nodes, t, Packet(leaf))
  <2>1. Packet(leaf).transmittedLeafNode = leaf /\ Packet(leaf).receivedLeafNode = 0
    BY <1>3, LeafFields
  <2> QED
    BY <2>1 DEF LeavesHang
<1>7. qs = [ps EXCEPT ![h] = u]
  BY <1>4, <1>5
<1> DEFINE old == t.streamPackets
           x   == Packet(leaf)
<1>8. old \in Seq(Leaves) /\ x \in Leaves /\ \A i \in DOMAIN old : LeavesHang(nodes, t, old[i])
  BY <1>1, <1>3, TreeParts DEF TreeFits
<1>9. sp = Append(old, x) /\ LeavesHang(nodes, t, x)
  BY <1>6
<1> HIDE DEF old, x, sp
<1>10. sp \in Seq(Leaves) /\ sp # <<>> /\ \A i \in DOMAIN sp : LeavesHang(nodes, t, sp[i])
  <2>1. Append(old, x) \in Seq(Leaves) /\ Len(Append(old, x)) = Len(old) + 1
        /\ Append(old, x)[Len(old) + 1] = x
        /\ DOMAIN Append(old, x) = DOMAIN old \cup {Len(old) + 1}
    BY <1>8, AppendFacts
  <2>2. \A i \in DOMAIN old : Append(old, x)[i] = old[i]
    BY <1>8, AppendFacts
  <2>3. Len(old) \in Nat
    BY <1>8
  <2>4. sp # <<>>
    BY <1>9, <2>1, <2>3
  <2>5. \A i \in DOMAIN sp : LeavesHang(nodes, t, sp[i])
    BY <1>8, <1>9, <2>1, <2>2
  <2> QED
    BY <1>9, <2>1, <2>4, <2>5
<1>11. TreeFits(nodes, u, h)
  BY <1>1, <1>10, RefittedTree
<1>12. u.root = ps[h].root /\ u.receivedRoot = ps[h].receivedRoot
  BY TreeFields
<1> HIDE DEF u, t
<1> QED
  BY <1>7, <1>11, <1>12, ReplacedFits

\* One packet of a tree changes.
LEMMA PacketChanged ==
  ASSUME NEW nodes, NEW ps, TreesFit(nodes, ps), NEW h \in DOMAIN ps,
         NEW k \in DOMAIN ps[h].streamPackets,
         NEW p \in Leaves, LeavesHang(nodes, ps[h], p),
         NEW qs, qs = [ps EXCEPT ![h].streamPackets[k] = p]
  PROVE  TreesFit(nodes, qs)
<1> DEFINE t  == ps[h]
           sp == [t.streamPackets EXCEPT ![k] = p]
           u  == TreeRecord(t.root, t.receivedRoot, sp)
<1>1. TreeFits(nodes, t, h) /\ t \in Trees
  BY DEF TreesFit, TreeFits
<1>4. qs = [ps EXCEPT ![h] = [ps[h] EXCEPT !.streamPackets = sp]]
  OBVIOUS
<1>5. [t EXCEPT !.streamPackets = sp] = u
  BY <1>1, NewPackets
<1>7. qs = [ps EXCEPT ![h] = u]
  BY <1>4, <1>5
<1> DEFINE old == t.streamPackets
<1>8. old \in Seq(Leaves) /\ old # <<>> /\ k \in DOMAIN old
      /\ \A i \in DOMAIN old : LeavesHang(nodes, t, old[i])
  BY <1>1, TreeParts DEF TreeFits
<1>9. sp = [old EXCEPT ![k] = p]
  OBVIOUS
<1> HIDE DEF old, sp
<1>10. sp \in Seq(Leaves) /\ sp # <<>> /\ \A i \in DOMAIN sp : LeavesHang(nodes, t, sp[i])
  <2>1. sp \in Seq(Leaves) /\ DOMAIN sp = DOMAIN old /\ Len(sp) = Len(old)
    BY <1>8, <1>9
  <2>2. sp # <<>>
    BY <1>8, <2>1
  <2>3. ASSUME NEW i \in DOMAIN sp PROVE LeavesHang(nodes, t, sp[i])
    <3>1. sp[i] = IF i = k THEN p ELSE old[i]
      BY <1>8, <1>9, <2>1, <2>3
    <3> QED
      BY <1>8, <2>1, <3>1
  <2> QED
    BY <2>1, <2>2, <2>3
<1>11. TreeFits(nodes, u, h)
  BY <1>1, <1>10, RefittedTree
<1>12. u.root = ps[h].root /\ u.receivedRoot = ps[h].receivedRoot
  BY TreeFields
<1> HIDE DEF u, t
<1> QED
  BY <1>7, <1>11, <1>12, ReplacedFits

\* The trees fit after a packet has got a leaf of the answer tree
\* (Packet.setReceivedLeafNode).
LEMMA AnswerKept ==
  ASSUME NEW nodes, NEW ps, TreesFit(nodes, ps), NEW h \in DOMAIN ps,
         NEW leaf, Hangs(nodes, leaf, ps[h].receivedRoot),
         NEW k \in DOMAIN ps[h].streamPackets,
         NEW qs
  PROVE  qs = [ps EXCEPT ![h].streamPackets[k].receivedLeafNode = leaf] =>
           TreesFit(nodes, qs)
<1>equal. SUFFICES ASSUME qs = [ps EXCEPT ![h].streamPackets[k].receivedLeafNode = leaf]
       PROVE  TreesFit(nodes, qs)
  OBVIOUS
<1> USE <1>equal
<1> DEFINE sp == ps[h].streamPackets
           old == sp[k]
           p == LeafRecord(old.transmittedLeafNode, leaf, old.ac)
<1>1. sp \in Seq(Leaves) /\ LeavesHang(nodes, ps[h], old)
  BY TreeParts DEF TreesFit, TreeFits
<1>2. old \in Leaves
  <2> HIDE DEF sp
  <2>1. k \in DOMAIN sp
    BY DEF sp
  <2> QED
    BY <1>1, <2>1
<1>3. leaf \in Nat
  <2>1. leaf \in DOMAIN nodes /\ nodes \in Seq(Nodes)
    BY DEF Hangs, TreesFit, Forest, Linked
  <2> QED
    BY <2>1
<1>4. qs = [ps EXCEPT ![h].streamPackets[k] = [ps[h].streamPackets[k] EXCEPT !.receivedLeafNode = leaf]]
  OBVIOUS
<1>5. old.transmittedLeafNode \in Nat /\ old.ac \in Nat
  BY <1>2, LeafParts
<1>6. PICK a, b, c : old = LeafRecord(a, b, c)
  BY <1>2, LeafParts, Zenon
<1>7. old.transmittedLeafNode = a /\ old.ac = c
  BY <1>6, LeafFields
<1> DEFINE x == old
<1> HIDE DEF x
<1>8. [x EXCEPT !.receivedLeafNode = leaf] = LeafRecord(a, leaf, c)
  <2>1. x = LeafRecord(a, b, c)
    BY <1>6 DEF x
  <2> QED
    BY <2>1 DEF LeafRecord
<1>9. [old EXCEPT !.receivedLeafNode = leaf] = p
  BY <1>7, <1>8 DEF x
<1>10. qs = [ps EXCEPT ![h].streamPackets[k] = p]
  BY <1>4, <1>9
<1>11. p \in Leaves /\ p.transmittedLeafNode = old.transmittedLeafNode /\ p.receivedLeafNode = leaf
  BY <1>3, <1>5, LeafFields
<1> HIDE DEF p
<1>12. LeavesHang(nodes, ps[h], p)
  BY <1>1, <1>11 DEF LeavesHang
<1> HIDE <1>equal
<1> QED
  BY <1>10, <1>11, <1>12, PacketChanged, Zenon

\* The trees fit after a packet has got its number.
LEMMA TimeKept ==
  ASSUME NEW nodes, NEW ps, TreesFit(nodes, ps), NEW h \in DOMAIN ps,
         NEW time \in Nat, NEW k \in DOMAIN ps[h].streamPackets,
         NEW qs
  PROVE  qs = [ps EXCEPT ![h].streamPackets[k].ac = time] =>
           TreesFit(nodes, qs)
<1>equal. SUFFICES ASSUME qs = [ps EXCEPT ![h].streamPackets[k].ac = time]
       PROVE  TreesFit(nodes, qs)
  OBVIOUS
<1> USE <1>equal
<1> DEFINE sp == ps[h].streamPackets
           old == sp[k]
           p == LeafRecord(old.transmittedLeafNode, old.receivedLeafNode, time)
<1>1. sp \in Seq(Leaves) /\ LeavesHang(nodes, ps[h], old)
  BY TreeParts DEF TreesFit, TreeFits
<1>2. old \in Leaves
  <2> HIDE DEF sp
  <2>1. k \in DOMAIN sp
    BY DEF sp
  <2> QED
    BY <1>1, <2>1
<1>4. qs = [ps EXCEPT ![h].streamPackets[k] = [ps[h].streamPackets[k] EXCEPT !.ac = time]]
  OBVIOUS
<1>5. old.transmittedLeafNode \in Nat /\ old.receivedLeafNode \in Nat
  BY <1>2, LeafParts
<1>6. PICK a, b, c : old = LeafRecord(a, b, c)
  BY <1>2, LeafParts, Zenon
<1>7. old.transmittedLeafNode = a /\ old.receivedLeafNode = b
  BY <1>6, LeafFields
<1> DEFINE x == old
<1> HIDE DEF x
<1>8. [x EXCEPT !.ac = time] = LeafRecord(a, b, time)
  <2>1. x = LeafRecord(a, b, c)
    BY <1>6 DEF x
  <2> QED
    BY <2>1 DEF LeafRecord
<1>9. [old EXCEPT !.ac = time] = p
  BY <1>7, <1>8 DEF x
<1>10. qs = [ps EXCEPT ![h].streamPackets[k] = p]
  BY <1>4, <1>9
<1>11. p \in Leaves /\ p.transmittedLeafNode = old.transmittedLeafNode
       /\ p.receivedLeafNode = old.receivedLeafNode
  BY <1>5, LeafFields
<1> HIDE DEF p
<1>12. LeavesHang(nodes, ps[h], p)
  BY <1>1, <1>11 DEF LeavesHang
<1> HIDE <1>equal
<1> QED
  BY <1>10, <1>11, <1>12, PacketChanged, Zenon

\* The first command of a header: two roots, and its leaf below the first.
TreeMade(nodes, h, data, new, n) ==
  /\ Grown(nodes, new) /\ DOMAIN new = DOMAIN nodes \cup {n + 1, n + 2, n + 3}
  /\ n \in Nat /\ {n + 1, n + 2, n + 3} \cap DOMAIN nodes = {}
  /\ IsRoot(new, n + 1, h) /\ IsRoot(new, n + 3, h) /\ Hangs(new, n + 2, n + 1)
  /\ Path(new)[n + 2] = Both(h, data)

\* The constructor of Tree adds two roots with the header and one leaf with the command.
LEMMA TreeGrown ==
  ASSUME NEW nodes, Forest(nodes), NEW h \in Texts, NEW data \in Texts,
         NEW new, new = Tree(nodes, h, data), NEW n, n = Len(nodes)
  PROVE  TreeMade(nodes, h, data, new, n)
<1> DEFINE a == Append(nodes, NewNode(h, 1))
           b == AddNew(a, Len(a), data, 1)
<1>0. n \in Nat /\ DOMAIN nodes = 1 .. n
  BY SeqFacts DEF Forest, Linked
<1>1. new = Append(b, NewNode(h, 0))
  BY DEF Tree
<1>2. /\ Grown(nodes, a) /\ Len(a) = n + 1 /\ DOMAIN a = DOMAIN nodes \cup {n + 1}
      /\ a[n + 1].parent = 0 /\ a[n + 1].childNodes = <<>>
      /\ Path(a)[n + 1] = h /\ Top(a)[n + 1] = n + 1
  <2>1. 1 \in Nat /\ n + 1 = Len(nodes) + 1
    OBVIOUS
  <2> HIDE DEF b
  <2>2. RootAdded(nodes, h, 1, a, n + 1)
    BY <2>1, RootGrown
  <2> HIDE DEF a
  <2> QED
    BY <2>2 DEF RootAdded
<1>3. b = AddNew(a, n + 1, data, 1)
  BY <1>2
<1> HIDE DEF a, b
<1>4. Forest(a) /\ n + 1 \in DOMAIN a /\ data[1] \notin DOMAIN a[n + 1].childNodes
      /\ n + 2 = Len(a) + 1
  <2>1. DOMAIN <<>> = {}
    OBVIOUS
  <2>2. data[1] \notin DOMAIN a[n + 1].childNodes
    BY <1>2, <2>1
  <2>3. Forest(a)
    BY <1>2 DEF Grown
  <2> QED
    BY <1>0, <1>2, <2>2, <2>3
<1>5. Grown(a, b) /\ NodeAdded(a, n + 1, data, 1, b, n + 2)
  BY <1>3, <1>4, AddNewGrown
<1>6. Path(b)[n + 2] = Both(Path(a)[n + 1], data) /\ Top(b)[n + 2] = Top(a)[n + 1]
  BY <1>3, <1>4, AddNewGrown
<1>7. Len(b) = n + 2 /\ DOMAIN b = DOMAIN a \cup {n + 2} /\ b[n + 2].parent = n + 1
  BY <1>5 DEF NodeAdded
<1>8. Forest(b) /\ n + 3 = Len(b) + 1
  BY <1>0, <1>5, <1>7 DEF Grown
<1>9. /\ Grown(b, new) /\ DOMAIN new = DOMAIN b \cup {n + 3}
      /\ new[n + 3].parent = 0 /\ Path(new)[n + 3] = h
  <2>1. RootAdded(b, h, 0, new, n + 3)
    BY <1>1, <1>8, RootGrown
  <2> QED
    BY <2>1 DEF RootAdded
<1>10. Grown(nodes, new)
  <2>1. Grown(nodes, b)
    BY <1>2, <1>5, GrownTwice
  <2> QED
    BY <1>9, <2>1, GrownTwice
<1>11. IsRoot(new, n + 1, h)
  <2>1. IsRoot(a, n + 1, h)
    BY <1>2 DEF IsRoot
  <2> QED
    BY <1>5, <1>9, <2>1 DEF IsRoot, Grown
<1>12. IsRoot(new, n + 3, h)
  BY <1>9 DEF IsRoot
<1>13. Hangs(new, n + 2, n + 1) /\ Path(new)[n + 2] = Both(h, data)
  <2>1. Hangs(b, n + 2, n + 1)
    BY <1>0, <1>2, <1>6, <1>7 DEF Hangs
  <2>2. Path(new)[n + 2] = Path(b)[n + 2]
    BY <1>7, <1>9 DEF Grown
  <2> QED
    BY <1>2, <1>6, <1>9, <2>1, <2>2, GrownKeepsLeaf
<1>14. {n + 1, n + 2, n + 3} \cap DOMAIN nodes = {}
  BY <1>0
<1>15. DOMAIN new = DOMAIN nodes \cup {n + 1, n + 2, n + 3}
  BY <1>2, <1>7, <1>9
<1> QED
  BY <1>0, <1>10, <1>11, <1>12, <1>13, <1>14, <1>15 DEF TreeMade

\* The trees fit after the first command with a header (TreeParser: new Tree).
LEMMA TreeAdded ==
  ASSUME NEW nodes, NEW ps, TreesFit(nodes, ps), NEW h \in Headers, h \notin DOMAIN ps,
         NEW data \in Texts, NEW new, new = Tree(nodes, h, data),
         NEW n, n = Len(nodes),
         NEW qs, qs = put(ps, h, [root |-> n + 1, receivedRoot |-> n + 3,
                                  streamPackets |-> <<Packet(n + 2)>>])
  PROVE  TreesFit(new, qs)
<1> DEFINE sp == <<Packet(n + 2)>>
           t  == TreeRecord(n + 1, n + 3, sp)
<1>0. Forest(nodes) /\ h \in Texts
  BY InputsAreTexts DEF TreesFit
<1>1. /\ Grown(nodes, new) /\ DOMAIN new = DOMAIN nodes \cup {n + 1, n + 2, n + 3}
      /\ n \in Nat
      /\ IsRoot(new, n + 1, h) /\ IsRoot(new, n + 3, h) /\ Hangs(new, n + 2, n + 1)
  <2>1. TreeMade(nodes, h, data, new, n)
    BY <1>0, TreeGrown
  <2> QED
    BY <2>1 DEF TreeMade
<1>2. qs = put(ps, h, t)
  BY DEF TreeRecord
<1>3. n + 1 \in Nat /\ n + 2 \in Nat /\ n + 3 \in Nat /\ n + 1 # n + 3
  BY <1>1
<1>4. Packet(n + 2) = LeafRecord(n + 2, 0, 0) /\ Packet(n + 2) \in Leaves
  BY <1>3, PacketIsLeaf
<1>5. Packet(n + 2).transmittedLeafNode = n + 2 /\ Packet(n + 2).receivedLeafNode = 0
  <2> DEFINE p == LeafRecord(n + 2, 0, 0)
  <2>1. p.transmittedLeafNode = n + 2 /\ p.receivedLeafNode = 0
    BY LeafFields
  <2> HIDE DEF p
  <2>2. Packet(n + 2) = p
    BY <1>4 DEF p
  <2> QED
    BY <2>1, <2>2
<1>6. /\ t.root = n + 1 /\ t.receivedRoot = n + 3 /\ t.streamPackets = sp
      /\ (n + 1 \in Nat /\ n + 3 \in Nat /\ sp \in Seq(Leaves) \ {<<>>}) => t \in Trees
  <2> DEFINE r  == n + 1
             rr == n + 3
  <2> HIDE DEF sp, r, rr
  <2>1. /\ TreeRecord(r, rr, sp).root = r /\ TreeRecord(r, rr, sp).receivedRoot = rr
        /\ TreeRecord(r, rr, sp).streamPackets = sp
        /\ (r \in Nat /\ rr \in Nat /\ sp \in Seq(Leaves) \ {<<>>})
             => TreeRecord(r, rr, sp) \in Trees
    BY TreeFields
  <2> QED
    BY <2>1 DEF r, rr
<1>7. sp \in Seq(Leaves) \ {<<>>} /\ \A i \in DOMAIN sp : sp[i] = Packet(n + 2)
  BY <1>4
<1>8. t \in Trees
  BY <1>3, <1>6, <1>7
<1> HIDE DEF t, sp
<1>9. LeavesHang(new, t, Packet(n + 2))
  BY <1>1, <1>5, <1>6 DEF LeavesHang
<1>10. TreeFits(new, t, h)
  BY <1>1, <1>3, <1>6, <1>7, <1>8, <1>9 DEF TreeFits
<1>11. /\ DOMAIN qs = {h} \cup DOMAIN ps /\ qs[h] = t
       /\ \A g \in DOMAIN ps : qs[g] = ps[g]
  BY <1>2 DEF put
<1>12. qs = [g \in DOMAIN qs |-> qs[g]]
  BY <1>2 DEF put
<1>13. \A g \in DOMAIN ps : TreeFits(new, ps[g], g)
  BY <1>1, GrownKeepsTree DEF TreesFit
<1>14. \A g \in DOMAIN qs : TreeFits(new, qs[g], g)
  BY <1>10, <1>11, <1>13
<1>15. ASSUME NEW i \in DOMAIN new, new[i].parent = 0
       PROVE  \E g \in DOMAIN qs : i \in {qs[g].root, qs[g].receivedRoot}
  <2>1. CASE i \in DOMAIN nodes
    <3>1. nodes[i].parent = 0
      BY <1>1, <1>15, <2>1 DEF Grown
    <3>2. PICK g \in DOMAIN ps : i \in {ps[g].root, ps[g].receivedRoot}
      BY <2>1, <3>1 DEF TreesFit
    <3> QED
      BY <1>11, <3>2
  <2>2. CASE i = n + 2
    BY <1>1, <1>15, <2>2 DEF Hangs
  <2>3. CASE i \in {n + 1, n + 3}
    BY <1>6, <1>11, <2>3
  <2> QED
    BY <1>1, <1>15, <2>1, <2>2, <2>3
<1>16. Forest(new) /\ DOMAIN qs \subseteq Headers
  BY <1>1, <1>11 DEF Grown, TreesFit
<1> QED
  BY <1>12, <1>14, <1>15, <1>16 DEF TreesFit

\* The trees fit after another command with a header (Tree.mergeStream).
LEMMA StreamAdded ==
  ASSUME NEW nodes, NEW ps, TreesFit(nodes, ps), NEW h \in DOMAIN ps, NEW stream \in Texts,
         NEW m, m = merge(nodes, ps[h].root, stream),
         NEW qs, qs = [ps EXCEPT ![h].streamPackets = Append(@, Packet(m.leaf))]
  PROVE  TreesFit(m.nodes, qs)
<1> DEFINE r == ps[h].root
<1>1. IsRoot(nodes, r, h) /\ Forest(nodes)
  BY DEF TreesFit, TreeFits
<1>2. r \in DOMAIN nodes /\ nodes[r].parent = 0
  BY <1>1 DEF IsRoot
<1> HIDE DEF r
<1>3. Merged(nodes, r, stream, m.nodes, m.leaf)
  BY <1>1, <1>2, mergeFacts DEF r
<1>4. Top(nodes)[r] = r
  BY <1>1, <1>2, ForestFacts DEF IsTop
<1>5. Grown(nodes, m.nodes) /\ (\A n \in DOMAIN m.nodes \ DOMAIN nodes : m.nodes[n].parent # 0)
      /\ Hangs(m.nodes, m.leaf, r)
  BY <1>3, <1>4 DEF Merged, Hangs
<1>6. TreesFit(m.nodes, ps)
  BY <1>5, GrownFits
<1> QED
  BY <1>5, <1>6, PacketAdded DEF r

\* The trees fit after an answer (Tree.mergeReceived).
LEMMA AnswerAdded ==
  ASSUME NEW nodes, NEW ps, TreesFit(nodes, ps), NEW h \in DOMAIN ps, NEW stream \in Texts,
         NEW m,
         NEW k \in DOMAIN ps[h].streamPackets,
         NEW qs, qs = [ps EXCEPT ![h].streamPackets[k].receivedLeafNode = m.leaf]
  PROVE  m = merge(nodes, ps[h].receivedRoot, stream) =>
           TreesFit(m.nodes, qs)
<1>equal. SUFFICES ASSUME m = merge(nodes, ps[h].receivedRoot, stream)
       PROVE  TreesFit(m.nodes, qs)
  OBVIOUS
<1> USE <1>equal
<1> DEFINE r == ps[h].receivedRoot
<1>1. IsRoot(nodes, r, h) /\ Forest(nodes)
  BY DEF TreesFit, TreeFits
<1>2. r \in DOMAIN nodes /\ nodes[r].parent = 0
  BY <1>1 DEF IsRoot
<1> HIDE DEF r
<1>3. Merged(nodes, r, stream, m.nodes, m.leaf)
  BY <1>1, <1>2, mergeFacts DEF r
<1>4. Top(nodes)[r] = r
  BY <1>1, <1>2, ForestFacts DEF IsTop
<1>5. Grown(nodes, m.nodes) /\ (\A n \in DOMAIN m.nodes \ DOMAIN nodes : m.nodes[n].parent # 0)
      /\ Hangs(m.nodes, m.leaf, r)
  BY <1>3, <1>4 DEF Merged, Hangs
<1>6. TreesFit(m.nodes, ps)
  BY <1>5, GrownFits
<1> HIDE <1>equal
<1> QED
  BY <1>5, <1>6, AnswerKept, Zenon DEF r

-----------------------------------------------------------------------------
(* Types and shape                                                         *)

Phases == {"parse", "simplify", "write", "done"}

\* The inductive invariant of the trees.
StateOK ==
  /\ settings \in [simpleNodes : BOOLEAN, separatePackets : BOOLEAN]
  /\ phase \in Phases
  /\ TreesFit(node, packets)
  /\ lastProcessedPacket \in {<<>>} \cup DOMAIN packets
  /\ ac \in Nat \ {0} /\ failed \in BOOLEAN
  /\ unprinted \subseteq Headers /\ aborted \subseteq Headers /\ DOMAIN printed \subseteq Headers

\* Before the first line there is no tree.
LEMMA NothingFits == TreesFit(<<>>, <<>>)
<1>1. DOMAIN <<>> = {} /\ <<>> = [h \in {} |-> <<>>[h]]
  OBVIOUS
<1>2. Linked(<<>>)
  BY <1>1 DEF Linked
<1>3. IsPath(<<>>, <<>>)
  <2>1. <<>> \in [{} -> Seq(Bytes)]
    OBVIOUS
  <2> QED
    BY <1>1, <2>1 DEF IsPath
<1>4. IsTop(<<>>, <<>>)
  <2>1. <<>> \in [{} -> {}]
    OBVIOUS
  <2> QED
    BY <1>1, <2>1 DEF IsTop
<1>5. Forest(<<>>)
  BY <1>2, <1>3, <1>4 DEF Forest
<1> QED
  BY <1>1, <1>5 DEF TreesFit

\* The invariant of the trees holds when the parsing starts.
LEMMA InitStateOK == Init => StateOK
<1> SUFFICES ASSUME Init PROVE StateOK
  OBVIOUS
<1>1. TreesFit(node, packets)
  BY NothingFits DEF Init
<1>2. DOMAIN printed \subseteq Headers /\ DOMAIN packets \subseteq Headers
  <2>1. DOMAIN <<>> = {}
    OBVIOUS
  <2> QED
    BY <2>1 DEF Init
<1>3. settings \in [simpleNodes : BOOLEAN, separatePackets : BOOLEAN] /\ failed \in BOOLEAN
  BY Zenon DEF Init
<1>4. phase \in Phases /\ lastProcessedPacket \in {<<>>} \cup DOMAIN packets
  BY DEF Init, Phases
<1>5. ac \in Nat \ {0} /\ unprinted \subseteq Headers /\ aborted \subseteq Headers
  BY DEF Init
<1> QED
  BY <1>1, <1>2, <1>3, <1>4, <1>5 DEF StateOK

\* A tree of the state, and the place of its last packet.
LEMMA LastPacketFacts ==
  ASSUME StateOK, NEW h \in DOMAIN packets
  PROVE  lastPacket(h) \in DOMAIN packets[h].streamPackets
<1>1. packets[h] \in Trees
  BY DEF StateOK, TreesFit, TreeFits
<1> DEFINE t == packets[h]
<1> HIDE DEF t
<1>2. Len(t.streamPackets) \in DOMAIN t.streamPackets
  BY <1>1, TreeParts DEF t
<1> QED
  BY <1>2 DEF lastPacket, t

\* The end of the parsing leads into one of the phases that follow.
LEMMA StartWritingOK ==
  ASSUME StateOK, StartWriting
  PROVE  phase' \in Phases /\ unprinted' \subseteq Headers
  BY DEF StateOK, StartWriting, TreesFit, Phases

\* A command keeps the invariant of the trees.
LEMMA handleTransmittedDataOK ==
  ASSUME StateOK, NEW h \in Headers, NEW d \in Sent, handleTransmittedData(h, d)
  PROVE  StateOK' /\ Grown(node, node') /\ DOMAIN packets' = DOMAIN packets \cup {h}
<1>0. d \in Texts
  <2>1. d # <<>>
    BY DEF handleTransmittedData
  <2> QED
    BY <2>1, InputsAreTexts DEF Texts
<1>1. TreesFit(node, packets) /\ Forest(node)
  BY DEF StateOK, TreesFit
<1>2. TreesFit(node', packets') /\ Grown(node, node') /\ DOMAIN packets' = DOMAIN packets \cup {h}
  <2>1. CASE h \notin DOMAIN packets
    <3> DEFINE n == Len(node)
    <3>1. /\ node' = Tree(node, h, d)
          /\ packets' = put(packets, h, [root |-> n + 1, receivedRoot |-> n + 3,
                                         streamPackets |-> <<Packet(n + 2)>>])
      BY <2>1 DEF handleTransmittedData
    <3>2. TreesFit(node', packets')
      BY <1>0, <1>1, <2>1, <3>1, TreeAdded
    <3>3. h \in Texts
      BY InputsAreTexts
    <3>4. TreeMade(node, h, d, node', n)
      BY <1>0, <1>1, <3>1, <3>3, TreeGrown
    <3>5. DOMAIN packets' = DOMAIN packets \cup {h}
      <4> DEFINE v == [root |-> n + 1, receivedRoot |-> n + 3, streamPackets |-> <<Packet(n + 2)>>]
      <4>1. packets' = put(packets, h, v)
        BY <3>1
      <4> HIDE DEF v
      <4> QED
        BY <4>1 DEF put
    <3> QED
      BY <3>2, <3>4, <3>5 DEF TreeMade
  <2>2. CASE h \in DOMAIN packets
    <3> DEFINE m == merge(node, packets[h].root, d)
    <3>1. /\ node' = m.nodes
          /\ packets' = [packets EXCEPT ![h].streamPackets = Append(@, Packet(m.leaf))]
      BY <2>2 DEF handleTransmittedData
    <3>2. TreesFit(m.nodes, packets')
      <4> HIDE DEF m
      <4>1. m = merge(node, packets[h].root, d)
        BY DEF m
      <4> QED
        BY <1>0, <1>1, <2>2, <3>1, <4>1, StreamAdded
    <3>3. packets[h].root \in DOMAIN node
      BY <1>1, <2>2 DEF TreesFit, TreeFits, IsRoot
    <3>4. Merged(node, packets[h].root, d, m.nodes, m.leaf)
      BY <1>0, <1>1, <3>3, mergeFacts
    <3>5. DOMAIN packets' = DOMAIN packets
      <4> HIDE DEF m
      <4> QED
        BY <3>1
    <3> HIDE DEF m
    <3> QED
      BY <2>2, <3>1, <3>2, <3>4, <3>5 DEF Merged
  <2> QED
    BY <2>1, <2>2
<1>3. /\ lastProcessedPacket' = h /\ UNCHANGED <<settings, phase, ac, printed, unprinted, aborted, failed>>
  BY DEF handleTransmittedData
<1> QED
  BY <1>2, <1>3 DEF StateOK

\* So does a command that is only a header.
LEMMA handleTransmittedDataThrowsOK ==
  ASSUME StateOK, NEW h \in Headers, handleTransmittedDataThrows(h)
  PROVE  StateOK' /\ Grown(node, node')
<1>1. TreesFit(node, packets) /\ Forest(node)
  BY DEF StateOK, TreesFit
<1> DEFINE S == IF h \in DOMAIN packets THEN {packets[h].root} ELSE {}
           new == incrementCount(node, S)
<1>2. /\ Grown(node, new) /\ DOMAIN new = DOMAIN node
  BY <1>1, incrementCountGrown
<1> HIDE DEF new
<1>3. Grown(node, node) 
  BY <1>1 DEF Grown
<1>4. node' = new \/ node' = node
  <2>1. CASE h \in DOMAIN packets
    BY <2>1 DEF handleTransmittedDataThrows, new
  <2>2. CASE h \notin DOMAIN packets
    BY <2>2 DEF handleTransmittedDataThrows
  <2> QED
    BY <2>1, <2>2
<1>5. Grown(node, node') /\ DOMAIN node' = DOMAIN node
  BY <1>2, <1>3, <1>4
<1>6. TreesFit(node', packets)
  BY <1>1, <1>5, GrownFits
<1>7. StartWriting /\ failed' = TRUE
      /\ UNCHANGED <<settings, packets, lastProcessedPacket, ac, printed, aborted>>
  BY DEF handleTransmittedDataThrows
<1>8. phase' \in Phases /\ unprinted' \subseteq Headers
  BY <1>7, StartWritingOK
<1> QED
  BY <1>5, <1>6, <1>7, <1>8 DEF StateOK

\* So does an answer.
LEMMA handleReceivedDataOK ==
  ASSUME StateOK, NEW a \in Answers, handleReceivedData(a)
  PROVE  StateOK' /\ Grown(node, node')
<1> DEFINE h == lastProcessedPacket
           m == merge(node, packets[h].receivedRoot, a)
<1>0. a \in Texts
  BY InputsAreTexts
<1>1. TreesFit(node, packets) /\ Forest(node)
  BY DEF StateOK, TreesFit
<1>2. h \in DOMAIN packets
  BY DEF StateOK, handleReceivedData
<1>3. lastPacket(h) \in DOMAIN packets[h].streamPackets
  BY <1>2, LastPacketFacts
<1>4. /\ node' = m.nodes
      /\ packets' = [packets EXCEPT ![h].streamPackets[lastPacket(h)].receivedLeafNode = m.leaf]
      /\ UNCHANGED <<settings, phase, lastProcessedPacket, ac, printed, unprinted, aborted, failed>>
  BY DEF handleReceivedData
<1>5. packets[h].receivedRoot \in DOMAIN node
  BY <1>1, <1>2 DEF TreesFit, TreeFits, IsRoot
<1>6. Merged(node, packets[h].receivedRoot, a, m.nodes, m.leaf)
  BY <1>0, <1>1, <1>5, mergeFacts
<1>7. m = merge(node, packets[h].receivedRoot, a)
  OBVIOUS
<1> HIDE DEF m, h
<1>8. TreesFit(m.nodes, packets')
  BY <1>0, <1>1, <1>2, <1>3, <1>4, <1>7, AnswerAdded
<1>9. DOMAIN packets' = DOMAIN packets
  BY <1>4
<1>10. Grown(node, node')
  BY <1>4, <1>6 DEF Merged
<1> QED
  BY <1>4, <1>8, <1>9, <1>10 DEF StateOK

\* So does a time.
LEMMA handleResponseTimeOK ==
  ASSUME StateOK, handleResponseTime
  PROVE  StateOK'
<1> DEFINE h == lastProcessedPacket
<1>1. TreesFit(node, packets) /\ ac \in Nat
  BY DEF StateOK
<1>2. h \in DOMAIN packets
  BY DEF StateOK, handleResponseTime
<1>3. lastPacket(h) \in DOMAIN packets[h].streamPackets
  BY <1>2, LastPacketFacts
<1>4. /\ packets' = [packets EXCEPT ![h].streamPackets[lastPacket(h)].ac = ac]
      /\ ac' = ac + 1
      /\ UNCHANGED <<settings, phase, node, lastProcessedPacket, printed, unprinted, aborted, failed>>
  BY DEF handleResponseTime
<1> HIDE DEF h
<1>5. TreesFit(node, packets')
  BY <1>1, <1>2, <1>3, <1>4, TimeKept
<1>6. DOMAIN packets' = DOMAIN packets
  BY <1>4
<1>7. ac' \in Nat \ {0}
  BY <1>1, <1>4
<1> QED
  BY <1>4, <1>5, <1>6, <1>7 DEF StateOK

\* So does a turn of simplifyNodes.
LEMMA simplifyNodesOK ==
  ASSUME StateOK, NEW n \in DOMAIN node, simplifyNodes(n)
  PROVE  StateOK' /\ Grown(node, node')
<1>1. TreesFit(node, packets) /\ Forest(node)
  BY DEF StateOK, TreesFit
<1>2. node' = Simplified(node, n) /\ Len(node[n].data) > 1 /\ node[n].parent # 0
      /\ UNCHANGED <<settings, phase, packets, lastProcessedPacket, ac, printed, unprinted,
                     aborted, failed>>
  <2>1. node' = Simplified(node, n)
    BY DEF simplifyNodes, Simplified, Slice
  <2>2. Len(node[n].data) > 1 /\ n \in InTree \ Roots
    BY DEF simplifyNodes
  <2>3. node[n].parent # 0
    BY <2>2 DEF InTree
  <2> QED
    BY <2>1, <2>2, <2>3 DEF simplifyNodes
<1>3. Grown(node, node') /\ \A i \in DOMAIN node' \ DOMAIN node : node'[i].parent # 0
  BY <1>1, <1>2, SimplifiedGrown
<1>4. TreesFit(node', packets)
  BY <1>1, <1>3, GrownFits
<1> QED
  BY <1>2, <1>3, <1>4 DEF StateOK

\* So does the writing of a tree.
LEMMA writeOK ==
  ASSUME StateOK, NEW h \in Headers, write(h)
  PROVE  StateOK'
<1>1. UNCHANGED <<settings, phase, node, packets, lastProcessedPacket, ac, failed>>
  BY DEF write
<1>2. unprinted' \subseteq Headers /\ aborted' \subseteq Headers
  BY DEF write, StateOK
<1>3. DOMAIN printed' \subseteq Headers
  <2>1. CASE printed' = printed
    BY <2>1 DEF StateOK
  <2>2. CASE printed' = put(printed, h, prepareAnalyzedPackets(h))
    <3> DEFINE v == prepareAnalyzedPackets(h)
    <3> HIDE DEF v
    <3>1. DOMAIN printed' = {h} \cup DOMAIN printed
      BY <2>2 DEF put, v
    <3> QED
      BY <3>1 DEF StateOK
  <2> QED
    BY <2>1, <2>2 DEF write
<1> QED
  BY <1>1, <1>2, <1>3 DEF StateOK

\* Every step keeps the invariant of the trees.
LEMMA NextStateOK == StateOK /\ [Next]_vars => StateOK'
<1> SUFFICES ASSUME StateOK, [Next]_vars PROVE StateOK'
  OBVIOUS
<1>1. ASSUME NEW h \in Headers, NEW d \in Sent, handleTransmittedData(h, d) PROVE StateOK'
  BY <1>1, handleTransmittedDataOK
<1>2. ASSUME NEW h \in Headers, handleTransmittedDataThrows(h) PROVE StateOK'
  BY <1>2, handleTransmittedDataThrowsOK
<1>3. ASSUME NEW a \in Answers, handleReceivedData(a) PROVE StateOK'
  BY <1>3, handleReceivedDataOK
<1>4. CASE handleResponseTime
  BY <1>4, handleResponseTimeOK
<1>5. CASE handleResponseTimeThrows
  <2>1. phase' \in Phases /\ unprinted' \subseteq Headers
    BY <1>5, StartWritingOK DEF handleResponseTimeThrows
  <2> QED
    BY <1>5, <2>1 DEF handleResponseTimeThrows, StateOK
<1>6. CASE parseFileEnds
  <2>1. phase' \in Phases /\ unprinted' \subseteq Headers
    BY <1>6, StartWritingOK DEF parseFileEnds
  <2> QED
    BY <1>6, <2>1 DEF parseFileEnds, StateOK
<1>7. ASSUME NEW n \in DOMAIN node, simplifyNodes(n) PROVE StateOK'
  BY <1>7, simplifyNodesOK
<1>8. CASE simplifyNodesEnds
  BY <1>8 DEF simplifyNodesEnds, StateOK, Phases
<1>9. ASSUME NEW h \in Headers, write(h) PROVE StateOK'
  BY <1>9, writeOK
<1>10. CASE writeEnds
  BY <1>10 DEF writeEnds, StateOK, Phases
<1>11. CASE UNCHANGED vars
  BY <1>11 DEF vars, StateOK
<1> QED
  BY <1>1, <1>2, <1>3, <1>4, <1>5, <1>6, <1>7, <1>8, <1>9, <1>10, <1>11 DEF Next

\* The invariant of the trees holds throughout.
LEMMA SpecStateOK == Spec => []StateOK
<1> QED
  BY InitStateOK, NextStateOK, PTL DEF Spec

\* The invariant of the trees implies the types.
LEMMA StateTypes == StateOK => TypeOK
<1> SUFFICES ASSUME StateOK PROVE TypeOK
  OBVIOUS
<1>1. Linked(node) /\ node \in Seq(Nodes)
  BY DEF StateOK, TreesFit, Forest, Linked
<1>2. ASSUME NEW n \in DOMAIN node
      PROVE  /\ node[n].data \in Seq(Bytes) \ {<<>>}
             /\ node[n].parent \in 0 .. Len(node)
             /\ node[n].count \in Nat
             /\ DOMAIN node[n].childNodes \subseteq Bytes
             /\ Range(node[n].childNodes) \subseteq DOMAIN node
  <2>1. node[n].data \in Texts /\ node[n].count \in Nat /\ node[n].parent \in Nat
    BY <1>1, LinkedFacts
  <2>2. node[n].parent \in 0 .. Len(node)
    <3>1. node[n].parent # 0 => node[n].parent \in DOMAIN node
      BY <1>1, LinkedFacts
    <3>2. DOMAIN node = 1 .. Len(node) /\ Len(node) \in Nat
      BY <1>1, SeqFacts
    <3> QED
      BY <2>1, <3>1, <3>2
  <2>3. \A b \in DOMAIN node[n].childNodes : b \in Bytes /\ node[n].childNodes[b] \in DOMAIN node
    BY <1>1, LinkedFacts
  <2> QED
    BY <2>1, <2>2, <2>3 DEF Texts, Range
<1>3. ASSUME NEW h \in DOMAIN packets, NEW p \in Range(packets[h].streamPackets)
      PROVE  p.transmittedLeafNode \in DOMAIN node /\ p.receivedLeafNode \in 0 .. Len(node)
  <2>1. PICK i \in DOMAIN packets[h].streamPackets : p = packets[h].streamPackets[i]
    BY DEF Range
  <2>2. LeavesHang(node, packets[h], p)
    BY <2>1 DEF StateOK, TreesFit, TreeFits
  <2>3. p.transmittedLeafNode \in DOMAIN node
        /\ (p.receivedLeafNode # 0 => p.receivedLeafNode \in DOMAIN node)
    BY <2>2 DEF LeavesHang, Hangs
  <2>4. DOMAIN node = 1 .. Len(node) /\ Len(node) \in Nat
    BY <1>1, SeqFacts
  <2> QED
    BY <2>3, <2>4
<1>4. DOMAIN packets \subseteq Headers
  BY DEF StateOK, TreesFit
<1> QED
  BY <1>2, <1>3, <1>4 DEF StateOK, TypeOK, Phases

\* Nodes hold at least one byte and refer to nodes, and every packet has a leaf
\* (Node.java: "every node need to have value"), however many lines are read and in
\* whatever order.
THEOREM NodesStayTyped == Spec => []TypeOK
BY SpecStateOK, StateTypes, PTL

-----------------------------------------------------------------------------
(* The way up                                                              *)

\* The nodes without a parent are the roots of the trees, and every node is linked both
\* ways.
LEMMA RootsFacts ==
  ASSUME StateOK, NEW n \in DOMAIN node
  PROVE  /\ n \in Roots <=> node[n].parent = 0
         /\ n \in InTree
         /\ Path(node)[n] \in Seq(Bytes) /\ Top(node)[n] \in DOMAIN node
<1>1. Linked(node) /\ IsPath(node, Path(node)) /\ IsTop(node, Top(node)) /\ TreesFit(node, packets)
  BY ForestFacts DEF StateOK, TreesFit
<1>2. ASSUME n \in Roots PROVE node[n].parent = 0
  <2>1. PICK h \in DOMAIN packets : n \in {packets[h].root, packets[h].receivedRoot}
    BY <1>2 DEF Roots
  <2>2. IsRoot(node, packets[h].root, h) /\ IsRoot(node, packets[h].receivedRoot, h)
    BY <1>1 DEF TreesFit, TreeFits
  <2> QED
    BY <2>1, <2>2 DEF IsRoot
<1>3. ASSUME node[n].parent = 0 PROVE n \in Roots
  <2>1. PICK h \in DOMAIN packets : n \in {packets[h].root, packets[h].receivedRoot}
    BY <1>1, <1>3 DEF TreesFit
  <2> QED
    BY <2>1 DEF Roots
<1>4. node[n].parent # 0 => n \in Range(node[node[n].parent].childNodes)
  <2> DEFINE p == node[n].parent
  <2>1. p # 0 => /\ node[n].data[1] \in DOMAIN node[p].childNodes
                 /\ node[p].childNodes[node[n].data[1]] = n
    BY <1>1, LinkedFacts
  <2> QED
    BY <2>1 DEF Range
<1>5. n \in InTree
  BY <1>3, <1>4 DEF InTree
<1>6. Path(node)[n] \in Seq(Bytes)
  BY <1>1 DEF IsPath
<1>7. Top(node)[n] \in DOMAIN node
  BY <1>1 DEF IsTop
<1> QED
  BY <1>2, <1>3, <1>5, <1>6, <1>7

\* What is passed on from the root down to every node is the same in all of a tree.
LEMMA ClimbToRoot ==
  ASSUME NEW nodes, Forest(nodes), NEW up,
         \A n \in DOMAIN nodes : /\ nodes[n].parent = 0 => up[n] = n
                                 /\ nodes[n].parent # 0 => up[n] = up[nodes[n].parent]
  PROVE  \A n \in DOMAIN nodes : up[n] = Top(nodes)[n]
<1> DEFINE path == Path(nodes)
           top  == Top(nodes)
           G == {k \in Nat : \A n \in DOMAIN nodes : Len(path[n]) <= k => up[n] = top[n]}
<1>1. Linked(nodes) /\ IsPath(nodes, path) /\ IsTop(nodes, top)
  BY ForestFacts
<1> HIDE DEF path, top
<1>0. \A n \in DOMAIN nodes : Len(path[n]) \in Nat \ {0}
  BY <1>1, PathStep
<1>2. 0 \in G
  BY <1>0
<1>3. ASSUME NEW k \in Nat, k \in G PROVE k + 1 \in G
  <2> SUFFICES ASSUME NEW n \in DOMAIN nodes, Len(path[n]) <= k + 1 PROVE up[n] = top[n]
    OBVIOUS
  <2> DEFINE p == nodes[n].parent
  <2>1. /\ p = 0 => top[n] = n /\ up[n] = n
        /\ p # 0 => top[n] = top[p] /\ up[n] = up[p]
    BY <1>1 DEF IsTop
  <2>2. p # 0 => p \in DOMAIN nodes /\ Len(path[p]) < Len(path[n])
    BY <1>1, PathStep
  <2> HIDE DEF p
  <2>3. p # 0 => Len(path[p]) <= k
    BY <1>0, <2>2
  <2>4. p # 0 => up[p] = top[p]
    BY <1>3, <2>2, <2>3
  <2> QED
    BY <2>1, <2>4
<1> HIDE DEF G
<1>4. \A k \in Nat : k \in G
  BY <1>2, <1>3, SetInduction
<1>5. ASSUME NEW n \in DOMAIN nodes PROVE up[n] = top[n]
  <2>1. Len(path[n]) \in Nat /\ Len(path[n]) <= Len(path[n])
    BY <1>0
  <2>2. Len(path[n]) \in G
    BY <1>4, <2>1
  <2> QED
    BY <2>1, <2>2 DEF G
<1> QED
  BY <1>5 DEF top

\* Bytes collected from the root down to a node are the path of the node.
LEMMA ClimbWithData ==
  ASSUME NEW nodes, Forest(nodes), NEW up,
         \A n \in DOMAIN nodes :
           /\ nodes[n].parent = 0 => up[n] = nodes[n].data
           /\ nodes[n].parent # 0 => up[n] = Both(up[nodes[n].parent], nodes[n].data)
  PROVE  \A n \in DOMAIN nodes : up[n] = Path(nodes)[n]
<1> DEFINE path == Path(nodes)
           G == {k \in Nat : \A n \in DOMAIN nodes : Len(path[n]) <= k => up[n] = path[n]}
<1>1. Linked(nodes) /\ IsPath(nodes, path)
  BY ForestFacts
<1> HIDE DEF path
<1>0. \A n \in DOMAIN nodes : Len(path[n]) \in Nat \ {0}
  BY <1>1, PathStep
<1>2. 0 \in G
  BY <1>0
<1>3. ASSUME NEW k \in Nat, k \in G PROVE k + 1 \in G
  <2> SUFFICES ASSUME NEW n \in DOMAIN nodes, Len(path[n]) <= k + 1 PROVE up[n] = path[n]
    OBVIOUS
  <2> DEFINE p == nodes[n].parent
             d == nodes[n].data
  <2>1. /\ p = 0 => path[n] = d /\ up[n] = d
        /\ p # 0 => path[n] = Both(path[p], d) /\ up[n] = Both(up[p], d)
    BY <1>1 DEF IsPath
  <2>2. p # 0 => p \in DOMAIN nodes /\ Len(path[p]) < Len(path[n])
    BY <1>1, PathStep
  <2> HIDE DEF p, d
  <2>3. p # 0 => Len(path[p]) <= k
    BY <1>0, <2>2
  <2>4. p # 0 => up[p] = path[p]
    BY <1>3, <2>2, <2>3
  <2> QED
    BY <2>1, <2>4
<1> HIDE DEF G
<1>4. \A k \in Nat : k \in G
  BY <1>2, <1>3, SetInduction
<1>5. ASSUME NEW n \in DOMAIN nodes PROVE up[n] = path[n]
  <2>1. Len(path[n]) \in Nat /\ Len(path[n]) <= Len(path[n])
    BY <1>0
  <2>2. Len(path[n]) \in G
    BY <1>4, <2>1
  <2> QED
    BY <2>1, <2>2 DEF G
<1> QED
  BY <1>5 DEF path

\* The root above a node, from the root above its parent.
Above(up, n) ==
  IF n \in Roots \/ n = 0 THEN n
  ELSE IF n \in InTree THEN up[node[n].parent] ELSE 0

\* The climb of RootAbove ends at the root of the forest above the node.
LEMMA RootAboveIsTop ==
  ASSUME StateOK, NEW leaf \in DOMAIN node
  PROVE  RootAbove(leaf) = Top(node)[leaf]
<1> DEFINE top == Top(node)
           all == 0 .. Len(node)
           wit == [n \in all |-> IF n = 0 THEN 0 ELSE top[n]]
           up  == CHOOSE u : u = [n \in all |-> Above(u, n)]
<1>1. Forest(node) /\ Linked(node) /\ IsTop(node, top) /\ node \in Seq(Nodes)
  BY ForestFacts DEF StateOK, TreesFit, Forest, Linked
<1>2. Len(node) \in Nat /\ DOMAIN node = 1 .. Len(node)
  BY <1>1, SeqFacts
<1>3. \A n \in all : n = 0 \/ n \in DOMAIN node
  BY <1>2
<1>4. \A n \in DOMAIN node : /\ n # 0 /\ n \in all
                             /\ n \in Roots <=> node[n].parent = 0
                             /\ n \in InTree
                             /\ node[n].parent # 0 => node[n].parent \in DOMAIN node
  <2>1. \A n \in DOMAIN node : node[n].parent # 0 => node[n].parent \in DOMAIN node
    BY <1>1, LinkedFacts
  <2> QED
    BY <1>2, <2>1, RootsFacts
<1> HIDE DEF top, all
<1>5. \A n \in all : wit[n] = IF n = 0 THEN 0 ELSE top[n]
  OBVIOUS
<1> HIDE DEF wit
<1>6. \A n \in all : wit[n] = Above(wit, n)
  <2> SUFFICES ASSUME NEW n \in all PROVE wit[n] = Above(wit, n)
    OBVIOUS
  <2>1. CASE n = 0
    BY <1>5, <2>1 DEF Above
  <2>2. CASE n # 0
    <3>1. n \in DOMAIN node
      BY <1>3, <2>2
    <3>2. CASE node[n].parent = 0
      <4>1. top[n] = n
        BY <1>1, <3>1, <3>2 DEF IsTop
      <4>2. n \in Roots
        BY <1>4, <3>1, <3>2
      <4> QED
        BY <1>5, <2>2, <4>1, <4>2 DEF Above
    <3>3. CASE node[n].parent # 0
      <4>1. top[n] = top[node[n].parent]
        BY <1>1, <3>1, <3>3 DEF IsTop
      <4>2. n \notin Roots /\ n \in InTree /\ node[n].parent \in all
        BY <1>4, <3>1, <3>3
      <4>3. wit[node[n].parent] = top[node[n].parent]
        BY <1>5, <3>3, <4>2
      <4> QED
        BY <1>5, <2>2, <4>1, <4>2, <4>3 DEF Above
    <3> QED
      BY <3>2, <3>3
  <2> QED
    BY <2>1, <2>2
<1>7. \E u : u = [n \in all |-> Above(u, n)]
  <2>1. wit = [n \in all |-> Above(wit, n)]
    <3>1. wit = [n \in all |-> wit[n]]
      BY DEF wit
    <3> QED
      BY <1>6, <3>1, Zenon
  <2> QED
    BY <2>1
<1>8. up = [n \in all |-> Above(up, n)]
  BY <1>7, Zenon
<1>9. RootAbove(leaf) = up[leaf]
  BY Zenon DEF RootAbove, Above, all
<1> HIDE DEF up
<1>10. \A n \in all : up[n] = Above(up, n)
  BY <1>8, Zenon
<1>11. ASSUME NEW n \in DOMAIN node
       PROVE  /\ node[n].parent = 0 => up[n] = n
              /\ node[n].parent # 0 => up[n] = up[node[n].parent]
  BY <1>4, <1>10, <1>11 DEF Above
<1>12. up[leaf] = Top(node)[leaf]
  BY <1>1, <1>11, ClimbToRoot
<1> QED
  BY <1>9, <1>12

\* The root of a tree is the root above itself.
LEMMA RootOfRoot ==
  ASSUME StateOK, NEW h \in DOMAIN packets
  PROVE  Top(node)[packets[h].root] = packets[h].root
  BY ForestFacts DEF StateOK, TreesFit, TreeFits, IsRoot, IsTop

\* The invariant of the trees implies their shape.
LEMMA StateShape == StateOK => TreeShape
<1> SUFFICES ASSUME StateOK PROVE TreeShape
  OBVIOUS
<1>1. Linked(node)
  BY DEF StateOK, TreesFit, Forest
<1>2. ASSUME NEW n \in DOMAIN node, NEW b \in DOMAIN node[n].childNodes
      PROVE  LET c == node[n].childNodes[b] IN node[c].parent = n /\ node[c].data[1] = b
  BY <1>1, LinkedFacts
<1>3. ASSUME NEW h \in DOMAIN packets, NEW p \in Range(packets[h].streamPackets)
      PROVE  /\ RootAbove(p.transmittedLeafNode) = packets[h].root
             /\ p.receivedLeafNode # 0 => RootAbove(p.receivedLeafNode) = packets[h].receivedRoot
  <2>1. PICK i \in DOMAIN packets[h].streamPackets : p = packets[h].streamPackets[i]
    BY DEF Range
  <2>2. LeavesHang(node, packets[h], p)
    BY <2>1 DEF StateOK, TreesFit, TreeFits
  <2> QED
    BY <2>2, RootAboveIsTop DEF LeavesHang, Hangs
<1> QED
  BY <1>2, <1>3 DEF TreeShape

\* Child maps and parent references agree, and the leaf of every packet hangs below the
\* root of its header: no division and no turn of simplifyNodes leaves a packet outside of
\* what is drawn from the root.
THEOREM TreesKeepTheirShape == Spec => []TreeShape
BY SpecStateOK, StateShape, PTL

-----------------------------------------------------------------------------
(* What is read from a leaf                                                *)

Below(up, n) == IF n = 0 THEN <<>> ELSE up[node[n].parent] \o node[n].data

\* Node.getDataFromLeafNode yields the path of the leaf.
LEMMA DataIsPath ==
  ASSUME StateOK, NEW leaf \in DOMAIN node
  PROVE  getDataFromLeafNode(leaf) = Path(node)[leaf]
<1> DEFINE path == Path(node)
           all == 0 .. Len(node)
           wit == [n \in all |-> IF n = 0 THEN <<>> ELSE path[n]]
           up  == CHOOSE u : u = [n \in all |-> Below(u, n)]
<1>1. Forest(node) /\ Linked(node) /\ IsPath(node, path) /\ node \in Seq(Nodes)
  BY ForestFacts DEF StateOK, TreesFit, Forest, Linked
<1>2. Len(node) \in Nat /\ DOMAIN node = 1 .. Len(node)
  BY <1>1, SeqFacts
<1>3. \A n \in all : n = 0 \/ n \in DOMAIN node
  BY <1>2
<1>4. \A n \in DOMAIN node : /\ n # 0 /\ n \in all /\ 0 \in all
                             /\ node[n].parent # 0 => node[n].parent \in DOMAIN node
                             /\ node[n].data \in Seq(Bytes)
  <2>1. \A n \in DOMAIN node : /\ node[n].parent # 0 => node[n].parent \in DOMAIN node
                               /\ node[n].data \in Seq(Bytes)
    BY <1>1, LinkedFacts
  <2> QED
    BY <1>2, <2>1
<1> HIDE DEF path, all
<1>5. \A n \in all : wit[n] = IF n = 0 THEN <<>> ELSE path[n]
  OBVIOUS
<1> HIDE DEF wit
<1>0. \A d \in Seq(Bytes) : <<>> \o d = d
  OBVIOUS
<1>6. \A n \in all : wit[n] = Below(wit, n)
  <2> SUFFICES ASSUME NEW n \in all PROVE wit[n] = Below(wit, n)
    OBVIOUS
  <2>1. CASE n = 0
    BY <1>5, <2>1 DEF Below
  <2>2. CASE n # 0
    <3>1. n \in DOMAIN node /\ node[n].data \in Seq(Bytes)
      BY <1>3, <1>4, <2>2
    <3>2. CASE node[n].parent = 0
      <4>1. path[n] = node[n].data
        BY <1>1, <3>1, <3>2 DEF IsPath
      <4>2. wit[0] = <<>>
        BY <1>4, <1>5, <3>1
      <4>3. <<>> \o node[n].data = node[n].data
        BY <1>0, <3>1
      <4> QED
        BY <1>5, <2>2, <3>2, <4>1, <4>2, <4>3, Zenon DEF Below
    <3>3. CASE node[n].parent # 0
      <4>1. path[n] = path[node[n].parent] \o node[n].data
        BY <1>1, <3>1, <3>3 DEF IsPath, Both
      <4>2. node[n].parent \in all
        BY <1>4, <3>1, <3>3
      <4>3. wit[node[n].parent] = path[node[n].parent]
        BY <1>5, <3>3, <4>2
      <4> QED
        BY <1>5, <2>2, <4>1, <4>3, Zenon DEF Below
    <3> QED
      BY <3>2, <3>3
  <2> QED
    BY <2>1, <2>2
<1>7. \E u : u = [n \in all |-> Below(u, n)]
  <2>1. wit = [n \in all |-> Below(wit, n)]
    <3>1. wit = [n \in all |-> wit[n]]
      BY DEF wit
    <3> QED
      BY <1>6, <3>1, Zenon
  <2> QED
    BY <2>1
<1>8. up = [n \in all |-> Below(up, n)]
  BY <1>7, Zenon
<1>9. getDataFromLeafNode(leaf) = up[leaf]
  BY Zenon DEF getDataFromLeafNode, Below, all
<1> HIDE DEF up
<1>10. \A n \in all : up[n] = Below(up, n)
  BY <1>8, Zenon
<1>11. ASSUME NEW n \in DOMAIN node
       PROVE  /\ node[n].parent = 0 => up[n] = node[n].data
              /\ node[n].parent # 0 => up[n] = Both(up[node[n].parent], node[n].data)
  <2>1. up[n] = up[node[n].parent] \o node[n].data
    BY <1>4, <1>10, <1>11, Zenon DEF Below
  <2>2. up[0] = <<>>
    BY <1>4, <1>10, <1>11, Zenon DEF Below
  <2>3. <<>> \o node[n].data = node[n].data
    BY <1>0, <1>4
  <2> QED
    BY <2>1, <2>2, <2>3, Zenon DEF Both
<1>12. up[leaf] = Path(node)[leaf]
  BY <1>1, <1>11, ClimbWithData
<1> QED
  BY <1>9, <1>12

-----------------------------------------------------------------------------
(* The log                                                                 *)

\* The lines of the log that are commands, with their answers.
LogLines == [header : Headers, sent : Texts, answers : Seq(Texts)]

\* The commands of a header among the first k lines, from those among the lines before.
Collect(lg, h, of, k) ==
  IF k = 0 THEN <<>>
  ELSE IF lg[k].header = h THEN Append(of[k - 1], lg[k]) ELSE of[k - 1]

\* Entries, for any log.
EntriesOf(lg, h) ==
  LET of[k \in 0 .. Len(lg)] ==
        IF k = 0 THEN <<>>
        ELSE IF lg[k].header = h THEN Append(of[k - 1], lg[k]) ELSE of[k - 1]
  IN  of[Len(lg)]

IsCollected(lg, h, n, of) == of = [k \in 0 .. n |-> Collect(lg, h, of, k)]

\* A step of the collection depends on the one before it only.
LEMMA CollectDependsOnLast ==
  ASSUME NEW lg, NEW h, NEW v, NEW w, NEW k, k # 0 => v[k - 1] = w[k - 1]
  PROVE  Collect(lg, h, v, k) = Collect(lg, h, w, k)
<1>1. CASE k = 0
  BY <1>1, Zenon DEF Collect
<1>2. CASE k # 0
  BY <1>2, Zenon DEF Collect
<1> QED
  BY <1>1, <1>2

\* The recursion of Entries has a solution for every number of lines.
LEMMA CollectedExists ==
  ASSUME NEW lg, NEW h
  PROVE  \A n \in Nat : \E of : IsCollected(lg, h, n, of)
<1> DEFINE S == {n \in Nat : \E of : IsCollected(lg, h, n, of)}
<1>1. 0 \in S
  <2> DEFINE w == [k \in 0 .. 0 |-> Collect(lg, h, <<>>, k)]
  <2>1. \A k \in 0 .. 0 : k = 0
    OBVIOUS
  <2>2. \A k \in 0 .. 0 : Collect(lg, h, <<>>, k) = Collect(lg, h, w, k)
    BY <2>1, CollectDependsOnLast, Zenon
  <2>3. IsCollected(lg, h, 0, w)
    BY <2>2, Zenon DEF IsCollected
  <2> QED
    BY <2>3
<1>2. ASSUME NEW n \in Nat, n \in S PROVE n + 1 \in S
  <2>1. PICK v : v = [k \in 0 .. n |-> Collect(lg, h, v, k)]
    BY <1>2 DEF IsCollected
  <2> DEFINE w == [k \in 0 .. n + 1 |-> IF k = n + 1 THEN Collect(lg, h, v, n + 1) ELSE v[k]]
  <2>2. ASSUME NEW k \in 0 .. n + 1 PROVE w[k] = Collect(lg, h, w, k)
    <3>1. ASSUME k # 0 PROVE v[k - 1] = w[k - 1]
      <4>1. k - 1 \in 0 .. n + 1 /\ k - 1 # n + 1
        BY <3>1, <1>2
      <4> QED
        BY <4>1, Zenon
    <3> HIDE DEF w
    <3>2. Collect(lg, h, v, k) = Collect(lg, h, w, k)
      BY <3>1, CollectDependsOnLast, Zenon
    <3>3. CASE k = n + 1
      BY <3>2, <3>3, Zenon DEF w
    <3>4. CASE k # n + 1
      <4>1. k \in 0 .. n
        BY <3>4, <1>2
      <4>2. v[k] = Collect(lg, h, v, k)
        BY <4>1, <2>1, Zenon
      <4> QED
        BY <4>2, <3>2, <3>4, Zenon DEF w
    <3> QED
      BY <3>3, <3>4
  <2>3. w = [k \in 0 .. n + 1 |-> Collect(lg, h, w, k)]
    <3> DEFINE u == [k \in 0 .. n + 1 |-> Collect(lg, h, w, k)]
    <3>1. DOMAIN w = DOMAIN u /\ \A k \in DOMAIN w : w[k] = u[k]
      BY <2>2, Zenon
    <3>2. w = [k \in DOMAIN w |-> w[k]] /\ u = [k \in DOMAIN u |-> u[k]]
      OBVIOUS
    <3> HIDE DEF w, u
    <3>3. w = u
      BY <3>1, <3>2, Zenon
    <3> QED
      BY <3>3, Zenon DEF u
  <2> HIDE DEF w
  <2>4. IsCollected(lg, h, n + 1, w)
    BY <2>3, Zenon DEF IsCollected
  <2> QED
    BY <2>4
<1>3. \A n \in Nat : n \in S
  <2> HIDE DEF S
  <2> QED
    BY <1>1, <1>2, SetInduction
<1> QED
  BY <1>3, Zenon

\* The steps of EntriesOf.
Collects(lg, h, n, of) == \A k \in 0 .. n : of[k] = Collect(lg, h, of, k)

\* Entries is the last of its steps, and each follows from the one before it.
LEMMA EntriesUnfold ==
  ASSUME NEW S, NEW lg \in Seq(S), NEW h
  PROVE  \E of : EntriesOf(lg, h) = of[Len(lg)] /\ Collects(lg, h, Len(lg), of)
<1> DEFINE of == CHOOSE v : v = [k \in 0 .. Len(lg) |-> Collect(lg, h, v, k)]
<1>1. Len(lg) \in Nat
  OBVIOUS
<1>2. \E v : v = [k \in 0 .. Len(lg) |-> Collect(lg, h, v, k)]
  <2>1. \E v : IsCollected(lg, h, Len(lg), v)
    BY <1>1, CollectedExists
  <2> QED
    BY <2>1, Zenon DEF IsCollected
<1>3. of = [k \in 0 .. Len(lg) |-> Collect(lg, h, of, k)]
  BY <1>2, Zenon
<1>4. EntriesOf(lg, h) = of[Len(lg)]
  BY Zenon DEF EntriesOf, Collect
<1> HIDE DEF of
<1>5. Collects(lg, h, Len(lg), of)
  BY <1>3, Zenon DEF Collects
<1> QED
  BY <1>4, <1>5

\* Logs that begin alike are collected alike.
SameLines(a, b, n) == \A k \in 1 .. n : a[k] = b[k]

\* Logs with the same lines have the same commands of a header.
LEMMA CollectedAlike ==
  ASSUME NEW a, NEW b, NEW h, NEW n \in Nat, SameLines(a, b, n),
         NEW v, Collects(a, h, n, v), NEW w, Collects(b, h, n, w)
  PROVE  v[n] = w[n]
<1> DEFINE G == {k \in Nat : k <= n => v[k] = w[k]}
<1>1. 0 \in G
  <2>1. 0 \in 0 .. n
    OBVIOUS
  <2> QED
    BY <2>1 DEF Collect, Collects
<1>2. ASSUME NEW k \in Nat, k \in G PROVE k + 1 \in G
  <2> SUFFICES ASSUME k + 1 <= n PROVE v[k + 1] = w[k + 1]
    OBVIOUS
  <2>1. k + 1 \in 0 .. n /\ k + 1 \in 1 .. n /\ k + 1 # 0 /\ (k + 1) - 1 = k /\ k <= n
    OBVIOUS
  <2>2. v[k] = w[k] /\ a[k + 1] = b[k + 1]
    BY <1>2, <2>1 DEF SameLines
  <2>3. v[k + 1] = Collect(a, h, v, k + 1) /\ w[k + 1] = Collect(b, h, w, k + 1)
    BY <2>1 DEF Collects
  <2> HIDE DEF G
  <2> QED
    BY <2>1, <2>2, <2>3, Zenon DEF Collect
<1> HIDE DEF G
<1>3. \A k \in Nat : k \in G
  BY <1>1, <1>2, SetInduction
<1>4. n \in G
  BY <1>3
<1> QED
  BY <1>4 DEF G

\* An empty log has no commands of a header.
LEMMA EntriesOfNothing ==
  ASSUME NEW h
  PROVE  EntriesOf(<<>>, h) = <<>>
<1>1. <<>> \in Seq({}) /\ Len(<<>>) = 0 /\ 0 \in 0 .. 0
  OBVIOUS
<1>2. PICK of : EntriesOf(<<>>, h) = of[Len(<<>>)] /\ Collects(<<>>, h, Len(<<>>), of)
  BY <1>1, EntriesUnfold
<1> QED
  BY <1>1, <1>2 DEF Collect, Collects

\* One more line.
EntryAdded(lg, x, new, h) ==
  EntriesOf(new, h) = IF x.header = h THEN Append(EntriesOf(lg, h), x) ELSE EntriesOf(lg, h)

\* A line at the end of the log is the last command of its header and of no other.
LEMMA EntriesOfLonger ==
  ASSUME NEW S, NEW lg \in Seq(S), NEW x \in S, NEW new, new = Append(lg, x), NEW h
  PROVE  EntryAdded(lg, x, new, h)
<1> DEFINE n == Len(lg)
<1>1. n \in Nat
  OBVIOUS
<1>2. /\ new \in Seq(S) /\ Len(new) = n + 1 /\ new[n + 1] = x
      /\ \A k \in 1 .. n : new[k] = lg[k]
  OBVIOUS
<1>3. PICK v : EntriesOf(lg, h) = v[n] /\ Collects(lg, h, n, v)
  BY EntriesUnfold
<1> HIDE DEF n
<1>4. PICK w : EntriesOf(new, h) = w[n + 1] /\ Collects(new, h, n + 1, w)
  <2>1. \E w : EntriesOf(new, h) = w[Len(new)] /\ Collects(new, h, Len(new), w)
    BY <1>2, EntriesUnfold
  <2> QED
    BY <1>2, <2>1
<1>5. Collects(new, h, n, w)
  BY <1>1, <1>4 DEF Collects
<1>6. SameLines(lg, new, n)
  BY <1>2 DEF SameLines
<1>7. v[n] = w[n]
  BY <1>1, <1>3, <1>5, <1>6, CollectedAlike
<1>8. n + 1 \in 0 .. n + 1 /\ n + 1 # 0 /\ (n + 1) - 1 = n
  BY <1>1
<1>9. w[n + 1] = IF x.header = h THEN Append(w[n], x) ELSE w[n]
  BY <1>2, <1>4, <1>8, Zenon DEF Collect, Collects
<1> QED
  BY <1>3, <1>4, <1>7, <1>9, Zenon DEF EntryAdded

\* A log with a line is a shorter one and that line.
LEMMA LogEnds ==
  ASSUME NEW S, NEW lg \in Seq(S), lg # <<>>
  PROVE  \E front \in Seq(S), x \in S : lg = Append(front, x)
<1>1. Len(lg) \in Nat \ {0}
  OBVIOUS
<1> DEFINE m == Len(lg) - 1
           f == SubSeq(lg, 1, m)
           x == lg[Len(lg)]
<1>5. m \in Nat /\ m <= Len(lg) /\ x \in S
  BY <1>1
<1>6. \A i \in 1 .. m : lg[i] \in S
  BY <1>1
<1>2. f \in Seq(S) /\ Len(f) = m
  <2> HIDE DEF m
  <2> QED
    BY <1>1, <1>5, <1>6
<1>3. \A i \in 1 .. Len(lg) - 1 : f[i] = lg[i]
  BY <1>1
<1>4. Append(f, x) = lg
  <2> HIDE DEF f
  <2>1. Append(f, x) \in Seq(S) /\ Len(Append(f, x)) = Len(lg)
    BY <1>1, <1>2, <1>5
  <2>2. \A i \in 1 .. Len(lg) : Append(f, x)[i] = lg[i]
    BY <1>1, <1>2, <1>3, <1>5
  <2> QED
    BY <2>1, <2>2
<1> QED
  BY <1>2, <1>4, <1>5

\* What is collected are lines of the log with the header.
LEMMA EntriesAreLines ==
  ASSUME NEW S, NEW h
  PROVE  \A n \in Nat : \A lg \in Seq(S) : Len(lg) = n => EntriesOf(lg, h) \in Seq(S)
<1> DEFINE G == {n \in Nat : \A lg \in Seq(S) : Len(lg) = n => EntriesOf(lg, h) \in Seq(S)}
<1>1. 0 \in G
  <2>1. ASSUME NEW lg \in Seq(S), Len(lg) = 0 PROVE EntriesOf(lg, h) \in Seq(S)
    <3>1. lg = <<>>
      BY <2>1
    <3>2. EntriesOf(lg, h) = <<>>
      BY <3>1, EntriesOfNothing
    <3> QED
      BY <3>2
  <2> QED
    BY <2>1
<1>2. ASSUME NEW n \in Nat, n \in G PROVE n + 1 \in G
  <2>1. ASSUME NEW lg \in Seq(S), Len(lg) = n + 1 PROVE EntriesOf(lg, h) \in Seq(S)
    <3>1. lg # <<>>
      BY <2>1
    <3>2. PICK f \in Seq(S), x \in S : lg = Append(f, x)
      BY <3>1, LogEnds
    <3>3. Len(f) = n
      BY <2>1, <3>2
    <3>4. EntriesOf(f, h) \in Seq(S)
      BY <1>2, <3>3
    <3>5. EntryAdded(f, x, lg, h)
      BY <3>2, EntriesOfLonger
    <3>6. Append(EntriesOf(f, h), x) \in Seq(S)
      BY <3>4
    <3> QED
      BY <3>4, <3>5, <3>6, Zenon DEF EntryAdded
  <2> QED
    BY <2>1
<1> HIDE DEF G
<1>3. \A n \in Nat : n \in G
  BY <1>1, <1>2, SetInduction
<1> QED
  BY <1>3 DEF G

-----------------------------------------------------------------------------
(* Packets and the log                                                     *)

\* A leaf has a text below its header, or more of one of the earlier texts.
LeafReads(nodes, leaf, h, s, earlier) ==
  LET p     == Path(nodes)[leaf]
      whole == Both(h, s)
  IN  p = whole \/ (IsPrefix(whole, p) /\ \E e \in earlier : IsPrefix(p, Both(h, e)))

SentBefore(es, i)   == {es[j].sent : j \in 1 .. i - 1}
AnsweredUpTo(es, i) == UNION {Range(es[j].answers) : j \in 1 .. i}

\* A packet reads as its line: the command, and the last answer if there was one.
PacketReads(nodes, p, h, es, i) ==
  /\ LeafReads(nodes, p.transmittedLeafNode, h, es[i].sent, SentBefore(es, i))
  /\ es[i].answers = <<>> => p.receivedLeafNode = 0
  /\ es[i].answers # <<>> =>
       /\ p.receivedLeafNode # 0
       /\ LeafReads(nodes, p.receivedLeafNode, h, Last(es[i].answers), AnsweredUpTo(es, i))

SentIn(es)     == {es[j].sent : j \in DOMAIN es}
AnsweredIn(es) == UNION {Range(es[j].answers) : j \in DOMAIN es}

\* Every node below a root has the front of a text.
Covered(nodes, root, h, ss) ==
  \A n \in DOMAIN nodes : nodes[n].parent # 0 /\ Top(nodes)[n] = root =>
    \E s \in ss : IsPrefix(Path(nodes)[n], Both(h, s))

\* A tree reads as the lines with its header, packet by packet, and every node of it is
\* covered by one of their texts.
TreeReads(nodes, t, h, es) ==
  /\ es \in Seq(LogLines) /\ Len(es) = Len(t.streamPackets)
  /\ \A i \in DOMAIN es : PacketReads(nodes, t.streamPackets[i], h, es, i)
  /\ Covered(nodes, t.root, h, SentIn(es))
  /\ Covered(nodes, t.receivedRoot, h, AnsweredIn(es))

\* The trees read as the log.
LogReads(nodes, ps, lg) ==
  /\ lg \in Seq(LogLines)
  /\ \A k \in DOMAIN lg : lg[k].header \in DOMAIN ps
  /\ \A h \in DOMAIN ps : TreeReads(nodes, ps[h], h, EntriesOf(lg, h))

\* Every node of a grown tree is still covered by a text, if the new ones are.
LEMMA CoveredGrown ==
  ASSUME NEW nodes, NEW root, NEW h, NEW ss, Covered(nodes, root, h, ss),
         NEW new, Grown(nodes, new), NEW more, ss \subseteq more,
         \A n \in DOMAIN new \ DOMAIN nodes : Top(new)[n] = root =>
           \E s \in more : IsPrefix(Path(new)[n], Both(h, s))
  PROVE  Covered(new, root, h, more)
<1> SUFFICES ASSUME NEW n \in DOMAIN new, new[n].parent # 0, Top(new)[n] = root
             PROVE  \E s \in more : IsPrefix(Path(new)[n], Both(h, s))
  BY DEF Covered
<1>1. CASE n \in DOMAIN nodes
  <2>1. nodes[n].parent # 0 /\ Top(nodes)[n] = root /\ Path(new)[n] = Path(nodes)[n]
    BY <1>1 DEF Grown
  <2> QED
    BY <1>1, <2>1 DEF Covered
<1> QED
  BY <1>1

\* A leaf reads as before when the forest has grown.
LEMMA ReadsGrown ==
  ASSUME NEW nodes, NEW leaf \in DOMAIN nodes, NEW h, NEW s, NEW earlier,
         LeafReads(nodes, leaf, h, s, earlier), NEW new, Grown(nodes, new),
         NEW more, earlier \subseteq more
  PROVE  LeafReads(new, leaf, h, s, more)
  BY DEF LeafReads, Grown

\* So does a packet.
LEMMA PacketReadsGrown ==
  ASSUME NEW nodes, NEW t, NEW p, LeavesHang(nodes, t, p), NEW h, NEW es, NEW i,
         PacketReads(nodes, p, h, es, i), NEW new, Grown(nodes, new)
  PROVE  PacketReads(new, p, h, es, i)
<1>1. p.transmittedLeafNode \in DOMAIN nodes
      /\ (p.receivedLeafNode # 0 => p.receivedLeafNode \in DOMAIN nodes)
  BY DEF LeavesHang, Hangs
<1>2. LeafReads(new, p.transmittedLeafNode, h, es[i].sent, SentBefore(es, i))
  BY <1>1, ReadsGrown DEF PacketReads
<1>3. es[i].answers # <<>> =>
       /\ p.receivedLeafNode # 0
       /\ LeafReads(new, p.receivedLeafNode, h, Last(es[i].answers), AnsweredUpTo(es, i))
  BY <1>1, ReadsGrown DEF PacketReads
<1> QED
  BY <1>2, <1>3 DEF PacketReads

\* So does a tree.
LEMMA TreeReadsGrown ==
  ASSUME NEW nodes, NEW t, NEW h, TreeFits(nodes, t, h), NEW es, TreeReads(nodes, t, h, es),
         NEW new, Grown(nodes, new),
         Covered(new, t.root, h, SentIn(es)), Covered(new, t.receivedRoot, h, AnsweredIn(es))
  PROVE  TreeReads(new, t, h, es)
<1>1. ASSUME NEW i \in DOMAIN es PROVE PacketReads(new, t.streamPackets[i], h, es, i)
  <2>1. i \in DOMAIN t.streamPackets
    <3>1. es \in Seq(LogLines) /\ t.streamPackets \in Seq(Leaves) /\ Len(es) = Len(t.streamPackets)
      BY TreeParts DEF TreeReads, TreeFits
    <3> DEFINE sp == t.streamPackets
    <3> HIDE DEF sp
    <3>2. i \in DOMAIN sp
      BY <3>1, SeqFacts DEF sp
    <3> QED
      BY <3>2 DEF sp
  <2>2. LeavesHang(nodes, t, t.streamPackets[i])
    BY <2>1 DEF TreeFits
  <2> QED
    BY <2>2, PacketReadsGrown DEF TreeReads
<1> QED
  BY <1>1 DEF TreeReads

\* A merged stream reads back from its leaf, and covers the new nodes.
LEMMA MergedReads ==
  ASSUME NEW nodes, Forest(nodes), NEW root, NEW h, IsRoot(nodes, root, h), NEW ss,
         Covered(nodes, root, h, ss), NEW stream, NEW new, NEW leaf,
         Merged(nodes, root, stream, new, leaf)
  PROVE  LeafReads(new, leaf, h, stream, ss) /\ Covered(new, root, h, ss \cup {stream})
<1>1. Grown(nodes, new) /\ leaf \in DOMAIN new /\ new[leaf].parent # 0
  BY DEF Merged
<1>2. Top(nodes)[root] = root /\ Path(nodes)[root] = h
  BY ForestFacts DEF IsRoot, IsTop
<1>3. LeafReads(new, leaf, h, stream, ss)
  <2>1. CASE Path(new)[leaf] = Both(h, stream)
    BY <2>1 DEF LeafReads
  <2>2. CASE leaf \in DOMAIN nodes /\ IsPrefix(Both(h, stream), Path(nodes)[leaf])
    <3>1. Top(nodes)[leaf] = root /\ nodes[leaf].parent # 0 /\ Path(new)[leaf] = Path(nodes)[leaf]
      BY <1>1, <1>2, <2>2 DEF Merged, Grown
    <3>2. PICK e \in ss : IsPrefix(Path(nodes)[leaf], Both(h, e))
      BY <2>2, <3>1 DEF Covered
    <3> QED
      BY <2>2, <3>1, <3>2 DEF LeafReads
  <2> QED
    BY <1>2, <2>1, <2>2 DEF Merged
<1>4. \A n \in DOMAIN new \ DOMAIN nodes : IsPrefix(Path(new)[n], Both(h, stream))
  BY <1>2 DEF Merged
<1>5. Covered(new, root, h, ss \cup {stream})
  <2> DEFINE more == ss \cup {stream}
  <2>1. ss \subseteq more /\ stream \in more
    OBVIOUS
  <2> HIDE DEF more
  <2>2. \A n \in DOMAIN new \ DOMAIN nodes : Top(new)[n] = root =>
          \E s \in more : IsPrefix(Path(new)[n], Both(h, s))
    BY <1>4, <2>1
  <2>3. Covered(new, root, h, more)
    BY <1>1, <2>1, <2>2, CoveredGrown
  <2> QED
    BY <2>3 DEF more
<1> QED
  BY <1>3, <1>5

\* Another tree does not notice.
LEMMA MergedElsewhere ==
  ASSUME NEW nodes, Forest(nodes), NEW root \in DOMAIN nodes, nodes[root].parent = 0,
         NEW stream, NEW new, NEW leaf, Merged(nodes, root, stream, new, leaf),
         NEW other, other # root, NEW h, NEW ss, Covered(nodes, other, h, ss)
  PROVE  Covered(new, other, h, ss)
<1>1. Top(nodes)[root] = root
  BY ForestFacts DEF IsTop
<1>2. \A n \in DOMAIN new \ DOMAIN nodes : Top(new)[n] = root
  BY <1>1 DEF Merged
<1>3. Grown(nodes, new)
  BY DEF Merged
<1>4. \A n \in DOMAIN new \ DOMAIN nodes : Top(new)[n] = other =>
           \E s \in ss : IsPrefix(Path(new)[n], Both(h, s))
  BY <1>2
<1>5. ss \subseteq ss
  OBVIOUS
<1> QED
  BY <1>3, <1>4, <1>5, CoveredGrown

\* Roots of different headers are different nodes.
LEMMA RootsApart ==
  ASSUME NEW nodes, NEW ps, TreesFit(nodes, ps), NEW g \in DOMAIN ps, NEW h \in DOMAIN ps, g # h
  PROVE  /\ ps[g].root # ps[h].root /\ ps[g].root # ps[h].receivedRoot
         /\ ps[g].receivedRoot # ps[h].root /\ ps[g].receivedRoot # ps[h].receivedRoot
  BY DEF TreesFit, TreeFits, IsRoot

\* Cutting a node into bytes.
LEMMA SimplifiedCovers ==
  ASSUME NEW nodes, Forest(nodes), NEW n \in DOMAIN nodes, nodes[n].parent # 0,
         Len(nodes[n].data) > 1, NEW new, new = Simplified(nodes, n),
         NEW root, NEW h \in Seq(Bytes), NEW ss, ss \subseteq Seq(Bytes), Covered(nodes, root, h, ss)
  PROVE  Covered(new, root, h, ss)
<1> DEFINE d == nodes[n].data
           q == nodes[n].parent
<1>1. Linked(nodes) /\ IsPath(nodes, Path(nodes))
  BY ForestFacts
<1>2. /\ Grown(nodes, new)
      /\ \A i \in DOMAIN new \ DOMAIN nodes :
           /\ Top(new)[i] = Top(nodes)[n]
           /\ i - Len(nodes) \in 1 .. Len(d) - 1
           /\ Path(new)[i] = Both(Path(nodes)[q], SubSeq(d, 1, i - Len(nodes)))
  BY SimplifiedGrown
<1>3. /\ q \in DOMAIN nodes /\ d \in Seq(Bytes) /\ Path(nodes)[q] \in Seq(Bytes)
      /\ Path(nodes)[n] = Both(Path(nodes)[q], d) /\ Path(nodes)[n] \in Seq(Bytes)
  <2>1. q \in DOMAIN nodes /\ d \in Seq(Bytes)
    BY <1>1, LinkedFacts
  <2> QED
    BY <1>1, <2>1 DEF IsPath
<1> HIDE DEF d, q
<1>4. ASSUME NEW i \in DOMAIN new \ DOMAIN nodes, Top(new)[i] = root
      PROVE  \E s \in ss : IsPrefix(Path(new)[i], Both(h, s))
  <2>1. Top(nodes)[n] = root
    BY <1>2, <1>4
  <2>2. PICK s \in ss : IsPrefix(Path(nodes)[n], Both(h, s))
    BY <2>1 DEF Covered
  <2> DEFINE k == i - Len(nodes)
  <2>3. k \in 0 .. Len(d)
    <3>1. k \in 1 .. Len(d) - 1 /\ Len(d) \in Nat
      BY <1>2, <1>3
    <3> HIDE DEF k
    <3> QED
      BY <3>1
  <2>4. Path(new)[i] = Both(Path(nodes)[q], SubSeq(d, 1, k))
    BY <1>2
  <2> HIDE DEF k
  <2>5. IsPrefix(Both(Path(nodes)[q], SubSeq(d, 1, k)), Both(Path(nodes)[q], d))
    BY <1>3, <2>3, PrefixBelow
  <2> DEFINE a == Path(new)[i]
             b == Path(nodes)[n]
             c == Both(h, s)
  <2>6. IsPrefix(a, b) /\ IsPrefix(b, c)
    BY <1>3, <2>2, <2>4, <2>5
  <2>7. b \in Seq(Bytes) /\ c \in Seq(Bytes)
    BY <1>3, BothFacts
  <2>8. a \in Seq(Bytes)
    BY <1>2, ForestFacts DEF Grown, IsPath
  <2> HIDE DEF a, b, c
  <2>9. Len(a) <= Len(b) /\ (\A j \in 1 .. Len(a) : a[j] = b[j])
    BY <2>6, <2>7, <2>8, PrefixFacts
  <2>10. Len(b) <= Len(c) /\ (\A j \in 1 .. Len(b) : b[j] = c[j])
    BY <2>6, <2>7, PrefixFacts
  <2>11. Len(a) \in Nat /\ Len(b) \in Nat /\ Len(c) \in Nat
    BY <2>7, <2>8
  <2>12. Len(a) <= Len(c) /\ \A j \in 1 .. Len(a) : a[j] = c[j]
    BY <2>9, <2>10, <2>11
  <2>13. IsPrefix(a, c)
    BY <2>7, <2>8, <2>12, PrefixFacts
  <2> QED
    BY <2>13 DEF a, c
<1>5. ss \subseteq ss
  OBVIOUS
<1> QED
  BY <1>2, <1>4, <1>5, CoveredGrown

\* How a packet reads depends on the commands up to it only.
LEMMA PacketReadsSame ==
  ASSUME NEW nodes, NEW p, NEW h, NEW es, NEW i \in Nat \ {0}, PacketReads(nodes, p, h, es, i),
         NEW es2, SameLines(es, es2, i)
  PROVE  PacketReads(nodes, p, h, es2, i)
<1>1. \A j \in 1 .. i : es[j] = es2[j]
  BY DEF SameLines
<1>2. i \in 1 .. i /\ \A j \in 1 .. i - 1 : j \in 1 .. i
  OBVIOUS
<1>3. SentBefore(es2, i) = SentBefore(es, i) /\ AnsweredUpTo(es2, i) = AnsweredUpTo(es, i)
  BY <1>1, <1>2 DEF SentBefore, AnsweredUpTo
<1>4. es2[i] = es[i]
  BY <1>1, <1>2
<1> QED
  BY <1>3, <1>4 DEF PacketReads

\* A tree takes the place of another.
Replaced(ps, h, t, qs) ==
  DOMAIN qs = DOMAIN ps /\ qs[h] = t /\ \A g \in DOMAIN ps : g # h => qs[g] = ps[g]

\* One more packet replaces one tree.
LEMMA ReplacedByAppend ==
  ASSUME NEW ps, NEW h \in DOMAIN ps, ps[h] \in Trees, NEW p,
         NEW qs, qs = [ps EXCEPT ![h].streamPackets = Append(@, p)]
  PROVE  Replaced(ps, h, TreeRecord(ps[h].root, ps[h].receivedRoot,
                                    Append(ps[h].streamPackets, p)), qs)
<1> DEFINE sp == Append(ps[h].streamPackets, p)
           u  == TreeRecord(ps[h].root, ps[h].receivedRoot, sp)
<1>1. qs = [ps EXCEPT ![h] = [ps[h] EXCEPT !.streamPackets = sp]]
  OBVIOUS
<1>2. [ps[h] EXCEPT !.streamPackets = sp] = u
  <2> HIDE DEF sp
  <2> QED
    BY NewPackets
<1>3. qs = [ps EXCEPT ![h] = u]
  BY <1>1, <1>2
<1> HIDE DEF u
<1>4. Replaced(ps, h, u, qs)
  BY <1>3 DEF Replaced
<1> QED
  BY <1>4 DEF u

Changed(s, k, p) == [s EXCEPT ![k] = p]

\* A changed packet replaces one tree.
LEMMA ReplacedByChange ==
  ASSUME NEW ps, NEW h \in DOMAIN ps, ps[h] \in Trees, NEW k, NEW p,
         NEW qs, qs = [ps EXCEPT ![h].streamPackets[k] = p]
  PROVE  Replaced(ps, h, TreeRecord(ps[h].root, ps[h].receivedRoot,
                                    Changed(ps[h].streamPackets, k, p)), qs)
<1> DEFINE sp == Changed(ps[h].streamPackets, k, p)
           u  == TreeRecord(ps[h].root, ps[h].receivedRoot, sp)
<1>1. qs = [ps EXCEPT ![h] = [ps[h] EXCEPT !.streamPackets = sp]]
  BY DEF Changed
<1>2. [ps[h] EXCEPT !.streamPackets = sp] = u
  <2> HIDE DEF sp
  <2> QED
    BY NewPackets
<1>3. qs = [ps EXCEPT ![h] = u]
  BY <1>1, <1>2
<1> HIDE DEF u
<1>4. Replaced(ps, h, u, qs)
  BY <1>3 DEF Replaced
<1> QED
  BY <1>4 DEF u

\* Packet.setReceivedLeafNode, on the record.
LEMMA LeafChanged ==
  ASSUME NEW p \in Leaves, NEW leaf
  PROVE  [p EXCEPT !.receivedLeafNode = leaf] = LeafRecord(p.transmittedLeafNode, leaf, p.ac)
<1>1. PICK a, b, c : p = LeafRecord(a, b, c)
  BY LeafParts, Zenon
<1>2. p.transmittedLeafNode = a /\ p.ac = c
  BY <1>1, LeafFields
<1>3. [p EXCEPT !.receivedLeafNode = leaf] = LeafRecord(a, leaf, c)
  BY <1>1 DEF LeafRecord
<1> QED
  BY <1>2, <1>3

\* The number of a packet, on the record.
LEMMA TimeChanged ==
  ASSUME NEW p \in Leaves, NEW time
  PROVE  [p EXCEPT !.ac = time] = LeafRecord(p.transmittedLeafNode, p.receivedLeafNode, time)
<1>1. PICK a, b, c : p = LeafRecord(a, b, c)
  BY LeafParts, Zenon
<1>2. p.transmittedLeafNode = a /\ p.receivedLeafNode = b
  BY <1>1, LeafFields
<1>3. [p EXCEPT !.ac = time] = LeafRecord(a, b, time)
  BY <1>1 DEF LeafRecord
<1> QED
  BY <1>2, <1>3

\* The trees of other headers read back as before, when a stream is merged below a root.
LEMMA OthersRead ==
  ASSUME NEW nodes, NEW ps, TreesFit(nodes, ps), NEW h \in DOMAIN ps,
         NEW root \in {ps[h].root, ps[h].receivedRoot},
         NEW stream, NEW new, NEW leaf, Merged(nodes, root, stream, new, leaf),
         NEW g \in DOMAIN ps, g # h, NEW es, TreeReads(nodes, ps[g], g, es)
  PROVE  TreeReads(new, ps[g], g, es)
<1>1. /\ Forest(nodes) /\ root \in DOMAIN nodes /\ nodes[root].parent = 0
      /\ TreeFits(nodes, ps[g], g)
  BY DEF TreesFit, TreeFits, IsRoot
<1>2. ps[g].root # root /\ ps[g].receivedRoot # root
  BY RootsApart
<1>3. Grown(nodes, new)
  BY DEF Merged
<1>4. Covered(nodes, ps[g].root, g, SentIn(es)) /\ Covered(nodes, ps[g].receivedRoot, g, AnsweredIn(es))
  BY DEF TreeReads
<1>5. Covered(new, ps[g].root, g, SentIn(es))
  BY <1>1, <1>2, <1>4, MergedElsewhere
<1>6. Covered(new, ps[g].receivedRoot, g, AnsweredIn(es))
  BY <1>1, <1>2, <1>4, MergedElsewhere
<1> QED
  BY <1>1, <1>3, <1>5, <1>6, TreeReadsGrown

\* The lines of a longer log.
LineAdded(es, x, es2) ==
  /\ es2 \in Seq(LogLines) /\ Len(es2) = Len(es) + 1 /\ es2[Len(es) + 1] = x
  /\ DOMAIN es2 = DOMAIN es \cup {Len(es) + 1}
  /\ \A i \in DOMAIN es : i \in Nat \ {0} /\ SameLines(es, es2, i)
  /\ SentBefore(es2, Len(es) + 1) = SentIn(es)
  /\ SentIn(es2) = SentIn(es) \cup {x.sent}
  /\ AnsweredIn(es2) = AnsweredIn(es) \cup Range(x.answers)
  /\ AnsweredUpTo(es2, Len(es) + 1) = AnsweredIn(es2)

\* One more line at the end of the commands of a header.
LEMMA LinesAdded ==
  ASSUME NEW es \in Seq(LogLines), NEW x \in LogLines, NEW es2
  PROVE  es2 = Append(es, x) =>
           LineAdded(es, x, es2)
<1>equal. SUFFICES ASSUME es2 = Append(es, x)
       PROVE  LineAdded(es, x, es2)
  OBVIOUS
<1> USE <1>equal
<1>0. Len(es) \in Nat /\ DOMAIN es = 1 .. Len(es) /\ (Len(es) + 1) - 1 = Len(es)
  BY SeqFacts
<1>1. /\ es2 \in Seq(LogLines) /\ Len(es2) = Len(es) + 1 /\ es2[Len(es) + 1] = x
      /\ DOMAIN es2 = DOMAIN es \cup {Len(es) + 1}
      /\ \A i \in DOMAIN es : es2[i] = es[i]
  BY AppendFacts
<1> HIDE <1>equal
<1>2. \A i \in DOMAIN es : i \in Nat \ {0} /\ SameLines(es, es2, i)
  <2>1. ASSUME NEW i \in DOMAIN es, NEW j \in 1 .. i PROVE j \in DOMAIN es
    BY <1>0
  <2> QED
    BY <1>0, <1>1, <2>1 DEF SameLines
<1>3. SentBefore(es2, Len(es) + 1) = SentIn(es)
  BY <1>0, <1>1 DEF SentBefore, SentIn
<1>4. SentIn(es2) = SentIn(es) \cup {x.sent}
  BY <1>1 DEF SentIn
<1>5. AnsweredIn(es2) = AnsweredIn(es) \cup Range(x.answers)
  BY <1>1 DEF AnsweredIn
<1>6. DOMAIN es2 = 1 .. Len(es) + 1
  BY <1>0, <1>1
<1>7. AnsweredUpTo(es2, Len(es) + 1) = AnsweredIn(es2)
  BY <1>6 DEF AnsweredUpTo, AnsweredIn
<1> QED
  BY <1>1, <1>2, <1>3, <1>4, <1>5, <1>7 DEF LineAdded

\* A function on 1 .. m is a sequence.
LEMMA FunctionIsSeq ==
  ASSUME NEW S, NEW m \in Nat, NEW f \in [1 .. m -> S]
  PROVE  f \in Seq(S) /\ Len(f) = m
  OBVIOUS

\* The tree of a command that is merged.
LEMMA StreamReadBack ==
  ASSUME NEW nodes, Forest(nodes), NEW t, NEW h, TreeFits(nodes, t, h),
         NEW es, TreeReads(nodes, t, h, es),
         NEW x \in LogLines, x.answers = <<>>,
         NEW new, NEW leaf \in Nat, Merged(nodes, t.root, x.sent, new, leaf),
         NEW u, u = TreeRecord(t.root, t.receivedRoot, Append(t.streamPackets, Packet(leaf))),
         NEW es2, es2 = Append(es, x)
  PROVE  TreeReads(new, u, h, es2)
<1> DEFINE sp == t.streamPackets
           sp2 == Append(sp, Packet(leaf))
           n == Len(es)
<1>1. es \in Seq(LogLines) /\ n = Len(sp)
  BY DEF TreeReads
<1>2. t \in Trees /\ t.root # t.receivedRoot /\ IsRoot(nodes, t.root, h)
  BY DEF TreeFits
<1>3. u.root = t.root /\ u.receivedRoot = t.receivedRoot /\ u.streamPackets = sp2
  BY DEF TreeRecord
<1>4. Packet(leaf) = LeafRecord(leaf, 0, 0) /\ Packet(leaf) \in Leaves
  BY PacketIsLeaf
<1>5. Packet(leaf).transmittedLeafNode = leaf /\ Packet(leaf).receivedLeafNode = 0
  BY <1>4, LeafFields
<1>6. sp \in Seq(Leaves)
  BY <1>2, TreeParts
<1>0. LineAdded(es, x, es2)
  BY <1>1, LinesAdded
<1>7. /\ es2 \in Seq(LogLines) /\ Len(es2) = n + 1 /\ es2[n + 1] = x
      /\ DOMAIN es2 = DOMAIN es \cup {n + 1}
  BY <1>0, <1>1 DEF LineAdded
<1>8. \A i \in DOMAIN es : i \in Nat \ {0} /\ SameLines(es, es2, i)
  BY <1>0, <1>1 DEF LineAdded
<1>9. SentBefore(es2, n + 1) = SentIn(es) /\ SentIn(es2) = SentIn(es) \cup {x.sent}
  BY <1>0, <1>1 DEF LineAdded
<1>10. AnsweredIn(es2) = AnsweredIn(es)
  <2>1. AnsweredIn(es2) = AnsweredIn(es) \cup Range(x.answers)
    BY <1>0, <1>1 DEF LineAdded
  <2>2. Range(<<>>) = {}
    BY DEF Range
  <2> QED
    BY <2>1, <2>2
<1>11. /\ Len(sp2) = n + 1 /\ sp2[n + 1] = Packet(leaf)
       /\ \A i \in DOMAIN es : sp2[i] = sp[i] /\ i \in DOMAIN sp
  <2> DEFINE p == Packet(leaf)
  <2>1. p \in Leaves
    BY <1>4
  <2> HIDE DEF p, sp
  <2>2. Len(Append(sp, p)) = Len(sp) + 1 /\ Append(sp, p)[Len(sp) + 1] = p
        /\ \A i \in DOMAIN sp : Append(sp, p)[i] = sp[i]
    BY <1>6, <2>1, AppendFacts
  <2>3. DOMAIN es = DOMAIN sp
    BY <1>1, <1>6, SeqFacts
  <2> QED
    BY <1>1, <2>2, <2>3 DEF p
<1>12. /\ Covered(nodes, t.root, h, SentIn(es)) /\ Covered(nodes, t.receivedRoot, h, AnsweredIn(es))
       /\ \A i \in DOMAIN es : PacketReads(nodes, sp[i], h, es, i)
  BY DEF TreeReads
<1>13. \A i \in DOMAIN sp : LeavesHang(nodes, t, sp[i])
  BY DEF TreeFits
<1> HIDE DEF sp, sp2, n
<1>14. /\ LeafReads(new, leaf, h, x.sent, SentIn(es))
       /\ Covered(new, t.root, h, SentIn(es) \cup {x.sent})
  BY <1>2, <1>12, MergedReads
<1>15. Covered(new, t.receivedRoot, h, AnsweredIn(es))
  <2>1. t.root \in DOMAIN nodes /\ nodes[t.root].parent = 0
    BY <1>2 DEF IsRoot
  <2> QED
    BY <1>2, <1>12, <2>1, MergedElsewhere
<1>16. Grown(nodes, new)
  BY DEF Merged
<1>17. ASSUME NEW i \in DOMAIN es2 PROVE PacketReads(new, u.streamPackets[i], h, es2, i)
  <2>1. CASE i \in DOMAIN es
    <3>1. PacketReads(nodes, sp[i], h, es, i) /\ LeavesHang(nodes, t, sp[i])
      BY <1>11, <1>12, <1>13, <2>1
    <3>2. PacketReads(new, sp[i], h, es, i)
      BY <1>16, <3>1, PacketReadsGrown
    <3>3. i \in Nat \ {0} /\ SameLines(es, es2, i)
      BY <1>8, <2>1
    <3>4. PacketReads(new, sp[i], h, es2, i)
      BY <3>2, <3>3, PacketReadsSame
    <3> QED
      BY <1>3, <1>11, <2>1, <3>4
  <2>2. CASE i = n + 1
    <3>1. u.streamPackets[i] = Packet(leaf) /\ es2[i] = x
      BY <1>3, <1>7, <1>11, <2>2
    <3>2. LeafReads(new, leaf, h, es2[i].sent, SentBefore(es2, i))
      BY <1>9, <1>14, <2>2, <3>1
    <3> QED
      BY <1>5, <3>1, <3>2 DEF PacketReads
  <2> QED
    BY <1>7, <2>1, <2>2
<1>18. Len(es2) = Len(u.streamPackets)
  BY <1>3, <1>7, <1>11
<1>19. Covered(new, u.root, h, SentIn(es2)) /\ Covered(new, u.receivedRoot, h, AnsweredIn(es2))
  BY <1>3, <1>9, <1>10, <1>14, <1>15
<1> QED
  BY <1>7, <1>17, <1>18, <1>19 DEF TreeReads

\* One more answer is the last one.
LEMMA AnswerAppended ==
  ASSUME NEW s \in Seq(Texts), NEW a, NEW r
  PROVE  r = Append(s, a) =>
           Range(r) = Range(s) \cup {a} /\ r # <<>> /\ Last(r) = a
<1>equal. SUFFICES ASSUME r = Append(s, a)
       PROVE  Range(r) = Range(s) \cup {a} /\ r # <<>> /\ Last(r) = a
  OBVIOUS
<1> USE <1>equal
<1>1. /\ Len(s) \in Nat /\ Len(r) = Len(s) + 1 /\ r[Len(s) + 1] = a
      /\ DOMAIN r = DOMAIN s \cup {Len(s) + 1} /\ \A i \in DOMAIN s : r[i] = s[i]
  OBVIOUS
<1> HIDE <1>equal
<1>2. Range(r) = Range(s) \cup {a}
  BY <1>1 DEF Range
<1>3. r # <<>>
  BY <1>1
<1>4. Last(r) = a
  BY <1>1 DEF Last
<1> QED
  BY <1>2, <1>3, <1>4

Completed(x, a, y) ==
  y \in LogLines /\ y.sent = x.sent /\ y.header = x.header /\ y.answers = Append(x.answers, a)

\* The tree whose last packet has got a leaf for its answer.
TreeAnswered(t, leaf) ==
  LET k == Len(t.streamPackets)
      p == t.streamPackets[k]
  IN  TreeRecord(t.root, t.receivedRoot,
                 Changed(t.streamPackets, k, LeafRecord(p.transmittedLeafNode, leaf, p.ac)))

\* The tree of an answer that is merged.
LEMMA AnswerReadBack ==
  ASSUME NEW nodes, Forest(nodes), NEW t, NEW h, TreeFits(nodes, t, h),
         NEW x \in LogLines, NEW a, NEW y, Completed(x, a, y),
         NEW e0 \in Seq(LogLines), NEW es, NEW es2, TreeReads(nodes, t, h, es),
         NEW new, NEW leaf \in Nat \ {0}, Merged(nodes, t.receivedRoot, a, new, leaf),
         NEW u
  PROVE  u = TreeAnswered(t, leaf) /\ es = Append(e0, x) /\ es2 = Append(e0, y) =>
           TreeReads(new, u, h, es2)
<1>tree. SUFFICES ASSUME u = TreeAnswered(t, leaf), es = Append(e0, x) /\ es2 = Append(e0, y)
         PROVE  TreeReads(new, u, h, es2)
  OBVIOUS
<1>logs. es = Append(e0, x) /\ es2 = Append(e0, y)
  BY <1>tree
<1> USE <1>logs
<1> DEFINE k == Len(t.streamPackets)
           p == LeafRecord(t.streamPackets[k].transmittedLeafNode, leaf, t.streamPackets[k].ac)
<1>0y. y \in LogLines /\ y.sent = x.sent /\ y.answers = Append(x.answers, a)
  BY DEF Completed
<1>0u. u = TreeRecord(t.root, t.receivedRoot, Changed(t.streamPackets, k, p))
  BY <1>tree DEF TreeAnswered
<1>0k. k = Len(t.streamPackets)
  OBVIOUS
<1>0p. p = LeafRecord(t.streamPackets[k].transmittedLeafNode, leaf, t.streamPackets[k].ac)
  OBVIOUS
<1> HIDE DEF k, p
<1> USE <1>0y, <1>0u, <1>0k, <1>0p
<1> DEFINE sp == t.streamPackets
           sp2 == Changed(sp, k, p)
           n == Len(e0)
<1>1. es \in Seq(LogLines) /\ Len(es) = Len(sp)
  BY DEF TreeReads
<1>2. t \in Trees /\ t.root # t.receivedRoot /\ IsRoot(nodes, t.receivedRoot, h)
  BY DEF TreeFits
<1>3. u.root = t.root /\ u.receivedRoot = t.receivedRoot /\ u.streamPackets = sp2
  BY DEF TreeRecord
<1>5. p.transmittedLeafNode = sp[k].transmittedLeafNode /\ p.receivedLeafNode = leaf
  BY LeafFields
<1>6. sp \in Seq(Leaves)
  BY <1>2, TreeParts
<1>0. LineAdded(e0, y, es2)
  BY LinesAdded
<1>0a. LineAdded(e0, x, es)
  BY LinesAdded
<1>7. /\ es2 \in Seq(LogLines) /\ Len(es2) = n + 1 /\ es2[n + 1] = y
      /\ DOMAIN es2 = DOMAIN e0 \cup {n + 1}
  BY <1>0 DEF LineAdded
<1>8. \A i \in DOMAIN e0 : i \in Nat \ {0} /\ SameLines(e0, es2, i)
  BY <1>0 DEF LineAdded
<1>9. SentBefore(es2, n + 1) = SentIn(e0) /\ SentIn(es2) = SentIn(e0) \cup {y.sent}
  BY <1>0 DEF LineAdded
<1>10. AnsweredIn(es2) = AnsweredIn(e0) \cup Range(y.answers)
       /\ AnsweredUpTo(es2, n + 1) = AnsweredIn(es2)
  BY <1>0 DEF LineAdded
<1>7a. /\ Len(es) = n + 1 /\ es[n + 1] = x /\ DOMAIN es = DOMAIN e0 \cup {n + 1}
  BY <1>0a DEF LineAdded
<1>8a. \A i \in DOMAIN e0 : SameLines(e0, es, i)
  BY <1>0a DEF LineAdded
<1>9a. SentBefore(es, n + 1) = SentIn(e0) /\ SentIn(es) = SentIn(e0) \cup {x.sent}
  BY <1>0a DEF LineAdded
<1>10a. AnsweredIn(es) = AnsweredIn(e0) \cup Range(x.answers)
  BY <1>0a DEF LineAdded
<1>4. n \in Nat /\ DOMAIN e0 = 1 .. n
  BY SeqFacts
<1> HIDE <1>logs
<1>11. k = n + 1 /\ sp2 \in [DOMAIN sp -> {p} \cup Range(sp)] /\ Len(sp2) = n + 1
       /\ sp2[k] = p /\ k \in DOMAIN sp
       /\ \A i \in DOMAIN e0 : sp2[i] = sp[i] /\ i \in DOMAIN sp
  <2> HIDE DEF sp, n
  <2>1. k = n + 1
    BY <1>1, <1>7a DEF sp
  <2>2. DOMAIN sp = 1 .. n + 1
    BY <1>1, <1>6, <1>7a, SeqFacts
  <2>3. sp2 = [i \in 1 .. n + 1 |-> IF i = k THEN p ELSE sp[i]]
    BY <2>2 DEF Changed
  <2>4. \A i \in 1 .. n + 1 : sp2[i] = IF i = k THEN p ELSE sp[i]
    BY <2>3
  <2>5. sp2 \in Seq({p} \cup Leaves) /\ Len(sp2) = n + 1
    <3>1. n + 1 \in Nat /\ \A i \in 1 .. n + 1 : sp[i] \in Leaves
      BY <1>4, <1>6, <2>2
    <3>2. \A i \in 1 .. n + 1 : sp2[i] \in {p} \cup Leaves
      BY <2>4, <3>1
    <3>3. DOMAIN sp2 = 1 .. n + 1
      BY <2>3
    <3>4. sp2 = [i \in 1 .. n + 1 |-> sp2[i]]
      BY <2>3, <3>3
    <3> HIDE DEF sp2
    <3>5. sp2 \in [1 .. n + 1 -> {p} \cup Leaves]
      BY <3>2, <3>4
    <3> QED
      BY <3>1, <3>5, FunctionIsSeq
  <2> HIDE DEF sp2
  <2>6. \A i \in 1 .. n : i \in 1 .. n + 1 /\ i # n + 1
    BY <1>4
  <2>7. n + 1 \in 1 .. n + 1
    BY <1>4
  <2>8. \A i \in DOMAIN sp : sp2[i] \in {p} \cup Range(sp)
    BY <2>2, <2>4 DEF Range
  <2>9. sp2 \in [DOMAIN sp -> {p} \cup Range(sp)]
    BY <2>2, <2>3, <2>8
  <2> QED
    BY <1>4, <2>1, <2>2, <2>4, <2>5, <2>6, <2>7, <2>9
<1>12. /\ Covered(nodes, t.root, h, SentIn(es)) /\ Covered(nodes, t.receivedRoot, h, AnsweredIn(es))
       /\ \A i \in DOMAIN es : PacketReads(nodes, sp[i], h, es, i)
  BY DEF TreeReads
<1>13. \A i \in DOMAIN sp : LeavesHang(nodes, t, sp[i])
  BY DEF TreeFits
<1> HIDE DEF sp, sp2, n
<1>14. /\ LeafReads(new, leaf, h, a, AnsweredIn(es))
       /\ Covered(new, t.receivedRoot, h, AnsweredIn(es) \cup {a})
  BY <1>2, <1>12, MergedReads
<1>15. Covered(new, t.root, h, SentIn(es))
  <2>1. t.receivedRoot \in DOMAIN nodes /\ nodes[t.receivedRoot].parent = 0
    BY <1>2 DEF IsRoot
  <2> QED
    BY <1>2, <1>12, <2>1, MergedElsewhere
<1>16. Grown(nodes, new)
  BY DEF Merged
<1>17. /\ Range(y.answers) = Range(x.answers) \cup {a} /\ y.answers # <<>>
       /\ Last(y.answers) = a
  <2>1. x.answers \in Seq(Texts)
    BY DEF LogLines
  <2> QED
    BY <2>1, AnswerAppended
<1>18. AnsweredIn(es2) = AnsweredIn(es) \cup {a} /\ SentIn(es2) = SentIn(es)
  BY <1>9, <1>9a, <1>10, <1>10a, <1>17
<1>19. ASSUME NEW i \in DOMAIN es2 PROVE PacketReads(new, u.streamPackets[i], h, es2, i)
  <2>1. CASE i \in DOMAIN e0
    <3>1. PacketReads(nodes, sp[i], h, es, i) /\ LeavesHang(nodes, t, sp[i])
      BY <1>7a, <1>11, <1>12, <1>13, <2>1
    <3>2. PacketReads(new, sp[i], h, es, i)
      BY <1>16, <3>1, PacketReadsGrown
    <3>3. i \in Nat \ {0} /\ SameLines(es, es2, i)
      BY <1>8, <1>8a, <2>1 DEF SameLines
    <3>4. PacketReads(new, sp[i], h, es2, i)
      BY <3>2, <3>3, PacketReadsSame
    <3> QED
      BY <1>3, <1>11, <2>1, <3>4
  <2>2. CASE i = n + 1
    <3>1. u.streamPackets[i] = p /\ es2[i] = y /\ k \in DOMAIN es /\ k = i /\ es[k] = x
      BY <1>3, <1>7, <1>7a, <1>11, <2>2
    <3>2. PacketReads(nodes, sp[k], h, es, k) /\ LeavesHang(nodes, t, sp[k])
      BY <1>11, <1>12, <1>13, <3>1
    <3>3. PacketReads(new, sp[k], h, es, k)
      BY <1>16, <3>2, PacketReadsGrown
    <3>4. LeafReads(new, p.transmittedLeafNode, h, y.sent, SentBefore(es2, i))
      BY <1>5, <1>9, <1>9a, <1>11, <3>1, <3>3 DEF PacketReads, sp
    <3>5. LeafReads(new, leaf, h, a, AnsweredUpTo(es2, i))
      BY <1>10, <1>14, <1>18, <2>2 DEF LeafReads
    <3> QED
      BY <1>5, <1>17, <3>1, <3>4, <3>5 DEF PacketReads
  <2> QED
    BY <1>7, <2>1, <2>2
<1>20. Len(es2) = Len(u.streamPackets)
  BY <1>3, <1>7, <1>11
<1>21. Covered(new, u.root, h, SentIn(es2)) /\ Covered(new, u.receivedRoot, h, AnsweredIn(es2))
  BY <1>3, <1>14, <1>15, <1>18
<1> QED
  BY <1>7, <1>19, <1>20, <1>21 DEF TreeReads

\* A header without lines has no commands.
LEMMA EntriesOfNone ==
  ASSUME NEW S, NEW h
  PROVE  \A n \in Nat : \A lg \in Seq(S) :
           Len(lg) = n /\ (\A k \in DOMAIN lg : lg[k].header # h) => EntriesOf(lg, h) = <<>>
<1> DEFINE G == {n \in Nat : \A lg \in Seq(S) :
                   Len(lg) = n /\ (\A k \in DOMAIN lg : lg[k].header # h) => EntriesOf(lg, h) = <<>>}
<1>1. 0 \in G
  <2>1. ASSUME NEW lg \in Seq(S), Len(lg) = 0 PROVE EntriesOf(lg, h) = <<>>
    <3>1. lg = <<>>
      BY <2>1
    <3> QED
      BY <3>1, EntriesOfNothing
  <2> QED
    BY <2>1
<1>2. ASSUME NEW n \in Nat, n \in G PROVE n + 1 \in G
  <2>1. ASSUME NEW lg \in Seq(S), Len(lg) = n + 1, \A k \in DOMAIN lg : lg[k].header # h
        PROVE  EntriesOf(lg, h) = <<>>
    <3>1. lg # <<>>
      BY <2>1
    <3>2. PICK f \in Seq(S), x \in S : lg = Append(f, x)
      BY <3>1, LogEnds
    <3>3. Len(f) = n /\ lg[n + 1] = x /\ n + 1 \in DOMAIN lg
          /\ \A k \in DOMAIN f : f[k] = lg[k] /\ k \in DOMAIN lg
      BY <2>1, <3>2
    <3>4. EntriesOf(f, h) = <<>>
      BY <1>2, <2>1, <3>3
    <3>5. EntryAdded(f, x, lg, h)
      BY <3>2, EntriesOfLonger
    <3>6. x.header # h
      BY <2>1, <3>3
    <3> QED
      BY <3>4, <3>5, <3>6, Zenon DEF EntryAdded
  <2> QED
    BY <2>1
<1> HIDE DEF G
<1>3. \A n \in Nat : n \in G
  BY <1>1, <1>2, SetInduction
<1> QED
  BY <1>3 DEF G

\* A log of which the last line is replaced, or to which one is added.
LEMMA LogLonger ==
  ASSUME NEW lg \in Seq(LogLines), NEW x \in LogLines, NEW lg2, NEW D,
         \A k \in DOMAIN lg : lg[k].header \in D
  PROVE  lg2 = Append(lg, x) =>
           lg2 \in Seq(LogLines) /\ \A k \in DOMAIN lg2 : lg2[k].header \in D \cup {x.header}
<1>equal. SUFFICES ASSUME lg2 = Append(lg, x)
       PROVE  lg2 \in Seq(LogLines) /\ \A k \in DOMAIN lg2 : lg2[k].header \in D \cup {x.header}
  OBVIOUS
<1> USE <1>equal
<1>1. LineAdded(lg, x, lg2)
  BY LinesAdded
<1>2. /\ lg2 \in Seq(LogLines) /\ lg2[Len(lg) + 1] = x
      /\ DOMAIN lg2 = DOMAIN lg \cup {Len(lg) + 1}
      /\ \A i \in DOMAIN lg : i \in Nat \ {0} /\ SameLines(lg, lg2, i)
  BY <1>1 DEF LineAdded
<1> HIDE <1>equal
<1>3. ASSUME NEW i \in DOMAIN lg PROVE lg2[i] = lg[i]
  <2>1. i \in Nat \ {0}
    BY <1>2
  <2>2. i \in 1 .. i
    BY <2>1
  <2> QED
    BY <1>2, <2>2 DEF SameLines
<1> QED
  BY <1>2, <1>3

\* A command whose header has a tree.
LEMMA StreamLogged ==
  ASSUME NEW nodes, NEW ps, TreesFit(nodes, ps), NEW lg, LogReads(nodes, ps, lg),
         NEW h \in DOMAIN ps, NEW x \in LogLines, x.header = h, x.answers = <<>>,
         NEW new, NEW leaf, Merged(nodes, ps[h].root, x.sent, new, leaf),
         NEW qs, qs = [ps EXCEPT ![h].streamPackets = Append(@, Packet(leaf))],
         NEW lg2, lg2 = Append(lg, x)
  PROVE  LogReads(new, qs, lg2)
<1> DEFINE t == ps[h]
           u == TreeRecord(t.root, t.receivedRoot, Append(t.streamPackets, Packet(leaf)))
<1>1. /\ lg \in Seq(LogLines) /\ (\A k \in DOMAIN lg : lg[k].header \in DOMAIN ps)
      /\ \A g \in DOMAIN ps : TreeReads(nodes, ps[g], g, EntriesOf(lg, g))
  BY DEF LogReads
<1>2. Forest(nodes) /\ TreeFits(nodes, t, h) /\ t \in Trees
  BY DEF TreesFit, TreeFits
<1>3. Replaced(ps, h, u, qs)
  BY <1>2, ReplacedByAppend
<1>4. leaf \in Nat
  <2>1. leaf \in DOMAIN new /\ new \in Seq(Nodes)
    BY DEF Merged, Grown, Forest, Linked
  <2> QED
    BY <2>1
<1>5. ASSUME NEW g PROVE EntryAdded(lg, x, lg2, g)
  BY <1>1, EntriesOfLonger
<1>6. TreeReads(new, u, h, EntriesOf(lg2, h))
  <2> DEFINE es  == EntriesOf(lg, h)
             es2 == EntriesOf(lg2, h)
  <2>1. es2 = Append(es, x)
    BY <1>5, Zenon DEF EntryAdded
  <2>2. TreeReads(nodes, t, h, es)
    BY <1>1
  <2> HIDE DEF es, es2
  <2>3. u = TreeRecord(t.root, t.receivedRoot, Append(t.streamPackets, Packet(leaf)))
    OBVIOUS
  <2> HIDE DEF u, t
  <2>4. Merged(nodes, t.root, x.sent, new, leaf)
    BY DEF t
  <2>5. TreeReads(new, u, h, es2)
    BY <1>2, <1>4, <2>1, <2>2, <2>3, <2>4, StreamReadBack
  <2> QED
    BY <2>5 DEF es2
<1>7. ASSUME NEW g \in DOMAIN ps, g # h PROVE TreeReads(new, ps[g], g, EntriesOf(lg2, g))
  <2>1. EntriesOf(lg2, g) = EntriesOf(lg, g)
    BY <1>5, <1>7, Zenon DEF EntryAdded
  <2>2. TreeReads(nodes, ps[g], g, EntriesOf(lg2, g))
    BY <1>1, <2>1
  <2> QED
    BY <1>7, <2>2, OthersRead
<1>8. lg2 \in Seq(LogLines) /\ \A k \in DOMAIN lg2 : lg2[k].header \in DOMAIN ps \cup {x.header}
  BY <1>1, LogLonger
<1> HIDE DEF u, t
<1>9. \A g \in DOMAIN qs : TreeReads(new, qs[g], g, EntriesOf(lg2, g))
  BY <1>3, <1>6, <1>7 DEF Replaced
<1>10. DOMAIN qs = DOMAIN ps
  BY <1>3 DEF Replaced
<1> QED
  BY <1>8, <1>9, <1>10 DEF LogReads

\* The first packet of a tree reads back.
LEMMA FirstReadBack ==
  ASSUME NEW nodes, Forest(nodes), NEW h, NEW x \in LogLines, x.answers = <<>>,
         NEW new, NEW n, TreeMade(nodes, h, x.sent, new, n), h \in Seq(Bytes),
         NEW u, u = TreeRecord(n + 1, n + 3, <<Packet(n + 2)>>),
         NEW es
  PROVE  es = Append(<<>>, x) =>
           TreeReads(new, u, h, es)
<1>equal. SUFFICES ASSUME es = Append(<<>>, x)
       PROVE  TreeReads(new, u, h, es)
  OBVIOUS
<1> USE <1>equal
<1> DEFINE sp == <<Packet(n + 2)>>
<1>1. u.root = n + 1 /\ u.receivedRoot = n + 3 /\ u.streamPackets = sp
  BY DEF TreeRecord
<1>2. /\ Grown(nodes, new) /\ DOMAIN new = DOMAIN nodes \cup {n + 1, n + 2, n + 3} /\ n \in Nat
      /\ {n + 1, n + 2, n + 3} \cap DOMAIN nodes = {}
      /\ IsRoot(new, n + 1, h) /\ IsRoot(new, n + 3, h) /\ Hangs(new, n + 2, n + 1)
      /\ Path(new)[n + 2] = Both(h, x.sent)
  BY DEF TreeMade
<1>3. n + 1 \in Nat /\ n + 2 \in Nat /\ n + 3 \in Nat /\ n + 1 # n + 3
  BY <1>2
<1>4. Packet(n + 2).transmittedLeafNode = n + 2 /\ Packet(n + 2).receivedLeafNode = 0
  BY DEF Packet
<1>5. /\ es \in Seq(LogLines) /\ Len(es) = 1 /\ es[1] = x /\ DOMAIN es = {1}
  OBVIOUS
<1>6. Len(sp) = 1 /\ sp[1] = Packet(n + 2)
  OBVIOUS
<1> HIDE DEF sp
<1> HIDE <1>equal
<1>7. LeafReads(new, n + 2, h, es[1].sent, SentBefore(es, 1))
  BY <1>2, <1>5 DEF LeafReads
<1>8. PacketReads(new, u.streamPackets[1], h, es, 1)
  BY <1>1, <1>4, <1>5, <1>6, <1>7 DEF PacketReads
<1>9. ASSUME NEW i \in DOMAIN new, new[i].parent # 0, Top(new)[i] \in {n + 1, n + 3}
      PROVE  i = n + 2 /\ Top(new)[i] = n + 1
  <2>1. CASE i \in DOMAIN nodes
    <3>1. Top(new)[i] \in DOMAIN nodes
      BY <1>2, <2>1, ForestFacts DEF Grown, IsTop
    <3> QED
      BY <1>2, <1>9, <3>1
  <2>2. CASE i \in {n + 1, n + 3}
    BY <1>2, <1>9, <2>2 DEF IsRoot
  <2>3. CASE i = n + 2
    BY <1>2, <2>3 DEF Hangs
  <2> QED
    BY <1>2, <2>1, <2>2, <2>3
<1>10. x.sent \in Seq(Bytes)
  BY DEF LogLines, Texts
<1>11. IsPrefix(Path(new)[n + 2], Both(h, x.sent))
  BY <1>2, <1>10, BothFacts, PrefixOfItself
<1>12. x.sent \in SentIn(es)
  BY <1>5 DEF SentIn
<1>13. Covered(new, u.root, h, SentIn(es))
  BY <1>1, <1>9, <1>11, <1>12 DEF Covered
<1>14. Covered(new, u.receivedRoot, h, AnsweredIn(es))
  BY <1>1, <1>3, <1>9 DEF Covered
<1> QED
  BY <1>1, <1>5, <1>6, <1>8, <1>13, <1>14 DEF TreeReads

\* Another tree does not notice the new one.
LEMMA OldTreesRead ==
  ASSUME NEW nodes, NEW ps, TreesFit(nodes, ps), NEW h, NEW data,
         NEW new, NEW n, TreeMade(nodes, h, data, new, n),
         NEW g \in DOMAIN ps, NEW es, TreeReads(nodes, ps[g], g, es)
  PROVE  TreeReads(new, ps[g], g, es)
<1>1. /\ Grown(nodes, new) /\ DOMAIN new = DOMAIN nodes \cup {n + 1, n + 2, n + 3}
      /\ {n + 1, n + 2, n + 3} \cap DOMAIN nodes = {}
      /\ IsRoot(new, n + 1, h) /\ IsRoot(new, n + 3, h) /\ Hangs(new, n + 2, n + 1)
  BY DEF TreeMade
<1>2. TreeFits(nodes, ps[g], g)
  BY DEF TreesFit
<1>3. ps[g].root \in DOMAIN nodes /\ ps[g].receivedRoot \in DOMAIN nodes
  BY <1>2 DEF TreeFits, IsRoot
<1>4. IsTop(new, Top(new))
  BY <1>1, ForestFacts DEF Grown
<1>5. ASSUME NEW i \in DOMAIN new \ DOMAIN nodes PROVE Top(new)[i] \notin DOMAIN nodes
  <2>1. CASE i \in {n + 1, n + 3}
    <3>1. Top(new)[i] = i
      BY <1>1, <1>4, <2>1 DEF IsRoot, IsTop
    <3> QED
      BY <1>5, <3>1
  <2>2. CASE i = n + 2
    BY <1>1, <2>2 DEF Hangs
  <2> QED
    BY <1>1, <2>1, <2>2
<1>6. SentIn(es) \subseteq SentIn(es) /\ AnsweredIn(es) \subseteq AnsweredIn(es)
  OBVIOUS
<1>7. Covered(nodes, ps[g].root, g, SentIn(es)) /\ Covered(nodes, ps[g].receivedRoot, g, AnsweredIn(es))
  BY DEF TreeReads
<1>8. \A i \in DOMAIN new \ DOMAIN nodes : Top(new)[i] # ps[g].root /\ Top(new)[i] # ps[g].receivedRoot
  BY <1>3, <1>5
<1>9. Covered(new, ps[g].root, g, SentIn(es))
  BY <1>1, <1>6, <1>7, <1>8, CoveredGrown
<1>10. Covered(new, ps[g].receivedRoot, g, AnsweredIn(es))
  BY <1>1, <1>6, <1>7, <1>8, CoveredGrown
<1> QED
  BY <1>1, <1>2, <1>9, <1>10, TreeReadsGrown

\* The first command of its header.
LEMMA FirstLogged ==
  ASSUME NEW nodes, NEW ps, TreesFit(nodes, ps), NEW lg, LogReads(nodes, ps, lg),
         NEW h \in Seq(Bytes), h \notin DOMAIN ps,
         NEW x \in LogLines, x.header = h, x.answers = <<>>,
         NEW new, NEW n, TreeMade(nodes, h, x.sent, new, n),
         NEW qs, qs = put(ps, h, TreeRecord(n + 1, n + 3, <<Packet(n + 2)>>)),
         NEW lg2, lg2 = Append(lg, x)
  PROVE  LogReads(new, qs, lg2)
<1> DEFINE u == TreeRecord(n + 1, n + 3, <<Packet(n + 2)>>)
<1>1. /\ lg \in Seq(LogLines) /\ (\A k \in DOMAIN lg : lg[k].header \in DOMAIN ps)
      /\ \A g \in DOMAIN ps : TreeReads(nodes, ps[g], g, EntriesOf(lg, g))
  BY DEF LogReads
<1>2. /\ DOMAIN qs = {h} \cup DOMAIN ps /\ qs[h] = u
      /\ \A g \in DOMAIN ps : qs[g] = ps[g]
  <2> HIDE DEF u
  <2>1. qs = put(ps, h, u)
    BY DEF u
  <2> QED
    BY <2>1 DEF put
<1>3. ASSUME NEW g PROVE EntryAdded(lg, x, lg2, g)
  BY <1>1, EntriesOfLonger
<1>4. EntriesOf(lg, h) = <<>>
  <2>1. Len(lg) \in Nat
    BY <1>1
  <2>2. \A k \in DOMAIN lg : lg[k].header # h
    BY <1>1
  <2> QED
    BY <1>1, <2>1, <2>2, EntriesOfNone
<1>5. EntriesOf(lg2, h) = Append(<<>>, x)
  BY <1>3, <1>4, Zenon DEF EntryAdded
<1>6. TreeReads(new, u, h, EntriesOf(lg2, h))
  <2>1. Forest(nodes)
    BY DEF TreesFit
  <2> DEFINE es2 == EntriesOf(lg2, h)
  <2>2. es2 = Append(<<>>, x)
    BY <1>5
  <2> HIDE DEF es2
  <2>3. u = TreeRecord(n + 1, n + 3, <<Packet(n + 2)>>)
    OBVIOUS
  <2> HIDE DEF u
  <2>4. TreeReads(new, u, h, es2)
    BY <2>1, <2>2, <2>3, FirstReadBack
  <2> QED
    BY <2>4 DEF es2
<1>7. ASSUME NEW g \in DOMAIN ps PROVE TreeReads(new, ps[g], g, EntriesOf(lg2, g))
  <2>1. EntriesOf(lg2, g) = EntriesOf(lg, g)
    BY <1>3, Zenon DEF EntryAdded
  <2>2. TreeReads(nodes, ps[g], g, EntriesOf(lg2, g))
    BY <1>1, <2>1
  <2> QED
    BY <2>2, OldTreesRead
<1>8. lg2 \in Seq(LogLines) /\ \A k \in DOMAIN lg2 : lg2[k].header \in DOMAIN ps \cup {x.header}
  BY <1>1, LogLonger
<1> HIDE DEF u
<1>9. \A g \in DOMAIN qs : TreeReads(new, qs[g], g, EntriesOf(lg2, g))
  BY <1>2, <1>6, <1>7
<1> QED
  BY <1>2, <1>8, <1>9 DEF LogReads

\* The line that an answer completes.
Answered(x, a) == [x EXCEPT !.answers = Append(@, a)]

\* A line that gets an answer keeps its header and its command.
LEMMA AnsweredFacts ==
  ASSUME NEW x \in LogLines, NEW a \in Texts
  PROVE  Completed(x, a, Answered(x, a))
<1>1. x.answers \in Seq(Texts)
  BY DEF LogLines
<1> DEFINE s == Append(x.answers, a)
<1>2. s \in Seq(Texts)
  BY <1>1
<1>3. Answered(x, a) = [x EXCEPT !.answers = s]
  BY DEF Answered
<1> HIDE DEF s
<1>4. /\ Answered(x, a) \in LogLines /\ Answered(x, a).sent = x.sent
      /\ Answered(x, a).header = x.header /\ Answered(x, a).answers = s
  BY <1>2, <1>3 DEF LogLines
<1> QED
  BY <1>4 DEF s, Completed

AnsweredLog(lg, a) == [lg EXCEPT ![Len(lg)].answers = Append(@, a)]

\* The answer a completes the line x, the last of the log lg after the lines f.
LastLineIs(f, x, a, lg) ==
  AnsweredLog(lg, a) = Append(f, Answered(x, a)) /\ lg[Len(lg)] = x

\* The answer goes to the last line of the log.
LEMMA LastLineAnswered ==
  ASSUME NEW f \in Seq(LogLines), NEW x \in LogLines, NEW lg, NEW a \in Texts
  PROVE  lg = Append(f, x) => LastLineIs(f, x, a, lg)
<1>equal. SUFFICES ASSUME lg = Append(f, x)
       PROVE  LastLineIs(f, x, a, lg)
  OBVIOUS
<1> USE <1>equal
<1> DEFINE n == Len(f)
           y == Answered(x, a)
           lg2 == AnsweredLog(lg, a)
<1>0. y \in LogLines
  BY AnsweredFacts DEF Completed
<1>1. n \in Nat /\ DOMAIN f = 1 .. n
  BY SeqFacts
<1>2. Len(lg) = n + 1 /\ lg[n + 1] = x /\ DOMAIN lg = 1 .. n + 1 /\ lg \in Seq(LogLines)
      /\ \A i \in 1 .. n : lg[i] = f[i]
  OBVIOUS
<1>3. lg2 = [lg EXCEPT ![Len(lg)] = y]
  BY <1>2 DEF Answered, AnsweredLog
<1> HIDE DEF y, n, lg2
<1> HIDE <1>equal
<1>4. lg2 = [i \in 1 .. n + 1 |-> IF i = n + 1 THEN y ELSE lg[i]]
  BY <1>2, <1>3
<1>5. \A i \in 1 .. n + 1 : lg2[i] = IF i = n + 1 THEN y ELSE f[i]
  <2>1. \A i \in 1 .. n + 1 : i # n + 1 => i \in 1 .. n
    BY <1>1
  <2> QED
    BY <1>2, <1>4, <2>1
<1>6. lg2 \in Seq(LogLines) /\ Len(lg2) = n + 1
  <2>1. \A i \in 1 .. n + 1 : lg[i] \in LogLines
    BY <1>2
  <2>2. lg2 \in [1 .. n + 1 -> LogLines] /\ n + 1 \in Nat
    BY <1>0, <1>1, <1>4, <2>1
  <2> QED
    BY <2>2, FunctionIsSeq
<1>7. /\ Append(f, y) \in Seq(LogLines) /\ Len(Append(f, y)) = n + 1
      /\ \A i \in 1 .. n + 1 : Append(f, y)[i] = IF i = n + 1 THEN y ELSE f[i]
  BY <1>0, <1>1 DEF n
<1>8. lg2 = Append(f, y)
  <2> DEFINE g == Append(f, y)
  <2>1. \A i \in 1 .. n + 1 : lg2[i] = g[i]
    BY <1>5, <1>7
  <2> HIDE DEF g
  <2> QED
    BY <1>6, <1>7, <2>1 DEF g
<1> QED
  BY <1>2, <1>8 DEF y, lg2, LastLineIs

LinesKept(f, lg) ==
  Len(lg) \in DOMAIN lg /\ \A i \in DOMAIN f : i \in DOMAIN lg /\ lg[i] = f[i]

\* The lines of a log that gets longer.
LEMMA FrontLines ==
  ASSUME NEW S, NEW f \in Seq(S), NEW x \in S, NEW lg, lg = Append(f, x)
  PROVE  LinesKept(f, lg)
<1>1. Len(lg) = Len(f) + 1 /\ DOMAIN lg = DOMAIN f \cup {Len(f) + 1}
      /\ \A i \in DOMAIN f : lg[i] = f[i]
  BY AppendFacts
<1> QED
  BY <1>1 DEF LinesKept

\* The last answer to the command that was read last.
LEMMA AnswerLogged ==
  ASSUME NEW nodes, NEW ps, TreesFit(nodes, ps), NEW lg, LogReads(nodes, ps, lg),
         lg # <<>>, NEW h, h = lg[Len(lg)].header, NEW a \in Texts,
         NEW new, NEW leaf \in Nat \ {0}, Merged(nodes, ps[h].receivedRoot, a, new, leaf),
         NEW k, k = Len(ps[h].streamPackets), k \in DOMAIN ps[h].streamPackets,
         NEW qs,
         NEW lg2, lg2 = AnsweredLog(lg, a)
  PROVE  qs = [ps EXCEPT ![h].streamPackets[k].receivedLeafNode = leaf] =>
           LogReads(new, qs, lg2)
<1>equal. SUFFICES ASSUME qs = [ps EXCEPT ![h].streamPackets[k].receivedLeafNode = leaf]
       PROVE  LogReads(new, qs, lg2)
  OBVIOUS
<1> USE <1>equal
<1> DEFINE t  == ps[h]
           sp == t.streamPackets
           p  == LeafRecord(sp[k].transmittedLeafNode, leaf, sp[k].ac)
           u  == TreeRecord(t.root, t.receivedRoot, Changed(sp, k, p))
<1>1. /\ lg \in Seq(LogLines) /\ (\A i \in DOMAIN lg : lg[i].header \in DOMAIN ps)
      /\ \A g \in DOMAIN ps : TreeReads(nodes, ps[g], g, EntriesOf(lg, g))
  BY DEF LogReads
<1>2. PICK f \in Seq(LogLines), x \in LogLines : lg = Append(f, x)
  BY <1>1, LogEnds
<1> DEFINE y == Answered(x, a)
<1>3. lg2 = Append(f, y) /\ x.header = h
  <2>0. LastLineIs(f, x, a, lg)
    BY <1>2, LastLineAnswered
  <2>1. AnsweredLog(lg, a) = Append(f, Answered(x, a)) /\ lg[Len(lg)] = x
    BY <2>0 DEF LastLineIs
  <2> QED
    BY <2>1
<1>4. y \in LogLines /\ y.sent = x.sent /\ y.header = h /\ y.answers = Append(x.answers, a)
  <2>1. Completed(x, a, y)
    BY AnsweredFacts
  <2> HIDE DEF y
  <2> QED
    BY <1>3, <2>1 DEF Completed
<1>5. /\ Len(lg) \in DOMAIN lg
      /\ \A i \in DOMAIN f : f[i].header \in DOMAIN ps
  <2> HIDE DEF y
  <2>1. LinesKept(f, lg)
    BY <1>2, FrontLines
  <2> QED
    BY <1>1, <2>1 DEF LinesKept
<1>6. h \in DOMAIN ps
  BY <1>1, <1>5
<1>7. Forest(nodes) /\ TreeFits(nodes, t, h) /\ t \in Trees
  BY <1>6 DEF TreesFit, TreeFits
<1>8. sp[k] \in Leaves
  <2>1. sp \in Seq(Leaves)
    BY <1>7, TreeParts
  <2>2. k \in DOMAIN sp
    OBVIOUS
  <2> HIDE DEF sp
  <2> QED
    BY <2>1, <2>2
<1>9. qs = [ps EXCEPT ![h].streamPackets[k] = p]
  <2> DEFINE o == sp[k]
  <2>1. qs = [ps EXCEPT ![h].streamPackets[k] = [o EXCEPT !.receivedLeafNode = leaf]]
    OBVIOUS
  <2>2. [o EXCEPT !.receivedLeafNode = leaf] = p
    <3>1. o \in Leaves
      BY <1>8
    <3>2. p = LeafRecord(o.transmittedLeafNode, leaf, o.ac)
      OBVIOUS
    <3> HIDE DEF o, p
    <3> QED
      BY <3>1, <3>2, LeafChanged
  <2> QED
    BY <2>1, <2>2
<1> HIDE <1>equal
<1>10. Replaced(ps, h, u, qs)
  <2> DEFINE q == p
  <2>1. qs = [ps EXCEPT ![h].streamPackets[k] = q]
    BY <1>9
  <2>2. u = TreeRecord(ps[h].root, ps[h].receivedRoot, Changed(ps[h].streamPackets, k, q))
    OBVIOUS
  <2> HIDE DEF q, u
  <2>3. ps[h] \in Trees
    BY <1>7
  <2> HIDE DEF t
  <2> QED
    BY <1>6, <2>1, <2>2, <2>3, ReplacedByChange
<1> DEFINE e0  == EntriesOf(f, h)
           es  == EntriesOf(lg, h)
           es2 == EntriesOf(lg2, h)
<1>11. ASSUME NEW g PROVE EntryAdded(f, x, lg, g) /\ EntryAdded(f, y, lg2, g)
  <2>1. EntryAdded(f, x, lg, g)
    BY <1>2, EntriesOfLonger
  <2> HIDE DEF y
  <2>2. EntryAdded(f, y, lg2, g)
    BY <1>3, <1>4, EntriesOfLonger
  <2> QED
    BY <2>1, <2>2
<1>12. es = Append(e0, x) /\ es2 = Append(e0, y)
  BY <1>3, <1>4, <1>11, Zenon DEF EntryAdded
<1>13. e0 \in Seq(LogLines)
  <2>1. Len(f) \in Nat
    BY <1>2
  <2> QED
    BY <2>1, EntriesAreLines
<1>14. TreeReads(new, u, h, es2)
  <2>1. TreeReads(nodes, t, h, es)
    BY <1>1, <1>6
  <2>2. u = TreeAnswered(t, leaf)
    BY DEF TreeAnswered
  <2>3. Merged(nodes, t.receivedRoot, a, new, leaf)
    OBVIOUS
  <2>4. Completed(x, a, y)
    BY AnsweredFacts
  <2> HIDE DEF es, es2, e0, u, p, sp, t, y
  <2> QED
    BY <1>7, <1>12, <1>13, <2>1, <2>2, <2>3, <2>4, AnswerReadBack
<1> HIDE DEF e0, es, u, t, y
<1>15. ASSUME NEW g \in DOMAIN ps, g # h PROVE TreeReads(new, ps[g], g, EntriesOf(lg2, g))
  <2>1. EntriesOf(lg2, g) = EntriesOf(lg, g)
    BY <1>3, <1>4, <1>11, <1>15, Zenon DEF EntryAdded
  <2>2. TreeReads(nodes, ps[g], g, EntriesOf(lg2, g))
    BY <1>1, <2>1
  <2> QED
    BY <1>6, <1>15, <2>2, OthersRead
<1>16. lg2 \in Seq(LogLines) /\ \A i \in DOMAIN lg2 : lg2[i].header \in DOMAIN ps \cup {y.header}
  BY <1>3, <1>4, <1>5, LogLonger
<1>17. \A g \in DOMAIN qs : TreeReads(new, qs[g], g, EntriesOf(lg2, g))
  BY <1>10, <1>14, <1>15 DEF Replaced, es2
<1>18. DOMAIN qs = DOMAIN ps
  BY <1>10 DEF Replaced
<1> QED
  BY <1>4, <1>6, <1>16, <1>17, <1>18 DEF LogReads

\* The time is not read back.
LEMMA TimeLogged ==
  ASSUME NEW nodes, NEW ps, TreesFit(nodes, ps), NEW lg, LogReads(nodes, ps, lg),
         NEW h \in DOMAIN ps, NEW time, NEW k \in DOMAIN ps[h].streamPackets,
         NEW qs
  PROVE  qs = [ps EXCEPT ![h].streamPackets[k].ac = time] =>
           LogReads(nodes, qs, lg)
<1>equal. SUFFICES ASSUME qs = [ps EXCEPT ![h].streamPackets[k].ac = time]
       PROVE  LogReads(nodes, qs, lg)
  OBVIOUS
<1> USE <1>equal
<1> DEFINE t  == ps[h]
           sp == t.streamPackets
           o  == sp[k]
           p  == LeafRecord(o.transmittedLeafNode, o.receivedLeafNode, time)
           sp2 == Changed(sp, k, p)
           u  == TreeRecord(t.root, t.receivedRoot, sp2)
           es == EntriesOf(lg, h)
<1>1. t \in Trees /\ sp \in Seq(Leaves)
  BY TreeParts DEF TreesFit, TreeFits
<1>2. o \in Leaves
  <2>1. k \in DOMAIN sp
    OBVIOUS
  <2> HIDE DEF sp
  <2> QED
    BY <1>1, <2>1
<1>3. qs = [ps EXCEPT ![h].streamPackets[k] = p]
  <2>1. qs = [ps EXCEPT ![h].streamPackets[k] = [o EXCEPT !.ac = time]]
    OBVIOUS
  <2>2. [o EXCEPT !.ac = time] = p
    <3>2. p = LeafRecord(o.transmittedLeafNode, o.receivedLeafNode, time)
      OBVIOUS
    <3> HIDE DEF o, p
    <3> QED
      BY <1>2, <3>2, TimeChanged
  <2> QED
    BY <2>1, <2>2
<1> HIDE <1>equal
<1>4. Replaced(ps, h, u, qs)
  <2>1. u = TreeRecord(ps[h].root, ps[h].receivedRoot, Changed(ps[h].streamPackets, k, p))
    OBVIOUS
  <2> HIDE DEF p, u
  <2>2. ps[h] \in Trees
    BY <1>1
  <2> HIDE DEF t
  <2> QED
    BY <1>3, <2>1, <2>2, ReplacedByChange
<1>5. /\ lg \in Seq(LogLines) /\ (\A i \in DOMAIN lg : lg[i].header \in DOMAIN ps)
      /\ \A g \in DOMAIN ps : TreeReads(nodes, ps[g], g, EntriesOf(lg, g))
  BY DEF LogReads
<1>6. TreeReads(nodes, t, h, es)
  BY <1>5
<1>7. u.root = t.root /\ u.receivedRoot = t.receivedRoot /\ u.streamPackets = sp2
  BY DEF TreeRecord
<1>8. /\ p.transmittedLeafNode = o.transmittedLeafNode
      /\ p.receivedLeafNode = o.receivedLeafNode
  <2> HIDE DEF o
  <2> QED
    BY LeafFields
<1>9. k \in DOMAIN sp
  OBVIOUS
<1> HIDE DEF p, es, u, t, sp, o
<1>10. Len(sp2) = Len(sp) /\ DOMAIN sp2 = DOMAIN sp
       /\ \A i \in DOMAIN sp : sp2[i] = IF i = k THEN p ELSE sp[i]
  BY <1>1, <1>9 DEF Changed
<1> HIDE DEF sp2
<1>11. es \in Seq(LogLines) /\ Len(es) = Len(sp)
  BY <1>6 DEF TreeReads, sp
<1>12. DOMAIN es = DOMAIN sp
  BY <1>1, <1>11, SeqFacts
<1>13. ASSUME NEW i \in DOMAIN es PROVE PacketReads(nodes, sp2[i], h, es, i)
  <2>1. PacketReads(nodes, sp[i], h, es, i)
    BY <1>6, <1>13 DEF TreeReads, sp
  <2>2. CASE i = k
    BY <1>8, <1>9, <1>10, <2>1, <2>2 DEF PacketReads, o
  <2>3. CASE i # k
    BY <1>10, <1>12, <2>1, <2>3
  <2> QED
    BY <2>2, <2>3
<1>14. Covered(nodes, u.root, h, SentIn(es)) /\ Covered(nodes, u.receivedRoot, h, AnsweredIn(es))
  BY <1>6, <1>7 DEF TreeReads
<1>15. TreeReads(nodes, u, h, es)
  BY <1>7, <1>10, <1>11, <1>13, <1>14 DEF TreeReads
<1>16. \A g \in DOMAIN qs : TreeReads(nodes, qs[g], g, EntriesOf(lg, g))
  BY <1>4, <1>5, <1>15 DEF Replaced, es
<1>17. DOMAIN qs = DOMAIN ps
  BY <1>4 DEF Replaced
<1> QED
  BY <1>5, <1>16, <1>17 DEF LogReads

\* The counts are not read back either.
LEMMA CountedLogged ==
  ASSUME NEW nodes, NEW ps, TreesFit(nodes, ps), NEW lg, LogReads(nodes, ps, lg),
         NEW new, Grown(nodes, new), DOMAIN new = DOMAIN nodes
  PROVE  LogReads(new, ps, lg)
<1>1. ASSUME NEW root, NEW h, NEW ss, Covered(nodes, root, h, ss) PROVE Covered(new, root, h, ss)
  <2>1. \A n \in DOMAIN nodes : /\ nodes[n].parent # 0 <=> new[n].parent # 0
                                /\ Top(new)[n] = Top(nodes)[n] /\ Path(new)[n] = Path(nodes)[n]
    BY DEF Grown
  <2> QED
    BY <1>1, <2>1 DEF Covered
<1>2. ASSUME NEW h \in DOMAIN ps PROVE TreeReads(new, ps[h], h, EntriesOf(lg, h))
  <2> DEFINE es == EntriesOf(lg, h)
  <2>1. TreeReads(nodes, ps[h], h, es) /\ TreeFits(nodes, ps[h], h)
    BY DEF LogReads, TreesFit
  <2> HIDE DEF es
  <2>2. Covered(new, ps[h].root, h, SentIn(es)) /\ Covered(new, ps[h].receivedRoot, h, AnsweredIn(es))
    BY <1>1, <2>1 DEF TreeReads
  <2>3. TreeReads(new, ps[h], h, es)
    BY <2>1, <2>2, TreeReadsGrown
  <2> QED
    BY <2>3 DEF es
<1> QED
  BY <1>2 DEF LogReads

\* A node is cut into bytes.
LEMMA SimplifiedLogged ==
  ASSUME NEW nodes, NEW ps, TreesFit(nodes, ps), NEW lg, LogReads(nodes, ps, lg),
         NEW n \in DOMAIN nodes, nodes[n].parent # 0, Len(nodes[n].data) > 1,
         NEW new, new = Simplified(nodes, n)
  PROVE  LogReads(new, ps, lg)
<1>1. Forest(nodes)
  BY DEF TreesFit
<1>2. Grown(nodes, new)
  BY <1>1, SimplifiedGrown
<1>3. ASSUME NEW h \in DOMAIN ps PROVE TreeReads(new, ps[h], h, EntriesOf(lg, h))
  <2> DEFINE es == EntriesOf(lg, h)
  <2>1. TreeReads(nodes, ps[h], h, es) /\ TreeFits(nodes, ps[h], h)
    BY DEF LogReads, TreesFit
  <2>2. h \in Seq(Bytes)
    <3>1. h \in Headers
      BY DEF TreesFit
    <3> QED
      BY <3>1, InputsAreTexts DEF Texts
  <2> HIDE DEF es
  <2>3. es \in Seq(LogLines)
    BY <2>1 DEF TreeReads
  <2>4. \A i \in DOMAIN es : es[i] \in LogLines
    BY <2>3
  <2>5. SentIn(es) \subseteq Seq(Bytes)
    BY <2>4 DEF SentIn, LogLines, Texts
  <2>6. AnsweredIn(es) \subseteq Seq(Bytes)
    <3>1. ASSUME NEW i \in DOMAIN es PROVE Range(es[i].answers) \subseteq Texts
      <4>1. es[i].answers \in Seq(Texts)
        BY <2>4 DEF LogLines
      <4> QED
        BY <4>1 DEF Range
    <3> QED
      BY <3>1 DEF AnsweredIn, Texts
  <2>7. Covered(nodes, ps[h].root, h, SentIn(es)) /\ Covered(nodes, ps[h].receivedRoot, h, AnsweredIn(es))
    BY <2>1 DEF TreeReads
  <2>8. Covered(new, ps[h].root, h, SentIn(es))
    BY <1>1, <2>2, <2>5, <2>7, SimplifiedCovers
  <2>9. Covered(new, ps[h].receivedRoot, h, AnsweredIn(es))
    BY <1>1, <2>2, <2>6, <2>7, SimplifiedCovers
  <2>10. TreeReads(new, ps[h], h, es)
    BY <1>2, <2>1, <2>8, <2>9, TreeReadsGrown
  <2> QED
    BY <2>10 DEF es
<1> QED
  BY <1>3 DEF LogReads

\* The last line of the log is the command whose packet takes answers and times.
LastLine ==
  lastProcessedPacket # <<>> => log # <<>> /\ log[Len(log)].header = lastProcessedPacket

\* The inductive invariant of the log.
LogOK == StateOK /\ LogReads(node, packets, log) /\ LastLine

\* The invariant of the log holds when the parsing starts.
LEMMA InitLogOK == Init => LogOK
<1> SUFFICES ASSUME Init PROVE LogOK
  OBVIOUS
<1>1. StateOK
  BY InitStateOK
<1>2. DOMAIN packets = {} /\ log = <<>> /\ DOMAIN <<>> = {} /\ <<>> \in Seq(LogLines)
  BY DEF Init
<1>3. LastLine
  BY DEF Init, LastLine
<1> QED
  BY <1>1, <1>2, <1>3 DEF LogOK, LogReads

\* A command that is read is a line of the log.
LEMMA LogLineOK ==
  ASSUME NEW h \in Headers, NEW d \in Sent, d # <<>>,
         NEW x, x = [header |-> h, sent |-> d, answers |-> <<>>]
  PROVE  x \in LogLines /\ x.header = h /\ x.sent = d /\ x.answers = <<>>
<1>1. d \in Texts
  BY InputsAreTexts DEF Texts
<1>2. <<>> \in Seq(Texts)
  OBVIOUS
<1> QED
  BY <1>1, <1>2 DEF LogLines

\* The line that was read last is the last of the log.
LEMMA LastLineAdded ==
  ASSUME NEW lg \in Seq(LogLines), NEW x \in LogLines, NEW lg2, lg2 = Append(lg, x)
  PROVE  lg2 # <<>> /\ lg2[Len(lg2)] = x
  OBVIOUS

\* A command keeps the invariant of the log: its leaf reads as it was sent, and every
\* other packet as before.
LEMMA handleTransmittedDataLogged ==
  ASSUME LogOK, NEW h \in Headers, NEW d \in Sent, handleTransmittedData(h, d)
  PROVE  LogOK'
<1> DEFINE x == [header |-> h, sent |-> d, answers |-> <<>>]
<1>0. d # <<>> /\ log' = Append(log, x) /\ lastProcessedPacket' = h
  BY DEF handleTransmittedData
<1>1. x \in LogLines /\ x.header = h /\ x.sent = d /\ x.answers = <<>>
  BY <1>0, LogLineOK
<1>2. d \in Texts /\ h \in Texts /\ h \in Seq(Bytes)
  BY <1>0, InputsAreTexts DEF Texts
<1>3. TreesFit(node, packets) /\ Forest(node) /\ LogReads(node, packets, log) /\ log \in Seq(LogLines)
  BY DEF LogOK, StateOK, TreesFit, LogReads
<1> HIDE DEF x
<1>4. LogReads(node', packets', log')
  <2>1. CASE h \notin DOMAIN packets
    <3> DEFINE n == Len(node)
               u == TreeRecord(n + 1, n + 3, <<Packet(n + 2)>>)
    <3>1. /\ node' = Tree(node, h, d)
          /\ packets' = put(packets, h, [root |-> n + 1, receivedRoot |-> n + 3,
                                         streamPackets |-> <<Packet(n + 2)>>])
      BY <2>1 DEF handleTransmittedData
    <3>2. TreeMade(node, h, d, node', n)
      BY <1>2, <1>3, <3>1, TreeGrown
    <3>3. packets' = put(packets, h, TreeRecord(n + 1, n + 3, <<Packet(n + 2)>>))
      BY <3>1 DEF TreeRecord
    <3> HIDE DEF n
    <3>4. TreeMade(node, h, x.sent, node', n)
      BY <1>1, <3>2
    <3> QED
      BY <1>0, <1>1, <1>2, <1>3, <2>1, <3>3, <3>4, FirstLogged
  <2>2. CASE h \in DOMAIN packets
    <3> DEFINE m == merge(node, packets[h].root, d)
               leaf == m.leaf
    <3>1. /\ node' = m.nodes
          /\ packets' = [packets EXCEPT ![h].streamPackets = Append(@, Packet(leaf))]
      BY <2>2 DEF handleTransmittedData
    <3>3. packets[h].root \in DOMAIN node
      BY <1>3, <2>2 DEF TreesFit, TreeFits, IsRoot
    <3>4. Merged(node, packets[h].root, d, m.nodes, m.leaf)
      BY <1>2, <1>3, <3>3, mergeFacts
    <3>5. Merged(node, packets[h].root, x.sent, node', leaf)
      BY <1>1, <3>1, <3>4
    <3> HIDE DEF m, leaf
    <3> QED
      BY <1>0, <1>1, <1>3, <2>2, <3>1, <3>5, StreamLogged
  <2> QED
    BY <2>1, <2>2
<1>5. StateOK'
  BY handleTransmittedDataOK DEF LogOK
<1>6. LastLine'
  BY <1>0, <1>1, <1>3, LastLineAdded DEF LastLine
<1> QED
  BY <1>4, <1>5, <1>6 DEF LogOK

\* So does a command that is only a header.
LEMMA handleTransmittedDataThrowsLogged ==
  ASSUME LogOK, NEW h \in Headers, handleTransmittedDataThrows(h)
  PROVE  LogOK'
<1>1. TreesFit(node, packets) /\ Forest(node) /\ LogReads(node, packets, log)
  BY DEF LogOK, StateOK, TreesFit
<1>2. UNCHANGED <<packets, log, lastProcessedPacket>>
  BY DEF handleTransmittedDataThrows
<1>3. LogReads(node', packets, log)
  <2>1. CASE h \in DOMAIN packets
    <3>1. node' = incrementCount(node, {packets[h].root})
      BY <2>1 DEF handleTransmittedDataThrows
    <3> DEFINE new == incrementCount(node, {packets[h].root})
    <3>2. Grown(node, new) /\ DOMAIN new = DOMAIN node
      BY <1>1, incrementCountGrown
    <3> HIDE DEF new
    <3>3. LogReads(new, packets, log)
      BY <1>1, <3>2, CountedLogged
    <3> QED
      BY <3>1, <3>3 DEF new
  <2>2. CASE h \notin DOMAIN packets
    BY <1>1, <2>2 DEF handleTransmittedDataThrows
  <2> QED
    BY <2>1, <2>2
<1>4. StateOK'
  BY handleTransmittedDataThrowsOK DEF LogOK
<1>5. LastLine'
  BY <1>2 DEF LogOK, LastLine
<1> QED
  BY <1>2, <1>3, <1>4, <1>5 DEF LogOK

\* So does an answer: it becomes the answer of the packet of the last line.
LEMMA handleReceivedDataLogged ==
  ASSUME LogOK, NEW a \in Answers, handleReceivedData(a)
  PROVE  LogOK'
<1> DEFINE h == lastProcessedPacket
           m == merge(node, packets[h].receivedRoot, a)
           leaf == m.leaf
           k == lastPacket(h)
<1>0. a \in Texts
  BY InputsAreTexts
<1>1. TreesFit(node, packets) /\ Forest(node) /\ LogReads(node, packets, log) /\ log \in Seq(LogLines)
  BY DEF LogOK, StateOK, TreesFit, LogReads
<1>2. h \in DOMAIN packets /\ log # <<>> /\ log[Len(log)].header = h
  BY DEF LogOK, LastLine, StateOK, handleReceivedData
<1>3. k \in DOMAIN packets[h].streamPackets /\ k = Len(packets[h].streamPackets)
  BY <1>2, LastPacketFacts DEF LogOK, lastPacket
<1>4. /\ node' = m.nodes
      /\ packets' = [packets EXCEPT ![h].streamPackets[k].receivedLeafNode = leaf]
      /\ lastProcessedPacket' = h
      /\ log' = AnsweredLog(log, a)
  BY DEF handleReceivedData, AnsweredLog
<1>5. packets[h].receivedRoot \in DOMAIN node
  BY <1>1, <1>2 DEF TreesFit, TreeFits, IsRoot
<1>6. Merged(node, packets[h].receivedRoot, a, m.nodes, m.leaf)
  BY <1>0, <1>1, <1>5, mergeFacts
<1>7. Merged(node, packets[h].receivedRoot, a, node', leaf)
  BY <1>4, <1>6
<1> HIDE DEF m, h, k, leaf
<1>8. leaf \in Nat \ {0}
  <2>1. leaf \in DOMAIN node' /\ node' \in Seq(Nodes)
    BY <1>7 DEF Merged, Grown, Forest, Linked
  <2> QED
    BY <2>1
<1>9. LogReads(node', packets', log')
  BY <1>0, <1>1, <1>2, <1>3, <1>4, <1>7, <1>8, AnswerLogged
<1>10. StateOK'
  BY handleReceivedDataOK DEF LogOK
<1>11. LastLine'
  <2>1. PICK f \in Seq(LogLines), x \in LogLines : log = Append(f, x)
    BY <1>1, <1>2, LogEnds
  <2>0. LastLineIs(f, x, a, log)
    BY <1>0, <2>1, LastLineAnswered
  <2>2. log' = Append(f, Answered(x, a)) /\ x.header = h
    BY <1>2, <1>4, <2>0 DEF LastLineIs
  <2> DEFINE y == Answered(x, a)
  <2>3. y \in LogLines /\ y.header = x.header
    BY <1>0, AnsweredFacts DEF Completed
  <2> HIDE DEF y
  <2>4. log' = Append(f, y)
    BY <2>2 DEF y
  <2>5. log' # <<>> /\ log'[Len(log')] = y
    BY <2>3, <2>4, LastLineAdded
  <2> QED
    BY <1>4, <2>2, <2>3, <2>5 DEF LastLine
<1> QED
  BY <1>9, <1>10, <1>11 DEF LogOK

\* So does a time.
LEMMA handleResponseTimeLogged ==
  ASSUME LogOK, handleResponseTime
  PROVE  LogOK'
<1> DEFINE h == lastProcessedPacket
           k == lastPacket(h)
<1>1. TreesFit(node, packets) /\ LogReads(node, packets, log)
  BY DEF LogOK, StateOK
<1>2. h \in DOMAIN packets
  BY DEF LogOK, StateOK, handleResponseTime
<1>3. k \in DOMAIN packets[h].streamPackets
  BY <1>2, LastPacketFacts DEF LogOK
<1>4. /\ packets' = [packets EXCEPT ![h].streamPackets[k].ac = ac]
      /\ UNCHANGED <<node, lastProcessedPacket, log>>
  BY DEF handleResponseTime
<1> HIDE DEF h, k
<1>5. LogReads(node, packets', log)
  BY <1>1, <1>2, <1>3, <1>4, TimeLogged
<1>6. StateOK'
  BY handleResponseTimeOK DEF LogOK
<1> QED
  BY <1>4, <1>5, <1>6 DEF LogOK, LastLine

\* So does a turn of simplifyNodes: no packet reads differently.
LEMMA simplifyNodesLogged ==
  ASSUME LogOK, NEW n \in DOMAIN node, simplifyNodes(n)
  PROVE  LogOK'
<1>1. TreesFit(node, packets) /\ LogReads(node, packets, log)
  BY DEF LogOK, StateOK
<1>2. node' = Simplified(node, n) /\ Len(node[n].data) > 1 /\ node[n].parent # 0
      /\ UNCHANGED <<packets, lastProcessedPacket, log>>
  <2>1. node' = Simplified(node, n)
    BY DEF simplifyNodes, Simplified, Slice
  <2>2. Len(node[n].data) > 1 /\ n \in InTree \ Roots
    BY DEF simplifyNodes
  <2>3. node[n].parent # 0
    BY <2>2 DEF InTree
  <2> QED
    BY <2>1, <2>2, <2>3 DEF simplifyNodes
<1>3. LogReads(node', packets, log)
  BY <1>1, <1>2, SimplifiedLogged
<1>4. StateOK'
  BY simplifyNodesOK DEF LogOK
<1> QED
  BY <1>2, <1>3, <1>4 DEF LogOK, LastLine

\* Every step keeps the invariant of the log.
LEMMA NextLogOK == LogOK /\ [Next]_vars => LogOK'
<1> SUFFICES ASSUME LogOK, [Next]_vars PROVE LogOK'
  OBVIOUS
<1>0. StateOK'
  BY NextStateOK DEF LogOK
<1>1. ASSUME NEW h \in Headers, NEW d \in Sent, handleTransmittedData(h, d) PROVE LogOK'
  BY <1>1, handleTransmittedDataLogged
<1>2. ASSUME NEW h \in Headers, handleTransmittedDataThrows(h) PROVE LogOK'
  BY <1>2, handleTransmittedDataThrowsLogged
<1>3. ASSUME NEW a \in Answers, handleReceivedData(a) PROVE LogOK'
  BY <1>3, handleReceivedDataLogged
<1>4. CASE handleResponseTime
  BY <1>4, handleResponseTimeLogged
<1>5. ASSUME UNCHANGED <<node, packets, log, lastProcessedPacket>> PROVE LogOK'
  BY <1>0, <1>5 DEF LogOK, LastLine
<1>6. ASSUME NEW n \in DOMAIN node, simplifyNodes(n) PROVE LogOK'
  BY <1>6, simplifyNodesLogged
<1>7. CASE handleResponseTimeThrows
  BY <1>5, <1>7 DEF handleResponseTimeThrows
<1>8. CASE parseFileEnds
  BY <1>5, <1>8 DEF parseFileEnds
<1>9. CASE simplifyNodesEnds
  BY <1>5, <1>9 DEF simplifyNodesEnds
<1>10. ASSUME NEW h \in Headers, write(h) PROVE LogOK'
  BY <1>5, <1>10 DEF write
<1>11. CASE writeEnds
  BY <1>5, <1>11 DEF writeEnds
<1>12. CASE UNCHANGED vars
  BY <1>5, <1>12 DEF vars
<1> QED
  BY <1>1, <1>2, <1>3, <1>4, <1>6, <1>7, <1>8, <1>9, <1>10, <1>11, <1>12 DEF Next

\* The invariant of the log holds throughout.
LEMMA SpecLogOK == Spec => []LogOK
<1> QED
  BY InitLogOK, NextLogOK, PTL DEF Spec

-----------------------------------------------------------------------------
(* What is written                                                         *)

\* A path without the header.
Cut(s) == SubSeq(s, HeaderLength + 1, Len(s))

IsCut(s, c) ==
  /\ c \in Seq(Bytes) /\ Len(c) = Len(s) - HeaderLength
  /\ \A i \in 1 .. Len(c) : c[i] = s[HeaderLength + i]

\* What is left of a sequence after the header, byte by byte.
LEMMA HeaderCut ==
  ASSUME NEW s \in Seq(Bytes), HeaderLength <= Len(s)
  PROVE  IsCut(s, Cut(s))
<1>1. HeaderLength \in Nat \ {0} /\ Len(s) \in Nat
  BY PacketTreeAssumption
<1> DEFINE k == HeaderLength
<1>2. /\ k + 1 \in Int /\ Len(s) \in Int
      /\ \A i \in (k + 1) .. Len(s) : s[i] \in Bytes
  BY <1>1
<1> HIDE DEF k
<1>3. k \in Nat /\ k <= Len(s)
  BY <1>1 DEF k
<1> DEFINE c == SubSeq(s, k + 1, Len(s))
<1>4. c = [i \in 1 .. Len(s) - k |-> s[k + i]]
  <2>1. c = [i \in 1 .. Len(s) - (k + 1) + 1 |-> s[i + (k + 1) - 1]]
    BY <1>1, <1>2, <1>3
  <2>2. Len(s) - (k + 1) + 1 = Len(s) - k
    BY <1>1, <1>3
  <2>3. \A i \in 1 .. Len(s) - k : i + (k + 1) - 1 = k + i
    BY <1>1, <1>3
  <2> HIDE DEF c
  <2> QED
    BY <2>1, <2>2, <2>3
<1>5. \A i \in 1 .. Len(s) - k : k + i \in 1 .. Len(s) /\ k + i \in (k + 1) .. Len(s)
  BY <1>1, <1>3
<1>6. Len(s) - k \in Nat
  BY <1>1, <1>3
<1> HIDE DEF c
<1>7. c \in [1 .. Len(s) - k -> Bytes]
  BY <1>2, <1>4, <1>5
<1>8. c \in Seq(Bytes) /\ Len(c) = Len(s) - k
  BY <1>6, <1>7, FunctionIsSeq
<1>9. \A i \in 1 .. Len(c) : c[i] = s[k + i] /\ k + i \in 1 .. Len(s)
  BY <1>4, <1>5, <1>8
<1>10. Cut(s) = c
  BY DEF Cut, c, k
<1>11. IsCut(s, c)
  BY <1>8, <1>9 DEF IsCut, k
<1> QED
  BY <1>10, <1>11

\* The header and a command, without the header, are the command.
LEMMA CutOfBoth ==
  ASSUME NEW h \in Seq(Bytes), Len(h) = HeaderLength, NEW s \in Seq(Bytes)
  PROVE  Cut(Both(h, s)) = s
<1> DEFINE b == Both(h, s)
<1>1. /\ b \in Seq(Bytes) /\ Len(b) = Len(h) + Len(s)
      /\ \A i \in 1 .. Len(s) : b[Len(h) + i] = s[i]
  BY BothFacts
<1>2. Len(s) \in Nat /\ Len(h) \in Nat
  OBVIOUS
<1> HIDE DEF b
<1>3. HeaderLength <= Len(b)
  BY <1>1, <1>2
<1>4. /\ Cut(b) \in Seq(Bytes) /\ Len(Cut(b)) = Len(b) - HeaderLength
      /\ \A i \in 1 .. Len(Cut(b)) : Cut(b)[i] = b[HeaderLength + i]
  BY <1>1, <1>3, HeaderCut DEF IsCut
<1> DEFINE c == Cut(b)
<1> HIDE DEF c
<1>5. c \in Seq(Bytes) /\ Len(c) = Len(s) /\ \A i \in 1 .. Len(s) : c[i] = s[i]
  BY <1>1, <1>2, <1>4 DEF c
<1>6. c = s
  BY <1>5
<1> QED
  BY <1>6 DEF c, b

\* A leaf that reads as more of an earlier text is written so.
LEMMA CutBetween ==
  ASSUME NEW h \in Seq(Bytes), Len(h) = HeaderLength, NEW s \in Seq(Bytes), NEW e \in Seq(Bytes),
         NEW p \in Seq(Bytes), IsPrefix(Both(h, s), p), IsPrefix(p, Both(h, e))
  PROVE  IsPrefix(s, Cut(p)) /\ IsPrefix(Cut(p), e)
<1> DEFINE a == Both(h, s)
           b == Both(h, e)
           c == Cut(p)
           k == HeaderLength
<1>1. /\ a \in Seq(Bytes) /\ Len(a) = k + Len(s)
      /\ \A i \in 1 .. Len(s) : a[k + i] = s[i]
  BY BothFacts
<1>2. /\ b \in Seq(Bytes) /\ Len(b) = k + Len(e)
      /\ \A i \in 1 .. Len(e) : b[k + i] = e[i]
  BY BothFacts
<1> HIDE DEF a, b
<1>3. Len(s) \in Nat /\ k \in Nat /\ Len(e) \in Nat /\ Len(p) \in Nat
  BY PacketTreeAssumption
<1>4. Len(a) <= Len(p) /\ \A i \in 1 .. Len(a) : a[i] = p[i]
  BY <1>1, PrefixFacts DEF a
<1>5. Len(p) <= Len(b) /\ \A i \in 1 .. Len(p) : p[i] = b[i]
  BY <1>2, PrefixFacts DEF b
<1>6. k <= Len(p)
  BY <1>1, <1>3, <1>4
<1>7. /\ c \in Seq(Bytes) /\ Len(c) = Len(p) - k
      /\ \A i \in 1 .. Len(c) : c[i] = p[k + i]
  BY <1>6, HeaderCut DEF IsCut
<1> HIDE DEF c, k
<1>8. Len(s) <= Len(c) /\ Len(c) <= Len(e)
  BY <1>1, <1>2, <1>3, <1>4, <1>5, <1>7
<1>9. ASSUME NEW i \in 1 .. Len(s) PROVE s[i] = c[i]
  <2>1. k + i \in 1 .. Len(a) /\ i \in 1 .. Len(c)
    BY <1>1, <1>3, <1>7, <1>8
  <2> QED
    BY <1>1, <1>4, <1>7, <2>1
<1>10. ASSUME NEW i \in 1 .. Len(c) PROVE c[i] = e[i]
  <2>1. k + i \in 1 .. Len(p) /\ i \in 1 .. Len(e)
    BY <1>3, <1>7, <1>8
  <2> QED
    BY <1>2, <1>5, <1>7, <2>1
<1>11. IsPrefix(s, c)
  BY <1>7, <1>8, <1>9, PrefixFacts
<1>12. IsPrefix(c, e)
  BY <1>7, <1>8, <1>10, PrefixFacts
<1> QED
  BY <1>11, <1>12 DEF c

\* What is written for a leaf is its path without the header.
LEMMA WrittenIsCut ==
  ASSUME StateOK, NEW leaf \in DOMAIN node
  PROVE  Written(leaf) = Cut(Path(node)[leaf]) /\ Path(node)[leaf] \in Seq(Bytes)
BY DataIsPath, RootsFacts DEF Written, Cut

\* A leaf that reads as a stream is written as that stream, or as a part of an earlier one
\* that continues it.
LEMMA ReadsFaithful ==
  ASSUME StateOK, NEW leaf \in DOMAIN node, NEW h \in Headers, NEW s \in Seq(Bytes),
         NEW earlier, earlier \subseteq Seq(Bytes), LeafReads(node, leaf, h, s, earlier)
  PROVE  Faithful(Written(leaf), s, earlier)
<1> DEFINE p == Path(node)[leaf]
           w == Written(leaf)
<1>1. w = Cut(p) /\ p \in Seq(Bytes)
  BY WrittenIsCut
<1>2. h \in Seq(Bytes) /\ Len(h) = HeaderLength
  BY InputsAreTexts DEF Texts
<1> HIDE DEF w
<1>3. CASE p = Both(h, s)
  <2>1. w = s
    BY <1>1, <1>2, <1>3, CutOfBoth
  <2> QED
    BY <2>1 DEF Faithful, w
<1>4. ASSUME NEW e \in earlier, IsPrefix(Both(h, s), p), IsPrefix(p, Both(h, e))
      PROVE  Faithful(w, s, earlier)
  <2> HIDE DEF p
  <2>1. e \in Seq(Bytes)
    OBVIOUS
  <2>2. IsPrefix(s, w) /\ IsPrefix(w, e)
    BY <1>1, <1>2, <1>4, <2>1, CutBetween
  <2> QED
    BY <2>2 DEF Faithful, IsStrictPrefix
<1> QED
  BY <1>3, <1>4 DEF LeafReads, w

\* All of PacketsReadBack but the numbers.
ReadBack ==
  \A h \in DOMAIN packets :
    LET es == Entries(h)
        ps == packets[h].streamPackets
    IN  /\ Len(es) = Len(ps)
        /\ \A i \in DOMAIN ps :
             /\ Faithful(Written(ps[i].transmittedLeafNode), es[i].sent,
                         {es[j].sent : j \in 1 .. i - 1})
             /\ IF es[i].answers = <<>> THEN ps[i].receivedLeafNode = 0
                ELSE Faithful(Written(ps[i].receivedLeafNode), Last(es[i].answers),
                              UNION {Range(es[j].answers) : j \in 1 .. i})

\* The invariant of the log says of every packet what PacketsReadBack says.
LEMMA LogReadBack == LogOK => ReadBack
<1> SUFFICES ASSUME LogOK, NEW h \in DOMAIN packets
             PROVE  LET es == Entries(h)
                        ps == packets[h].streamPackets
                    IN  /\ Len(es) = Len(ps)
                        /\ \A i \in DOMAIN ps :
                             /\ Faithful(Written(ps[i].transmittedLeafNode), es[i].sent,
                                         {es[j].sent : j \in 1 .. i - 1})
                             /\ IF es[i].answers = <<>> THEN ps[i].receivedLeafNode = 0
                                ELSE Faithful(Written(ps[i].receivedLeafNode), Last(es[i].answers),
                                              UNION {Range(es[j].answers) : j \in 1 .. i})
  BY DEF ReadBack
<1> DEFINE es == Entries(h)
           t  == packets[h]
           ps == t.streamPackets
<1>1. StateOK /\ h \in Headers /\ TreeFits(node, t, h)
  BY DEF LogOK, StateOK, TreesFit
<1>2. es = EntriesOf(log, h)
  BY DEF Entries, EntriesOf
<1>3. TreeReads(node, t, h, es)
  BY <1>2 DEF LogOK, LogReads
<1>4. ps \in Seq(Leaves)
  BY <1>1, TreeParts DEF TreeFits
<1> HIDE DEF es
<1>5. es \in Seq(LogLines) /\ Len(es) = Len(ps)
  BY <1>3 DEF TreeReads
<1>6. DOMAIN es = DOMAIN ps /\ DOMAIN es = 1 .. Len(es)
  <2> HIDE DEF ps
  <2> QED
    BY <1>4, <1>5, SeqFacts
<1>7. \A i \in DOMAIN es : PacketReads(node, ps[i], h, es, i) /\ LeavesHang(node, t, ps[i])
  BY <1>1, <1>3, <1>6 DEF TreeReads, TreeFits
<1>8. \A i \in DOMAIN es : /\ es[i] \in LogLines /\ es[i].sent \in Seq(Bytes)
                           /\ es[i].answers \in Seq(Texts)
  <2>1. \A i \in DOMAIN es : es[i] \in LogLines
    BY <1>5
  <2> QED
    BY <2>1 DEF LogLines, Texts
<1>9. \A i \in DOMAIN es : Range(es[i].answers) \subseteq Seq(Bytes)
  BY <1>8 DEF Range, Texts
<1> HIDE DEF ps, t
<1>10. ASSUME NEW i \in DOMAIN ps
       PROVE  /\ Faithful(Written(ps[i].transmittedLeafNode), es[i].sent, SentBefore(es, i))
              /\ IF es[i].answers = <<>> THEN ps[i].receivedLeafNode = 0
                 ELSE Faithful(Written(ps[i].receivedLeafNode), Last(es[i].answers),
                               AnsweredUpTo(es, i))
  <2>1. i \in DOMAIN es /\ PacketReads(node, ps[i], h, es, i) /\ LeavesHang(node, t, ps[i])
    BY <1>6, <1>7
  <2>2. \A j \in 1 .. i : j \in DOMAIN es
    BY <1>5, <1>6, <2>1
  <2>3. \A j \in 1 .. i - 1 : j \in DOMAIN es
    BY <1>5, <1>6, <2>1
  <2>4. SentBefore(es, i) \subseteq Seq(Bytes)
    BY <1>8, <2>3 DEF SentBefore
  <2>5. AnsweredUpTo(es, i) \subseteq Seq(Bytes)
    BY <1>9, <2>2 DEF AnsweredUpTo
  <2> DEFINE a == ps[i].transmittedLeafNode
             b == ps[i].receivedLeafNode
  <2>6. a \in DOMAIN node /\ (b # 0 => b \in DOMAIN node)
    BY <2>1 DEF LeavesHang, Hangs
  <2>7. LeafReads(node, a, h, es[i].sent, SentBefore(es, i))
    BY <2>1 DEF PacketReads
  <2>8. es[i].answers = <<>> => b = 0
    BY <2>1 DEF PacketReads
  <2>9. es[i].answers # <<>> =>
          b # 0 /\ LeafReads(node, b, h, Last(es[i].answers), AnsweredUpTo(es, i))
    BY <2>1 DEF PacketReads
  <2>10. es[i].sent \in Seq(Bytes)
    BY <1>8, <2>1
  <2>11. es[i].answers # <<>> => Last(es[i].answers) \in Seq(Bytes)
    <3> DEFINE s == es[i].answers
    <3>1. s \in Seq(Texts)
      BY <1>8, <2>1
    <3> HIDE DEF s
    <3>2. s # <<>> => Last(s) \in Texts
      BY <3>1 DEF Last
    <3> QED
      BY <3>2 DEF s, Texts
  <2> HIDE DEF a, b
  <2>12. Faithful(Written(a), es[i].sent, SentBefore(es, i))
    BY <1>1, <2>4, <2>6, <2>7, <2>10, ReadsFaithful
  <2>13. ASSUME es[i].answers # <<>>
         PROVE  Faithful(Written(b), Last(es[i].answers), AnsweredUpTo(es, i))
    BY <1>1, <2>5, <2>6, <2>9, <2>11, <2>13, ReadsFaithful
  <2> QED
    BY <2>8, <2>12, <2>13 DEF a, b
<1> QED
  BY <1>5, <1>10, Zenon DEF SentBefore, AnsweredUpTo, es, ps, t

-----------------------------------------------------------------------------
(* The numbers beside the packets                                          *)

\* The first n lines with a header, and where a line stands among those with its header:
\* the position of its packet in the tree.
LinesOf(lg, h, n) == {j \in 1 .. n : lg[j].header = h}

Rank(lg, k) == Cardinality(LinesOf(lg, lg[k].header, k))

\* The number of line k.
Number(ps, lg, k) == ps[lg[k].header].streamPackets[Rank(lg, k)].ac

\* How many lines have the header.
Total(lg, h) == Cardinality(LinesOf(lg, h, Len(lg)))

\* Every line has a packet.
Ranked(ps, lg) ==
  /\ \A k \in DOMAIN lg : lg[k].header \in DOMAIN ps
  /\ \A h \in DOMAIN ps :
       ps[h].streamPackets \in Seq(Leaves) /\ Len(ps[h].streamPackets) = Total(lg, h)

\* Numbers grow with the lines.
InOrder(ps, lg) ==
  \A j, k \in DOMAIN lg :
    j < k /\ Number(ps, lg, j) # 0 /\ Number(ps, lg, k) # 0 => Number(ps, lg, j) < Number(ps, lg, k)

\* All numbers given are below the next one, and in order.
Numbered(ps, lg, time) ==
  /\ \A k \in DOMAIN lg : Number(ps, lg, k) < time
  /\ InOrder(ps, lg)

\* The lines with a header are finitely many.
LEMMA LinesFinite ==
  ASSUME NEW lg, NEW h, NEW n \in Nat
  PROVE  IsFiniteSet(LinesOf(lg, h, n)) /\ Cardinality(LinesOf(lg, h, n)) \in Nat
<1>1. IsFiniteSet(1 .. n)
  BY FS_Interval
<1>2. LinesOf(lg, h, n) \in SUBSET (1 .. n)
  BY DEF LinesOf
<1> DEFINE S == LinesOf(lg, h, n)
<1> HIDE DEF S
<1>3. IsFiniteSet(S)
  BY <1>1, <1>2, FS_Subset DEF S
<1> QED
  BY <1>3, FS_CardinalityType DEF S

\* A line is one of those with its header.
LEMMA RankFacts ==
  ASSUME NEW S, NEW lg \in Seq(S), NEW k \in DOMAIN lg
  PROVE  Rank(lg, k) \in 1 .. Total(lg, lg[k].header)
<1> DEFINE h == lg[k].header
           A == LinesOf(lg, h, k)
           B == LinesOf(lg, h, Len(lg))
<1>1. k \in Nat \ {0} /\ Len(lg) \in Nat /\ k <= Len(lg) /\ k \in 1 .. k
  OBVIOUS
<1>2. k \in A /\ A \in SUBSET B
  BY <1>1 DEF LinesOf
<1>3. /\ IsFiniteSet(A) /\ Cardinality(A) \in Nat
      /\ IsFiniteSet(B) /\ Cardinality(B) \in Nat
  BY <1>1, LinesFinite
<1> HIDE DEF A, B, h
<1>4. Cardinality(A) <= Cardinality(B)
  BY <1>2, <1>3, FS_Subset
<1>5. Cardinality(A) # 0
  BY <1>2, <1>3, FS_EmptySet
<1>6. Cardinality(A) \in 1 .. Cardinality(B)
  BY <1>3, <1>4, <1>5
<1> QED
  BY <1>6 DEF Rank, Total, A, B, h

\* A later line with the same header has a higher rank.
LEMMA RankGrows ==
  ASSUME NEW S, NEW lg \in Seq(S), NEW j \in DOMAIN lg, NEW k \in DOMAIN lg, j < k,
         lg[j].header = lg[k].header
  PROVE  Rank(lg, j) < Rank(lg, k)
<1> DEFINE h == lg[k].header
           A == LinesOf(lg, h, j)
           B == LinesOf(lg, h, k)
<1>1. j \in Nat /\ k \in Nat /\ k \in 1 .. k
  OBVIOUS
<1>2. k \in B /\ k \notin A /\ A \in SUBSET B
  BY <1>1 DEF LinesOf
<1>3. /\ IsFiniteSet(A) /\ Cardinality(A) \in Nat
      /\ IsFiniteSet(B) /\ Cardinality(B) \in Nat
  BY <1>1, LinesFinite
<1> HIDE DEF A, B, h
<1>4. Cardinality(A) <= Cardinality(B) /\ (Cardinality(B) = Cardinality(A) => B = A)
  BY <1>2, <1>3, FS_Subset
<1>5. Cardinality(A) < Cardinality(B)
  BY <1>2, <1>3, <1>4
<1> QED
  BY <1>5 DEF Rank, A, B, h

SameHeaders(a, b, n) == \A i \in 1 .. n : a[i].header = b[i].header

\* Ranks depend on the headers of the lines up to there only.
LEMMA SameRanks ==
  ASSUME NEW a, NEW b, NEW n \in Nat, SameHeaders(a, b, n), NEW k \in 1 .. n
  PROVE  Rank(a, k) = Rank(b, k)
<1>1. \A i \in 1 .. k : i \in 1 .. n
  OBVIOUS
<1>2. a[k].header = b[k].header
  BY DEF SameHeaders
<1>3. LinesOf(a, a[k].header, k) = LinesOf(b, b[k].header, k)
  BY <1>1, <1>2 DEF LinesOf, SameHeaders
<1> QED
  BY <1>3 DEF Rank

\* Totals depend on the headers of the lines only.
LEMMA SameTotals ==
  ASSUME NEW a, NEW b, NEW n, SameHeaders(a, b, n), Len(a) = n, Len(b) = n, NEW h
  PROVE  Total(a, h) = Total(b, h)
<1>1. LinesOf(a, h, Len(a)) = LinesOf(b, h, Len(b))
  BY DEF LinesOf, SameHeaders
<1> QED
  BY <1>1 DEF Total

\* The packet of a line.
LEMMA NumberFacts ==
  ASSUME NEW ps, NEW lg \in Seq(LogLines), Ranked(ps, lg), NEW k \in DOMAIN lg
  PROVE  /\ lg[k].header \in DOMAIN ps
         /\ Rank(lg, k) \in DOMAIN ps[lg[k].header].streamPackets
         /\ Number(ps, lg, k) \in Nat
<1> DEFINE h == lg[k].header
           r == Rank(lg, k)
           sp == ps[h].streamPackets
<1>1. h \in DOMAIN ps
  BY DEF Ranked
<1>2. sp \in Seq(Leaves) /\ Len(sp) = Total(lg, h)
  BY <1>1 DEF Ranked
<1>3. r \in 1 .. Total(lg, h)
  BY RankFacts
<1>4. Number(ps, lg, k) = sp[r].ac
  BY DEF Number
<1> HIDE DEF r, sp, h
<1>5. r \in DOMAIN sp /\ sp[r] \in Leaves
  BY <1>2, <1>3
<1>6. sp[r].ac \in Nat
  BY <1>5, LeafParts
<1> QED
  BY <1>1, <1>4, <1>5, <1>6 DEF r, sp, h

-----------------------------------------------------------------------------
TotalGrown(lg, x, lg2, h) ==
  Total(lg2, h) = IF x.header = h THEN Total(lg, h) + 1 ELSE Total(lg, h)

\* One more line adds one to the total of its header and to no other.
LEMMA TotalAdded ==
  ASSUME NEW lg \in Seq(LogLines), NEW x \in LogLines, NEW lg2, NEW h
  PROVE  lg2 = Append(lg, x) =>
           TotalGrown(lg, x, lg2, h)
<1>equal. SUFFICES ASSUME lg2 = Append(lg, x)
       PROVE  TotalGrown(lg, x, lg2, h)
  OBVIOUS
<1> USE <1>equal
<1> DEFINE n == Len(lg)
           A == LinesOf(lg, h, n)
           B == LinesOf(lg2, h, n + 1)
<1>1. n \in Nat /\ Len(lg2) = n + 1 /\ lg2[n + 1] = x /\ \A i \in 1 .. n : lg2[i] = lg[i]
  OBVIOUS
<1> HIDE <1>equal
<1> HIDE DEF n
<1>2. B = IF x.header = h THEN A \cup {n + 1} ELSE A
  <2>1. 1 .. n + 1 = 1 .. n \cup {n + 1}
    BY <1>1
  <2> QED
    BY <1>1, <2>1 DEF LinesOf
<1>3. n + 1 \notin A
  BY <1>1 DEF LinesOf
<1>4. IsFiniteSet(A)
  BY <1>1, LinesFinite
<1> HIDE DEF A, B
<1>5. Cardinality(A \cup {n + 1}) = Cardinality(A) + 1
  BY <1>3, <1>4, FS_AddElement
<1>6. Total(lg2, h) = Cardinality(B) /\ Total(lg, h) = Cardinality(A)
  BY <1>1 DEF Total, A, B, n
<1> QED
  BY <1>2, <1>5, <1>6 DEF TotalGrown

\* Trees with the same numbers, and perhaps one more packet below h.
MoreOf(ps, qs, h) ==
  /\ DOMAIN qs = DOMAIN ps \cup {h}
  /\ \A g \in DOMAIN qs : qs[g].streamPackets \in Seq(Leaves)
  /\ \A g \in DOMAIN ps : \A i \in DOMAIN ps[g].streamPackets :
       qs[g].streamPackets[i].ac = ps[g].streamPackets[i].ac

\* A line keeps its number when its packets get more and keep theirs.
LEMMA NumberKept ==
  ASSUME NEW ps, NEW lg \in Seq(LogLines), Ranked(ps, lg), NEW qs, NEW h, MoreOf(ps, qs, h),
         NEW lg2, SameHeaders(lg, lg2, Len(lg)), NEW k \in DOMAIN lg
  PROVE  Number(qs, lg2, k) = Number(ps, lg, k)
<1>1. Len(lg) \in Nat /\ k \in 1 .. Len(lg)
  OBVIOUS
<1>2. Rank(lg2, k) = Rank(lg, k) /\ lg2[k].header = lg[k].header
  BY <1>1, SameRanks DEF SameHeaders
<1> DEFINE g == lg[k].header
           r == Rank(lg, k)
<1>3. g \in DOMAIN ps /\ r \in DOMAIN ps[g].streamPackets
  BY NumberFacts
<1> HIDE DEF g, r
<1>4. qs[g].streamPackets[r].ac = ps[g].streamPackets[r].ac
  BY <1>3 DEF MoreOf
<1> QED
  BY <1>2, <1>4 DEF Number, g, r

\* The headers and the numbers stay.
LEMMA NumbersStay ==
  ASSUME NEW ps, NEW lg \in Seq(LogLines), Ranked(ps, lg), NEW time, Numbered(ps, lg, time),
         NEW qs, NEW h \in DOMAIN ps, MoreOf(ps, qs, h),
         \A g \in DOMAIN ps : Len(qs[g].streamPackets) = Len(ps[g].streamPackets),
         NEW lg2, Len(lg2) = Len(lg), DOMAIN lg2 = DOMAIN lg, SameHeaders(lg, lg2, Len(lg))
  PROVE  Ranked(qs, lg2) /\ Numbered(qs, lg2, time)
<1>1. \A k \in DOMAIN lg : Number(qs, lg2, k) = Number(ps, lg, k)
  BY NumberKept
<1>2. \A g : Total(lg2, g) = Total(lg, g)
  BY SameTotals
<1>3. DOMAIN lg = 1 .. Len(lg)
  BY SeqFacts
<1>4. \A k \in DOMAIN lg : lg2[k].header = lg[k].header
  BY <1>3 DEF SameHeaders
<1>5. DOMAIN qs = DOMAIN ps
  BY DEF MoreOf
<1>6. Ranked(qs, lg2)
  BY <1>2, <1>4, <1>5 DEF Ranked, MoreOf
<1>7. Numbered(qs, lg2, time)
  BY <1>1 DEF Numbered, InOrder
<1> QED
  BY <1>6, <1>7

AppendedLine(lg, x, lg2, n) ==
  /\ n \in Nat /\ Len(lg2) = n + 1 /\ lg2[n + 1] = x /\ (\A i \in 1 .. n : lg2[i] = lg[i])
  /\ lg2 \in Seq(LogLines) /\ DOMAIN lg = 1 .. n /\ DOMAIN lg2 = 1 .. n + 1

\* A log with one more line.
LEMMA LineAppended ==
  ASSUME NEW lg \in Seq(LogLines), NEW x \in LogLines, NEW lg2, lg2 = Append(lg, x)
  PROVE  AppendedLine(lg, x, lg2, Len(lg))
BY DEF AppendedLine

\* A tree gets a packet without a number.
OneMorePacket(ps, qs, h, r) ==
  /\ MoreOf(ps, qs, h)
  /\ \A g \in DOMAIN ps : g # h => Len(qs[g].streamPackets) = Len(ps[g].streamPackets)
  /\ Len(qs[h].streamPackets) = r /\ qs[h].streamPackets[r].ac = 0

\* A packet that has no number yet.
LEMMA StreamNumbered ==
  ASSUME NEW ps, NEW lg \in Seq(LogLines), Ranked(ps, lg), NEW time \in Nat \ {0},
         Numbered(ps, lg, time),
         NEW x \in LogLines, NEW lg2, NEW h, h = x.header,
         NEW qs, NEW r, r = Total(lg, h) + 1, OneMorePacket(ps, qs, h, r)
  PROVE  lg2 = Append(lg, x) =>
           Ranked(qs, lg2) /\ Numbered(qs, lg2, time)
<1>equal. SUFFICES ASSUME lg2 = Append(lg, x)
       PROVE  Ranked(qs, lg2) /\ Numbered(qs, lg2, time)
  OBVIOUS
<1> USE <1>equal
<1>0. /\ MoreOf(ps, qs, h) /\ Len(qs[h].streamPackets) = r /\ qs[h].streamPackets[r].ac = 0
      /\ \A g \in DOMAIN ps : g # h => Len(qs[g].streamPackets) = Len(ps[g].streamPackets)
  BY DEF OneMorePacket
<1> USE <1>0
<1> DEFINE n == Len(lg)
<1>1. /\ n \in Nat /\ Len(lg2) = n + 1 /\ lg2[n + 1] = x /\ \A i \in 1 .. n : lg2[i] = lg[i]
      /\ lg2 \in Seq(LogLines) /\ DOMAIN lg = 1 .. n /\ DOMAIN lg2 = 1 .. n + 1
  <2>1. AppendedLine(lg, x, lg2, n)
    BY LineAppended
  <2> QED
    BY <2>1 DEF AppendedLine
<1>2. ASSUME NEW g PROVE Total(lg2, g) = IF x.header = g THEN Total(lg, g) + 1 ELSE Total(lg, g)
  <2>1. TotalGrown(lg, x, lg2, g)
    BY TotalAdded
  <2> QED
    BY <2>1 DEF TotalGrown
<1> HIDE <1>equal
<1>3. SameHeaders(lg, lg2, Len(lg))
  BY <1>1 DEF SameHeaders
<1> HIDE DEF n
<1>4. \A k \in DOMAIN lg : Number(qs, lg2, k) = Number(ps, lg, k)
  BY <1>3, NumberKept
<1>5. \A k \in DOMAIN lg2 : k \in DOMAIN lg \/ k = n + 1
  BY <1>1
<1>6. Rank(lg2, n + 1) = r
  <2>1. Rank(lg2, n + 1) = Total(lg2, h)
    BY <1>1 DEF Rank, Total
  <2> QED
    BY <1>2, <2>1
<1>7. Number(qs, lg2, n + 1) = 0
  BY <1>1, <1>6 DEF Number
<1>8. Ranked(qs, lg2)
  <2>1. ASSUME NEW k \in DOMAIN lg2 PROVE lg2[k].header \in DOMAIN qs
    BY <1>1, <1>5 DEF Ranked, MoreOf
  <2>2. ASSUME NEW g \in DOMAIN qs PROVE Len(qs[g].streamPackets) = Total(lg2, g)
    BY <1>2 DEF Ranked, MoreOf
  <2> QED
    BY <2>1, <2>2 DEF Ranked, MoreOf
<1>9. \A k \in DOMAIN lg2 : Number(qs, lg2, k) < time
  BY <1>4, <1>5, <1>7 DEF Numbered
<1>10. InOrder(qs, lg2)
  <2> SUFFICES ASSUME NEW j \in DOMAIN lg2, NEW k \in DOMAIN lg2, j < k,
                      Number(qs, lg2, j) # 0, Number(qs, lg2, k) # 0
               PROVE  Number(qs, lg2, j) < Number(qs, lg2, k)
    BY DEF InOrder
  <2>1. j \in DOMAIN lg /\ k \in DOMAIN lg
    BY <1>5, <1>7
  <2>2. InOrder(ps, lg)
    BY DEF Numbered
  <2> QED
    BY <1>4, <2>1, <2>2 DEF InOrder
<1> QED
  BY <1>8, <1>9, <1>10 DEF Numbered

\* The last line of the log gets the next number.
LEMMA TimeNumbered ==
  ASSUME NEW ps, NEW lg \in Seq(LogLines), Ranked(ps, lg), NEW time \in Nat \ {0},
         Numbered(ps, lg, time), lg # <<>>, NEW h, h = lg[Len(lg)].header,
         NEW qs, DOMAIN qs = DOMAIN ps,
         \A g \in DOMAIN qs : /\ qs[g].streamPackets \in Seq(Leaves)
                              /\ Len(qs[g].streamPackets) = Len(ps[g].streamPackets),
         \A g \in DOMAIN ps : \A i \in DOMAIN ps[g].streamPackets :
           qs[g].streamPackets[i].ac =
             IF g = h /\ i = Len(ps[h].streamPackets) THEN time ELSE ps[g].streamPackets[i].ac
  PROVE  Ranked(qs, lg) /\ Numbered(qs, lg, time + 1)
<1> DEFINE n == Len(lg)
<1>1. n \in Nat \ {0} /\ DOMAIN lg = 1 .. n /\ n \in DOMAIN lg
  OBVIOUS
<1> HIDE DEF n
<1>2. Ranked(qs, lg)
  BY DEF Ranked
<1>3. /\ \A k \in DOMAIN lg : /\ lg[k].header \in DOMAIN ps
                              /\ Rank(lg, k) \in DOMAIN ps[lg[k].header].streamPackets
                              /\ Number(ps, lg, k) \in Nat
  BY NumberFacts
<1>4. Rank(lg, n) = Len(ps[h].streamPackets)
  <2>1. Rank(lg, n) = Total(lg, h)
    BY DEF Rank, Total, n
  <2> QED
    BY <1>1, <1>3, <2>1 DEF Ranked, n
<1>5. Number(qs, lg, n) = time
  BY <1>1, <1>3, <1>4 DEF Number, n
<1>6. ASSUME NEW k \in DOMAIN lg, k # n PROVE Number(qs, lg, k) = Number(ps, lg, k) /\ k < n
  <2>1. k < n
    BY <1>1, <1>6
  <2>2. lg[k].header = h => Rank(lg, k) < Rank(lg, n)
    BY <1>1, <2>1, RankGrows DEF n
  <2>3. Rank(lg, k) \in Nat /\ Rank(lg, n) \in Nat
    BY <1>1, LinesFinite DEF Rank
  <2>4. ~ (lg[k].header = h /\ Rank(lg, k) = Len(ps[h].streamPackets))
    BY <1>4, <2>2, <2>3
  <2> QED
    BY <1>3, <2>1, <2>4 DEF Number
<1>7. \A k \in DOMAIN lg : Number(ps, lg, k) < time
  BY DEF Numbered
<1>8. \A k \in DOMAIN lg : Number(qs, lg, k) < time + 1
  BY <1>3, <1>5, <1>6, <1>7
<1>9. InOrder(qs, lg)
  <2> SUFFICES ASSUME NEW j \in DOMAIN lg, NEW k \in DOMAIN lg, j < k,
                      Number(qs, lg, j) # 0, Number(qs, lg, k) # 0
               PROVE  Number(qs, lg, j) < Number(qs, lg, k)
    BY DEF InOrder
  <2>1. j # n
    BY <1>1
  <2>2. Number(qs, lg, j) = Number(ps, lg, j)
    BY <1>6, <2>1
  <2>3. CASE k = n
    BY <1>5, <1>7, <2>2, <2>3
  <2>4. CASE k # n
    <3>1. Number(qs, lg, k) = Number(ps, lg, k)
      BY <1>6, <2>4
    <3>2. InOrder(ps, lg)
      BY DEF Numbered
    <3> QED
      BY <2>2, <3>1, <3>2 DEF InOrder
  <2> QED
    BY <2>3, <2>4
<1> QED
  BY <1>2, <1>8, <1>9 DEF Numbered

\* One packet is replaced.
OnePacket(ps, qs, h, k, p) ==
  /\ DOMAIN qs = DOMAIN ps
  /\ \A g \in DOMAIN ps :
       /\ Len(qs[g].streamPackets) = Len(ps[g].streamPackets)
       /\ \A i \in DOMAIN ps[g].streamPackets :
            qs[g].streamPackets[i] = IF g = h /\ i = k THEN p ELSE ps[g].streamPackets[i]

\* A change of one packet changes no other.
LEMMA OnePacketChanged ==
  ASSUME NEW ps, NEW h \in DOMAIN ps, ps[h] \in Trees, NEW k \in DOMAIN ps[h].streamPackets,
         NEW p, NEW qs
  PROVE  qs = [ps EXCEPT ![h].streamPackets[k] = p] =>
           OnePacket(ps, qs, h, k, p)
<1>equal. SUFFICES ASSUME qs = [ps EXCEPT ![h].streamPackets[k] = p]
       PROVE  OnePacket(ps, qs, h, k, p)
  OBVIOUS
<1> USE <1>equal
<1> DEFINE t   == ps[h]
           sp  == t.streamPackets
           sp2 == Changed(sp, k, p)
           u   == TreeRecord(t.root, t.receivedRoot, sp2)
<1>1. Replaced(ps, h, u, qs)
  <2>1. u = TreeRecord(ps[h].root, ps[h].receivedRoot, Changed(ps[h].streamPackets, k, p))
    OBVIOUS
  <2> HIDE DEF u
  <2> QED
    BY <2>1, ReplacedByChange
<1>2. u.streamPackets = sp2
  BY DEF TreeRecord
<1>3. sp \in Seq(Leaves) /\ k \in DOMAIN sp
  BY TreeParts
<1> HIDE <1>equal
<1> HIDE DEF u, t, sp
<1>4. Len(sp2) = Len(sp) /\ \A i \in DOMAIN sp : sp2[i] = IF i = k THEN p ELSE sp[i]
  BY <1>3 DEF Changed
<1> HIDE DEF sp2
<1>5. DOMAIN qs = DOMAIN ps /\ qs[h] = u /\ \A g \in DOMAIN ps : g # h => qs[g] = ps[g]
  BY <1>1 DEF Replaced
<1>6. ASSUME NEW g \in DOMAIN ps, g # h
      PROVE  /\ Len(qs[g].streamPackets) = Len(ps[g].streamPackets)
             /\ \A i \in DOMAIN ps[g].streamPackets : qs[g].streamPackets[i] = ps[g].streamPackets[i]
  BY <1>5, <1>6
<1>7. qs[h].streamPackets = sp2
  BY <1>2, <1>5
<1>8. /\ Len(qs[h].streamPackets) = Len(ps[h].streamPackets)
      /\ \A i \in DOMAIN ps[h].streamPackets :
           qs[h].streamPackets[i] = IF i = k THEN p ELSE ps[h].streamPackets[i]
  BY <1>4, <1>7 DEF sp, t
<1> QED
  BY <1>5, <1>6, <1>8 DEF OnePacket

SameNumbers(ps, qs, h) ==
  /\ MoreOf(ps, qs, h)
  /\ \A g \in DOMAIN ps : Len(qs[g].streamPackets) = Len(ps[g].streamPackets)

\* An answer changes no number.
LEMMA AnswerKeepsNumbers ==
  ASSUME NEW ps, NEW h \in DOMAIN ps, ps[h] \in Trees, NEW k \in DOMAIN ps[h].streamPackets,
         NEW leaf, NEW qs,
         \A g \in DOMAIN qs : qs[g] \in Trees
  PROVE  qs = [ps EXCEPT ![h].streamPackets[k].receivedLeafNode = leaf] =>
           SameNumbers(ps, qs, h)
<1>equal. SUFFICES ASSUME qs = [ps EXCEPT ![h].streamPackets[k].receivedLeafNode = leaf]
       PROVE  SameNumbers(ps, qs, h)
  OBVIOUS
<1> USE <1>equal
<1> DEFINE sp == ps[h].streamPackets
           o == sp[k]
           p == LeafRecord(o.transmittedLeafNode, leaf, o.ac)
<1>1. o \in Leaves
  <2>1. sp \in Seq(Leaves) /\ k \in DOMAIN sp
    BY TreeParts
  <2> HIDE DEF sp
  <2> QED
    BY <2>1
<1>2. qs = [ps EXCEPT ![h].streamPackets[k] = p]
  <2>1. qs = [ps EXCEPT ![h].streamPackets[k] = [o EXCEPT !.receivedLeafNode = leaf]]
    OBVIOUS
  <2>2. [o EXCEPT !.receivedLeafNode = leaf] = p
    <3>2. p = LeafRecord(o.transmittedLeafNode, leaf, o.ac)
      OBVIOUS
    <3> HIDE DEF o, p
    <3> QED
      BY <1>1, <3>2, LeafChanged
  <2> QED
    BY <2>1, <2>2
<1>3. p.ac = o.ac
  <2> HIDE DEF o
  <2> QED
    BY LeafFields
<1> HIDE <1>equal
<1> HIDE DEF p
<1>4. OnePacket(ps, qs, h, k, p)
  BY <1>2, OnePacketChanged
<1>5. \A g \in DOMAIN qs : qs[g].streamPackets \in Seq(Leaves)
  BY TreeParts
<1>6. \A g \in DOMAIN ps : \A i \in DOMAIN ps[g].streamPackets :
        qs[g].streamPackets[i].ac = ps[g].streamPackets[i].ac
  BY <1>3, <1>4 DEF OnePacket
<1> QED
  BY <1>4, <1>5, <1>6 DEF OnePacket, MoreOf, SameNumbers

\* A time numbers the last packet of the last header and no other.
LEMMA TimeSetsNumber ==
  ASSUME NEW ps, NEW h \in DOMAIN ps, ps[h] \in Trees, NEW k \in DOMAIN ps[h].streamPackets,
         NEW time, NEW qs
  PROVE  qs = [ps EXCEPT ![h].streamPackets[k].ac = time] =>
           /\ DOMAIN qs = DOMAIN ps
           /\ \A g \in DOMAIN ps :
                /\ Len(qs[g].streamPackets) = Len(ps[g].streamPackets)
                /\ \A i \in DOMAIN ps[g].streamPackets :
                     qs[g].streamPackets[i].ac =
                       IF g = h /\ i = k THEN time ELSE ps[g].streamPackets[i].ac
<1>equal. SUFFICES ASSUME qs = [ps EXCEPT ![h].streamPackets[k].ac = time]
       PROVE  /\ DOMAIN qs = DOMAIN ps
              /\ \A g \in DOMAIN ps :
                   /\ Len(qs[g].streamPackets) = Len(ps[g].streamPackets)
                   /\ \A i \in DOMAIN ps[g].streamPackets :
                        qs[g].streamPackets[i].ac =
                          IF g = h /\ i = k THEN time ELSE ps[g].streamPackets[i].ac
  OBVIOUS
<1> USE <1>equal
<1> DEFINE sp == ps[h].streamPackets
           o == sp[k]
           p == LeafRecord(o.transmittedLeafNode, o.receivedLeafNode, time)
<1>1. o \in Leaves
  <2>1. sp \in Seq(Leaves) /\ k \in DOMAIN sp
    BY TreeParts
  <2> HIDE DEF sp
  <2> QED
    BY <2>1
<1>2. qs = [ps EXCEPT ![h].streamPackets[k] = p]
  <2>1. qs = [ps EXCEPT ![h].streamPackets[k] = [o EXCEPT !.ac = time]]
    OBVIOUS
  <2>2. [o EXCEPT !.ac = time] = p
    <3>2. p = LeafRecord(o.transmittedLeafNode, o.receivedLeafNode, time)
      OBVIOUS
    <3> HIDE DEF o, p
    <3> QED
      BY <1>1, <3>2, TimeChanged
  <2> QED
    BY <2>1, <2>2
<1>3. p.ac = time
  <2> HIDE DEF o
  <2> QED
    BY LeafFields
<1> HIDE <1>equal
<1> HIDE DEF p
<1>4. OnePacket(ps, qs, h, k, p)
  BY <1>2, OnePacketChanged
<1> QED
  BY <1>3, <1>4 DEF OnePacket

\* The packet of a new tree has no number, and the other trees keep theirs.
LEMMA FirstPacketNumbers ==
  ASSUME NEW ps, NEW h, h \notin DOMAIN ps, NEW n, NEW qs, NEW rr,
         qs = put(ps, h, TreeRecord(n, rr, <<Packet(n + 1)>>)),
         \A g \in DOMAIN qs : qs[g] \in Trees
  PROVE  OneMorePacket(ps, qs, h, 1)
<1> DEFINE u == TreeRecord(n, rr, <<Packet(n + 1)>>)
<1>1. u.streamPackets = <<Packet(n + 1)>>
  BY DEF TreeRecord
<1>2. Packet(n + 1).ac = 0
  BY DEF Packet
<1>3. Len(u.streamPackets) = 1 /\ u.streamPackets[1].ac = 0
  BY <1>1, <1>2
<1>4. qs = put(ps, h, u)
  OBVIOUS
<1> HIDE DEF u
<1>5. DOMAIN qs = DOMAIN ps \cup {h} /\ qs[h] = u /\ \A g \in DOMAIN ps : qs[g] = ps[g]
  BY <1>4 DEF put
<1>6. \A g \in DOMAIN qs : qs[g].streamPackets \in Seq(Leaves)
  BY TreeParts
<1>7. MoreOf(ps, qs, h)
  BY <1>5, <1>6 DEF MoreOf
<1> QED
  BY <1>3, <1>5, <1>7 DEF OneMorePacket

\* Another packet of a tree has no number, and the others keep theirs.
LEMMA NextPacketNumbers ==
  ASSUME NEW ps, NEW h \in DOMAIN ps, ps[h] \in Trees, NEW leaf \in Nat, NEW qs,
         \A g \in DOMAIN qs : qs[g] \in Trees
  PROVE  qs = [ps EXCEPT ![h].streamPackets = Append(@, Packet(leaf))] =>
           OneMorePacket(ps, qs, h, Len(ps[h].streamPackets) + 1)
<1>equal. SUFFICES ASSUME qs = [ps EXCEPT ![h].streamPackets = Append(@, Packet(leaf))]
       PROVE  OneMorePacket(ps, qs, h, Len(ps[h].streamPackets) + 1)
  OBVIOUS
<1> USE <1>equal
<1> DEFINE sp  == ps[h].streamPackets
           p   == Packet(leaf)
           sp2 == Append(sp, p)
           u   == TreeRecord(ps[h].root, ps[h].receivedRoot, sp2)
<1>1. Replaced(ps, h, u, qs)
  <2>1. u = TreeRecord(ps[h].root, ps[h].receivedRoot, Append(ps[h].streamPackets, p))
    OBVIOUS
  <2> HIDE DEF u
  <2> QED
    BY <2>1, ReplacedByAppend
<1>2. u.streamPackets = sp2
  BY DEF TreeRecord
<1>3. p \in Leaves /\ p.ac = 0 /\ sp \in Seq(Leaves)
  BY PacketIsLeaf, TreeParts DEF Packet
<1> HIDE <1>equal
<1> HIDE DEF sp, p, u
<1>4. Len(sp2) = Len(sp) + 1 /\ sp2[Len(sp) + 1] = p /\ \A i \in DOMAIN sp : sp2[i] = sp[i]
  BY <1>3, AppendFacts
<1> HIDE DEF sp2
<1>5. DOMAIN qs = DOMAIN ps /\ qs[h].streamPackets = sp2 /\ \A g \in DOMAIN ps : g # h => qs[g] = ps[g]
  BY <1>1, <1>2 DEF Replaced
<1>6. \A g \in DOMAIN qs : qs[g].streamPackets \in Seq(Leaves)
  BY TreeParts
<1>7. ASSUME NEW g \in DOMAIN ps, NEW i \in DOMAIN ps[g].streamPackets
      PROVE  qs[g].streamPackets[i].ac = ps[g].streamPackets[i].ac
  <2>1. CASE g = h
    BY <1>4, <1>5, <2>1 DEF sp
  <2>2. CASE g # h
    BY <1>5, <2>2
  <2> QED
    BY <2>1, <2>2
<1>8. MoreOf(ps, qs, h)
  BY <1>5, <1>6, <1>7 DEF MoreOf
<1> QED
  BY <1>3, <1>4, <1>5, <1>8 DEF OneMorePacket, sp

\* The inductive invariant of the numbers.
NumberOK == LogOK /\ Ranked(packets, log) /\ Numbered(packets, log, ac)

\* Every tree of the invariant is a tree.
LEMMA StateTrees == StateOK => \A g \in DOMAIN packets : packets[g] \in Trees
BY DEF StateOK, TreesFit, TreeFits

\* A command keeps the order of the numbers: its packet has none yet.
LEMMA handleTransmittedDataNumbered ==
  ASSUME NumberOK, LogOK', NEW h \in Headers, NEW d \in Sent, handleTransmittedData(h, d)
  PROVE  NumberOK'
<1> DEFINE x == [header |-> h, sent |-> d, answers |-> <<>>]
           r == Total(log, h) + 1
<1>0. d # <<>> /\ log' = Append(log, x) /\ ac' = ac
  BY DEF handleTransmittedData
<1>1. x \in LogLines /\ x.header = h
  BY <1>0, LogLineOK
<1>2. log \in Seq(LogLines) /\ ac \in Nat \ {0} /\ Ranked(packets, log) /\ Numbered(packets, log, ac)
  BY DEF NumberOK, LogOK, LogReads, StateOK
<1>3. (\A g \in DOMAIN packets : packets[g] \in Trees) /\ (\A g \in DOMAIN packets' : packets'[g] \in Trees)
  <2>1. StateOK /\ StateOK'
    BY DEF NumberOK, LogOK
  <2> QED
    BY <2>1 DEF StateOK, TreesFit, TreeFits
<1> HIDE DEF x
<1>4. OneMorePacket(packets, packets', h, r)
  <2>1. CASE h \notin DOMAIN packets
    <3> DEFINE n == Len(node) + 1
    <3>1. packets' = put(packets, h, [root |-> Len(node) + 1, receivedRoot |-> Len(node) + 3,
                                         streamPackets |-> <<Packet(Len(node) + 2)>>])
      BY <2>1 DEF handleTransmittedData
    <3>2. Len(node) + 2 = n + 1
      <4>1. Len(node) \in Nat
        BY SeqFacts DEF NumberOK, LogOK, StateOK, TreesFit, Forest, Linked
      <4> QED
        BY <4>1
    <3>3. packets' = put(packets, h, TreeRecord(n, Len(node) + 3, <<Packet(n + 1)>>))
      BY <3>1, <3>2 DEF TreeRecord
    <3> HIDE DEF n
    <3>4. OneMorePacket(packets, packets', h, 1)
      BY <1>3, <2>1, <3>3, FirstPacketNumbers
    <3>5. Total(log, h) = 0
      <4>1. LinesOf(log, h, Len(log)) = {}
        BY <1>2, <2>1 DEF Ranked, LinesOf
      <4> QED
        BY <4>1, FS_EmptySet DEF Total
    <3> QED
      BY <3>4, <3>5
  <2>2. CASE h \in DOMAIN packets
    <3> DEFINE leaf == merge(node, packets[h].root, d).leaf
    <3>1. packets' = [packets EXCEPT ![h].streamPackets = Append(@, Packet(leaf))]
      BY <2>2 DEF handleTransmittedData
    <3>2. leaf \in Nat
      <4> DEFINE m == merge(node, packets[h].root, d)
      <4>1. TreesFit(node, packets) /\ Forest(node)
        BY DEF NumberOK, LogOK, StateOK, TreesFit
      <4>2. packets[h].root \in DOMAIN node
        BY <2>2, <4>1 DEF TreesFit, TreeFits, IsRoot
      <4>3. d \in Texts
        BY <1>0, InputsAreTexts DEF Texts
      <4>4. Merged(node, packets[h].root, d, m.nodes, m.leaf)
        BY <4>1, <4>2, <4>3, mergeFacts
      <4> HIDE DEF m
      <4>5. m.leaf \in DOMAIN m.nodes /\ m.nodes \in Seq(Nodes)
        BY <4>4 DEF Merged, Grown, Forest, Linked
      <4>6. m.leaf \in Nat
        BY <4>5
      <4> QED
        BY <4>6 DEF m
    <3> HIDE DEF leaf
    <3>3. OneMorePacket(packets, packets', h, Len(packets[h].streamPackets) + 1)
      BY <1>3, <2>2, <3>1, <3>2, NextPacketNumbers
    <3> QED
      BY <1>2, <2>2, <3>3 DEF Ranked
  <2> QED
    BY <2>1, <2>2
<1> HIDE DEF r
<1>5. Ranked(packets', log') /\ Numbered(packets', log', ac)
  <2>1. r = Total(log, h) + 1
    BY DEF r
  <2>2. h = x.header
    BY <1>1
  <2> QED
    BY <1>0, <1>1, <1>2, <1>4, <2>1, <2>2, StreamNumbered
<1> QED
  BY <1>0, <1>5 DEF NumberOK

\* So does an answer.
LEMMA handleReceivedDataNumbered ==
  ASSUME NumberOK, LogOK', NEW a \in Answers, handleReceivedData(a)
  PROVE  NumberOK'
<1> DEFINE h == lastProcessedPacket
           leaf == merge(node, packets[h].receivedRoot, a).leaf
           k == lastPacket(h)
<1>1. /\ packets' = [packets EXCEPT ![h].streamPackets[k].receivedLeafNode = leaf]
      /\ log' = AnsweredLog(log, a) /\ ac' = ac
  BY DEF handleReceivedData, AnsweredLog
<1>2. /\ h \in DOMAIN packets /\ log # <<>> /\ log \in Seq(LogLines) /\ log' \in Seq(LogLines)
      /\ Ranked(packets, log) /\ Numbered(packets, log, ac) /\ StateOK /\ StateOK'
  BY DEF NumberOK, LogOK, LastLine, StateOK, handleReceivedData, LogReads
<1>3. k \in DOMAIN packets[h].streamPackets
  BY <1>2, LastPacketFacts
<1>4. (\A g \in DOMAIN packets : packets[g] \in Trees) /\ (\A g \in DOMAIN packets' : packets'[g] \in Trees)
  BY <1>2 DEF StateOK, TreesFit, TreeFits
<1> HIDE DEF h, leaf, k
<1>5. /\ MoreOf(packets, packets', h)
      /\ \A g \in DOMAIN packets : Len(packets'[g].streamPackets) = Len(packets[g].streamPackets)
  <2>1. SameNumbers(packets, packets', h)
    BY <1>1, <1>2, <1>3, <1>4, AnswerKeepsNumbers
  <2> QED
    BY <2>1 DEF SameNumbers
<1>6. /\ Len(log') = Len(log) /\ DOMAIN log' = DOMAIN log /\ SameHeaders(log, log', Len(log))
  <2>0. a \in Texts
    BY InputsAreTexts
  <2>1. PICK f \in Seq(LogLines), x \in LogLines : log = Append(f, x)
    BY <1>2, LogEnds
  <2> DEFINE y == Answered(x, a)
  <2>2. log' = Append(f, y)
    BY <1>1, <2>0, <2>1, LastLineAnswered DEF LastLineIs
  <2>3. y \in LogLines /\ y.header = x.header
    BY <2>0, AnsweredFacts DEF Completed
  <2> HIDE DEF y
  <2> DEFINE n == Len(f)
  <2>4. AppendedLine(f, x, log, n)
    BY <2>1, LineAppended
  <2>5. AppendedLine(f, y, log', n)
    BY <2>2, <2>3, LineAppended
  <2> HIDE DEF n
  <2>6. \A i \in 1 .. n + 1 : i \in 1 .. n \/ i = n + 1
    BY <2>4 DEF AppendedLine
  <2> QED
    BY <2>3, <2>4, <2>5, <2>6 DEF AppendedLine, SameHeaders
<1>7. Ranked(packets', log') /\ Numbered(packets', log', ac)
  BY <1>2, <1>5, <1>6, NumbersStay
<1> QED
  BY <1>1, <1>7 DEF NumberOK

\* So does a time: the last line gets a number above all others.
LEMMA handleResponseTimeNumbered ==
  ASSUME NumberOK, LogOK', handleResponseTime
  PROVE  NumberOK'
<1> DEFINE h == lastProcessedPacket
           k == lastPacket(h)
<1>1. packets' = [packets EXCEPT ![h].streamPackets[k].ac = ac] /\ ac' = ac + 1 /\ log' = log
  BY DEF handleResponseTime
<1>2. /\ h \in DOMAIN packets /\ log # <<>> /\ log \in Seq(LogLines) /\ h = log[Len(log)].header
      /\ Ranked(packets, log) /\ Numbered(packets, log, ac) /\ StateOK /\ StateOK' /\ ac \in Nat \ {0}
  BY DEF NumberOK, LogOK, LastLine, StateOK, handleResponseTime, LogReads
<1>3. k \in DOMAIN packets[h].streamPackets /\ k = Len(packets[h].streamPackets)
  BY <1>2, LastPacketFacts DEF lastPacket
<1>4. (\A g \in DOMAIN packets : packets[g] \in Trees) /\ (\A g \in DOMAIN packets' : packets'[g] \in Trees)
  BY <1>2 DEF StateOK, TreesFit, TreeFits
<1> HIDE DEF h, k
<1>5. /\ DOMAIN packets' = DOMAIN packets
      /\ \A g \in DOMAIN packets :
           /\ Len(packets'[g].streamPackets) = Len(packets[g].streamPackets)
           /\ \A i \in DOMAIN packets[g].streamPackets :
                packets'[g].streamPackets[i].ac =
                  IF g = h /\ i = k THEN ac ELSE packets[g].streamPackets[i].ac
  BY <1>1, <1>2, <1>3, <1>4, TimeSetsNumber
<1>6. \A g \in DOMAIN packets' : packets'[g].streamPackets \in Seq(Leaves)
  BY <1>4, TreeParts
<1> HIDE <1>1
<1>7. Ranked(packets', log) /\ Numbered(packets', log, ac + 1)
  BY <1>2, <1>3, <1>5, <1>6, TimeNumbered
<1> QED
  BY <1>1, <1>7 DEF NumberOK

\* The invariant of the numbers holds when the parsing starts.
LEMMA InitNumberOK == Init => NumberOK
<1> SUFFICES ASSUME Init PROVE NumberOK
  OBVIOUS
<1>1. LogOK
  BY InitLogOK
<1>2. DOMAIN packets = {} /\ DOMAIN log = {}
  BY DEF Init
<1> QED
  BY <1>1, <1>2 DEF NumberOK, Ranked, Numbered, InOrder

\* Every step keeps the invariant of the numbers.
LEMMA NextNumberOK == NumberOK /\ [Next]_vars => NumberOK'
<1> SUFFICES ASSUME NumberOK, [Next]_vars PROVE NumberOK'
  OBVIOUS
<1>0. LogOK'
  BY NextLogOK DEF NumberOK
<1>1. ASSUME NEW h \in Headers, NEW d \in Sent, handleTransmittedData(h, d) PROVE NumberOK'
  BY <1>0, <1>1, handleTransmittedDataNumbered
<1>2. ASSUME NEW a \in Answers, handleReceivedData(a) PROVE NumberOK'
  BY <1>0, <1>2, handleReceivedDataNumbered
<1>3. CASE handleResponseTime
  BY <1>0, <1>3, handleResponseTimeNumbered
<1>4. ASSUME UNCHANGED <<packets, log, ac>> PROVE NumberOK'
  BY <1>0, <1>4 DEF NumberOK
<1>5. ASSUME NEW h \in Headers, handleTransmittedDataThrows(h) PROVE NumberOK'
  BY <1>4, <1>5 DEF handleTransmittedDataThrows
<1>6. ASSUME NEW n \in DOMAIN node, simplifyNodes(n) PROVE NumberOK'
  BY <1>4, <1>6 DEF simplifyNodes
<1>7. CASE handleResponseTimeThrows
  BY <1>4, <1>7 DEF handleResponseTimeThrows
<1>8. CASE parseFileEnds
  BY <1>4, <1>8 DEF parseFileEnds
<1>9. CASE simplifyNodesEnds
  BY <1>4, <1>9 DEF simplifyNodesEnds
<1>10. ASSUME NEW h \in Headers, write(h) PROVE NumberOK'
  BY <1>4, <1>10 DEF write
<1>11. CASE writeEnds
  BY <1>4, <1>11 DEF writeEnds
<1>12. CASE UNCHANGED vars
  BY <1>4, <1>12 DEF vars
<1> QED
  BY <1>1, <1>2, <1>3, <1>5, <1>6, <1>7, <1>8, <1>9, <1>10, <1>11, <1>12 DEF Next

\* The invariant of the numbers holds throughout.
LEMMA SpecNumberOK == Spec => []NumberOK
<1> QED
  BY InitNumberOK, NextNumberOK, PTL DEF Spec

\* The invariant of the numbers implies their order.
LEMMA NumbersInOrder == NumberOK => AcInOrder
<1> SUFFICES ASSUME NumberOK PROVE AcInOrder
  OBVIOUS
<1>1. \A k : AcOf(k) = Number(packets, log, k)
  BY DEF AcOf, Number, Rank, LinesOf
<1>2. InOrder(packets, log)
  BY DEF NumberOK, Numbered
<1> QED
  BY <1>1, <1>2 DEF AcInOrder, InOrder

\* The invariant of the log and the numbers implies that the log reads back.
LEMMA AllReadBack == NumberOK => PacketsReadBack
<1> SUFFICES ASSUME NumberOK PROVE PacketsReadBack
  OBVIOUS
<1>1. ReadBack
  BY LogReadBack DEF NumberOK
<1> QED
  BY <1>1, NumbersInOrder, Zenon DEF PacketsReadBack, ReadBack

\* The numbers written beside the packets (TreeParser: the counter ac) order them as the
\* log does, across all trees.
THEOREM NumbersFollowTheLog == Spec => []AcInOrder
BY SpecNumberOK, NumbersInOrder, PTL

\* However often nodes are divided by later packets and cut into bytes, every packet of
\* the log still reads from its leaf as it was (or, if it ended inside a node, as a part
\* of an earlier one), with its last answer, in the order of the log.
THEOREM LogReadsBack == Spec => []PacketsReadBack
BY SpecNumberOK, AllReadBack, PTL

-----------------------------------------------------------------------------
(* What is printed                                                         *)

\* The packets among the first k with a command, and with an answer to it.
With(W, s, k)      == {i \in 1 .. k : W[i] = s}
Got(W, V, s, a, k) == {i \in With(W, s, k) : V[i] = a}

\* The answers to a command, with their counts.
Replies(W, V, s, k) ==
  [a \in {V[i] : i \in With(W, s, k)} |-> Cardinality(Got(W, V, s, a, k))]

Line(W, V, s, k) ==
  [count |-> Cardinality(With(W, s, k)), received |-> Replies(W, V, s, k)]

Summary(W, V, k) == [s \in {W[i] : i \in 1 .. k} |-> Line(W, V, s, k)]

WithGrown(W, s, k) ==
  /\ With(W, s, k + 1) = IF W[k + 1] = s THEN With(W, s, k) \cup {k + 1} ELSE With(W, s, k)
  /\ k + 1 \notin With(W, s, k)
  /\ IsFiniteSet(With(W, s, k)) /\ Cardinality(With(W, s, k)) \in Nat
  /\ Cardinality(With(W, s, k) \cup {k + 1}) = Cardinality(With(W, s, k)) + 1

GotGrown(W, V, s, a, k) ==
  /\ Got(W, V, s, a, k + 1) =
       IF W[k + 1] = s /\ V[k + 1] = a THEN Got(W, V, s, a, k) \cup {k + 1} ELSE Got(W, V, s, a, k)
  /\ IsFiniteSet(Got(W, V, s, a, k)) /\ Cardinality(Got(W, V, s, a, k)) \in Nat
  /\ Cardinality(Got(W, V, s, a, k) \cup {k + 1}) = Cardinality(Got(W, V, s, a, k)) + 1

\* One more packet is counted with its command and with no other.
LEMMA WithMore ==
  ASSUME NEW W, NEW k \in Nat, NEW s
  PROVE  WithGrown(W, s, k)
<1> DEFINE A == With(W, s, k)
<1>1. With(W, s, k + 1) = IF W[k + 1] = s THEN A \cup {k + 1} ELSE A
  <2>1. 1 .. k + 1 = 1 .. k \cup {k + 1}
    OBVIOUS
  <2> QED
    BY <2>1 DEF With
<1>2. k + 1 \notin A /\ A \in SUBSET (1 .. k)
  BY DEF With
<1>3. IsFiniteSet(1 .. k)
  BY FS_Interval
<1> HIDE DEF A
<1>4. IsFiniteSet(A) /\ Cardinality(A) \in Nat
  BY <1>2, <1>3, FS_Subset, FS_CardinalityType
<1>5. Cardinality(A \cup {k + 1}) = Cardinality(A) + 1
  BY <1>2, <1>4, FS_AddElement
<1> QED
  BY <1>1, <1>2, <1>4, <1>5 DEF A, WithGrown

\* One more packet is counted with its command and its answer and with no other.
LEMMA GotMore ==
  ASSUME NEW W, NEW V, NEW k \in Nat, NEW s, NEW a
  PROVE  GotGrown(W, V, s, a, k)
<1> DEFINE A == With(W, s, k)
           B == Got(W, V, s, a, k)
<1>0. WithGrown(W, s, k)
  BY WithMore
<1>1. /\ With(W, s, k + 1) = IF W[k + 1] = s THEN A \cup {k + 1} ELSE A
      /\ k + 1 \notin A /\ IsFiniteSet(A)
  BY <1>0 DEF WithGrown
<1> HIDE DEF A
<1>2. Got(W, V, s, a, k + 1) = IF W[k + 1] = s /\ V[k + 1] = a THEN B \cup {k + 1} ELSE B
  BY <1>1 DEF Got, A
<1>3. k + 1 \notin B /\ B \in SUBSET A
  BY <1>1 DEF Got, A
<1> HIDE DEF B
<1>4. IsFiniteSet(B) /\ Cardinality(B) \in Nat
  BY <1>1, <1>3, FS_Subset, FS_CardinalityType
<1>5. Cardinality(B \cup {k + 1}) = Cardinality(B) + 1
  BY <1>3, <1>4, FS_AddElement
<1> QED
  BY <1>2, <1>4, <1>5 DEF B, GotGrown

\* The line of another command stays.
LEMMA OtherLineKept ==
  ASSUME NEW W, NEW V, NEW k \in Nat, NEW s, W[k + 1] # s
  PROVE  Line(W, V, s, k + 1) = Line(W, V, s, k)
<1>0. WithGrown(W, s, k)
  BY WithMore
<1>1. With(W, s, k + 1) = With(W, s, k)
  BY <1>0 DEF WithGrown
<1>2. \A a : Got(W, V, s, a, k + 1) = Got(W, V, s, a, k)
  BY <1>1 DEF Got
<1>3. Replies(W, V, s, k + 1) = Replies(W, V, s, k)
  BY <1>1, <1>2 DEF Replies
<1> QED
  BY <1>1, <1>3 DEF Line

\* The first answer to a command.
LEMMA FirstLine ==
  ASSUME NEW W, NEW V, NEW k \in Nat, NEW s, NEW a, W[k + 1] = s, V[k + 1] = a,
         With(W, s, k) = {}
  PROVE  Line(W, V, s, k + 1) = [count |-> 1, received |-> put(<<>>, a, 1)]
<1>0. WithGrown(W, s, k)
  BY WithMore
<1>1. With(W, s, k + 1) = {k + 1}
  BY <1>0 DEF WithGrown
<1>2. \A b : b \in {V[i] : i \in With(W, s, k + 1)} <=> b = a
  BY <1>1
<1>3. Got(W, V, s, a, k + 1) = {k + 1}
  BY <1>1 DEF Got
<1>4. Cardinality({k + 1}) = 1
  BY FS_Singleton
<1>5. {V[i] : i \in With(W, s, k + 1)} = {a}
  BY <1>2
<1>6. Replies(W, V, s, k + 1) = [b \in {a} |-> 1]
  BY <1>3, <1>4, <1>5 DEF Replies
<1>7. put(<<>>, a, 1) = [b \in {a} |-> 1]
  <2>1. {a} \cup DOMAIN <<>> = {a}
    OBVIOUS
  <2> QED
    BY <2>1 DEF put
<1> QED
  BY <1>1, <1>4, <1>6, <1>7, Zenon DEF Line

\* One more answer to a command.
LEMMA NextLine ==
  ASSUME NEW W, NEW V, NEW k \in Nat, NEW s, NEW a, W[k + 1] = s, V[k + 1] = a,
         NEW c, c = Cardinality(With(W, s, k)), NEW r, r = Replies(W, V, s, k)
  PROVE  Line(W, V, s, k + 1) = [count |-> c + 1, received |-> addReceivedMessage(r, a)]
<1> DEFINE A == With(W, s, k)
           D == {V[i] : i \in A}
           new == addReceivedMessage(r, a)
<1>0. WithGrown(W, s, k)
  BY WithMore
<1>1. With(W, s, k + 1) = A \cup {k + 1} /\ Cardinality(A \cup {k + 1}) = c + 1
  BY <1>0 DEF WithGrown
<1>2. {V[i] : i \in With(W, s, k + 1)} = {a} \cup D
  BY <1>1
<1> HIDE DEF A
<1>3. DOMAIN r = D /\ \A b \in D : r[b] = Cardinality(Got(W, V, s, b, k))
  BY DEF Replies, A
<1>4. new = [b \in {a} \cup D |-> IF b = a THEN IF a \in D THEN r[a] + 1 ELSE 1 ELSE r[b]]
  BY <1>3 DEF addReceivedMessage, put
<1>5. Replies(W, V, s, k + 1) = [b \in {a} \cup D |-> Cardinality(Got(W, V, s, b, k + 1))]
  BY <1>2 DEF Replies
<1>6. ASSUME NEW b \in {a} \cup D
      PROVE  Cardinality(Got(W, V, s, b, k + 1)) =
               IF b = a THEN IF a \in D THEN r[a] + 1 ELSE 1 ELSE r[b]
  <2>1. CASE b # a
    <3>0. GotGrown(W, V, s, b, k)
      BY GotMore
    <3>1. Got(W, V, s, b, k + 1) = Got(W, V, s, b, k)
      BY <2>1, <3>0 DEF GotGrown
    <3> QED
      BY <1>3, <1>6, <2>1, <3>1
  <2>2. CASE b = a
    <3>0. GotGrown(W, V, s, a, k)
      BY GotMore
    <3>1. Cardinality(Got(W, V, s, a, k + 1)) = Cardinality(Got(W, V, s, a, k)) + 1
      BY <3>0 DEF GotGrown
    <3>2. a \notin D => Got(W, V, s, a, k) = {}
      BY DEF Got, A
    <3>3. Cardinality({}) = 0
      BY FS_EmptySet
    <3>4. CASE a \in D
      BY <1>3, <2>2, <3>1, <3>4
    <3>5. CASE a \notin D
      BY <2>2, <3>1, <3>2, <3>3, <3>5
    <3> QED
      BY <3>4, <3>5
  <2> QED
    BY <2>1, <2>2
<1> HIDE DEF D, new
<1>7. Replies(W, V, s, k + 1) = new
  BY <1>4, <1>5, <1>6
<1> QED
  BY <1>1, <1>7, Zenon DEF Line, new

BothSet(f, s, d, q) ==
  [f EXCEPT ![s].count = d, ![s].received = q] = [f EXCEPT ![s] = [count |-> d, received |-> q]]

\* Both fields of an entry are set.
LEMMA BothFieldsSet ==
  ASSUME NEW D, NEW f, f = [x \in D |-> f[x]], NEW s \in D, NEW c, NEW r, NEW d, NEW q,
         f[s] = [count |-> c, received |-> r]
  PROVE  BothSet(f, s, d, q)
<1> DEFINE l == [f[s] EXCEPT !.count = d]
           g == [f EXCEPT ![s] = l]
           m == [g[s] EXCEPT !.received = q]
<1>1. l = [count |-> d, received |-> r]
  OBVIOUS
<1>2. g = [x \in D |-> IF x = s THEN l ELSE f[x]]
  <2> HIDE DEF l
  <2> QED
    OBVIOUS
<1>3. g[s] = l
  BY <1>2
<1>4. m = [count |-> d, received |-> q]
  <2> HIDE DEF l, g
  <2> QED
    BY <1>1, <1>3
<1>5. [g EXCEPT ![s] = m] = [f EXCEPT ![s] = m]
  <2> HIDE DEF l, g, m
  <2> QED
    BY <1>2
<1> QED
  BY <1>4, <1>5, Zenon DEF BothSet

\* addPacket leads from the summary of k packets to that of k + 1.
LEMMA SummaryOfMore ==
  ASSUME NEW W, NEW V, NEW k \in Nat
  PROVE  addPacket(Summary(W, V, k), W[k + 1], V[k + 1]) = Summary(W, V, k + 1)
<1> DEFINE s == W[k + 1]
           a == V[k + 1]
           out == Summary(W, V, k)
           D == {W[i] : i \in 1 .. k}
           new == addPacket(out, s, a)
<1>1. {W[i] : i \in 1 .. k + 1} = {s} \cup D
  <2>1. 1 .. k + 1 = 1 .. k \cup {k + 1}
    OBVIOUS
  <2> QED
    BY <2>1
<1>2. out = [x \in D |-> Line(W, V, x, k)]
  BY DEF Summary
<1>3. Summary(W, V, k + 1) = [x \in {s} \cup D |-> Line(W, V, x, k + 1)]
  BY <1>1 DEF Summary
<1>4. s = W[k + 1] /\ a = V[k + 1]
  OBVIOUS
<1>5. s \notin D => With(W, s, k) = {}
  BY DEF With
<1> HIDE DEF out, D, s, a
<1>6. CASE s \notin D
  <2> DEFINE l == [count |-> 1, received |-> put(<<>>, a, 1)]
  <2>1. DOMAIN out = D
    BY <1>2
  <2>2. new = put(out, s, l)
    BY <1>6, <2>1 DEF addPacket
  <2>3. Line(W, V, s, k + 1) = l
    BY <1>4, <1>5, <1>6, FirstLine
  <2> HIDE DEF l, new
  <2>4. new = [x \in {s} \cup D |-> IF x = s THEN l ELSE out[x]]
    BY <2>1, <2>2 DEF put
  <2>5. ASSUME NEW x \in {s} \cup D PROVE (IF x = s THEN l ELSE out[x]) = Line(W, V, x, k + 1)
    <3>1. CASE x = s
      BY <2>3, <3>1
    <3>2. CASE x # s
      <4>1. Line(W, V, x, k + 1) = Line(W, V, x, k)
        BY <1>4, <3>2, OtherLineKept
      <4> QED
        BY <1>2, <2>5, <3>2, <4>1
    <3> QED
      BY <3>1, <3>2
  <2> QED
    BY <1>3, <2>4, <2>5 DEF new, out, s, a
<1>7. CASE s \in D
  <2> DEFINE c == Cardinality(With(W, s, k))
             r == Replies(W, V, s, k)
             l == [count |-> c + 1, received |-> addReceivedMessage(r, a)]
  <2>1. DOMAIN out = D /\ out[s] = [count |-> c, received |-> r]
    BY <1>2, <1>7 DEF Line
  <2>2. Line(W, V, s, k + 1) = l
    BY <1>4, NextLine
  <2> HIDE DEF c, r
  <2>3. new = [out EXCEPT ![s] = l]
    <3>1. new = [out EXCEPT ![s].count = @ + 1, ![s].received = addReceivedMessage(@, a)]
      BY <1>7, <2>1 DEF addPacket
    <3> DEFINE q == addReceivedMessage(r, a)
    <3> HIDE DEF q, new
    <3>2. [out EXCEPT ![s].count = @ + 1, ![s].received = addReceivedMessage(@, a)]
            = [out EXCEPT ![s].count = c + 1, ![s].received = q]
      BY <2>1 DEF q
    <3>3. [out EXCEPT ![s].count = c + 1, ![s].received = q]
            = [out EXCEPT ![s] = [count |-> c + 1, received |-> q]]
      <4>1. out = [x \in D |-> out[x]]
        BY <1>2
      <4>2. BothSet(out, s, c + 1, q)
        BY <1>7, <2>1, <4>1, BothFieldsSet
      <4> QED
        BY <4>2, Zenon DEF BothSet
    <3> QED
      BY <3>1, <3>2, <3>3 DEF q
  <2> HIDE DEF l, new
  <2>4. new = [x \in {s} \cup D |-> IF x = s THEN l ELSE out[x]]
    BY <1>7, <2>1, <2>3
  <2>5. ASSUME NEW x \in {s} \cup D PROVE (IF x = s THEN l ELSE out[x]) = Line(W, V, x, k + 1)
    <3>1. CASE x = s
      BY <2>2, <3>1
    <3>2. CASE x # s
      <4>1. Line(W, V, x, k + 1) = Line(W, V, x, k)
        BY <1>4, <3>2, OtherLineKept
      <4> QED
        BY <1>2, <2>5, <3>2, <4>1
    <3> QED
      BY <3>1, <3>2
  <2> QED
    BY <1>3, <2>4, <2>5 DEF new, out, s, a
<1> QED
  BY <1>6, <1>7

\* What the packets of a tree say and are answered, as they are written.
SentOf(h) ==
  [i \in DOMAIN packets[h].streamPackets |-> Written(packets[h].streamPackets[i].transmittedLeafNode)]
AnswerOf(h) ==
  [i \in DOMAIN packets[h].streamPackets |-> Written(packets[h].streamPackets[i].receivedLeafNode)]

\* What prepareAnalyzedPackets yields, without its loop.
SummaryOf(h) == Summary(SentOf(h), AnswerOf(h), Len(packets[h].streamPackets))

Output(output, ps, i) ==
  IF i = 0 THEN <<>>
  ELSE addPacket(output[i - 1], Written(ps[i].transmittedLeafNode),
                                Written(ps[i].receivedLeafNode))

\* The summary of no packets is empty.
LEMMA NothingPrinted ==
  ASSUME NEW W, NEW V
  PROVE  Summary(W, V, 0) = <<>>
<1>1. {W[i] : i \in 1 .. 0} = {}
  OBVIOUS
<1>2. <<>> = [s \in {} |-> Line(W, V, s, 0)]
  OBVIOUS
<1> QED
  BY <1>1, <1>2 DEF Summary

\* prepareAnalyzedPackets yields the summary of all packets of the tree.
LEMMA PreparedIsSummary ==
  ASSUME StateOK, NEW h \in DOMAIN packets
  PROVE  prepareAnalyzedPackets(h) = SummaryOf(h)
<1> DEFINE ps == packets[h].streamPackets
           n == Len(ps)
           W == SentOf(h)
           V == AnswerOf(h)
           wit == [i \in 0 .. n |-> Summary(W, V, i)]
           out == CHOOSE o : o = [i \in 0 .. n |-> Output(o, ps, i)]
<1>1. n \in Nat /\ DOMAIN ps = 1 .. n
  BY TreeParts DEF StateOK, TreesFit, TreeFits
<1>2. \A i \in 1 .. n : /\ W[i] = Written(ps[i].transmittedLeafNode)
                        /\ V[i] = Written(ps[i].receivedLeafNode)
  BY <1>1 DEF SentOf, AnswerOf
<1>3. prepareAnalyzedPackets(h) = out[n]
  BY Zenon DEF prepareAnalyzedPackets, Output
<1>4. SummaryOf(h) = Summary(W, V, n)
  BY DEF SummaryOf
<1> HIDE DEF ps, n, W, V
<1>5. \A i \in 0 .. n : wit[i] = Summary(W, V, i)
  OBVIOUS
<1>6. \A i \in 0 .. n : wit[i] = Output(wit, ps, i)
  <2> SUFFICES ASSUME NEW i \in 0 .. n PROVE wit[i] = Output(wit, ps, i)
    OBVIOUS
  <2>1. CASE i = 0
    BY <1>5, <2>1, NothingPrinted DEF Output
  <2>2. CASE i # 0
    <3> DEFINE k == i - 1
    <3>1. k \in Nat /\ k \in 0 .. n /\ i = k + 1 /\ i \in 1 .. n
      BY <1>1, <2>2
    <3> HIDE DEF k, wit
    <3>2. addPacket(Summary(W, V, k), W[k + 1], V[k + 1]) = Summary(W, V, k + 1)
      BY <3>1, SummaryOfMore
    <3>3. Output(wit, ps, i) = addPacket(wit[k], W[i], V[i])
      <4>1. i - 1 = k
        BY <3>1
      <4> QED
        BY <1>2, <2>2, <3>1, <4>1 DEF Output
    <3> QED
      BY <1>5, <3>1, <3>2, <3>3
  <2> QED
    BY <2>1, <2>2
<1>7. wit = [i \in 0 .. n |-> wit[i]]
  OBVIOUS
<1> HIDE DEF wit
<1>8. wit = [i \in 0 .. n |-> Output(wit, ps, i)]
  BY <1>6, <1>7, Zenon
<1>9. out = [i \in 0 .. n |-> Output(out, ps, i)]
  BY <1>8, Zenon
<1> HIDE DEF out
<1>10. \A i \in 0 .. n : out[i] = Output(out, ps, i)
  BY <1>9, Zenon
<1> DEFINE G == {i \in Nat : i \in 0 .. n => out[i] = wit[i]}
<1>11. 0 \in G
  BY <1>6, <1>10 DEF Output
<1>12. \A i \in Nat : i \in G => i + 1 \in G
  <2> SUFFICES ASSUME NEW i \in Nat, i \in G, i + 1 \in 0 .. n PROVE out[i + 1] = wit[i + 1]
    OBVIOUS
  <2>1. i \in 0 .. n /\ (i + 1) - 1 = i /\ i + 1 # 0
    BY <1>1
  <2>2. out[i + 1] = Output(out, ps, i + 1) /\ wit[i + 1] = Output(wit, ps, i + 1)
    BY <1>6, <1>10
  <2>3. out[i] = wit[i]
    BY <2>1
  <2> QED
    BY <2>1, <2>2, <2>3 DEF Output
<1> HIDE DEF G
<1>13. \A i \in Nat : i \in G
  BY <1>11, <1>12, SetInduction
<1> QED
  BY <1>1, <1>3, <1>4, <1>5, <1>13 DEF G

\* A tree that was not printed because a packet without an answer stopped the writing.
Excused(h) == \E g \in IF settings.separatePackets THEN {h} ELSE DOMAIN packets : Unanswered(g)

\* The trees on their way into the files: printed, still to be printed, or stopped.
PrintOK ==
  /\ phase \in {"parse", "simplify"} => DOMAIN printed = {}
  /\ phase = "simplify" => unprinted = DOMAIN packets
  /\ DOMAIN printed \subseteq DOMAIN packets /\ unprinted \subseteq DOMAIN packets
  /\ \A h \in DOMAIN printed : printed[h] = SummaryOf(h)
  /\ phase \in {"write", "done"} =>
       \A h \in DOMAIN packets : h \in DOMAIN printed \/ h \in unprinted \/ Excused(h)
  /\ phase = "done" => unprinted = {}

\* The invariant of the writing holds when the parsing starts.
LEMMA InitPrintOK == Init => PrintOK
<1>1. DOMAIN <<>> = {}
  OBVIOUS
<1> QED
  BY <1>1 DEF Init, PrintOK

\* While lines are read nothing is printed.
LEMMA ReadingPrintOK ==
  ASSUME PrintOK, phase = "parse", phase' = "parse", printed' = printed, unprinted' = unprinted,
         DOMAIN packets \subseteq DOMAIN packets'
  PROVE  PrintOK'
<1>1. DOMAIN printed' = {} /\ unprinted' \subseteq DOMAIN packets'
  BY DEF PrintOK
<1> QED
  BY <1>1 DEF PrintOK

\* When the parsing ends every tree is to be printed.
LEMMA StartingPrintOK ==
  ASSUME PrintOK, phase = "parse", StartWriting, printed' = printed, packets' = packets
  PROVE  PrintOK'
<1>1. DOMAIN printed' = {}
  BY DEF PrintOK
<1>2. phase' \in {"simplify", "write"} /\ unprinted' = DOMAIN packets'
  BY DEF StartWriting
<1> QED
  BY <1>1, <1>2 DEF PrintOK

\* While nodes are simplified every tree is still to be printed.
LEMMA SimplifyPrintOK ==
  ASSUME PrintOK, phase = "simplify", printed' = printed, packets' = packets,
         unprinted' = unprinted, phase' \in {"simplify", "write"}
  PROVE  PrintOK'
<1>1. DOMAIN printed' = {} /\ unprinted' = DOMAIN packets'
  BY DEF PrintOK
<1> QED
  BY <1>1 DEF PrintOK

\* While the files are written, what is to be written does not change.
LEMMA SameTexts ==
  ASSUME UNCHANGED <<node, packets, settings>>
  PROVE  \A h : SummaryOf(h)' = SummaryOf(h) /\ Unanswered(h)' = Unanswered(h) /\ Excused(h)' = Excused(h)
<1>1. \A leaf : Written(leaf)' = Written(leaf)
  BY DEF Written, getDataFromLeafNode
<1>2. \A h : SentOf(h)' = SentOf(h) /\ AnswerOf(h)' = AnswerOf(h)
  BY <1>1 DEF SentOf, AnswerOf
<1>3. \A h : SummaryOf(h)' = SummaryOf(h)
  BY <1>2 DEF SummaryOf
<1>4. \A h : Unanswered(h)' = Unanswered(h)
  BY DEF Unanswered
<1>5. \A h : Excused(h)' = Excused(h)
  BY <1>4 DEF Excused
<1> QED
  BY <1>3, <1>4, <1>5

\* The writing of a tree, or the exception that stops it, keeps the invariant of the
\* writing.
LEMMA writePrints ==
  ASSUME StateOK, PrintOK, NEW h \in Headers, write(h)
  PROVE  PrintOK'
<1>1. /\ UNCHANGED <<node, packets, settings>> /\ phase = "write" /\ phase' = "write"
      /\ h \in unprinted
  BY DEF write
<1>2. \A g : SummaryOf(g)' = SummaryOf(g) /\ Unanswered(g)' = Unanswered(g) /\ Excused(g)' = Excused(g)
  BY <1>1, SameTexts
<1>3. /\ h \in DOMAIN packets /\ DOMAIN printed \subseteq DOMAIN packets
      /\ unprinted \subseteq DOMAIN packets
      /\ \A g \in DOMAIN printed : printed[g] = SummaryOf(g)
      /\ \A g \in DOMAIN packets : g \in DOMAIN printed \/ g \in unprinted \/ Excused(g)
  BY <1>1 DEF PrintOK
<1>4. CASE Unanswered(h)
  <2>1. printed' = printed /\ unprinted' = IF settings.separatePackets THEN unprinted \ {h} ELSE {}
    BY <1>4 DEF write
  <2>2. \A g \in unprinted \ unprinted' : Excused(g)
    BY <1>3, <1>4, <2>1 DEF Excused
  <2>3. /\ \A g \in DOMAIN packets : g \in DOMAIN printed' \/ g \in unprinted' \/ Excused(g)
        /\ unprinted' \subseteq DOMAIN packets
    BY <1>3, <2>1, <2>2
  <2> QED
    BY <1>1, <1>2, <1>3, <2>1, <2>3, Zenon DEF PrintOK
<1>5. CASE ~ Unanswered(h)
  <2>1. printed' = put(printed, h, SummaryOf(h)) /\ unprinted' = unprinted \ {h}
    BY <1>3, <1>5, PreparedIsSummary DEF write
  <2>2. /\ DOMAIN printed' = {h} \cup DOMAIN printed
        /\ \A g \in DOMAIN printed' : printed'[g] = IF g = h THEN SummaryOf(h) ELSE printed[g]
    BY <2>1 DEF put
  <2>3. \A g \in DOMAIN printed' : printed'[g] = SummaryOf(g)
    BY <1>3, <2>2
  <2>4. /\ \A g \in DOMAIN packets : g \in DOMAIN printed' \/ g \in unprinted' \/ Excused(g)
        /\ unprinted' \subseteq DOMAIN packets /\ DOMAIN printed' \subseteq DOMAIN packets
    BY <1>3, <2>1, <2>2
  <2> HIDE <2>1, <2>2
  <2> QED
    BY <1>1, <1>2, <2>3, <2>4 DEF PrintOK
<1> QED
  BY <1>4, <1>5

\* Every step keeps the invariant of the writing.
LEMMA NextPrintOK == StateOK /\ PrintOK /\ [Next]_vars => PrintOK'
<1> SUFFICES ASSUME StateOK, PrintOK, [Next]_vars PROVE PrintOK'
  OBVIOUS
<1>1. ASSUME NEW h \in Headers, NEW d \in Sent, handleTransmittedData(h, d) PROVE PrintOK'
  <2>1. /\ phase = "parse" /\ phase' = "parse" /\ printed' = printed /\ unprinted' = unprinted
    BY <1>1, Zenon DEF handleTransmittedData, Reads
  <2>2. DOMAIN packets \subseteq DOMAIN packets'
    <3>1. CASE h \notin DOMAIN packets
      <4>1. packets' = put(packets, h, packets'[h])
        BY <1>1, <3>1 DEF handleTransmittedData, put
      <4> QED
        BY <4>1 DEF put
    <3>2. CASE h \in DOMAIN packets
      BY <1>1, <3>2 DEF handleTransmittedData
    <3> QED
      BY <3>1, <3>2
  <2> QED
    BY <2>1, <2>2, ReadingPrintOK
<1>2. ASSUME NEW h \in Headers, handleTransmittedDataThrows(h) PROVE PrintOK'
  <2>1. phase = "parse" /\ StartWriting /\ printed' = printed /\ packets' = packets
    BY <1>2, Zenon DEF handleTransmittedDataThrows, Reads
  <2> QED
    BY <2>1, StartingPrintOK
<1>3. ASSUME NEW a \in Answers, handleReceivedData(a) PROVE PrintOK'
  <2>1. /\ phase = "parse" /\ phase' = "parse" /\ printed' = printed /\ unprinted' = unprinted
    BY <1>3, Zenon DEF handleReceivedData, Reads
  <2>2. DOMAIN packets' = DOMAIN packets
    BY <1>3 DEF handleReceivedData
  <2> QED
    BY <2>1, <2>2, ReadingPrintOK
<1>4. CASE handleResponseTime
  <2>1. /\ phase = "parse" /\ phase' = "parse" /\ printed' = printed /\ unprinted' = unprinted
    BY <1>4, Zenon DEF handleResponseTime, Reads
  <2>2. DOMAIN packets' = DOMAIN packets
    BY <1>4 DEF handleResponseTime
  <2> QED
    BY <2>1, <2>2, ReadingPrintOK
<1>5. CASE handleResponseTimeThrows
  <2>1. phase = "parse" /\ StartWriting /\ printed' = printed /\ packets' = packets
    BY <1>5, Zenon DEF handleResponseTimeThrows, Reads
  <2> QED
    BY <2>1, StartingPrintOK
<1>6. CASE parseFileEnds
  <2>1. phase = "parse" /\ StartWriting /\ printed' = printed /\ packets' = packets
    BY <1>6, Zenon DEF parseFileEnds
  <2> QED
    BY <2>1, StartingPrintOK
<1>7. ASSUME NEW n \in DOMAIN node, simplifyNodes(n) PROVE PrintOK'
  BY <1>7, SimplifyPrintOK DEF simplifyNodes
<1>8. CASE simplifyNodesEnds
  BY <1>8, SimplifyPrintOK DEF simplifyNodesEnds
<1>9. ASSUME NEW h \in Headers, write(h) PROVE PrintOK'
  BY <1>9, writePrints
<1>10. CASE writeEnds
  <2>1. /\ UNCHANGED <<node, packets, settings, printed, unprinted>>
        /\ phase = "write" /\ phase' = "done" /\ unprinted = {}
    BY <1>10 DEF writeEnds
  <2>2. \A g : SummaryOf(g)' = SummaryOf(g) /\ Unanswered(g)' = Unanswered(g) /\ Excused(g)' = Excused(g)
    BY <2>1, SameTexts
  <2> QED
    BY <2>1, <2>2 DEF PrintOK
<1>11. CASE UNCHANGED vars
  <2>1. UNCHANGED <<node, packets, settings, printed, unprinted, phase>>
    BY <1>11 DEF vars
  <2>2. \A g : SummaryOf(g)' = SummaryOf(g) /\ Unanswered(g)' = Unanswered(g) /\ Excused(g)' = Excused(g)
    BY <2>1, SameTexts
  <2> QED
    BY <2>1, <2>2 DEF PrintOK
<1> QED
  BY <1>1, <1>2, <1>3, <1>4, <1>5, <1>6, <1>7, <1>8, <1>9, <1>10, <1>11 DEF Next

\* The invariants of the trees and of the writing hold throughout.
LEMMA SpecPrintOK == Spec => [](StateOK /\ PrintOK)
<1>1. Init => StateOK /\ PrintOK
  BY InitStateOK, InitPrintOK
<1>2. StateOK /\ PrintOK /\ [Next]_vars => StateOK' /\ PrintOK'
  BY NextStateOK, NextPrintOK
<1> QED
  BY <1>1, <1>2, PTL DEF Spec

\* PrintedIsComplete, for one tree.
PrintedWhole(h) ==
  LET ps       == packets[h].streamPackets
      with(s)  == {i \in DOMAIN ps : Written(ps[i].transmittedLeafNode) = s}
      got(s,a) == {i \in with(s) : Written(ps[i].receivedLeafNode) = a}
  IN  /\ DOMAIN printed[h] = {Written(p.transmittedLeafNode) : p \in Range(ps)}
      /\ \A s \in DOMAIN printed[h] :
           /\ printed[h][s].count = Cardinality(with(s))
           /\ DOMAIN printed[h][s].received = {Written(ps[i].receivedLeafNode) : i \in with(s)}
           /\ \A a \in DOMAIN printed[h][s].received :
                printed[h][s].received[a] = Cardinality(got(s, a))

\* A summary counts every command and every answer to it as often as the packets say.
LEMMA SummaryIsWhole ==
  ASSUME StateOK, NEW h \in DOMAIN packets, h \in DOMAIN printed, printed[h] = SummaryOf(h)
  PROVE  PrintedWhole(h)
<1> DEFINE ps       == packets[h].streamPackets
           n        == Len(ps)
           W        == SentOf(h)
           V        == AnswerOf(h)
           with(s)  == {i \in DOMAIN ps : Written(ps[i].transmittedLeafNode) = s}
           got(s,a) == {i \in with(s) : Written(ps[i].receivedLeafNode) = a}
           pr       == printed[h]
<1>1. n \in Nat /\ DOMAIN ps = 1 .. n
  BY TreeParts DEF StateOK, TreesFit, TreeFits
<1>2. \A i \in 1 .. n : /\ W[i] = Written(ps[i].transmittedLeafNode)
                        /\ V[i] = Written(ps[i].receivedLeafNode)
  BY <1>1 DEF SentOf, AnswerOf
<1>3. pr = [s \in {W[i] : i \in 1 .. n} |-> Line(W, V, s, n)]
  BY DEF SummaryOf, Summary
<1>4. \A s : with(s) = With(W, s, n)
  BY <1>1, <1>2 DEF With
<1>5. \A s, a : got(s, a) = Got(W, V, s, a, n)
  BY <1>1, <1>2, <1>4 DEF Got, With
<1>6. {Written(p.transmittedLeafNode) : p \in Range(ps)} = {W[i] : i \in 1 .. n}
  BY <1>1, <1>2 DEF Range
<1>7. \A s : {Written(ps[i].receivedLeafNode) : i \in with(s)} = {V[i] : i \in With(W, s, n)}
  BY <1>1, <1>2, <1>4 DEF With
<1> HIDE DEF W, V, n
<1>8. \A s \in DOMAIN pr : /\ pr[s].count = Cardinality(With(W, s, n))
                           /\ pr[s].received = Replies(W, V, s, n)
  BY <1>3 DEF Line
<1>9. \A s : /\ DOMAIN Replies(W, V, s, n) = {V[i] : i \in With(W, s, n)}
              /\ \A a \in DOMAIN Replies(W, V, s, n) :
                   Replies(W, V, s, n)[a] = Cardinality(Got(W, V, s, a, n))
  BY DEF Replies
<1>10. DOMAIN pr = {Written(p.transmittedLeafNode) : p \in Range(ps)}
  BY <1>3, <1>6
<1>11. ASSUME NEW s \in DOMAIN pr
       PROVE  /\ pr[s].count = Cardinality(with(s))
              /\ DOMAIN pr[s].received = {Written(ps[i].receivedLeafNode) : i \in with(s)}
              /\ \A a \in DOMAIN pr[s].received : pr[s].received[a] = Cardinality(got(s, a))
  <2>1. pr[s].count = Cardinality(with(s))
    BY <1>4, <1>8
  <2>2. DOMAIN pr[s].received = {Written(ps[i].receivedLeafNode) : i \in with(s)}
    BY <1>7, <1>8, <1>9
  <2>3. \A a \in DOMAIN pr[s].received : pr[s].received[a] = Cardinality(got(s, a))
    <3> HIDE DEF pr, ps, with, got
    <3> QED
      BY <1>5, <1>8, <1>9
  <2> QED
    BY <2>1, <2>2, <2>3
<1>12. \A s \in DOMAIN pr :
         /\ pr[s].count = Cardinality(with(s))
         /\ DOMAIN pr[s].received = {Written(ps[i].receivedLeafNode) : i \in with(s)}
         /\ \A a \in DOMAIN pr[s].received : pr[s].received[a] = Cardinality(got(s, a))
  BY <1>11
<1> QED
  BY <1>10, <1>12, Zenon DEF PrintedWhole

\* The invariants of the trees and of the writing imply that the printed trees are
\* complete.
LEMMA AllIsPrinted == StateOK /\ PrintOK => PrintedIsComplete
<1> SUFFICES ASSUME StateOK, PrintOK PROVE PrintedIsComplete
  OBVIOUS
<1>1. ASSUME NEW h \in DOMAIN printed PROVE PrintedWhole(h)
  BY <1>1, SummaryIsWhole DEF PrintOK
<1>2. ASSUME phase = "done", NEW h \in DOMAIN packets \ DOMAIN printed PROVE Excused(h)
  BY <1>2 DEF PrintOK
<1>3. (\A h \in DOMAIN printed : PrintedWhole(h)) /\
      (phase = "done" => \A h \in DOMAIN packets \ DOMAIN printed : Excused(h))
  BY <1>1, <1>2
<1> QED
  BY <1>3, Zenon DEF PrintedIsComplete, PrintedWhole, Excused

\* In a tree that is written every command and every answer to it is counted as often as
\* the packets say, none twice and none dropped; a tree is missing only if a packet
\* without an answer, of its own or in the same file, stopped the writing
\* (Tree.prepareAnalyzedPackets).
THEOREM PrintedStaysComplete == Spec => []PrintedIsComplete
BY SpecPrintOK, AllIsPrinted, PTL
=============================================================================
