-------------------------- MODULE PacketCountProofs --------------------------
(***************************************************************************)
(* Theorems about the counts of the log parser's trees, for every set of   *)
(* headers, commands and answers and for logs of any length.               *)
(*                                                                         *)
(* merge counts the nodes on the way it takes for a text, and these are    *)
(* the nodes the text passes: those whose path, up to their own first      *)
(* byte, is a prefix of the text (Passing).  A node that a division made   *)
(* or cut keeps no exact count and is left out (split).  With the paths    *)
(* that no operation changes, this gives the invariant                     *)
(*   CountOK   for every header, the root of either tree counts the texts  *)
(*             of the log that were merged into it, a node that no         *)
(*             division touched counts the texts that pass it, and every   *)
(*             text is written from the root to some node (Represented).   *)
(* The last part is what keeps the second one: a node that merge adds is   *)
(* passed by the new text alone, since an earlier text that passed it      *)
(* would have had its nodes there.                                         *)
(***************************************************************************)
EXTENDS PacketTreeProofs

-----------------------------------------------------------------------------
(* The nodes a stream passes                                               *)

\* The nodes of a tree but its root.
Under(nodes, root) == {n \in DOMAIN nodes : nodes[n].parent # 0 /\ Top(nodes)[n] = root}

\* The bytes down to the first one of a node: a stream with these passes the node.
Key(nodes, n) == Both(Path(nodes)[nodes[n].parent], <<nodes[n].data[1]>>)

\* The nodes of a tree that a stream passes.
Passed(nodes, root, X) == {n \in Under(nodes, root) : IsPrefix(Key(nodes, n), X)}

\* Prefixes of prefixes are prefixes.
LEMMA PrefixTrans ==
  ASSUME NEW a \in Seq(Bytes), NEW b \in Seq(Bytes), NEW c \in Seq(Bytes),
         IsPrefix(a, b), IsPrefix(b, c)
  PROVE  IsPrefix(a, c)
<1>1. Len(a) \in Nat /\ Len(b) \in Nat /\ Len(c) \in Nat
  OBVIOUS
<1>2. Len(a) <= Len(b) /\ \A i \in 1 .. Len(a) : a[i] = b[i]
  BY PrefixFacts
<1>3. Len(b) <= Len(c) /\ \A i \in 1 .. Len(b) : b[i] = c[i]
  BY PrefixFacts
<1>4. Len(a) <= Len(c) /\ \A i \in 1 .. Len(a) : i \in 1 .. Len(b)
  BY <1>1, <1>2, <1>3
<1>5. \A i \in 1 .. Len(a) : a[i] = c[i]
  BY <1>2, <1>3, <1>4
<1> QED
  BY <1>4, <1>5, PrefixFacts

\* Of two prefixes of a sequence the shorter one is a prefix of the other.
LEMMA PrefixesCompare ==
  ASSUME NEW a \in Seq(Bytes), NEW b \in Seq(Bytes), NEW c \in Seq(Bytes),
         IsPrefix(a, c), IsPrefix(b, c), Len(a) <= Len(b)
  PROVE  IsPrefix(a, b)
<1>1. Len(a) \in Nat /\ Len(b) \in Nat /\ Len(c) \in Nat
  OBVIOUS
<1>2. \A i \in 1 .. Len(a) : a[i] = c[i]
  BY PrefixFacts
<1>3. \A i \in 1 .. Len(b) : b[i] = c[i]
  BY PrefixFacts
<1>4. \A i \in 1 .. Len(a) : i \in 1 .. Len(b)
  BY <1>1
<1>5. \A i \in 1 .. Len(a) : a[i] = b[i]
  BY <1>2, <1>3, <1>4
<1> QED
  BY <1>5, PrefixFacts

\* A prefix is no longer than what it is a prefix of.
LEMMA PrefixLength ==
  ASSUME NEW a \in Seq(Bytes), NEW b \in Seq(Bytes), IsPrefix(a, b)
  PROVE  Len(a) <= Len(b) /\ Len(a) \in Nat /\ Len(b) \in Nat
<1>1. Len(a) <= Len(b)
  BY PrefixFacts
<1>2. Len(a) \in Nat /\ Len(b) \in Nat
  OBVIOUS
<1> QED
  BY <1>1, <1>2

\* One byte more.
LEMMA OneByteMore ==
  ASSUME NEW s \in Seq(Bytes), NEW b \in Bytes
  PROVE  /\ Both(s, <<b>>) \in Seq(Bytes) /\ Len(Both(s, <<b>>)) = Len(s) + 1
         /\ Both(s, <<b>>)[Len(s) + 1] = b /\ IsPrefix(s, Both(s, <<b>>))
<1> DEFINE t == <<b>>
<1>1. t \in Seq(Bytes) /\ Len(t) = 1 /\ t[1] = b /\ 1 \in 1 .. Len(t)
  OBVIOUS
<1> HIDE DEF t
<1>2. /\ Both(s, t) \in Seq(Bytes) /\ Len(Both(s, t)) = Len(s) + Len(t)
      /\ \A i \in 1 .. Len(t) : Both(s, t)[Len(s) + i] = t[i]
  BY <1>1, BothFacts
<1>3. IsPrefix(s, Both(s, t))
  BY <1>1, PrefixOfBoth
<1> QED
  BY <1>1, <1>2, <1>3 DEF t

\* A sequence and one more byte are the front of a continuation that begins with it.
LEMMA FrontOfBoth ==
  ASSUME NEW s \in Seq(Bytes), NEW b \in Bytes, NEW t \in Texts
  PROVE  IsPrefix(Both(s, <<b>>), Both(s, t)) <=> t[1] = b
<1> DEFINE x == Both(s, <<b>>)
           y == Both(s, t)
<1>1. t \in Seq(Bytes) /\ Len(t) \in Nat \ {0} /\ Len(s) \in Nat
  BY TextFacts
<1>2. /\ x \in Seq(Bytes) /\ Len(x) = Len(s) + 1 /\ x[Len(s) + 1] = b /\ IsPrefix(s, x)
  BY OneByteMore
<1>3. \A i \in 1 .. Len(s) : s[i] = x[i]
  <2> HIDE DEF x
  <2> QED
    BY <1>2, PrefixFacts
<1>4. /\ y \in Seq(Bytes) /\ Len(y) = Len(s) + Len(t)
      /\ \A i \in 1 .. Len(s) : y[i] = s[i]
      /\ \A i \in 1 .. Len(t) : y[Len(s) + i] = t[i]
  BY <1>1, BothFacts
<1> HIDE DEF x, y
<1>5. y[Len(s) + 1] = t[1]
  <2>1. 1 \in 1 .. Len(t)
    BY <1>1
  <2> QED
    BY <1>4, <2>1
<1>6. \A i \in 1 .. Len(s) + 1 : i \in 1 .. Len(s) \/ i = Len(s) + 1
  BY <1>1
<1>7. Len(x) <= Len(y) /\ Len(s) + 1 \in 1 .. Len(x)
  BY <1>1, <1>2, <1>4
<1>8. IsPrefix(x, y) <=> \A i \in 1 .. Len(x) : x[i] = y[i]
  BY <1>2, <1>4, <1>7, PrefixFacts
<1>9. ASSUME t[1] = b PROVE \A i \in 1 .. Len(x) : x[i] = y[i]
  BY <1>2, <1>3, <1>4, <1>5, <1>6, <1>9
<1>10. ASSUME \A i \in 1 .. Len(x) : x[i] = y[i] PROVE t[1] = b
  BY <1>2, <1>5, <1>7, <1>10
<1> QED
  BY <1>8, <1>9, <1>10 DEF x, y

\* The path of a node has a length.
LEMMA PathLength ==
  ASSUME NEW nodes, Forest(nodes), NEW n \in DOMAIN nodes
  PROVE  Len(Path(nodes)[n]) \in Nat \ {0}
<1>1. Linked(nodes) /\ IsPath(nodes, Path(nodes))
  BY ForestFacts
<1> QED
  BY <1>1, PathStep, Zenon

\* The key of a node lies between the path of its parent and its own.
LEMMA KeyFacts ==
  ASSUME NEW nodes, Forest(nodes), NEW root, NEW n \in Under(nodes, root),
         NEW q, q = nodes[n].parent
  PROVE  /\ n \in DOMAIN nodes /\ q \in DOMAIN nodes /\ q # 0
         /\ Path(nodes)[q] \in Seq(Bytes) /\ Path(nodes)[n] \in Seq(Bytes)
         /\ Key(nodes, n) \in Seq(Bytes) /\ Len(Key(nodes, n)) = Len(Path(nodes)[q]) + 1
         /\ Len(Path(nodes)[q]) < Len(Path(nodes)[n])
         /\ IsPrefix(Path(nodes)[q], Key(nodes, n))
         /\ IsPrefix(Key(nodes, n), Path(nodes)[n])
         /\ q = root \/ q \in Under(nodes, root)
<1> DEFINE path == Path(nodes)
           d == nodes[n].data
           b == d[1]
<1>1. n \in DOMAIN nodes /\ q # 0 /\ Top(nodes)[n] = root
  BY DEF Under
<1>2. Linked(nodes) /\ IsPath(nodes, path) /\ IsTop(nodes, Top(nodes))
  BY ForestFacts
<1>3. q \in DOMAIN nodes /\ d \in Texts /\ b \in Bytes
  <2> HIDE DEF path
  <2> QED
    BY <1>1, <1>2, LinkedFacts
<1>4. path[q] \in Seq(Bytes) /\ path[n] \in Seq(Bytes)
  BY <1>1, <1>2, <1>3 DEF IsPath
<1>5. path[n] = Both(path[q], d) /\ Len(path[q]) < Len(path[n])
  <2> HIDE DEF path, d
  <2>1. StepOfPath(nodes, path, n)
    BY <1>1, <1>2, StepsDown
  <2> QED
    BY <1>1, <2>1 DEF StepOfPath, d
<1>6. Key(nodes, n) = Both(path[q], <<b>>)
  BY DEF Key
<1> HIDE DEF path, d
<1>7. /\ Both(path[q], <<b>>) \in Seq(Bytes) /\ Len(Both(path[q], <<b>>)) = Len(path[q]) + 1
      /\ IsPrefix(path[q], Both(path[q], <<b>>))
  BY <1>3, <1>4, OneByteMore
<1>8. IsPrefix(Both(path[q], <<b>>), Both(path[q], d))
  BY <1>3, <1>4, FrontOfBoth
<1>9. q = root \/ q \in Under(nodes, root)
  <2>1. Top(nodes)[n] = Top(nodes)[q]
    BY <1>1, <1>2 DEF IsTop
  <2>2. nodes[q].parent = 0 => Top(nodes)[q] = q
    BY <1>2, <1>3 DEF IsTop
  <2> QED
    BY <1>1, <1>3, <2>1, <2>2 DEF Under
<1> QED
  BY <1>1, <1>3, <1>4, <1>5, <1>6, <1>7, <1>8, <1>9 DEF path

\* What holds of the children of the root that a stream passes, and with a node of those
\* below it, holds of all that it passes.
LEMMA PassedOnly ==
  ASSUME NEW nodes, Forest(nodes), NEW root, NEW X \in Seq(Bytes), NEW P,
         \A n \in Passed(nodes, root, X) : nodes[n].parent = root => n \in P,
         \A n \in Passed(nodes, root, X) :
           nodes[n].parent \in Passed(nodes, root, X) \cap P => n \in P
  PROVE  Passed(nodes, root, X) \subseteq P
<1> DEFINE path == Path(nodes)
           K == Passed(nodes, root, X)
           G == {k \in Nat : \A n \in K : Len(path[n]) <= k => n \in P}
<1>0. ASSUME NEW n \in K
      PROVE  /\ Len(path[n]) \in Nat \ {0}
             /\ nodes[n].parent = root \/ nodes[n].parent \in K
             /\ nodes[n].parent # root => Len(path[nodes[n].parent]) < Len(path[n])
                                          /\ Len(path[nodes[n].parent]) \in Nat
  <2> DEFINE q == nodes[n].parent
  <2>1. n \in Under(nodes, root) /\ IsPrefix(Key(nodes, n), X) /\ q = nodes[n].parent
    BY DEF Passed
  <2> HIDE DEF q
  <2>2. /\ n \in DOMAIN nodes /\ q \in DOMAIN nodes
        /\ path[q] \in Seq(Bytes) /\ path[n] \in Seq(Bytes)
        /\ Key(nodes, n) \in Seq(Bytes) /\ Len(path[q]) < Len(path[n])
        /\ IsPrefix(path[q], Key(nodes, n)) /\ (q = root \/ q \in Under(nodes, root))
    BY <2>1, KeyFacts
  <2>3. Len(path[n]) \in Nat \ {0} /\ Len(path[q]) \in Nat
    BY <2>2, PathLength
  <2>4. ASSUME q \in Under(nodes, root) PROVE q \in K
    <3>1. /\ Key(nodes, q) \in Seq(Bytes) /\ IsPrefix(Key(nodes, q), path[q])
      BY <2>4, KeyFacts
    <3>2. IsPrefix(Key(nodes, q), Key(nodes, n))
      BY <2>2, <3>1, PrefixTrans
    <3>3. IsPrefix(Key(nodes, q), X)
      BY <2>1, <2>2, <3>1, <3>2, PrefixTrans
    <3> QED
      BY <2>4, <3>3 DEF Passed
  <2> QED
    BY <2>1, <2>2, <2>3, <2>4
<1> HIDE DEF path, K
<1>1. 0 \in G
  BY <1>0
<1>2. ASSUME NEW k \in Nat, k \in G PROVE k + 1 \in G
  <2> SUFFICES ASSUME NEW n \in K, Len(path[n]) <= k + 1 PROVE n \in P
    OBVIOUS
  <2>1. CASE nodes[n].parent = root
    BY <2>1 DEF K
  <2>2. CASE nodes[n].parent # root
    <3>1. nodes[n].parent \in K /\ Len(path[nodes[n].parent]) <= k
      BY <1>0, <2>2
    <3>2. nodes[n].parent \in P
      BY <1>2, <3>1
    <3> QED
      BY <3>1, <3>2 DEF K
  <2> QED
    BY <2>1, <2>2
<1> HIDE DEF G
<1>3. \A k \in Nat : k \in G
  BY <1>1, <1>2, SetInduction
<1>4. ASSUME NEW n \in K PROVE n \in P
  <2>1. Len(path[n]) \in Nat /\ Len(path[n]) <= Len(path[n])
    BY <1>0
  <2>2. Len(path[n]) \in G
    BY <1>3, <2>1
  <2> QED
    BY <2>1, <2>2 DEF G
<1> QED
  BY <1>4 DEF K

\* The front of a stream beyond the root that no node it passes has, no node of the tree has.
LEMMA FrontIsNew ==
  ASSUME NEW nodes, Forest(nodes), NEW root \in DOMAIN nodes, NEW X \in Seq(Bytes),
         NEW Y \in Seq(Bytes), IsPrefix(Y, X), Len(Path(nodes)[root]) < Len(Y),
         \A n \in Passed(nodes, root, X) : ~IsPrefix(Y, Path(nodes)[n])
  PROVE  \A n \in Under(nodes, root) : ~IsPrefix(Y, Path(nodes)[n])
<1> DEFINE path == Path(nodes)
           U == Under(nodes, root)
           G == {k \in Nat : \A n \in U : Len(path[n]) <= k => ~IsPrefix(Y, path[n])}
<1>0. ASSUME NEW n \in U
      PROVE  /\ Len(path[n]) \in Nat \ {0}
             /\ IsPrefix(Y, path[n]) =>
                  /\ nodes[n].parent \in U /\ IsPrefix(Y, path[nodes[n].parent])
                  /\ Len(path[nodes[n].parent]) < Len(path[n])
                  /\ Len(path[nodes[n].parent]) \in Nat
  <2> DEFINE q == nodes[n].parent
  <2>1. q = nodes[n].parent
    OBVIOUS
  <2> HIDE DEF q
  <2>2. /\ n \in DOMAIN nodes /\ q \in DOMAIN nodes
        /\ path[q] \in Seq(Bytes) /\ path[n] \in Seq(Bytes)
        /\ Key(nodes, n) \in Seq(Bytes) /\ Len(path[q]) < Len(path[n])
        /\ Len(Key(nodes, n)) = Len(path[q]) + 1
        /\ IsPrefix(path[q], Key(nodes, n)) /\ IsPrefix(Key(nodes, n), path[n])
        /\ q = root \/ q \in U
    BY <2>1, KeyFacts
  <2>3. Len(path[n]) \in Nat \ {0} /\ Len(path[q]) \in Nat /\ Len(Y) \in Nat
    <3>1. Len(Y) \in Nat
      OBVIOUS
    <3> QED
      BY <2>2, <3>1, PathLength
  <2>4. ASSUME IsPrefix(Y, path[n])
        PROVE  q \in U /\ IsPrefix(Y, path[q])
    <3>1. CASE Len(Y) <= Len(path[q])
      <4>1. IsPrefix(path[q], path[n])
        BY <2>2, PrefixTrans
      <4>2. IsPrefix(Y, path[q])
        BY <2>2, <2>4, <3>1, <4>1, PrefixesCompare
      <4>3. q # root
        BY <2>3, <3>1
      <4> QED
        BY <2>2, <4>2, <4>3
    <3>2. CASE ~(Len(Y) <= Len(path[q]))
      <4>1. Len(Key(nodes, n)) <= Len(Y)
        BY <2>2, <2>3, <3>2
      <4>2. IsPrefix(Key(nodes, n), Y)
        BY <2>2, <2>4, <4>1, PrefixesCompare
      <4>3. IsPrefix(Key(nodes, n), X)
        BY <2>2, <4>2, PrefixTrans
      <4>4. n \in Passed(nodes, root, X)
        BY <4>3 DEF Passed
      <4> QED
        BY <2>4, <4>4
    <3> QED
      BY <3>1, <3>2
  <2> QED
    BY <2>1, <2>2, <2>3, <2>4
<1> HIDE DEF path, U
<1>1. 0 \in G
  BY <1>0
<1>2. ASSUME NEW k \in Nat, k \in G PROVE k + 1 \in G
  <2> SUFFICES ASSUME NEW n \in U, Len(path[n]) <= k + 1, IsPrefix(Y, path[n]) PROVE FALSE
    OBVIOUS
  <2>1. /\ nodes[n].parent \in U /\ IsPrefix(Y, path[nodes[n].parent])
        /\ Len(path[nodes[n].parent]) <= k
    BY <1>0
  <2> QED
    BY <1>2, <2>1
<1> HIDE DEF G
<1>3. \A k \in Nat : k \in G
  BY <1>1, <1>2, SetInduction
<1>4. ASSUME NEW n \in U PROVE ~IsPrefix(Y, path[n])
  <2>1. Len(path[n]) \in Nat /\ Len(path[n]) <= Len(path[n])
    BY <1>0
  <2>2. Len(path[n]) \in G
    BY <1>3, <2>1
  <2> QED
    BY <2>1, <2>2 DEF G
<1> QED
  BY <1>4 DEF U, path

\* A node passed below another that the stream reaches is its child with the next byte.
LEMMA NextOnWay ==
  ASSUME NEW nodes, Forest(nodes), NEW root, NEW X \in Seq(Bytes),
         NEW q \in DOMAIN nodes, NEW rest \in Texts, Both(Path(nodes)[q], rest) = X
  PROVE  /\ \A n \in Passed(nodes, root, X) : nodes[n].parent = q =>
              rest[1] \in DOMAIN nodes[q].childNodes /\ n = nodes[q].childNodes[rest[1]]
         /\ rest[1] \in DOMAIN nodes[q].childNodes /\ Top(nodes)[q] = root =>
              /\ nodes[q].childNodes[rest[1]] \in Passed(nodes, root, X)
              /\ nodes[nodes[q].childNodes[rest[1]]].parent = q
<1> DEFINE path == Path(nodes)
<1>1. Linked(nodes) /\ IsPath(nodes, path) /\ IsTop(nodes, Top(nodes))
  BY ForestFacts
<1>2. path[q] \in Seq(Bytes)
  BY <1>1 DEF IsPath
<1>3. ASSUME NEW n \in DOMAIN nodes, nodes[n].parent = q
      PROVE  nodes[n].data[1] \in Bytes
             /\ (IsPrefix(Key(nodes, n), X) <=> rest[1] = nodes[n].data[1])
  <2>1. nodes[n].data[1] \in Bytes
    <3> HIDE DEF path
    <3> QED
      BY <1>1, LinkedFacts
  <2>2. Key(nodes, n) = Both(path[q], <<nodes[n].data[1]>>)
    BY <1>3 DEF Key
  <2> HIDE DEF path
  <2>3. IsPrefix(Both(path[q], <<nodes[n].data[1]>>), Both(path[q], rest)) <=> rest[1] = nodes[n].data[1]
    BY <1>2, <2>1, FrontOfBoth
  <2> QED
    BY <2>1, <2>2, <2>3 DEF path
<1>4. ASSUME NEW n \in Passed(nodes, root, X), nodes[n].parent = q
      PROVE  rest[1] \in DOMAIN nodes[q].childNodes /\ n = nodes[q].childNodes[rest[1]]
  <2>1. n \in DOMAIN nodes /\ IsPrefix(Key(nodes, n), X) /\ nodes[n].parent # 0
    BY DEF Passed, Under
  <2>2. rest[1] = nodes[n].data[1]
    BY <1>3, <1>4, <2>1
  <2> HIDE DEF path
  <2> QED
    BY <1>1, <1>4, <2>1, <2>2, LinkedFacts
<1>5. ASSUME rest[1] \in DOMAIN nodes[q].childNodes, Top(nodes)[q] = root
      PROVE  /\ nodes[q].childNodes[rest[1]] \in Passed(nodes, root, X)
             /\ nodes[nodes[q].childNodes[rest[1]]].parent = q
  <2> DEFINE n == nodes[q].childNodes[rest[1]]
  <2>1. n \in DOMAIN nodes /\ nodes[n].parent = q /\ nodes[n].data[1] = rest[1] /\ q # 0
    <3> HIDE DEF path
    <3>1. q # 0
      BY <1>1, LinkedFacts
    <3> QED
      BY <1>1, <1>5, <3>1, LinkedFacts
  <2> HIDE DEF n, path
  <2>2. Top(nodes)[n] = root
    BY <1>1, <1>5, <2>1 DEF IsTop
  <2>3. IsPrefix(Key(nodes, n), X)
    BY <1>3, <2>1
  <2>4. n \in Passed(nodes, root, X)
    BY <2>1, <2>2, <2>3 DEF Passed, Under
  <2> QED
    BY <2>1, <2>4 DEF n
<1> QED
  BY <1>4, <1>5

\* What a walk has passed when it stands at a stop: no node beside the way, none left out,
\* and all but the last above the last.
Along(nodes, root, X, s) ==
  /\ s.last \in s.passed /\ s.passed \subseteq Passed(nodes, root, X)
  /\ \A n \in Passed(nodes, root, X) : nodes[n].parent = root => n \in s.passed
  /\ \A n \in Passed(nodes, root, X) :
       nodes[n].parent \in s.passed \ {s.last} => n \in s.passed
  /\ \A n \in s.passed \ {s.last} :
       Len(Path(nodes)[n]) <= Len(Path(nodes)[nodes[s.last].parent])

\* The walk begins with the only child of the root that the stream passes.
LEMMA AlongStarts ==
  ASSUME NEW nodes, Forest(nodes), NEW root \in DOMAIN nodes, Top(nodes)[root] = root,
         NEW stream \in Texts, stream[1] \in DOMAIN nodes[root].childNodes,
         NEW X, X = Both(Path(nodes)[root], stream),
         NEW s, s = Arrive(nodes, {}, nodes[root].childNodes[stream[1]], stream)
  PROVE  Along(nodes, root, X, s)
<1> DEFINE c == nodes[root].childNodes[stream[1]]
<1>1. s.last = c /\ s.passed = {c}
  BY DEF Arrive
<1>2. Path(nodes)[root] \in Seq(Bytes) /\ stream \in Seq(Bytes)
  BY ForestFacts, TextFacts DEF IsPath
<1>3. X \in Seq(Bytes)
  BY <1>2, BothFacts
<1>4. c \in Passed(nodes, root, X)
  BY <1>3, NextOnWay
<1>5. \A n \in Passed(nodes, root, X) : nodes[n].parent = root => n = c
  BY <1>3, NextOnWay
<1> HIDE DEF c
<1> QED
  BY <1>1, <1>4, <1>5 DEF Along

\* It goes on with the only child of the last node that the stream passes.
LEMMA AlongGoesOn ==
  ASSUME NEW nodes, Forest(nodes), NEW root \in DOMAIN nodes, Top(nodes)[root] = root,
         NEW X \in Seq(Bytes), NEW u, Along(nodes, root, X, u), u.rest \in Texts,
         Both(Path(nodes)[u.last], u.rest) = X,
         u.rest[1] \in DOMAIN nodes[u.last].childNodes,
         NEW s, s = Arrive(nodes, u.passed, nodes[u.last].childNodes[u.rest[1]], u.rest)
  PROVE  Along(nodes, root, X, s)
<1> DEFINE q == u.last
           c == nodes[q].childNodes[u.rest[1]]
           K == Passed(nodes, root, X)
<1>1. s.last = c /\ s.passed = u.passed \cup {c}
  BY DEF Arrive
<1>2. q \in K /\ q \in u.passed /\ u.passed \subseteq K /\ q \in DOMAIN nodes
      /\ Top(nodes)[q] = root /\ q \in Under(nodes, root)
  BY DEF Along, Passed, Under
<1>3. c \in K /\ nodes[c].parent = q
  BY <1>2, NextOnWay
<1>4. \A n \in K : nodes[n].parent = q => n = c
  BY <1>2, NextOnWay
<1>5. \A n \in u.passed \ {q} : Len(Path(nodes)[n]) <= Len(Path(nodes)[nodes[q].parent])
  BY DEF Along
<1>6. \A n \in K : (nodes[n].parent = root => n \in u.passed)
                   /\ (nodes[n].parent \in u.passed \ {q} => n \in u.passed)
  BY DEF Along
<1> HIDE DEF q, c, K
<1>7. Len(Path(nodes)[nodes[q].parent]) < Len(Path(nodes)[q])
  BY <1>2, KeyFacts
<1>8. ASSUME NEW n \in K PROVE Len(Path(nodes)[n]) \in Nat
  BY PathLength DEF K, Passed, Under
<1>9. Len(Path(nodes)[nodes[q].parent]) \in Nat
  BY <1>2, KeyFacts, PathLength
<1>10. \A n \in u.passed : Len(Path(nodes)[n]) <= Len(Path(nodes)[q])
  BY <1>2, <1>5, <1>7, <1>8, <1>9
<1>11. \A n \in s.passed \ {c} : Len(Path(nodes)[n]) <= Len(Path(nodes)[nodes[c].parent])
  BY <1>1, <1>3, <1>10
<1>12. \A n \in K : nodes[n].parent \in s.passed \ {c} => n \in s.passed
  BY <1>1, <1>4, <1>6
<1> QED
  BY <1>1, <1>2, <1>3, <1>6, <1>11, <1>12 DEF Along, K

\* The length of a concatenation and the bytes of its second part.
Joined(s, t, x) ==
  /\ x \in Seq(Bytes) /\ Len(x) = Len(s) + Len(t) /\ Len(s) \in Nat /\ Len(t) \in Nat
  /\ \A i \in 1 .. Len(t) : x[Len(s) + i] = t[i]

\* A concatenation has its second part behind the first.
LEMMA SecondPart ==
  ASSUME NEW s \in Seq(Bytes), NEW t \in Seq(Bytes), NEW x, x = Both(s, t)
  PROVE  Joined(s, t, x)
<1>1. Len(s) \in Nat /\ Len(t) \in Nat
  OBVIOUS
<1> QED
  BY <1>1, BothFacts DEF Joined

\* A stream with all bytes of a node does not part inside of it.
LEMMA PartsInside ==
  ASSUME NEW a \in Seq(Bytes), NEW d \in Texts, NEW k \in 1 .. Len(d), NEW rest \in Seq(Bytes),
         NEW X \in Seq(Bytes), Both(Both(a, SubSeq(d, 1, k)), rest) = X,
         k < Len(d) /\ rest # <<>> => rest[1] # d[k + 1],
         NEW z, z = Both(a, d), IsPrefix(z, X)
  PROVE  k = Len(d)
<1> SUFFICES ASSUME k # Len(d) PROVE FALSE
  OBVIOUS
<1> DEFINE high == SubSeq(d, 1, k)
           y == Both(a, high)
<1>1. d \in Seq(Bytes) /\ Len(d) \in Nat
  BY TextFacts
<1>2. k \in Nat \ {0} /\ k < Len(d) /\ k \in 0 .. Len(d)
  BY <1>1
<1>3. high \in Seq(Bytes) /\ Len(high) = k
  BY <1>1, <1>2, FrontFacts
<1> HIDE DEF high
<1>4. y \in Seq(Bytes) /\ Len(y) = Len(a) + k /\ Len(a) \in Nat
  <2>1. y \in Seq(Bytes) /\ Len(y) = Len(a) + Len(high)
    BY <1>3, BothFacts
  <2>2. Len(a) \in Nat
    OBVIOUS
  <2> QED
    BY <1>3, <2>1, <2>2
<1>5. X = Both(y, rest)
  BY DEF high
<1> HIDE DEF y
<1>6. Len(X) = Len(y) + Len(rest) /\ Len(rest) \in Nat
      /\ \A i \in 1 .. Len(rest) : X[Len(y) + i] = rest[i]
  <2>1. Joined(y, rest, X)
    BY <1>4, <1>5, SecondPart
  <2> QED
    BY <2>1 DEF Joined
<1>7. z \in Seq(Bytes) /\ Len(z) = Len(a) + Len(d) /\ \A i \in 1 .. Len(d) : z[Len(a) + i] = d[i]
  <2>1. Joined(a, d, z)
    BY <1>1, SecondPart
  <2> QED
    BY <2>1 DEF Joined
<1>8. Len(z) <= Len(X) /\ \A i \in 1 .. Len(z) : z[i] = X[i]
  BY <1>7, PrefixFacts
<1>9. Len(rest) # 0 /\ rest # <<>>
  <2>1. Len(rest) # 0
    BY <1>1, <1>2, <1>4, <1>6, <1>7, <1>8
  <2> QED
    BY <2>1
<1>10. /\ k + 1 \in 1 .. Len(d) /\ 1 \in 1 .. Len(rest)
       /\ Len(a) + (k + 1) \in 1 .. Len(z) /\ Len(a) + (k + 1) = Len(y) + 1
  BY <1>1, <1>2, <1>4, <1>6, <1>7, <1>9
<1>11. X[Len(a) + (k + 1)] = d[k + 1] /\ X[Len(y) + 1] = rest[1]
  BY <1>6, <1>7, <1>8, <1>10
<1> QED
  BY <1>2, <1>9, <1>10, <1>11

\* A walk that is over has passed all the nodes that the stream passes.
LEMMA AlongEnds ==
  ASSUME NEW nodes, Forest(nodes), NEW root \in DOMAIN nodes,
         NEW stream \in Texts, NEW X \in Seq(Bytes), X = Both(Path(nodes)[root], stream),
         NEW s, Along(nodes, root, X, s), Arrived(nodes, root, stream, s), ~GoesOn(nodes, s)
  PROVE  s.passed = Passed(nodes, root, X)
<1> DEFINE path == Path(nodes)
           n == s.last
           d == nodes[n].data
           p == nodes[n].parent
           high == SubSeq(d, 1, s.shared)
           K == Passed(nodes, root, X)
<1>1. /\ n \in DOMAIN nodes /\ p # 0 /\ s.shared \in 1 .. Len(d) /\ s.rest \in Seq(Bytes)
      /\ Both(Both(path[p], high), s.rest) = X
      /\ s.shared < Len(d) /\ s.rest # <<>> => s.rest[1] # d[s.shared + 1]
  BY DEF Arrived
<1>2. n \in Under(nodes, root) /\ n \in s.passed /\ s.passed \subseteq K
  BY DEF Along, Passed
<1>3. d \in Texts /\ d \in Seq(Bytes)
  <2> HIDE DEF path
  <2>1. Linked(nodes)
    BY ForestFacts
  <2> QED
    BY <1>1, <2>1, LinkedFacts
<1>4. path[p] \in Seq(Bytes) /\ path[n] \in Seq(Bytes) /\ path[n] = Both(path[p], d)
  <2>1. path[p] \in Seq(Bytes) /\ path[n] \in Seq(Bytes)
    BY <1>2, KeyFacts
  <2> QED
    BY <1>1, <2>1, ForestFacts DEF IsPath
<1>goes. ASSUME s.shared = Len(d), s.rest # <<>> PROVE s.rest[1] \notin DOMAIN nodes[n].childNodes
  BY <1>goes DEF GoesOn
<1>full. ASSUME s.shared = Len(d) PROVE Both(path[n], s.rest) = X
  BY <1>full, GoesOnFacts
<1> HIDE DEF path, n, d, p
<1>5. ASSUME IsPrefix(path[n], X) PROVE s.shared = Len(d)
  BY <1>1, <1>3, <1>4, <1>5, PartsInside
<1>6. ASSUME NEW c \in K, nodes[c].parent = n PROVE FALSE
  <2>1. c \in Under(nodes, root) /\ IsPrefix(Key(nodes, c), X)
    BY DEF K, Passed
  <2>2. /\ Key(nodes, c) \in Seq(Bytes) /\ IsPrefix(path[n], Key(nodes, c))
        /\ Len(Key(nodes, c)) = Len(path[n]) + 1
    BY <1>6, <2>1, KeyFacts DEF path
  <2>3. IsPrefix(path[n], X)
    BY <1>4, <2>1, <2>2, PrefixTrans
  <2>4. s.shared = Len(d) /\ Both(path[n], s.rest) = X
    BY <1>5, <1>full, <2>3
  <2>5. s.rest # <<>>
    <3>1. Len(Key(nodes, c)) <= Len(X) /\ Len(X) \in Nat
      BY <2>1, <2>2, PrefixLength
    <3>2. Len(X) = Len(path[n]) + Len(s.rest) /\ Len(path[n]) \in Nat /\ Len(s.rest) \in Nat
      <4> DEFINE x == path[n]
                 r == s.rest
      <4>1. x \in Seq(Bytes) /\ r \in Seq(Bytes) /\ X = Both(x, r)
        BY <1>1, <1>4, <2>4
      <4> HIDE DEF x, r
      <4>2. Len(X) = Len(x) + Len(r) /\ Len(x) \in Nat /\ Len(r) \in Nat
        BY <4>1, SecondPart DEF Joined
      <4> QED
        BY <4>2 DEF x, r
    <3>3. Len(s.rest) # 0
      BY <2>2, <3>1, <3>2
    <3> QED
      BY <3>3
  <2>6. s.rest \in Texts
    BY <1>1, <2>5 DEF Texts
  <2>7. s.rest[1] \in DOMAIN nodes[n].childNodes
    BY <1>1, <1>6, <2>4, <2>6, NextOnWay DEF path, K
  <2> QED
    BY <1>goes, <2>4, <2>5, <2>7
<1>7. \A c \in K : nodes[c].parent = root => c \in s.passed
  BY DEF Along, K
<1>8. \A c \in K : nodes[c].parent \in K \cap s.passed => c \in s.passed
  BY <1>6 DEF Along, K, n
<1> HIDE DEF K
<1>9. K \subseteq s.passed
  BY <1>7, <1>8, PassedOnly DEF K
<1> QED
  BY <1>2, <1>9 DEF K

\* Tree.merge passes the nodes that the stream passes and no other, and all but the last of
\* them end where the last one begins, or above.
LEMMA WalkPasses ==
  ASSUME NEW nodes, Forest(nodes), NEW root \in DOMAIN nodes, Top(nodes)[root] = root,
         NEW stream \in Texts, stream[1] \in DOMAIN nodes[root].childNodes,
         NEW X, X = Both(Path(nodes)[root], stream),
         NEW s, s = Walk(nodes, nodes[root].childNodes[stream[1]], stream)
  PROVE  s.passed = Passed(nodes, root, X) /\ Along(nodes, root, X, s)
<1> DEFINE start == nodes[root].childNodes[stream[1]]
           N     == Len(stream)
<1>0. stream \in Seq(Bytes) /\ N \in Nat /\ X \in Seq(Bytes)
  <2>1. Path(nodes)[root] \in Seq(Bytes) /\ stream \in Seq(Bytes)
    BY ForestFacts, TextFacts DEF IsPath
  <2>2. X \in Seq(Bytes)
    BY <2>1, BothFacts
  <2> QED
    BY <2>1, <2>2
<1>1. PICK w : /\ Walk(nodes, start, stream) = w[N]
               /\ \A k \in 0 .. N : w[k] = Stop(nodes, start, stream, w, k)
  BY <1>0, WalkUnfolds
<1> DEFINE Good(u) == Arrived(nodes, root, stream, u) /\ Along(nodes, root, X, u)
           G == {k \in Nat : k <= N => Good(w[k])}
<1>2. 0 \in G
  <2>1. 0 \in 0 .. N
    BY <1>0
  <2> DEFINE u == w[0]
  <2>2. u = Arrive(nodes, {}, start, stream)
    BY <1>1, <2>1 DEF Stop
  <2> HIDE DEF u
  <2>3. Arrived(nodes, root, stream, u)
    BY <1>0, <2>2, ArriveFacts
  <2>4. Along(nodes, root, X, u)
    BY <2>2, AlongStarts
  <2> QED
    BY <2>3, <2>4 DEF u
<1>3. ASSUME NEW k \in Nat, k \in G PROVE k + 1 \in G
  <2> SUFFICES ASSUME k + 1 <= N PROVE Good(w[k + 1])
    OBVIOUS
  <2>1. k <= N /\ k + 1 \in 0 .. N /\ k + 1 # 0 /\ (k + 1) - 1 = k
    BY <1>0
  <2>2. Good(w[k])
    BY <1>3, <2>1
  <2> DEFINE u == w[k]
             v == w[k + 1]
  <2>3. v = Stop(nodes, start, stream, w, k + 1)
    BY <1>1, <2>1
  <2>4. v = IF GoesOn(nodes, u)
            THEN Arrive(nodes, u.passed, nodes[u.last].childNodes[u.rest[1]], u.rest)
            ELSE u
    <3> HIDE DEF Good, G, v
    <3> QED
      BY <2>1, <2>3, Zenon DEF Stop
  <2>5. Arrived(nodes, root, stream, u) /\ Along(nodes, root, X, u)
    BY <2>2
  <2> HIDE DEF u, v
  <2>6. CASE ~GoesOn(nodes, u)
    BY <2>4, <2>5, <2>6 DEF v
  <2>7. CASE GoesOn(nodes, u)
    <3>1. /\ u.last \in DOMAIN nodes /\ Top(nodes)[u.last] = Top(nodes)[root]
          /\ u.rest \in Seq(Bytes)
      BY <2>5 DEF Arrived
    <3>2. /\ u.shared = Len(nodes[u.last].data) /\ u.rest # <<>>
          /\ u.rest[1] \in DOMAIN nodes[u.last].childNodes
      BY <2>7 DEF GoesOn
    <3>3. u.rest \in Texts
      BY <3>1, <3>2 DEF Texts
    <3>4. Both(Path(nodes)[u.last], u.rest) = X
      BY <2>5, <3>2, GoesOnFacts
    <3>5. v = Arrive(nodes, u.passed, nodes[u.last].childNodes[u.rest[1]], u.rest)
      BY <2>4, <2>7
    <3>6. Arrived(nodes, root, stream, v)
      BY <1>0, <3>1, <3>2, <3>3, <3>4, <3>5, ArriveFacts
    <3>7. Along(nodes, root, X, v)
      BY <1>0, <2>5, <3>2, <3>3, <3>4, <3>5, AlongGoesOn
    <3> QED
      BY <3>6, <3>7 DEF v
  <2> QED
    BY <2>6, <2>7
<1>4. N \in G
  <2> HIDE DEF G
  <2>1. \A k \in Nat : k \in G
    BY <1>2, <1>3, SetInduction
  <2> QED
    BY <1>0, <2>1
<1>5. Along(nodes, root, X, s)
  BY <1>0, <1>1, <1>4
<1>6. Arrived(nodes, root, stream, s) /\ ~GoesOn(nodes, s)
  BY WalkFacts
<1>7. s.passed = Passed(nodes, root, X)
  BY <1>0, <1>5, <1>6, AlongEnds
<1> QED
  BY <1>5, <1>7

\* A stream whose first byte no child of the root has passes no node.
LEMMA NothingPassed ==
  ASSUME NEW nodes, Forest(nodes), NEW root \in DOMAIN nodes,
         NEW stream \in Texts, stream[1] \notin DOMAIN nodes[root].childNodes,
         NEW X, X = Both(Path(nodes)[root], stream)
  PROVE  Passed(nodes, root, X) = {}
<1>0. X \in Seq(Bytes)
  <2>1. Path(nodes)[root] \in Seq(Bytes) /\ stream \in Seq(Bytes)
    BY ForestFacts, TextFacts DEF IsPath
  <2> QED
    BY <2>1, BothFacts
<1>1. ASSUME NEW n \in Passed(nodes, root, X) PROVE nodes[n].parent # root
  BY <1>0, NextOnWay
<1>2. \A n \in Passed(nodes, root, X) : nodes[n].parent = root => n \in {}
  BY <1>1
<1>3. \A n \in Passed(nodes, root, X) :
        nodes[n].parent \in Passed(nodes, root, X) \cap {} => n \in {}
  OBVIOUS
<1>4. Passed(nodes, root, X) \subseteq {}
  BY <1>0, <1>2, <1>3, PassedOnly
<1> QED
  BY <1>4

\* The counts when the nodes that a stream X passes have been counted: no node outside of S
\* has changed but for its count.
CountedOnce(nodes, root, X, new, S) ==
  /\ Grown(nodes, new) /\ S \subseteq DOMAIN new
  /\ \A n \in DOMAIN nodes :
       new[n].count = IF n \in {root} \cup Passed(nodes, root, X) THEN nodes[n].count + 1
                      ELSE nodes[n].count
  /\ \A n \in DOMAIN nodes \ S :
       new[n].parent = nodes[n].parent /\ new[n].data[1] = nodes[n].data[1]

\* A new node has a count of one, and is on the way of the stream X and of no earlier one.
NewAreOnce(nodes, root, X, new, S) ==
  \A n \in DOMAIN new \ (DOMAIN nodes \cup S) :
    /\ new[n].count = 1 /\ IsPrefix(Key(new, n), X)
    /\ \A x \in Under(nodes, root) : ~IsPrefix(Key(new, n), Path(nodes)[x])

\* The leaf of a stream that has left the nodes it shares with others.
LEMMA NewLeafCounted ==
  ASSUME NEW nodes, Forest(nodes), NEW root \in DOMAIN nodes, NEW X \in Seq(Bytes),
         NEW mid, NEW S, CountedOnce(nodes, root, X, mid, S), DOMAIN mid \subseteq DOMAIN nodes \cup S,
         NEW p \in DOMAIN mid, Len(Path(nodes)[root]) <= Len(Path(mid)[p]),
         NEW rest \in Texts, rest[1] \notin DOMAIN mid[p].childNodes,
         Both(Path(mid)[p], rest) = X,
         \A n \in Passed(nodes, root, X) : ~IsPrefix(Both(Path(mid)[p], <<rest[1]>>), Path(nodes)[n]),
         NEW new, new = AddNew(mid, p, rest, 1)
  PROVE  CountedOnce(nodes, root, X, new, S) /\ NewAreOnce(nodes, root, X, new, S)
<1> DEFINE leaf == Len(mid) + 1
           Y == Both(Path(mid)[p], <<rest[1]>>)
<1>1. Grown(nodes, mid) /\ Forest(mid) /\ 1 \in Nat
  BY DEF CountedOnce, Grown
<1>2. Grown(mid, new) /\ NodeAdded(mid, p, rest, 1, new, leaf)
  BY <1>1, AddNewGrown
<1>3. Grown(nodes, new)
  BY <1>1, <1>2, GrownTwice
<1> HIDE DEF leaf
<1>4. /\ DOMAIN new = DOMAIN mid \cup {leaf} /\ leaf \notin DOMAIN mid
      /\ new[leaf].data = rest /\ new[leaf].parent = p /\ new[leaf].count = 1
      /\ \A n \in DOMAIN mid :
           /\ new[n].data = mid[n].data /\ new[n].parent = mid[n].parent
           /\ new[n].count = mid[n].count
  BY <1>2 DEF NodeAdded
<1>5. \A n \in DOMAIN nodes : n \in DOMAIN mid
  BY <1>1 DEF Grown
<1>6. CountedOnce(nodes, root, X, new, S)
  BY <1>3, <1>4, <1>5 DEF CountedOnce
<1>7. Path(mid)[p] \in Seq(Bytes) /\ Path(nodes)[root] \in Seq(Bytes) /\ rest[1] \in Bytes
  BY <1>1, ForestFacts, TextFacts DEF IsPath
<1>8. Key(new, leaf) = Y
  BY <1>2, <1>4 DEF Key, Grown
<1>9. /\ Y \in Seq(Bytes) /\ Len(Y) = Len(Path(mid)[p]) + 1 /\ IsPrefix(Y, X)
  <2>1. Y \in Seq(Bytes) /\ Len(Y) = Len(Path(mid)[p]) + 1
    BY <1>7, OneByteMore
  <2>2. IsPrefix(Y, Both(Path(mid)[p], rest))
    BY <1>7, FrontOfBoth
  <2> QED
    BY <2>1, <2>2
<1>10. Len(Path(nodes)[root]) < Len(Y)
  <2>1. Len(Path(nodes)[root]) \in Nat /\ Len(Path(mid)[p]) \in Nat
    BY <1>1, PathLength
  <2> QED
    BY <1>9, <2>1
<1>11. \A x \in Under(nodes, root) : ~IsPrefix(Y, Path(nodes)[x])
  <2>1. \A n \in Passed(nodes, root, X) : ~IsPrefix(Y, Path(nodes)[n])
    OBVIOUS
  <2> HIDE DEF Y
  <2> QED
    BY <1>9, <1>10, <2>1, FrontIsNew
<1> HIDE DEF Y
<1>12. \A n \in DOMAIN new \ (DOMAIN nodes \cup S) : n = leaf
  BY <1>4
<1>13. NewAreOnce(nodes, root, X, new, S)
  BY <1>4, <1>8, <1>9, <1>11, <1>12 DEF NewAreOnce
<1> QED
  BY <1>6, <1>13

\* The path of a root is the front of every path below it.
RootIsFront(path, root, n) == IsPrefix(path[root], path[n]) /\ Len(path[root]) < Len(path[n])

\* A root is the front of all that is below it.
LEMMA RootIsShorter ==
  ASSUME NEW nodes, Forest(nodes), NEW root \in DOMAIN nodes
  PROVE  \A n \in Under(nodes, root) : RootIsFront(Path(nodes), root, n)
<1> DEFINE path == Path(nodes)
           U == Under(nodes, root)
           G == {k \in Nat : \A n \in U : Len(path[n]) <= k => RootIsFront(path, root, n)}
<1>0. ASSUME NEW n \in U
      PROVE  /\ Len(path[n]) \in Nat \ {0} /\ Len(path[nodes[n].parent]) < Len(path[n])
             /\ Len(path[nodes[n].parent]) \in Nat
             /\ RootIsFront(path, root, nodes[n].parent) => RootIsFront(path, root, n)
             /\ nodes[n].parent \notin U => RootIsFront(path, root, n)
  <2> DEFINE q == nodes[n].parent
  <2>1. q = nodes[n].parent
    OBVIOUS
  <2> HIDE DEF q
  <2>2. /\ n \in DOMAIN nodes /\ q \in DOMAIN nodes /\ Len(path[q]) < Len(path[n])
        /\ path[q] \in Seq(Bytes) /\ path[n] \in Seq(Bytes) /\ Key(nodes, n) \in Seq(Bytes)
        /\ IsPrefix(path[q], Key(nodes, n)) /\ IsPrefix(Key(nodes, n), path[n])
        /\ (q = root \/ q \in U)
    BY <2>1, KeyFacts
  <2>3. Len(path[n]) \in Nat \ {0} /\ Len(path[q]) \in Nat /\ Len(path[root]) \in Nat
        /\ path[root] \in Seq(Bytes)
    BY <2>2, PathLength, ForestFacts DEF IsPath
  <2> HIDE DEF path
  <2>4. IsPrefix(path[q], path[n])
    BY <2>2, PrefixTrans
  <2>5. q = root => RootIsFront(path, root, n)
    BY <2>2, <2>4 DEF RootIsFront
  <2>6. RootIsFront(path, root, q) => RootIsFront(path, root, n)
    BY <2>2, <2>3, <2>4, PrefixTrans DEF RootIsFront
  <2> QED
    BY <2>1, <2>2, <2>3, <2>5, <2>6
<1> HIDE DEF path, U
<1>1. 0 \in G
  BY <1>0
<1>2. ASSUME NEW k \in Nat, k \in G PROVE k + 1 \in G
  <2> SUFFICES ASSUME NEW n \in U, Len(path[n]) <= k + 1 PROVE RootIsFront(path, root, n)
    OBVIOUS
  <2>1. Len(path[nodes[n].parent]) <= k
    BY <1>0
  <2>2. nodes[n].parent \in U => RootIsFront(path, root, nodes[n].parent)
    BY <1>2, <2>1
  <2> QED
    BY <1>0, <2>2
<1> HIDE DEF G
<1>3. \A k \in Nat : k \in G
  BY <1>1, <1>2, SetInduction
<1>4. ASSUME NEW n \in U PROVE RootIsFront(path, root, n)
  <2>1. Len(path[n]) \in Nat /\ Len(path[n]) <= Len(path[n])
    BY <1>0
  <2>2. Len(path[n]) \in G
    BY <1>3, <2>1
  <2> QED
    BY <2>1, <2>2 DEF G
<1> QED
  BY <1>4 DEF U, path

\* The root and the nodes that are passed are counted, and the other fields stay.
LEMMA PassedCounted ==
  ASSUME NEW nodes, Forest(nodes), NEW root \in DOMAIN nodes, nodes[root].parent = 0, NEW X,
         NEW counted, counted = incrementCount(nodes, {root}),
         NEW new, new = incrementCount(counted, Passed(nodes, root, X))
  PROVE  /\ CountedOnce(nodes, root, X, new, {}) /\ Len(new) = Len(nodes)
         /\ DOMAIN new = DOMAIN nodes
         /\ Passed(nodes, root, X) = {} => CountedOnce(nodes, root, X, counted, {})
         /\ \A n \in DOMAIN nodes :
              /\ new[n].data = nodes[n].data /\ new[n].parent = nodes[n].parent
              /\ new[n].childNodes = nodes[n].childNodes
<1> DEFINE P == Passed(nodes, root, X)
<1>0. root \notin P
  BY DEF Passed, Under
<1> HIDE DEF P
<1>1. nodes \in Seq(Nodes)
  BY DEF Forest, Linked
<1>2. Grown(nodes, counted)
  BY incrementCountGrown
<1>3. /\ counted \in Seq(Nodes) /\ Len(counted) = Len(nodes) /\ DOMAIN counted = DOMAIN nodes
      /\ \A n \in DOMAIN nodes :
           /\ counted[n].data = nodes[n].data /\ counted[n].parent = nodes[n].parent
           /\ counted[n].childNodes = nodes[n].childNodes
           /\ counted[n].count = IF n \in {root} THEN nodes[n].count + 1 ELSE nodes[n].count
  BY <1>1, incrementCountFacts
<1>4. new = incrementCount(counted, P)
  BY DEF P
<1>5. Grown(counted, new)
  <2>1. Forest(counted)
    BY <1>2 DEF Grown
  <2> QED
    BY <1>4, <2>1, incrementCountGrown
<1> DEFINE F(c, z) ==
             /\ z \in Seq(Nodes) /\ Len(z) = Len(c) /\ DOMAIN z = DOMAIN c
             /\ \A n \in DOMAIN c :
                  /\ z[n].data = c[n].data /\ z[n].parent = c[n].parent
                  /\ z[n].childNodes = c[n].childNodes
                  /\ z[n].count = IF n \in P THEN c[n].count + 1 ELSE c[n].count
<1>6. F(counted, new)
  <2>1. ASSUME NEW c \in Seq(Nodes), NEW z, z = incrementCount(c, P) PROVE F(c, z)
    BY <2>1, incrementCountFacts
  <2> HIDE DEF F
  <2>2. counted \in Seq(Nodes)
    BY <1>3
  <2> QED
    BY <1>4, <2>1, <2>2
<1>7. Grown(nodes, new)
  BY <1>2, <1>5, GrownTwice
<1>8. \A n \in DOMAIN nodes :
        new[n].count = IF n \in {root} \cup P THEN nodes[n].count + 1 ELSE nodes[n].count
  <2> SUFFICES ASSUME NEW n \in DOMAIN nodes
               PROVE  new[n].count = IF n \in {root} \cup P THEN nodes[n].count + 1
                                     ELSE nodes[n].count
    OBVIOUS
  <2>1. CASE n \in P
    BY <1>0, <1>3, <1>6, <2>1
  <2>2. CASE n \notin P
    BY <1>3, <1>6, <2>2
  <2> QED
    BY <2>1, <2>2
<1> DEFINE Once(z) == \A n \in DOMAIN nodes :
             z[n].count = IF n \in {root} \cup P THEN nodes[n].count + 1 ELSE nodes[n].count
<1>9. Once(new) /\ (P = {} => Once(counted))
  <2>1. P = {} => \A n : n \in {root} \cup P <=> n \in {root}
    OBVIOUS
  <2> QED
    BY <1>3, <1>8, <2>1
<1> HIDE DEF Once
<1>10. ASSUME NEW z, Grown(nodes, z), Once(z),
              \A n \in DOMAIN nodes : z[n].data = nodes[n].data /\ z[n].parent = nodes[n].parent
       PROVE  CountedOnce(nodes, root, X, z, {})
  <2>1. \A n \in DOMAIN nodes :
          z[n].count = IF n \in {root} \cup Passed(nodes, root, X) THEN nodes[n].count + 1
                       ELSE nodes[n].count
    BY <1>10, Zenon DEF Once, P
  <2>2. {} \subseteq DOMAIN z
    OBVIOUS
  <2>3. \A n \in DOMAIN nodes \ {} :
          z[n].parent = nodes[n].parent /\ z[n].data[1] = nodes[n].data[1]
    BY <1>10
  <2> QED
    BY <1>10, <2>1, <2>2, <2>3, Zenon DEF CountedOnce
<1>11. \A n \in DOMAIN nodes :
         /\ new[n].data = nodes[n].data /\ new[n].parent = nodes[n].parent
         /\ new[n].childNodes = nodes[n].childNodes
  <2>1. ASSUME NEW n \in DOMAIN nodes
        PROVE  /\ counted[n].data = nodes[n].data /\ counted[n].parent = nodes[n].parent
               /\ counted[n].childNodes = nodes[n].childNodes /\ n \in DOMAIN counted
    BY <1>3
  <2>2. ASSUME NEW n \in DOMAIN counted
        PROVE  /\ new[n].data = counted[n].data /\ new[n].parent = counted[n].parent
               /\ new[n].childNodes = counted[n].childNodes
    BY <1>6
  <2> QED
    BY <2>1, <2>2
<1>12. CountedOnce(nodes, root, X, new, {}) /\ (P = {} => CountedOnce(nodes, root, X, counted, {}))
  <2>1. CountedOnce(nodes, root, X, new, {})
    BY <1>7, <1>9, <1>10, <1>11, Zenon
  <2>2. \A n \in DOMAIN nodes :
          counted[n].data = nodes[n].data /\ counted[n].parent = nodes[n].parent
    BY <1>3
  <2>3. P = {} => CountedOnce(nodes, root, X, counted, {})
    BY <1>2, <1>9, <1>10, <2>2, Zenon
  <2> QED
    BY <2>1, <2>3
<1> QED
  BY <1>3, <1>6, <1>11, <1>12 DEF P

\* All that Tree.merge does to the counts.
CountsMerged(nodes, root, stream, m) ==
  /\ CountedOnce(nodes, root, Both(Path(nodes)[root], stream), m.nodes, m.split)
  /\ NewAreOnce(nodes, root, Both(Path(nodes)[root], stream), m.nodes, m.split)

\* Tree.merge counts the root and the nodes that the stream passes, and a new node once,
\* whichever of its branches is taken; only the two parts of a division are not as before.
LEMMA mergeCounts ==
  ASSUME NEW nodes, Forest(nodes), NEW root \in DOMAIN nodes, nodes[root].parent = 0,
         NEW stream \in Texts, NEW m, m = merge(nodes, root, stream)
  PROVE  CountsMerged(nodes, root, stream, m)
<1> DEFINE counted == incrementCount(nodes, {root})
           w       == Walk(nodes, nodes[root].childNodes[stream[1]], stream)
           passed  == incrementCount(counted, w.passed)
           divided == divide(passed, w.last, w.shared)
           X       == Both(Path(nodes)[root], stream)
<1>0. X \in Seq(Bytes) /\ Top(nodes)[root] = root /\ Path(nodes)[root] \in Seq(Bytes)
  <2>1. Path(nodes)[root] \in Seq(Bytes) /\ stream \in Seq(Bytes)
    BY ForestFacts, TextFacts DEF IsPath
  <2>2. Top(nodes)[root] = root
    BY ForestFacts DEF IsTop
  <2> QED
    BY <2>1, <2>2, BothFacts
<1>1. CASE stream[1] \notin DOMAIN nodes[root].childNodes
  <2>1. m.nodes = AddNew(counted, root, stream, 1) /\ m.split = {}
    BY <1>1 DEF merge
  <2>2. Passed(nodes, root, X) = {}
    BY <1>1, NothingPassed
  <2>3. CountedOnce(nodes, root, X, counted, {})
    <3> DEFINE new == incrementCount(counted, Passed(nodes, root, X))
    <3>1. new = incrementCount(counted, Passed(nodes, root, X)) /\ counted = incrementCount(nodes, {root})
      OBVIOUS
    <3> HIDE DEF new, counted, X
    <3> QED
      BY <2>2, <3>1, PassedCounted
  <2>4. /\ DOMAIN counted = DOMAIN nodes /\ counted[root].childNodes = nodes[root].childNodes
        /\ Path(counted)[root] = Path(nodes)[root]
    <3>1. /\ Grown(nodes, counted) /\ DOMAIN counted = DOMAIN nodes
          /\ \A n \in DOMAIN nodes : counted[n].childNodes = nodes[n].childNodes
      BY incrementCountGrown
    <3> QED
      BY <3>1 DEF Grown
  <2>5. Len(Path(nodes)[root]) <= Len(Path(counted)[root])
    <3>1. Len(Path(nodes)[root]) \in Nat
      BY PathLength
    <3> QED
      BY <2>4, <3>1
  <2>6. Both(Path(counted)[root], stream) = X
    BY <2>4
  <2>7. DOMAIN counted \subseteq DOMAIN nodes \cup {} /\ root \in DOMAIN counted
        /\ stream[1] \notin DOMAIN counted[root].childNodes
    BY <1>1, <2>4
  <2>8. \A n \in Passed(nodes, root, X) :
          ~IsPrefix(Both(Path(counted)[root], <<stream[1]>>), Path(nodes)[n])
    BY <2>2
  <2> DEFINE new == AddNew(counted, root, stream, 1)
  <2>9. new = AddNew(counted, root, stream, 1)
    OBVIOUS
  <2> HIDE DEF X, counted, new
  <2>10. CountedOnce(nodes, root, X, new, {}) /\ NewAreOnce(nodes, root, X, new, {})
    BY <1>0, <2>3, <2>5, <2>6, <2>7, <2>8, <2>9, NewLeafCounted
  <2> QED
    BY <2>1, <2>9, <2>10 DEF CountsMerged, X
<1>2. CASE stream[1] \in DOMAIN nodes[root].childNodes
  <2>1. Arrived(nodes, root, stream, w) /\ ~GoesOn(nodes, w)
    BY <1>2, WalkFacts
  <2>2. w.passed = Passed(nodes, root, X) /\ Along(nodes, root, X, w)
    BY <1>0, <1>2, WalkPasses
  <2> DEFINE n == w.last
             d == nodes[n].data
             q == nodes[n].parent
  <2>m. /\ w.rest = <<>> => m.nodes = passed /\ m.split = {}
        /\ w.rest # <<>> /\ w.shared < Len(d) =>
             m.nodes = AddNew(divided, Len(divided), w.rest, 1) /\ m.split = {n, Len(divided)}
        /\ w.rest # <<>> /\ ~(w.shared < Len(d)) =>
             m.nodes = AddNew(passed, n, w.rest, 1) /\ m.split = {}
    <3>1. m = IF w.rest = <<>> THEN [nodes |-> passed, leaf |-> n, split |-> {}]
              ELSE IF w.shared < Len(d)
              THEN [nodes |-> AddNew(divided, Len(divided), w.rest, 1), leaf |-> Len(divided) + 1,
                    split |-> {n, Len(divided)}]
              ELSE [nodes |-> AddNew(passed, n, w.rest, 1), leaf |-> Len(nodes) + 1,
                    split |-> {}]
      BY <1>2, Zenon DEF merge
    <3> HIDE DEF passed, divided, w, n, d
    <3> QED
      BY <3>1
  <2>3. /\ CountedOnce(nodes, root, X, passed, {}) /\ Len(passed) = Len(nodes)
        /\ DOMAIN passed = DOMAIN nodes
        /\ \A i \in DOMAIN nodes :
             /\ passed[i].data = nodes[i].data /\ passed[i].parent = nodes[i].parent
             /\ passed[i].childNodes = nodes[i].childNodes
    <3>1. counted = incrementCount(nodes, {root}) /\ passed = incrementCount(counted, Passed(nodes, root, X))
      BY <2>2
    <3> HIDE DEF counted, passed, X
    <3> QED
      BY <3>1, PassedCounted
  <2> HIDE DEF counted, w, passed
  <2>4. /\ n \in DOMAIN nodes /\ q # 0 /\ Top(nodes)[n] = root
        /\ w.shared \in 1 .. Len(d) /\ w.rest \in Seq(Bytes)
        /\ Both(Both(Path(nodes)[q], SubSeq(d, 1, w.shared)), w.rest) = X
        /\ w.shared < Len(d) /\ w.rest # <<>> => w.rest[1] # d[w.shared + 1]
    BY <1>0, <2>1 DEF Arrived
  <2>5. /\ n \in Under(nodes, root)
        /\ \A i \in Passed(nodes, root, X) : i # n => Len(Path(nodes)[i]) <= Len(Path(nodes)[q])
    BY <2>2, <2>4 DEF Along, Under
  <2>6. /\ q \in DOMAIN nodes /\ Path(nodes)[q] \in Seq(Bytes) /\ Path(nodes)[n] \in Seq(Bytes)
        /\ Len(Path(nodes)[q]) < Len(Path(nodes)[n]) /\ (q = root \/ q \in Under(nodes, root))
    BY <2>5, KeyFacts
  <2>7. d \in Texts /\ d \in Seq(Bytes) /\ Len(d) \in Nat
    <3>1. Linked(nodes)
      BY ForestFacts
    <3>2. d \in Texts
      BY <2>4, <3>1, LinkedFacts
    <3> HIDE DEF d
    <3> QED
      BY <3>2, TextFacts
  <2>8. Len(Path(nodes)[root]) <= Len(Path(nodes)[q])
    <3>1. Len(Path(nodes)[root]) \in Nat /\ Len(Path(nodes)[q]) \in Nat
      BY <2>6, PathLength
    <3> QED
      BY <2>6, <3>1, RootIsShorter DEF RootIsFront
  <2>9. Path(passed)[n] = Path(nodes)[n] /\ Path(passed)[q] = Path(nodes)[q]
        /\ Grown(nodes, passed) /\ Forest(passed)
    BY <2>3, <2>4, <2>6 DEF CountedOnce, Grown
  <2>10. Path(nodes)[n] = Both(Path(nodes)[q], d)
    BY <2>4, ForestFacts DEF IsPath
  <2> HIDE DEF d, q, X, divided
  <2>11. CASE w.rest = <<>>
    <3>1. m.nodes = passed /\ m.split = {}
      BY <2>m, <2>11
    <3>2. NewAreOnce(nodes, root, X, passed, {})
      BY <2>3 DEF NewAreOnce
    <3> QED
      BY <2>3, <3>1, <3>2 DEF CountsMerged, X
  <2>12. CASE w.rest # <<>> /\ ~(w.shared < Len(d))
    <3>1. m.nodes = AddNew(passed, n, w.rest, 1) /\ m.split = {}
      BY <2>m, <2>12
    <3>2. w.shared = Len(d)
      BY <2>4, <2>7, <2>12
    <3>3. w.rest[1] \notin DOMAIN passed[n].childNodes
      BY <2>1, <2>3, <2>4, <2>12, <3>2 DEF GoesOn, d
    <3>4. Both(Path(passed)[n], w.rest) = X
      BY <2>1, <2>9, <3>2, GoesOnFacts DEF d, X
    <3>5. w.rest \in Texts
      BY <2>4, <2>12 DEF Texts
    <3> DEFINE Y == Both(Path(passed)[n], <<w.rest[1]>>)
    <3>6. Y \in Seq(Bytes) /\ Len(Y) = Len(Path(nodes)[n]) + 1
      <4>1. w.rest[1] \in Bytes
        BY <3>5, TextFacts
      <4> QED
        BY <2>6, <2>9, <4>1, OneByteMore
    <3> HIDE DEF Y
    <3>7. ASSUME NEW i \in Passed(nodes, root, X), IsPrefix(Y, Path(nodes)[i]) PROVE FALSE
      <4>1. i \in DOMAIN nodes /\ Path(nodes)[i] \in Seq(Bytes)
        BY ForestFacts DEF Passed, Under, IsPath
      <4>2. Len(Y) <= Len(Path(nodes)[i])
        BY <3>6, <3>7, <4>1, PrefixLength
      <4>3. Len(Path(nodes)[i]) \in Nat /\ Len(Path(nodes)[n]) \in Nat /\ Len(Path(nodes)[q]) \in Nat
        BY <2>4, <2>6, <4>1, PathLength
      <4> QED
        BY <2>5, <2>6, <3>6, <4>2, <4>3
    <3>8. Len(Path(nodes)[root]) <= Len(Path(passed)[n])
      <4>1. /\ Len(Path(nodes)[root]) \in Nat /\ Len(Path(nodes)[q]) \in Nat
            /\ Len(Path(nodes)[n]) \in Nat
        BY <2>4, <2>6, PathLength
      <4> QED
        BY <2>6, <2>8, <2>9, <4>1
    <3>9. n \in DOMAIN passed /\ DOMAIN passed \subseteq DOMAIN nodes \cup {}
      BY <2>3, <2>4
    <3> DEFINE new == AddNew(passed, n, w.rest, 1)
    <3>10. new = AddNew(passed, n, w.rest, 1)
      OBVIOUS
    <3> HIDE DEF new, n
    <3>11. \A i \in Passed(nodes, root, X) :
             ~IsPrefix(Both(Path(passed)[n], <<w.rest[1]>>), Path(nodes)[i])
      BY <3>7 DEF Y
    <3>12. CountedOnce(nodes, root, X, new, {}) /\ NewAreOnce(nodes, root, X, new, {})
      BY <1>0, <2>3, <3>3, <3>4, <3>5, <3>8, <3>9, <3>10, <3>11, NewLeafCounted
    <3> QED
      BY <3>1, <3>10, <3>12 DEF CountsMerged, X
  <2>13. CASE w.rest # <<>> /\ w.shared < Len(d)
    <3> DEFINE k == Len(passed) + 1
               high == SubSeq(d, 1, w.shared)
    <3>1. m.nodes = AddNew(divided, Len(divided), w.rest, 1) /\ m.split = {n, Len(divided)}
      BY <2>m, <2>13
    <3>2. w.shared \in 1 .. Len(passed[n].data) - 1 /\ passed[n].parent # 0 /\ n \in DOMAIN passed
          /\ passed[n].data = d /\ passed[n].parent = q
      BY <2>3, <2>4, <2>7, <2>13 DEF d, q
    <3>3. Grown(passed, divided) /\ Divided(passed, n, w.shared, divided, k)
      BY <2>9, <3>2, divideGrown DEF divided
    <3>4. Path(divided)[k] = Both(Path(passed)[q], high)
      BY <2>9, <3>2, divideGrown DEF divided
    <3>5. /\ DOMAIN divided = DOMAIN passed \cup {k} /\ Len(divided) = k
          /\ divided[k].childNodes = put(<<>>, d[w.shared + 1], n)
          /\ \A i \in DOMAIN passed :
               /\ divided[i].count = passed[i].count
               /\ i # n => divided[i].data = passed[i].data /\ divided[i].parent = passed[i].parent
      BY <3>2, <3>3 DEF Divided
    <3> HIDE DEF k
    <3>6. CountedOnce(nodes, root, X, divided, {n, k})
      <4>1. Grown(nodes, divided)
        BY <2>9, <3>3, GrownTwice
      <4>2. {n, k} \subseteq DOMAIN divided
        BY <3>2, <3>5
      <4>3. \A i \in DOMAIN nodes : divided[i].count = passed[i].count
        BY <2>3, <3>5
      <4>4. \A i \in DOMAIN nodes \ {n, k} :
              divided[i].parent = passed[i].parent /\ divided[i].data = passed[i].data
        BY <2>3, <3>5
      <4> QED
        BY <2>3, <4>1, <4>2, <4>3, <4>4 DEF CountedOnce
    <3>7. w.rest[1] \notin DOMAIN divided[k].childNodes /\ w.rest[1] # d[w.shared + 1]
      <4> DEFINE b == d[w.shared + 1]
      <4>1. divided[k].childNodes = put(<<>>, b, n) /\ w.rest[1] # b
        BY <2>4, <2>13, <3>5
      <4> HIDE DEF b
      <4>2. DOMAIN put(<<>>, b, n) = {b}
        BY DEF put
      <4> QED
        BY <4>1, <4>2 DEF b
    <3>8. w.rest \in Texts
      BY <2>4, <2>13 DEF Texts
    <3>9. high \in Seq(Bytes) /\ Len(high) = w.shared /\ w.shared \in Nat /\ w.shared \in 1 .. Len(d)
      <4>1. w.shared \in 0 .. Len(d) /\ w.shared \in Nat
        BY <2>4, <2>7
      <4> QED
        BY <2>4, <2>7, <4>1, FrontFacts
    <3> DEFINE p == Both(Path(nodes)[q], high)
    <3>10. Path(divided)[k] = p /\ Both(p, w.rest) = X
      BY <2>4, <2>9, <3>4
    <3> HIDE DEF high
    <3>11. p \in Seq(Bytes) /\ Len(p) = Len(Path(nodes)[q]) + w.shared
      <4> DEFINE y == Path(nodes)[q]
      <4>1. y \in Seq(Bytes)
        BY <2>6
      <4> HIDE DEF y
      <4>2. Both(y, high) \in Seq(Bytes) /\ Len(Both(y, high)) = Len(y) + Len(high)
        BY <3>9, <4>1, BothFacts
      <4> QED
        BY <3>9, <4>2 DEF y
    <3> DEFINE Y == Both(p, <<w.rest[1]>>)
    <3>12. Y \in Seq(Bytes) /\ Len(Y) = Len(p) + 1 /\ Y[Len(p) + 1] = w.rest[1]
      <4>1. w.rest[1] \in Bytes
        BY <3>8, TextFacts
      <4> HIDE DEF p
      <4> QED
        BY <3>11, <4>1, OneByteMore
    <3> HIDE DEF Y, p
    <3>13. ASSUME NEW i \in Passed(nodes, root, X), IsPrefix(Y, Path(nodes)[i]) PROVE FALSE
      <4>1. i \in DOMAIN nodes /\ Path(nodes)[i] \in Seq(Bytes)
        BY ForestFacts DEF Passed, Under, IsPath
      <4>2. Len(Path(nodes)[i]) \in Nat /\ Len(Path(nodes)[q]) \in Nat
        BY <2>6, <4>1, PathLength
      <4>3. CASE i # n
        <5>1. Len(Y) <= Len(Path(nodes)[i])
          BY <3>12, <3>13, <4>1, PrefixLength
        <5> QED
          BY <2>5, <3>9, <3>11, <3>12, <4>2, <4>3, <5>1
      <4>4. CASE i = n
        <5> DEFINE z == Path(nodes)[n]
                   L == Len(Path(nodes)[q])
        <5>1. z \in Seq(Bytes) /\ L \in Nat /\ IsPrefix(Y, z) /\ Len(p) = L + w.shared
          BY <2>6, <3>11, <3>13, <4>2, <4>4
        <5>2. Joined(Path(nodes)[q], d, z)
          BY <2>6, <2>7, <2>10, SecondPart
        <5>3. \A j \in 1 .. Len(d) : z[L + j] = d[j]
          BY <5>2 DEF Joined
        <5> HIDE DEF z, L
        <5>4. \A j \in 1 .. Len(Y) : Y[j] = z[j]
          BY <3>12, <5>1, PrefixFacts
        <5>5. w.shared + 1 \in 1 .. Len(d) /\ Len(p) + 1 \in 1 .. Len(Y)
              /\ Len(p) + 1 = L + (w.shared + 1)
          <6>1. w.shared \in Nat /\ w.shared + 1 \in 1 .. Len(d)
            BY <2>7, <2>13, <3>9
          <6>2. Len(p) \in Nat /\ Len(p) + 1 \in 1 .. Len(Y)
            BY <3>12, <5>1, <6>1
          <6> QED
            BY <5>1, <6>1, <6>2
        <5>6. Y[Len(p) + 1] = d[w.shared + 1]
          BY <5>3, <5>4, <5>5
        <5> QED
          BY <3>7, <3>12, <5>6
      <4> QED
        BY <4>3, <4>4
    <3>14. Len(Path(nodes)[root]) <= Len(Path(divided)[k])
      <4>1. Len(Path(nodes)[root]) \in Nat /\ Len(Path(nodes)[q]) \in Nat
        BY <2>6, PathLength
      <4> QED
        BY <2>8, <3>9, <3>10, <3>11, <4>1
    <3> DEFINE new == AddNew(divided, k, w.rest, 1)
               S == {n, k}
    <3>15. new = AddNew(divided, k, w.rest, 1) /\ k \in DOMAIN divided
           /\ DOMAIN divided \subseteq DOMAIN nodes \cup S
      BY <2>3, <3>5
    <3>16. CountedOnce(nodes, root, X, divided, S)
      BY <3>6
    <3> HIDE DEF new, S
    <3>17. \A i \in Passed(nodes, root, X) :
             ~IsPrefix(Both(Path(divided)[k], <<w.rest[1]>>), Path(nodes)[i])
      BY <3>10, <3>13 DEF Y
    <3>18. Both(Path(divided)[k], w.rest) = X
      BY <3>10
    <3>19. CountedOnce(nodes, root, X, new, S) /\ NewAreOnce(nodes, root, X, new, S)
      BY <1>0, <3>7, <3>8, <3>14, <3>15, <3>16, <3>17, <3>18, NewLeafCounted
    <3>20. m.nodes = new /\ m.split = S
      BY <3>1, <3>5 DEF new, S
    <3> QED
      BY <3>19, <3>20 DEF CountsMerged, X
  <2> QED
    BY <2>11, <2>12, <2>13
<1> QED
  BY <1>1, <1>2

\* The texts below a root that pass a node.
Passing(nodes, n, h, ss) == {i \in DOMAIN ss : IsPrefix(Key(nodes, n), Both(h, ss[i]))}

\* Every text has a leaf below the root.
Represented(nodes, root, h, ss) ==
  \A i \in DOMAIN ss : \E n \in Under(nodes, root) : IsPrefix(Both(h, ss[i]), Path(nodes)[n])

\* The counts of a tree are those of its texts, but for the nodes in S.
Counted(nodes, root, h, ss, S) ==
  /\ ss \in Seq(Texts) /\ nodes[root].count = Len(ss) /\ Represented(nodes, root, h, ss)
  /\ \A n \in Under(nodes, root) \ S : nodes[n].count = Cardinality(Passing(nodes, n, h, ss))

\* A grown tree keeps its nodes.
LEMMA UnderGrown ==
  ASSUME NEW nodes, NEW new, Grown(nodes, new), NEW root
  PROVE  /\ Under(nodes, root) \subseteq Under(new, root)
         /\ \A n \in Under(new, root) : n \in DOMAIN nodes => n \in Under(nodes, root)
         /\ \A h, ss : Represented(nodes, root, h, ss) => Represented(new, root, h, ss)
<1>1. Under(nodes, root) \subseteq Under(new, root)
  BY DEF Under, Grown
<1>2. \A n \in Under(new, root) : n \in DOMAIN nodes => n \in Under(nodes, root)
  BY DEF Under, Grown
<1>3. \A n \in Under(nodes, root) : Path(new)[n] = Path(nodes)[n]
  BY DEF Under, Grown
<1>4. ASSUME NEW h, NEW ss, Represented(nodes, root, h, ss) PROVE Represented(new, root, h, ss)
  BY <1>1, <1>3, <1>4 DEF Represented
<1> QED
  BY <1>1, <1>2, <1>4

\* A node that keeps its parent and its first byte keeps its key.
LEMMA KeyGrown ==
  ASSUME NEW nodes, Forest(nodes), NEW new, Grown(nodes, new), NEW root,
         NEW n \in Under(nodes, root),
         new[n].parent = nodes[n].parent, new[n].data[1] = nodes[n].data[1]
  PROVE  Key(new, n) = Key(nodes, n)
<1> DEFINE q == nodes[n].parent
<1>1. q \in DOMAIN nodes
  BY KeyFacts
<1>2. Path(new)[q] = Path(nodes)[q]
  BY <1>1 DEF Grown
<1> QED
  BY <1>2 DEF Key

\* A tree of which no node has changed keeps its counts.
LEMMA CountedKept ==
  ASSUME NEW nodes, Forest(nodes), NEW new, Grown(nodes, new), NEW root,
         NEW h, NEW ss, NEW S0, Counted(nodes, root, h, ss, S0), NEW S, S0 \subseteq S,
         new[root].count = nodes[root].count,
         \A n \in Under(nodes, root) \ S :
           /\ new[n].count = nodes[n].count
           /\ new[n].parent = nodes[n].parent /\ new[n].data[1] = nodes[n].data[1],
         \A n \in DOMAIN new \ DOMAIN nodes : Top(new)[n] # root
  PROVE  Counted(new, root, h, ss, S)
<1>1. ss \in Seq(Texts) /\ new[root].count = Len(ss) /\ Represented(new, root, h, ss)
  BY UnderGrown DEF Counted
<1>2. ASSUME NEW n \in Under(new, root) \ S
      PROVE  new[n].count = Cardinality(Passing(new, n, h, ss))
  <2>1. n \in DOMAIN nodes
    BY <1>2 DEF Under
  <2>2. n \in Under(nodes, root) \ S /\ n \in Under(nodes, root) \ S0
    BY <1>2, <2>1, UnderGrown
  <2>3. Key(new, n) = Key(nodes, n)
    BY <2>2, KeyGrown
  <2>4. Passing(new, n, h, ss) = Passing(nodes, n, h, ss)
    BY <2>3 DEF Passing
  <2> QED
    BY <2>2, <2>4 DEF Counted
<1> QED
  BY <1>1, <1>2 DEF Counted

\* One more text.
TextAdded(ss, s, tt) ==
  /\ tt \in Seq(Texts) /\ Len(tt) = Len(ss) + 1 /\ Len(ss) + 1 \notin DOMAIN ss
  /\ DOMAIN tt = DOMAIN ss \cup {Len(ss) + 1}
  /\ tt[Len(ss) + 1] = s /\ \A i \in DOMAIN ss : tt[i] = ss[i]
  /\ \A T \in SUBSET DOMAIN ss :
       /\ IsFiniteSet(T) /\ Cardinality(T) \in Nat
       /\ Cardinality(T \cup {Len(ss) + 1}) = Cardinality(T) + 1

\* What is said of a text more holds of an appended one.
LEMMA OneMoreText ==
  ASSUME NEW ss \in Seq(Texts), NEW s \in Texts, NEW tt, tt = Append(ss, s)
  PROVE  TextAdded(ss, s, tt)
<1>1. Len(ss) \in Nat /\ DOMAIN ss = 1 .. Len(ss) /\ Len(ss) + 1 \notin DOMAIN ss
  BY SeqFacts
<1>2. /\ tt \in Seq(Texts) /\ Len(tt) = Len(ss) + 1 /\ tt[Len(ss) + 1] = s
      /\ DOMAIN tt = DOMAIN ss \cup {Len(ss) + 1} /\ \A i \in DOMAIN ss : tt[i] = ss[i]
  BY AppendFacts
<1>3. ASSUME NEW T \in SUBSET DOMAIN ss
      PROVE  /\ IsFiniteSet(T) /\ Cardinality(T) \in Nat
             /\ Cardinality(T \cup {Len(ss) + 1}) = Cardinality(T) + 1
  <2>1. IsFiniteSet(T)
    <3>1. IsFiniteSet(DOMAIN ss)
      BY <1>1, FS_Interval
    <3> QED
      BY <3>1, FS_Subset
  <2>2. Len(ss) + 1 \notin T
    BY <1>1
  <2> QED
    BY <2>1, <2>2, FS_AddElement, FS_CardinalityType
<1> QED
  BY <1>1, <1>2, <1>3 DEF TextAdded

\* A new node is passed by the new text only.
LEMMA NewIsPassedOnce ==
  ASSUME NEW nodes, Forest(nodes), NEW new, Grown(nodes, new), NEW root \in DOMAIN nodes,
         NEW h \in Seq(Bytes), NEW ss \in Seq(Texts), Represented(nodes, root, h, ss),
         NEW s \in Texts, NEW tt, TextAdded(ss, s, tt),
         NEW n \in Under(new, root), IsPrefix(Key(new, n), Both(h, s)),
         \A x \in Under(nodes, root) : ~IsPrefix(Key(new, n), Path(nodes)[x])
  PROVE  Cardinality(Passing(new, n, h, tt)) = 1
<1> DEFINE key == Key(new, n)
<1>1. key \in Seq(Bytes)
  BY KeyFacts DEF Grown
<1> HIDE DEF key
<1>2. ASSUME NEW i \in DOMAIN ss PROVE ~IsPrefix(key, Both(h, ss[i]))
  <2>1. PICK x \in Under(nodes, root) : IsPrefix(Both(h, ss[i]), Path(nodes)[x])
    BY DEF Represented
  <2>2. ss[i] \in Seq(Bytes)
    BY DEF Texts
  <2>3. Both(h, ss[i]) \in Seq(Bytes)
    BY <2>2, BothFacts
  <2>4. Path(nodes)[x] \in Seq(Bytes)
    BY KeyFacts
  <2>5. ~IsPrefix(key, Path(nodes)[x])
    BY DEF key
  <2> QED
    BY <1>1, <2>1, <2>3, <2>4, <2>5, PrefixTrans
<1>3. Passing(new, n, h, tt) = {} \cup {Len(ss) + 1}
  BY <1>2 DEF Passing, TextAdded, key
<1>4. Cardinality({} \cup {Len(ss) + 1}) = Cardinality({}) + 1
  BY DEF TextAdded
<1>5. Cardinality({}) = 0
  BY FS_EmptySet
<1> QED
  BY <1>3, <1>4, <1>5

\* An old node is passed by the new text too, if it is on the way.
LEMMA OldIsPassedMore ==
  ASSUME NEW nodes, NEW new, NEW h, NEW ss, NEW s, NEW tt, TextAdded(ss, s, tt),
         NEW n, Key(new, n) = Key(nodes, n),
         nodes[n].count = Cardinality(Passing(nodes, n, h, ss)),
         new[n].count = IF IsPrefix(Key(nodes, n), Both(h, s)) THEN nodes[n].count + 1
                        ELSE nodes[n].count
  PROVE  new[n].count = Cardinality(Passing(new, n, h, tt))
<1>1. Passing(nodes, n, h, ss) \in SUBSET DOMAIN ss
  BY DEF Passing
<1>2. CASE IsPrefix(Key(nodes, n), Both(h, s))
  <2>1. Passing(new, n, h, tt) = Passing(nodes, n, h, ss) \cup {Len(ss) + 1}
    BY <1>2 DEF Passing, TextAdded
  <2> QED
    BY <1>1, <1>2, <2>1 DEF TextAdded
<1>3. CASE ~IsPrefix(Key(nodes, n), Both(h, s))
  <2>1. Passing(new, n, h, tt) = Passing(nodes, n, h, ss)
    BY <1>3 DEF Passing, TextAdded
  <2> QED
    BY <1>3, <2>1
<1> QED
  BY <1>2, <1>3

\* The tree into which a stream is merged counts it.
LEMMA CountedMore ==
  ASSUME NEW nodes, Forest(nodes), NEW root, NEW h \in Seq(Bytes), IsRoot(nodes, root, h),
         NEW ss, NEW S0, Counted(nodes, root, h, ss, S0), NEW s \in Texts,
         NEW m, Merged(nodes, root, s, m.nodes, m.leaf), CountsMerged(nodes, root, s, m),
         NEW tt, tt = Append(ss, s)
  PROVE  Counted(m.nodes, root, h, tt, S0 \cup m.split)
<1> DEFINE new == m.nodes
           S   == m.split
           X   == Both(h, s)
<1>1. /\ root \in DOMAIN nodes /\ nodes[root].parent = 0 /\ Path(nodes)[root] = h
      /\ Top(nodes)[root] = root
  BY ForestFacts DEF IsRoot, IsTop
<1>2. CountedOnce(nodes, root, X, new, S) /\ NewAreOnce(nodes, root, X, new, S)
  BY <1>1 DEF CountsMerged
<1>3. Grown(nodes, new) /\ s \in Seq(Bytes)
  BY TextFacts DEF Merged
<1>4. ss \in Seq(Texts) /\ nodes[root].count = Len(ss) /\ Represented(nodes, root, h, ss)
  BY DEF Counted
<1>5. TextAdded(ss, s, tt)
  BY <1>4, OneMoreText
<1>6. X \in Seq(Bytes)
  BY <1>3, BothFacts
<1>7a. /\ m.leaf \in Under(new, root)
       /\ \/ Path(new)[m.leaf] = X
          \/ m.leaf \in DOMAIN nodes /\ IsPrefix(X, Path(nodes)[m.leaf])
  BY <1>1 DEF Merged, Under
<1> HIDE DEF new, S, X
<1>7. m.leaf \in Under(new, root) /\ IsPrefix(X, Path(new)[m.leaf])
  <2>1. IsPrefix(X, X)
    BY <1>6, PrefixOfItself
  <2>2. m.leaf \in DOMAIN nodes => Path(new)[m.leaf] = Path(nodes)[m.leaf]
    BY <1>3 DEF Grown
  <2> QED
    BY <1>7a, <2>1, <2>2
<1>8. Represented(new, root, h, tt)
  <2>1. Represented(new, root, h, ss)
    BY <1>3, <1>4, UnderGrown
  <2>2. ASSUME NEW i \in DOMAIN tt
        PROVE  \E n \in Under(new, root) : IsPrefix(Both(h, tt[i]), Path(new)[n])
    <3>1. CASE i \in DOMAIN ss
      BY <1>5, <2>1, <3>1 DEF TextAdded, Represented
    <3>2. CASE i = Len(ss) + 1
      BY <1>5, <1>7, <3>2 DEF TextAdded, X
    <3> QED
      BY <1>5, <2>2, <3>1, <3>2 DEF TextAdded
  <2> QED
    BY <2>2 DEF Represented
<1>9. new[root].count = Len(tt)
  BY <1>1, <1>2, <1>4, <1>5 DEF CountedOnce, TextAdded
<1>10. ASSUME NEW n \in Under(new, root) \ (S0 \cup S)
       PROVE  new[n].count = Cardinality(Passing(new, n, h, tt))
  <2>1. CASE n \in DOMAIN nodes
    <3>1. n \in Under(nodes, root) /\ n \notin S0 /\ n \in DOMAIN nodes \ S /\ n # root
      <4>1. n \in Under(nodes, root)
        BY <1>3, <1>10, <2>1, UnderGrown
      <4> QED
        BY <1>1, <1>10, <4>1 DEF Under
    <3>2. Key(new, n) = Key(nodes, n)
      BY <1>2, <1>3, <3>1, KeyGrown DEF CountedOnce
    <3>3. nodes[n].count = Cardinality(Passing(nodes, n, h, ss))
      BY <3>1 DEF Counted
    <3>4. new[n].count = IF IsPrefix(Key(nodes, n), X) THEN nodes[n].count + 1
                         ELSE nodes[n].count
      <4>1. n \in {root} \cup Passed(nodes, root, X) <=> IsPrefix(Key(nodes, n), X)
        BY <3>1 DEF Passed
      <4>2. new[n].count = IF n \in {root} \cup Passed(nodes, root, X) THEN nodes[n].count + 1
                           ELSE nodes[n].count
        BY <1>2, <3>1, Zenon DEF CountedOnce
      <4> QED
        BY <4>1, <4>2
    <3> QED
      BY <1>5, <3>2, <3>3, <3>4, OldIsPassedMore DEF X
  <2>2. CASE n \notin DOMAIN nodes
    <3>1. n \in DOMAIN new \ (DOMAIN nodes \cup S)
      BY <1>10, <2>2 DEF Under
    <3>2. /\ new[n].count = 1 /\ IsPrefix(Key(new, n), X)
          /\ \A x \in Under(nodes, root) : ~IsPrefix(Key(new, n), Path(nodes)[x])
      BY <1>2, <3>1 DEF NewAreOnce
    <3>3. Cardinality(Passing(new, n, h, tt)) = 1
      BY <1>1, <1>3, <1>4, <1>5, <1>10, <3>2, NewIsPassedOnce DEF X
    <3> QED
      BY <3>2, <3>3
  <2> QED
    BY <2>1, <2>2
<1>11. tt \in Seq(Texts)
  BY <1>5 DEF TextAdded
<1> QED
  BY <1>8, <1>9, <1>10, <1>11 DEF Counted, new, S

\* Another tree keeps its counts.
LEMMA CountedElsewhere ==
  ASSUME NEW nodes, Forest(nodes), NEW root \in DOMAIN nodes, nodes[root].parent = 0,
         NEW s, NEW m, Merged(nodes, root, s, m.nodes, m.leaf), CountsMerged(nodes, root, s, m),
         NEW other \in DOMAIN nodes, nodes[other].parent = 0, other # root,
         NEW h, NEW ss, NEW S0, Counted(nodes, other, h, ss, S0)
  PROVE  Counted(m.nodes, other, h, ss, S0 \cup m.split)
<1> DEFINE new == m.nodes
           S   == S0 \cup m.split
           X   == Both(Path(nodes)[root], s)
<1>1. Top(nodes)[root] = root
  BY ForestFacts DEF IsTop
<1>2. Grown(nodes, new) /\ \A n \in DOMAIN new \ DOMAIN nodes : Top(new)[n] # other
  BY <1>1 DEF Merged
<1>3. CountedOnce(nodes, root, X, new, m.split)
  BY DEF CountsMerged
<1>4. other \notin {root} \cup Passed(nodes, root, X)
  BY DEF Passed, Under
<1>5. new[other].count = nodes[other].count
  BY <1>3, <1>4 DEF CountedOnce
<1>6. ASSUME NEW n \in Under(nodes, other) \ S
      PROVE  /\ new[n].count = nodes[n].count
             /\ new[n].parent = nodes[n].parent /\ new[n].data[1] = nodes[n].data[1]
  <2>1. n \in DOMAIN nodes \ m.split /\ n \notin {root} \cup Passed(nodes, root, X)
    BY <1>6 DEF Under, Passed
  <2> QED
    BY <1>3, <2>1 DEF CountedOnce
<1>7. S0 \subseteq S
  OBVIOUS
<1> HIDE DEF new, S
<1>8. Counted(new, other, h, ss, S)
  BY <1>2, <1>5, <1>6, <1>7, CountedKept
<1> QED
  BY <1>8 DEF new, S

\* The counts of a new tree: one command, no answer; the other nodes stay.
NewTreeCounts(nodes, new, n) ==
  /\ new[n + 1].count = 1 /\ new[n + 2].count = 1 /\ new[n + 3].count = 0
  /\ \A i \in DOMAIN nodes :
       /\ new[i].count = nodes[i].count
       /\ new[i].parent = nodes[i].parent /\ new[i].data = nodes[i].data

\* The constructor of Tree counts the first command, at its root and at its leaf.
LEMMA NewTreeCounted ==
  ASSUME NEW nodes, Forest(nodes), NEW h \in Texts, NEW data \in Texts,
         NEW new, new = Tree(nodes, h, data), NEW n, n = Len(nodes)
  PROVE  NewTreeCounts(nodes, new, n)
<1> DEFINE a == Append(nodes, NewNode(h, 1))
           b == AddNew(a, Len(a), data, 1)
<1>0. n \in Nat /\ DOMAIN nodes = 1 .. n
  BY SeqFacts DEF Forest, Linked
<1>1. new = Append(b, NewNode(h, 0))
  BY DEF Tree
<1>2. RootAdded(nodes, h, 1, a, n + 1)
  <2>1. 1 \in Nat /\ n + 1 = Len(nodes) + 1
    OBVIOUS
  <2> HIDE DEF b
  <2> QED
    BY <2>1, RootGrown
<1>3. b = AddNew(a, Len(a), data, 1)
  OBVIOUS
<1> HIDE DEF a, b
<1>4. Forest(a) /\ Len(a) = n + 1 /\ n + 1 \in DOMAIN a /\ data[1] \notin DOMAIN a[n + 1].childNodes
      /\ n + 2 = Len(a) + 1 /\ 1 \in Nat /\ a[n + 1].count = 1
      /\ DOMAIN a = DOMAIN nodes \cup {n + 1} /\ \A i \in DOMAIN nodes : a[i] = nodes[i]
  <2>1. DOMAIN <<>> = {}
    OBVIOUS
  <2> QED
    BY <1>0, <1>2, <2>1 DEF RootAdded, Grown
<1>5. Grown(a, b) /\ NodeAdded(a, n + 1, data, 1, b, n + 2)
  BY <1>3, <1>4, AddNewGrown
<1>6. /\ Forest(b) /\ n + 3 = Len(b) + 1 /\ DOMAIN b = DOMAIN a \cup {n + 2} /\ 0 \in Nat
      /\ b[n + 2].count = 1
      /\ \A i \in DOMAIN a : /\ b[i].count = a[i].count
                             /\ b[i].parent = a[i].parent /\ b[i].data = a[i].data
  BY <1>0, <1>5 DEF NodeAdded, Grown
<1>7. RootAdded(b, h, 0, new, n + 3)
  BY <1>1, <1>6, RootGrown
<1>8. new[n + 3].count = 0 /\ \A i \in DOMAIN b : new[i] = b[i]
  BY <1>7 DEF RootAdded
<1> QED
  BY <1>4, <1>6, <1>8 DEF NewTreeCounts

\* The only node below the new roots is the leaf of the command.
LEMMA UnderNewRoots ==
  ASSUME NEW nodes, Forest(nodes), NEW h, NEW data, NEW new, NEW n,
         TreeMade(nodes, h, data, new, n)
  PROVE  /\ Under(new, n + 1) = {n + 2} /\ Under(new, n + 3) = {}
         /\ \A i \in DOMAIN new \ DOMAIN nodes : Top(new)[i] \notin DOMAIN nodes
<1>1. /\ Grown(nodes, new) /\ DOMAIN new = DOMAIN nodes \cup {n + 1, n + 2, n + 3} /\ n \in Nat
      /\ {n + 1, n + 2, n + 3} \cap DOMAIN nodes = {}
      /\ IsRoot(new, n + 1, h) /\ IsRoot(new, n + 3, h) /\ Hangs(new, n + 2, n + 1)
  BY DEF TreeMade
<1>2. IsTop(new, Top(new))
  BY <1>1, ForestFacts DEF Grown
<1>3. ASSUME NEW i \in DOMAIN nodes PROVE Top(new)[i] \in DOMAIN nodes
  BY <1>1, ForestFacts DEF Grown, IsTop
<1>4. /\ new[n + 1].parent = 0 /\ Top(new)[n + 1] = n + 1
      /\ new[n + 3].parent = 0 /\ Top(new)[n + 3] = n + 3
      /\ new[n + 2].parent # 0 /\ Top(new)[n + 2] = n + 1
  BY <1>1, <1>2 DEF IsRoot, IsTop, Hangs
<1>5. n + 1 # n + 3
  BY <1>1
<1> QED
  BY <1>1, <1>3, <1>4, <1>5 DEF Under

\* A new tree is counted.
LEMMA CountedFirst ==
  ASSUME NEW nodes, Forest(nodes), NEW h \in Seq(Bytes), NEW data \in Texts, NEW new, NEW n,
         TreeMade(nodes, h, data, new, n), NewTreeCounts(nodes, new, n), NEW S
  PROVE  /\ \A ss : ss = Append(<<>>, data) => Counted(new, n + 1, h, ss, S)
         /\ Counted(new, n + 3, h, <<>>, S)
<1>1. /\ Forest(new) /\ n \in Nat /\ Path(new)[n + 2] = Both(h, data)
      /\ IsRoot(new, n + 1, h)
  BY DEF TreeMade, Grown
<1>2. new[n + 1].count = 1 /\ new[n + 2].count = 1 /\ new[n + 3].count = 0
  BY DEF NewTreeCounts
<1>3. Under(new, n + 1) = {n + 2} /\ Under(new, n + 3) = {}
  BY UnderNewRoots
<1>4. IsPrefix(Key(new, n + 2), Both(h, data))
  <2>1. n + 2 \in Under(new, n + 1)
    BY <1>3
  <2>2. IsPrefix(Key(new, n + 2), Path(new)[n + 2])
    BY <1>1, <2>1, KeyFacts
  <2> QED
    BY <1>1, <2>2
<1>5. IsPrefix(Both(h, data), Both(h, data))
  <2>1. data \in Seq(Bytes)
    BY TextFacts
  <2> QED
    BY <2>1, BothFacts, PrefixOfItself
<1>6. ASSUME NEW ss, ss = Append(<<>>, data) PROVE Counted(new, n + 1, h, ss, S)
  <2>1. ss \in Seq(Texts) /\ Len(ss) = 1 /\ DOMAIN ss = {1} /\ ss[1] = data
    BY <1>6
  <2>2. Represented(new, n + 1, h, ss)
    BY <1>1, <1>3, <1>5, <2>1 DEF Represented
  <2>3. Passing(new, n + 2, h, ss) = {1}
    BY <1>4, <2>1 DEF Passing
  <2>4. Cardinality({1}) = 1
    BY FS_Singleton
  <2> QED
    BY <1>2, <1>3, <2>1, <2>2, <2>3, <2>4 DEF Counted
<1>7. Counted(new, n + 3, h, <<>>, S)
  <2>1. <<>> \in Seq(Texts) /\ Len(<<>>) = 0 /\ DOMAIN <<>> = {}
    OBVIOUS
  <2> QED
    BY <1>2, <1>3, <2>1 DEF Counted, Represented
<1> QED
  BY <1>6, <1>7

\* Another tree keeps its counts when a new one is made.
LEMMA CountedBefore ==
  ASSUME NEW nodes, Forest(nodes), NEW h, NEW data, NEW new, NEW n,
         TreeMade(nodes, h, data, new, n), NewTreeCounts(nodes, new, n),
         NEW root \in DOMAIN nodes, NEW g, NEW ss, NEW S, Counted(nodes, root, g, ss, S)
  PROVE  Counted(new, root, g, ss, S)
<1>1. Grown(nodes, new) /\ \A i \in DOMAIN new \ DOMAIN nodes : Top(new)[i] # root
  BY UnderNewRoots DEF TreeMade
<1>2. new[root].count = nodes[root].count
  BY DEF NewTreeCounts
<1>3. \A i \in Under(nodes, root) \ S :
        /\ new[i].count = nodes[i].count
        /\ new[i].parent = nodes[i].parent /\ new[i].data[1] = nodes[i].data[1]
  BY DEF NewTreeCounts, Under
<1>4. S \subseteq S
  OBVIOUS
<1> QED
  BY <1>1, <1>2, <1>3, <1>4, CountedKept

\* A step of FlattenSeq.
FlatStep(s, f, i) == IF i = 1 THEN s[i] ELSE f[i - 1] \o s[i]

IsFlat(s, n, f) == f = [i \in 1 .. n |-> FlatStep(s, f, i)]

\* A step depends on the one before it only.
LEMMA FlatDependsOnLast ==
  ASSUME NEW s, NEW v, NEW w, NEW i, i # 1 => v[i - 1] = w[i - 1]
  PROVE  FlatStep(s, v, i) = FlatStep(s, w, i)
<1>1. CASE i = 1
  BY <1>1, Zenon DEF FlatStep
<1>2. CASE i # 1
  BY <1>2, Zenon DEF FlatStep
<1> QED
  BY <1>1, <1>2

\* The recursion of FlattenSeq has a solution for every number of sequences.
LEMMA FlatExists ==
  ASSUME NEW s
  PROVE  \A n \in Nat : \E f : IsFlat(s, n, f)
<1> DEFINE G == {n \in Nat : \E f : IsFlat(s, n, f)}
<1>1. 0 \in G
  <2> DEFINE w == [i \in 1 .. 0 |-> FlatStep(s, <<>>, i)]
  <2>1. \A i \in 1 .. 0 : FlatStep(s, <<>>, i) = FlatStep(s, w, i)
    OBVIOUS
  <2>2. IsFlat(s, 0, w)
    BY <2>1, Zenon DEF IsFlat
  <2> QED
    BY <2>2
<1>2. ASSUME NEW n \in Nat, n \in G PROVE n + 1 \in G
  <2>1. PICK v : v = [i \in 1 .. n |-> FlatStep(s, v, i)]
    BY <1>2 DEF IsFlat
  <2> DEFINE w == [i \in 1 .. n + 1 |-> IF i = n + 1 THEN FlatStep(s, v, n + 1) ELSE v[i]]
  <2>2. ASSUME NEW i \in 1 .. n + 1 PROVE w[i] = FlatStep(s, w, i)
    <3>1. ASSUME i # 1 PROVE v[i - 1] = w[i - 1]
      <4>1. i - 1 \in 1 .. n + 1 /\ i - 1 # n + 1
        BY <3>1, <1>2
      <4> QED
        BY <4>1, Zenon
    <3> HIDE DEF w
    <3>2. FlatStep(s, v, i) = FlatStep(s, w, i)
      BY <3>1, FlatDependsOnLast, Zenon
    <3>3. CASE i = n + 1
      BY <3>2, <3>3, Zenon DEF w
    <3>4. CASE i # n + 1
      <4>1. i \in 1 .. n
        BY <3>4, <1>2
      <4>2. v[i] = FlatStep(s, v, i)
        BY <4>1, <2>1, Zenon
      <4> QED
        BY <4>2, <3>2, <3>4, Zenon DEF w
    <3> QED
      BY <3>3, <3>4
  <2>3. IsFlat(s, n + 1, w)
    <3> DEFINE u == [i \in 1 .. n + 1 |-> FlatStep(s, w, i)]
    <3>1. DOMAIN w = DOMAIN u /\ \A i \in DOMAIN w : w[i] = u[i]
      BY <2>2, Zenon
    <3>2. w = [i \in DOMAIN w |-> w[i]] /\ u = [i \in DOMAIN u |-> u[i]]
      OBVIOUS
    <3> HIDE DEF w, u
    <3>3. w = u
      BY <3>1, <3>2, Zenon
    <3> QED
      BY <3>3, Zenon DEF u, IsFlat
  <2> QED
    BY <2>3
<1>3. \A n \in Nat : n \in G
  <2> HIDE DEF G
  <2> QED
    BY <1>1, <1>2, SetInduction
<1> QED
  BY <1>3, Zenon

\* The steps of FlattenSeq.
Flattens(s, n, f) == \A i \in 1 .. n : f[i] = FlatStep(s, f, i)

\* FlattenSeq is the last of its steps.
LEMMA FlatUnfold ==
  ASSUME NEW S, NEW s \in Seq(S), s # <<>>
  PROVE  \E f : FlattenSeq(s) = f[Len(s)] /\ Flattens(s, Len(s), f)
<1> DEFINE f == CHOOSE v : v = [i \in 1 .. Len(s) |-> FlatStep(s, v, i)]
<1>1. Len(s) \in Nat /\ Len(s) # 0
  OBVIOUS
<1>2. \E v : v = [i \in 1 .. Len(s) |-> FlatStep(s, v, i)]
  <2>1. \E v : IsFlat(s, Len(s), v)
    BY <1>1, FlatExists
  <2> QED
    BY <2>1, Zenon DEF IsFlat
<1>3. f = [i \in 1 .. Len(s) |-> FlatStep(s, f, i)]
  BY <1>2, Zenon
<1>4. FlattenSeq(s) = f[Len(s)]
  BY <1>1, Zenon DEF FlattenSeq, FlatStep
<1> HIDE DEF f
<1>5. Flattens(s, Len(s), f)
  BY <1>3, Zenon DEF Flattens
<1> QED
  BY <1>4, <1>5

\* FlattenSeq of one sequence more appends its elements.
LEMMA FlatOfMore ==
  ASSUME NEW S, NEW s \in Seq(S), NEW t \in S, NEW r, r = Append(s, t)
  PROVE  /\ s = <<>> => FlattenSeq(r) = t
         /\ s # <<>> => FlattenSeq(r) = FlattenSeq(s) \o t
<1> DEFINE n == Len(s)
<1>1. /\ n \in Nat /\ r \in Seq(S) /\ Len(r) = n + 1 /\ r[n + 1] = t /\ r # <<>>
      /\ \A i \in 1 .. n : r[i] = s[i]
  OBVIOUS
<1>2. s = <<>> <=> n = 0
  OBVIOUS
<1> HIDE DEF n
<1>3. PICK g : FlattenSeq(r) = g[n + 1] /\ Flattens(r, n + 1, g)
  <2>1. \E g : FlattenSeq(r) = g[Len(r)] /\ Flattens(r, Len(r), g)
    BY <1>1, FlatUnfold
  <2> QED
    BY <1>1, <2>1
<1>4. n + 1 \in 1 .. n + 1 /\ (n + 1) - 1 = n /\ (n + 1 = 1 <=> n = 0)
  BY <1>1
<1>5. g[n + 1] = IF n + 1 = 1 THEN r[n + 1] ELSE g[(n + 1) - 1] \o r[n + 1]
  BY <1>3, <1>4, Zenon DEF Flattens, FlatStep
<1>6. CASE n = 0
  <2>1. g[n + 1] = r[n + 1]
    BY <1>4, <1>5, <1>6, Zenon
  <2> QED
    BY <1>1, <1>2, <1>3, <1>6, <2>1
<1>7. CASE n # 0
  <2>1. g[n + 1] = g[n] \o t
    BY <1>1, <1>4, <1>5, <1>7, Zenon
  <2>2. PICK f : FlattenSeq(s) = f[n] /\ Flattens(s, n, f)
    BY <1>2, <1>7, FlatUnfold DEF n
  <2> DEFINE G == {k \in Nat : k \in 1 .. n => f[k] = g[k]}
  <2>3. 0 \in G
    OBVIOUS
  <2>4. ASSUME NEW k \in Nat, k \in G PROVE k + 1 \in G
    <3> SUFFICES ASSUME k + 1 \in 1 .. n PROVE f[k + 1] = g[k + 1]
      OBVIOUS
    <3>1. k + 1 \in 1 .. n + 1 /\ (k + 1) - 1 = k /\ (k + 1 # 1 => k \in 1 .. n)
      BY <1>1
    <3>2. s[k + 1] = r[k + 1]
      BY <1>1
    <3>3. f[k + 1] = FlatStep(s, f, k + 1) /\ g[k + 1] = FlatStep(r, g, k + 1)
      BY <1>3, <2>2, <3>1, Zenon DEF Flattens
    <3>4. k + 1 # 1 => f[k] = g[k]
      BY <2>4, <3>1
    <3> HIDE DEF G
    <3>5. CASE k + 1 = 1
      BY <3>2, <3>3, <3>5, Zenon DEF FlatStep
    <3>6. CASE k + 1 # 1
      BY <3>1, <3>2, <3>3, <3>4, <3>6, Zenon DEF FlatStep
    <3> QED
      BY <3>5, <3>6
  <2> HIDE DEF G
  <2>5. \A k \in Nat : k \in G
    BY <2>3, <2>4, SetInduction
  <2>6. f[n] = g[n]
    <3>1. n \in G /\ n \in 1 .. n
      BY <1>1, <1>7, <2>5
    <3> QED
      BY <3>1 DEF G
  <2>7. FlattenSeq(r) = FlattenSeq(s) \o t
    BY <1>3, <2>1, <2>2, <2>6, Zenon
  <2> QED
    BY <1>2, <1>7, <2>7
<1> QED
  BY <1>6, <1>7

\* The commands and the answers of some lines of the log, in their order.
SentSeq(es)    == [i \in DOMAIN es |-> es[i].sent]
AnswerLists(es) == [i \in DOMAIN es |-> es[i].answers]
AnswerSeq(es)  == FlattenSeq(AnswerLists(es))

\* A sequence that continues another by one element.
LEMMA IsAppended ==
  ASSUME NEW S, NEW s \in Seq(S), NEW x \in S, NEW r \in Seq(S), Len(r) = Len(s) + 1,
         r[Len(s) + 1] = x, \A i \in 1 .. Len(s) : r[i] = s[i]
  PROVE  r = Append(s, x)
<1>1. Append(s, x) \in Seq(S) /\ Len(Append(s, x)) = Len(r)
  OBVIOUS
<1>2. \A i \in 1 .. Len(r) : r[i] = Append(s, x)[i]
  OBVIOUS
<1> QED
  BY <1>1, <1>2

\* The commands and answers of one line more.
LEMMA TextsOfMore ==
  ASSUME NEW es \in Seq(LogLines), NEW x \in LogLines, NEW es2, es2 = Append(es, x)
  PROVE  /\ SentSeq(es) \in Seq(Texts) /\ SentSeq(es2) = Append(SentSeq(es), x.sent)
         /\ AnswerLists(es) \in Seq(Seq(Texts))
         /\ AnswerLists(es2) = Append(AnswerLists(es), x.answers)
         /\ AnswerLists(es) = <<>> <=> es = <<>>
<1> DEFINE n == Len(es)
<1>1. n \in Nat /\ DOMAIN es = 1 .. n /\ \A i \in 1 .. n : es[i] \in LogLines
  BY SeqFacts
<1>2. DOMAIN es2 = 1 .. n + 1 /\ es2[n + 1] = x /\ \A i \in 1 .. n : es2[i] = es[i]
  OBVIOUS
<1>3. es = <<>> <=> n = 0
  OBVIOUS
<1> HIDE DEF n
<1>4. x.sent \in Texts /\ x.answers \in Seq(Texts)
  BY DEF LogLines
<1>5. \A i \in 1 .. n : es[i].sent \in Texts /\ es[i].answers \in Seq(Texts)
  BY <1>1 DEF LogLines
<1>6. SentSeq(es) \in Seq(Texts) /\ Len(SentSeq(es)) = n /\ \A i \in 1 .. n : SentSeq(es)[i] = es[i].sent
  <2>1. SentSeq(es) \in [1 .. n -> Texts] /\ \A i \in 1 .. n : SentSeq(es)[i] = es[i].sent
    BY <1>1, <1>5 DEF SentSeq
  <2> QED
    BY <1>1, <2>1, FunctionIsSeq
<1>7. AnswerLists(es) \in Seq(Seq(Texts)) /\ Len(AnswerLists(es)) = n
      /\ \A i \in 1 .. n : AnswerLists(es)[i] = es[i].answers
  <2>1. AnswerLists(es) \in [1 .. n -> Seq(Texts)] /\ \A i \in 1 .. n : AnswerLists(es)[i] = es[i].answers
    BY <1>1, <1>5 DEF AnswerLists
  <2> QED
    BY <1>1, <2>1, FunctionIsSeq
<1>8. SentSeq(es2) = Append(SentSeq(es), x.sent)
  <2>1. SentSeq(es2) \in [1 .. n + 1 -> Texts] /\ SentSeq(es2)[n + 1] = x.sent
        /\ \A i \in 1 .. n : SentSeq(es2)[i] = es[i].sent
    BY <1>1, <1>2, <1>4, <1>5 DEF SentSeq
  <2>2. SentSeq(es2) \in Seq(Texts) /\ Len(SentSeq(es2)) = n + 1
    BY <1>1, <2>1, FunctionIsSeq
  <2> QED
    BY <1>4, <1>6, <2>1, <2>2, IsAppended
<1>9. AnswerLists(es2) = Append(AnswerLists(es), x.answers)
  <2>1. AnswerLists(es2) \in [1 .. n + 1 -> Seq(Texts)] /\ AnswerLists(es2)[n + 1] = x.answers
        /\ \A i \in 1 .. n : AnswerLists(es2)[i] = es[i].answers
    BY <1>1, <1>2, <1>4, <1>5 DEF AnswerLists
  <2>2. AnswerLists(es2) \in Seq(Seq(Texts)) /\ Len(AnswerLists(es2)) = n + 1
    BY <1>1, <2>1, FunctionIsSeq
  <2> QED
    <3> DEFINE T == Seq(Texts)
               s == AnswerLists(es)
               r == AnswerLists(es2)
               a == x.answers
    <3>1. s \in Seq(T) /\ a \in T /\ r \in Seq(T) /\ Len(r) = Len(s) + 1 /\ r[Len(s) + 1] = a
          /\ \A i \in 1 .. Len(s) : r[i] = s[i]
      BY <1>4, <1>7, <2>1, <2>2
    <3> HIDE DEF T, s, r, a
    <3>2. r = Append(s, a)
      BY <3>1, IsAppended
    <3> QED
      BY <3>2 DEF s, r, a
<1>10. AnswerLists(es) = <<>> <=> es = <<>>
  BY <1>3, <1>7
<1> QED
  BY <1>6, <1>7, <1>8, <1>9, <1>10

\* No line, no text.
LEMMA NoTexts == SentSeq(<<>>) = <<>> /\ AnswerSeq(<<>>) = <<>>
<1>1. SentSeq(<<>>) = <<>> /\ AnswerLists(<<>>) = <<>>
  BY DEF SentSeq, AnswerLists
<1> QED
  BY <1>1 DEF AnswerSeq, FlattenSeq

\* The same, of an appended sequence that has a name of its own.
FlatGrows(S, s, t, r) ==
  s \in Seq(S) /\ t \in S /\ s # <<>> /\ r = Append(s, t) => FlattenSeq(r) = FlattenSeq(s) \o t

\* FlatOfMore, for any sets and sequences.
LEMMA FlatAppended == \A S, s, t, r : FlatGrows(S, s, t, r)
<1> SUFFICES ASSUME NEW S, NEW s \in Seq(S), NEW t \in S, NEW r, s # <<>>, r = Append(s, t)
             PROVE  FlattenSeq(r) = FlattenSeq(s) \o t
  BY Zenon DEF FlatGrows
<1>1. s # <<>> => FlattenSeq(r) = FlattenSeq(s) \o t
  BY FlatOfMore, ZenonT(40)
<1> QED
  BY <1>1

\* The answers of one line more.
LEMMA AnswersOfMore ==
  ASSUME NEW es \in Seq(LogLines), AnswerSeq(es) \in Seq(Texts), NEW x \in LogLines,
         NEW es2, es2 = Append(es, x)
  PROVE  AnswerSeq(es2) = AnswerSeq(es) \o x.answers
<1>1. /\ AnswerLists(es) \in Seq(Seq(Texts)) /\ x.answers \in Seq(Texts)
      /\ AnswerLists(es2) = Append(AnswerLists(es), x.answers)
      /\ AnswerLists(es) = <<>> <=> es = <<>>
  BY TextsOfMore DEF LogLines
<1>2. CASE es = <<>>
  <2>1. AnswerSeq(es2) = x.answers
    BY <1>1, <1>2, FlatOfMore DEF AnswerSeq
  <2>2. AnswerSeq(es) = <<>>
    BY <1>2, NoTexts
  <2> QED
    BY <1>1, <2>1, <2>2
<1>3. CASE es # <<>>
  <2> DEFINE A == AnswerLists(es)
             t == x.answers
             r == AnswerLists(es2)
             D == Seq(Texts)
  <2>1. A # <<>> /\ A \in Seq(D) /\ t \in D /\ r = Append(A, t)
    BY <1>1, <1>3
  <2> HIDE DEF A, t, r, D
  <2>2. FlatGrows(D, A, t, r)
    BY FlatAppended
  <2>3. FlattenSeq(r) = FlattenSeq(A) \o t
    BY <2>1, <2>2, Zenon DEF FlatGrows
  <2> QED
    BY <2>3 DEF A, t, r, AnswerSeq
<1> QED
  BY <1>2, <1>3

\* The answers are texts.
LEMMA AnswersAreTexts ==
  \A n \in Nat : \A es \in Seq(LogLines) : Len(es) = n => AnswerSeq(es) \in Seq(Texts)
<1> DEFINE G == {n \in Nat : \A es \in Seq(LogLines) : Len(es) = n => AnswerSeq(es) \in Seq(Texts)}
<1>1. 0 \in G
  <2>1. ASSUME NEW es \in Seq(LogLines), Len(es) = 0 PROVE AnswerSeq(es) \in Seq(Texts)
    <3>1. es = <<>>
      BY <2>1
    <3>2. <<>> \in Seq(Texts)
      OBVIOUS
    <3> QED
      BY <3>1, <3>2, NoTexts
  <2> QED
    BY <2>1
<1>2. ASSUME NEW n \in Nat, n \in G PROVE n + 1 \in G
  <2>1. ASSUME NEW es \in Seq(LogLines), Len(es) = n + 1 PROVE AnswerSeq(es) \in Seq(Texts)
    <3>1. es # <<>>
      BY <2>1
    <3>2. PICK f \in Seq(LogLines), x \in LogLines : es = Append(f, x)
      BY <3>1, LogEnds
    <3>3. Len(f) = n
      BY <2>1, <3>2
    <3>4. AnswerSeq(f) \in Seq(Texts) /\ x.answers \in Seq(Texts)
      BY <1>2, <3>3 DEF LogLines
    <3>5. AnswerSeq(es) = AnswerSeq(f) \o x.answers
      BY <3>2, <3>4, AnswersOfMore
    <3> QED
      BY <3>4, <3>5
  <2> QED
    BY <2>1
<1> HIDE DEF G
<1>3. \A n \in Nat : n \in G
  BY <1>1, <1>2, SetInduction
<1> QED
  BY <1>3 DEF G

\* A command without an answer adds one text, and an answer one to the last command.
LEMMA CommandTexts ==
  ASSUME NEW es \in Seq(LogLines), NEW x \in LogLines, x.answers = <<>>,
         NEW es2, es2 = Append(es, x)
  PROVE  SentSeq(es2) = Append(SentSeq(es), x.sent) /\ AnswerSeq(es2) = AnswerSeq(es)
<1>1. SentSeq(es2) = Append(SentSeq(es), x.sent)
  BY TextsOfMore
<1>2. AnswerSeq(es) \in Seq(Texts)
  <2>1. Len(es) \in Nat
    OBVIOUS
  <2> QED
    BY <2>1, AnswersAreTexts
<1>3. AnswerSeq(es2) = AnswerSeq(es) \o <<>>
  BY <1>2, AnswersOfMore
<1>4. AnswerSeq(es2) = AnswerSeq(es)
  BY <1>2, <1>3
<1> QED
  BY <1>1, <1>4

\* One answer more, at the end of the answers.
OneMoreAnswer(es, a, es2) ==
  SentSeq(es2) = SentSeq(es) /\ AnswerSeq(es2) = Append(AnswerSeq(es), a)

\* The answer that completes the last line of a header is the last of its answers.
LEMMA AnswerTexts ==
  ASSUME NEW f \in Seq(LogLines), NEW x \in LogLines, NEW a \in Texts, NEW y, Completed(x, a, y),
         NEW es, NEW es2
  PROVE  es = Append(f, x) /\ es2 = Append(f, y) => OneMoreAnswer(es, a, es2)
<1> SUFFICES ASSUME es = Append(f, x), es2 = Append(f, y)
             PROVE  SentSeq(es2) = SentSeq(es) /\ AnswerSeq(es2) = Append(AnswerSeq(es), a)
  BY DEF OneMoreAnswer
<1>1. y \in LogLines /\ y.sent = x.sent /\ y.answers = Append(x.answers, a)
      /\ x.answers \in Seq(Texts)
  BY DEF Completed, LogLines
<1>2. SentSeq(es2) = SentSeq(es)
  <2>1. SentSeq(es) = Append(SentSeq(f), x.sent)
    BY TextsOfMore
  <2>2. SentSeq(es2) = Append(SentSeq(f), y.sent)
    BY <1>1, TextsOfMore
  <2> QED
    BY <1>1, <2>1, <2>2
<1>3. AnswerSeq(f) \in Seq(Texts)
  <2>1. Len(f) \in Nat
    OBVIOUS
  <2> QED
    BY <2>1, AnswersAreTexts
<1>4. AnswerSeq(es) = AnswerSeq(f) \o x.answers
  BY <1>3, AnswersOfMore
<1>5. AnswerSeq(es2) = AnswerSeq(f) \o Append(x.answers, a)
  BY <1>1, <1>3, AnswersOfMore
<1> DEFINE p == AnswerSeq(f)
           q == x.answers
<1>6. p \in Seq(Texts) /\ q \in Seq(Texts)
  BY <1>1, <1>3
<1> HIDE DEF p, q
<1>7. p \o Append(q, a) = Append(p \o q, a)
  <2>1. /\ p \o Append(q, a) \in Seq(Texts) /\ Append(p \o q, a) \in Seq(Texts)
        /\ Len(p \o Append(q, a)) = Len(Append(p \o q, a))
        /\ Len(Append(p \o q, a)) = Len(p) + Len(q) + 1
    BY <1>6
  <2>2. \A i \in 1 .. Len(p) + Len(q) + 1 : (p \o Append(q, a))[i] = Append(p \o q, a)[i]
    BY <1>6
  <2> QED
    BY <2>1, <2>2
<1> QED
  BY <1>2, <1>4, <1>5, <1>7 DEF p, q

\* Both trees of a header count the texts of its lines.
TreeCounts(nodes, t, h, es, S) ==
  /\ Counted(nodes, t.root, h, SentSeq(es), S)
  /\ Counted(nodes, t.receivedRoot, h, AnswerSeq(es), S)

\* Every tree counts the log.
LogCounts(nodes, ps, lg, S) ==
  \A h \in DOMAIN ps : TreeCounts(nodes, ps[h], h, EntriesOf(lg, h), S)

\* A stream has been merged and counted.
MergedAndCounted(nodes, root, s, m) ==
  Merged(nodes, root, s, m.nodes, m.leaf) /\ CountsMerged(nodes, root, s, m)

\* The counts do not depend on the packets.
SameRoots(ps, qs) ==
  /\ DOMAIN qs = DOMAIN ps
  /\ \A g \in DOMAIN ps : qs[g].root = ps[g].root /\ qs[g].receivedRoot = ps[g].receivedRoot

\* What the trees count depends on their roots only.
LEMMA LogCountsSame ==
  ASSUME NEW nodes, NEW ps, NEW qs, SameRoots(ps, qs), NEW lg, NEW S, LogCounts(nodes, ps, lg, S)
  PROVE  LogCounts(nodes, qs, lg, S)
  BY DEF LogCounts, TreeCounts, SameRoots

\* The entries of a header are lines of the log.
LEMMA EntriesTexts ==
  ASSUME NEW lg \in Seq(LogLines), NEW h
  PROVE  EntriesOf(lg, h) \in Seq(LogLines)
<1>1. Len(lg) \in Nat
  OBVIOUS
<1> QED
  BY <1>1, EntriesAreLines

\* The roots of a tree that fits.
LEMMA FittingRoots ==
  ASSUME NEW nodes, NEW ps, TreesFit(nodes, ps), NEW h \in DOMAIN ps
  PROVE  /\ Forest(nodes) /\ h \in Seq(Bytes) /\ ps[h].root # ps[h].receivedRoot
         /\ IsRoot(nodes, ps[h].root, h) /\ IsRoot(nodes, ps[h].receivedRoot, h)
         /\ \A r \in {ps[h].root, ps[h].receivedRoot} : r \in DOMAIN nodes /\ nodes[r].parent = 0
<1>1. Forest(nodes) /\ TreeFits(nodes, ps[h], h)
  BY DEF TreesFit
<1>2. IsRoot(nodes, ps[h].root, h) /\ IsRoot(nodes, ps[h].receivedRoot, h)
      /\ ps[h].root # ps[h].receivedRoot
  BY <1>1 DEF TreeFits
<1>3. h \in Seq(Bytes)
  BY <1>1, <1>2, ForestFacts DEF IsRoot, IsPath
<1> QED
  BY <1>1, <1>2, <1>3 DEF IsRoot

\* The trees of other headers keep their counts.
LEMMA OthersCounted ==
  ASSUME NEW nodes, NEW ps, TreesFit(nodes, ps), NEW h \in DOMAIN ps,
         NEW root \in {ps[h].root, ps[h].receivedRoot},
         NEW s, NEW m, MergedAndCounted(nodes, root, s, m),
         NEW g \in DOMAIN ps, g # h, NEW es, NEW S, TreeCounts(nodes, ps[g], g, es, S)
  PROVE  TreeCounts(m.nodes, ps[g], g, es, S \cup m.split)
<1>1. Forest(nodes) /\ root \in DOMAIN nodes /\ nodes[root].parent = 0
  BY FittingRoots
<1>2. ps[g].root # root /\ ps[g].receivedRoot # root
  BY RootsApart
<1>3. \A r \in {ps[g].root, ps[g].receivedRoot} : r \in DOMAIN nodes /\ nodes[r].parent = 0
  BY FittingRoots
<1>4. Merged(nodes, root, s, m.nodes, m.leaf) /\ CountsMerged(nodes, root, s, m)
  BY DEF MergedAndCounted
<1>5. Counted(m.nodes, ps[g].root, g, SentSeq(es), S \cup m.split)
  BY <1>1, <1>2, <1>3, <1>4, CountedElsewhere DEF TreeCounts
<1>6. Counted(m.nodes, ps[g].receivedRoot, g, AnswerSeq(es), S \cup m.split)
  BY <1>1, <1>2, <1>3, <1>4, CountedElsewhere DEF TreeCounts
<1> QED
  BY <1>5, <1>6 DEF TreeCounts

\* A command whose header has a tree is counted in it.
LEMMA StreamCounted ==
  ASSUME NEW nodes, NEW ps, TreesFit(nodes, ps), NEW lg \in Seq(LogLines),
         NEW S, LogCounts(nodes, ps, lg, S),
         NEW h \in DOMAIN ps, NEW x \in LogLines, x.header = h, x.answers = <<>>,
         NEW m, MergedAndCounted(nodes, ps[h].root, x.sent, m),
         NEW lg2, lg2 = Append(lg, x)
  PROVE  LogCounts(m.nodes, ps, lg2, S \cup m.split)
<1>1. ASSUME NEW g PROVE EntryAdded(lg, x, lg2, g)
  BY EntriesOfLonger
<1>2. ASSUME NEW g \in DOMAIN ps, g # h
      PROVE  TreeCounts(m.nodes, ps[g], g, EntriesOf(lg2, g), S \cup m.split)
  <2>1. EntriesOf(lg2, g) = EntriesOf(lg, g)
    BY <1>1, <1>2, Zenon DEF EntryAdded
  <2>2. TreeCounts(nodes, ps[g], g, EntriesOf(lg2, g), S)
    BY <2>1 DEF LogCounts
  <2> QED
    BY <1>2, <2>2, OthersCounted
<1>3. TreeCounts(m.nodes, ps[h], h, EntriesOf(lg2, h), S \cup m.split)
  <2> DEFINE es  == EntriesOf(lg, h)
             es2 == EntriesOf(lg2, h)
             r == ps[h].root
             a == ps[h].receivedRoot
  <2>1. es2 = Append(es, x)
    BY <1>1, Zenon DEF EntryAdded
  <2>2. es \in Seq(LogLines)
    BY EntriesTexts
  <2>3. Counted(nodes, r, h, SentSeq(es), S) /\ Counted(nodes, a, h, AnswerSeq(es), S)
    BY DEF LogCounts, TreeCounts
  <2>4. Merged(nodes, r, x.sent, m.nodes, m.leaf) /\ CountsMerged(nodes, r, x.sent, m)
    BY DEF MergedAndCounted
  <2>5. /\ Forest(nodes) /\ h \in Seq(Bytes) /\ IsRoot(nodes, r, h) /\ a # r
        /\ r \in DOMAIN nodes /\ nodes[r].parent = 0 /\ a \in DOMAIN nodes /\ nodes[a].parent = 0
    BY FittingRoots
  <2>6. x.sent \in Texts
    BY DEF LogLines
  <2> HIDE DEF es, es2, r, a
  <2>7. SentSeq(es2) = Append(SentSeq(es), x.sent) /\ AnswerSeq(es2) = AnswerSeq(es)
    BY <2>1, <2>2, CommandTexts
  <2>8. Counted(m.nodes, r, h, SentSeq(es2), S \cup m.split)
    BY <2>3, <2>4, <2>5, <2>6, <2>7, CountedMore
  <2>9. Counted(m.nodes, a, h, AnswerSeq(es2), S \cup m.split)
    BY <2>3, <2>4, <2>5, <2>7, CountedElsewhere
  <2> QED
    BY <2>8, <2>9 DEF TreeCounts, es2, r, a
<1> QED
  BY <1>2, <1>3 DEF LogCounts

\* An answer is counted in the second tree of the last command.
LEMMA AnswerCounted ==
  ASSUME NEW nodes, NEW ps, TreesFit(nodes, ps), NEW f \in Seq(LogLines), NEW x \in LogLines,
         NEW lg, lg = Append(f, x), NEW S, LogCounts(nodes, ps, lg, S),
         NEW h \in DOMAIN ps, x.header = h, NEW a \in Texts, NEW y, Completed(x, a, y),
         NEW m, MergedAndCounted(nodes, ps[h].receivedRoot, a, m),
         NEW lg2, lg2 = Append(f, y)
  PROVE  LogCounts(m.nodes, ps, lg2, S \cup m.split)
<1>0. y \in LogLines /\ y.header = h
  BY DEF Completed
<1>1. ASSUME NEW g PROVE EntryAdded(f, x, lg, g) /\ EntryAdded(f, y, lg2, g)
  BY <1>0, EntriesOfLonger
<1>2. ASSUME NEW g \in DOMAIN ps, g # h
      PROVE  TreeCounts(m.nodes, ps[g], g, EntriesOf(lg2, g), S \cup m.split)
  <2>1. EntriesOf(lg2, g) = EntriesOf(lg, g)
    BY <1>0, <1>1, <1>2, Zenon DEF EntryAdded
  <2>2. TreeCounts(nodes, ps[g], g, EntriesOf(lg2, g), S)
    BY <2>1 DEF LogCounts
  <2> QED
    BY <1>2, <2>2, OthersCounted
<1>3. TreeCounts(m.nodes, ps[h], h, EntriesOf(lg2, h), S \cup m.split)
  <2> DEFINE e0  == EntriesOf(f, h)
             es  == EntriesOf(lg, h)
             es2 == EntriesOf(lg2, h)
             r == ps[h].root
             b == ps[h].receivedRoot
  <2>1. es = Append(e0, x) /\ es2 = Append(e0, y)
    BY <1>0, <1>1, Zenon DEF EntryAdded
  <2>2. e0 \in Seq(LogLines)
    BY EntriesTexts
  <2>3. Counted(nodes, r, h, SentSeq(es), S) /\ Counted(nodes, b, h, AnswerSeq(es), S)
    BY DEF LogCounts, TreeCounts
  <2>4. Merged(nodes, b, a, m.nodes, m.leaf) /\ CountsMerged(nodes, b, a, m)
    BY DEF MergedAndCounted
  <2>5. /\ Forest(nodes) /\ h \in Seq(Bytes) /\ IsRoot(nodes, b, h) /\ r # b
        /\ r \in DOMAIN nodes /\ nodes[r].parent = 0 /\ b \in DOMAIN nodes /\ nodes[b].parent = 0
    BY FittingRoots
  <2> HIDE DEF e0, es, es2, r, b
  <2>6. SentSeq(es2) = SentSeq(es) /\ AnswerSeq(es2) = Append(AnswerSeq(es), a)
    <3>1. OneMoreAnswer(es, a, es2)
      BY <2>1, <2>2, AnswerTexts
    <3> QED
      BY <3>1 DEF OneMoreAnswer
  <2>7. Counted(m.nodes, b, h, AnswerSeq(es2), S \cup m.split)
    BY <2>3, <2>4, <2>5, <2>6, CountedMore
  <2>8. Counted(m.nodes, r, h, SentSeq(es2), S \cup m.split)
    BY <2>3, <2>4, <2>5, <2>6, CountedElsewhere
  <2> QED
    BY <2>7, <2>8 DEF TreeCounts, es2, r, b
<1> QED
  BY <1>2, <1>3 DEF LogCounts

\* A new tree is put beside the others.
TreePut(ps, h, n, qs) ==
  /\ h \notin DOMAIN ps /\ DOMAIN qs = DOMAIN ps \cup {h}
  /\ \A g \in DOMAIN ps : qs[g] = ps[g]
  /\ qs[h].root = n + 1 /\ qs[h].receivedRoot = n + 3

\* The first command of its header is counted in a new tree.
LEMMA FirstCounted ==
  ASSUME NEW nodes, NEW ps, TreesFit(nodes, ps), NEW lg \in Seq(LogLines),
         NEW S, LogCounts(nodes, ps, lg, S), \A k \in DOMAIN lg : lg[k].header \in DOMAIN ps,
         NEW h \in Seq(Bytes), NEW x \in LogLines, x.header = h, x.answers = <<>>,
         NEW new, NEW n, TreeMade(nodes, h, x.sent, new, n), NewTreeCounts(nodes, new, n),
         NEW qs, TreePut(ps, h, n, qs), NEW lg2, lg2 = Append(lg, x)
  PROVE  LogCounts(new, qs, lg2, S)
<1>put. /\ h \notin DOMAIN ps /\ DOMAIN qs = DOMAIN ps \cup {h}
        /\ \A g \in DOMAIN ps : qs[g] = ps[g]
        /\ qs[h].root = n + 1 /\ qs[h].receivedRoot = n + 3
  BY DEF TreePut
<1>0. Forest(nodes) /\ x.sent \in Texts
  BY DEF TreesFit, LogLines
<1>1. ASSUME NEW g PROVE EntryAdded(lg, x, lg2, g)
  BY EntriesOfLonger
<1>2. ASSUME NEW g \in DOMAIN ps PROVE TreeCounts(new, qs[g], g, EntriesOf(lg2, g), S)
  <2>1. EntriesOf(lg2, g) = EntriesOf(lg, g)
    <3>1. x.header # g
      BY <1>put
    <3> QED
      BY <1>1, <3>1, Zenon DEF EntryAdded
  <2> DEFINE es == EntriesOf(lg2, g)
  <2>2. TreeCounts(nodes, ps[g], g, es, S)
    BY <2>1 DEF LogCounts
  <2> HIDE DEF es
  <2>3. ps[g].root \in DOMAIN nodes /\ ps[g].receivedRoot \in DOMAIN nodes
    BY FittingRoots
  <2>4. Counted(new, ps[g].root, g, SentSeq(es), S)
    BY <1>0, <2>2, <2>3, CountedBefore DEF TreeCounts
  <2>5. Counted(new, ps[g].receivedRoot, g, AnswerSeq(es), S)
    BY <1>0, <2>2, <2>3, CountedBefore DEF TreeCounts
  <2> QED
    BY <1>put, <2>4, <2>5 DEF TreeCounts, es
<1>3. TreeCounts(new, qs[h], h, EntriesOf(lg2, h), S)
  <2>1. EntriesOf(lg, h) = <<>>
    <3>1. Len(lg) \in Nat /\ \A k \in DOMAIN lg : lg[k].header # h
      BY <1>put
    <3> QED
      BY <3>1, EntriesOfNone
  <2> DEFINE es == EntriesOf(lg2, h)
  <2>e. <<>> \in Seq(LogLines)
    OBVIOUS
  <2>2. es = Append(<<>>, x)
    BY <1>1, <2>1, Zenon DEF EntryAdded
  <2> HIDE DEF es
  <2>3. SentSeq(es) = Append(<<>>, x.sent) /\ AnswerSeq(es) = <<>>
    BY <2>e, <2>2, CommandTexts, NoTexts
  <2>4. Counted(new, n + 1, h, SentSeq(es), S) /\ Counted(new, n + 3, h, AnswerSeq(es), S)
    BY <1>0, <2>3, CountedFirst
  <2> QED
    BY <1>put, <2>4 DEF TreeCounts, es
<1> QED
  BY <1>2, <1>3, <1>put DEF LogCounts

\* The packets of a tree change, its roots do not.
LEMMA PacketsOnly ==
  ASSUME NEW ps, NEW h \in DOMAIN ps, ps[h] \in Trees, NEW sp,
         NEW qs, qs = [ps EXCEPT ![h] = [ps[h] EXCEPT !.streamPackets = sp]]
  PROVE  SameRoots(ps, qs)
<1>1. [ps[h] EXCEPT !.streamPackets = sp] = TreeRecord(ps[h].root, ps[h].receivedRoot, sp)
  BY NewPackets
<1>2. qs = [ps EXCEPT ![h] = TreeRecord(ps[h].root, ps[h].receivedRoot, sp)]
  BY <1>1
<1> QED
  BY <1>2, TreeFields DEF SameRoots

\* While the log is parsed, the counts are those of the log.
CountOK == phase = "parse" => LogCounts(node, packets, log, split)

\* The counts hold when the parsing starts.
LEMMA InitCountOK == Init => CountOK
<1> SUFFICES ASSUME Init PROVE CountOK
  OBVIOUS
<1>1. DOMAIN packets = {}
  BY DEF Init
<1> QED
  BY <1>1 DEF CountOK, LogCounts

\* A command is counted once, at its root and at every node it passes, and no count of
\* another tree changes.
LEMMA handleTransmittedDataCounted ==
  ASSUME LogOK, CountOK, NEW h \in Headers, NEW d \in Sent, handleTransmittedData(h, d)
  PROVE  LogCounts(node', packets', log', split')
<1> DEFINE x == [header |-> h, sent |-> d, answers |-> <<>>]
<1>0. d # <<>> /\ log' = Append(log, x) /\ phase = "parse"
  BY DEF handleTransmittedData, Reads
<1>1. x \in LogLines /\ x.header = h /\ x.sent = d /\ x.answers = <<>>
  BY <1>0, LogLineOK
<1>2. d \in Texts /\ h \in Texts /\ h \in Seq(Bytes)
  BY <1>0, InputsAreTexts DEF Texts
<1>3. /\ TreesFit(node, packets) /\ Forest(node) /\ log \in Seq(LogLines)
      /\ \A k \in DOMAIN log : log[k].header \in DOMAIN packets
      /\ LogCounts(node, packets, log, split)
  BY <1>0 DEF LogOK, StateOK, TreesFit, LogReads, CountOK
<1> HIDE DEF x
<1>4. CASE h \notin DOMAIN packets
  <2> DEFINE n == Len(node)
  <2>1. /\ node' = Tree(node, h, d) /\ split' = split
        /\ packets' = put(packets, h, [root |-> n + 1, receivedRoot |-> n + 3,
                                       streamPackets |-> <<Packet(n + 2)>>])
    BY <1>4 DEF handleTransmittedData
  <2>2. TreeMade(node, h, d, node', n) /\ NewTreeCounts(node, node', n)
    BY <1>2, <1>3, <2>1, TreeGrown, NewTreeCounted
  <2> HIDE DEF n
  <2>3. TreePut(packets, h, n, packets')
    <3> DEFINE t == [root |-> n + 1, receivedRoot |-> n + 3, streamPackets |-> <<Packet(n + 2)>>]
    <3>1. t.root = n + 1 /\ t.receivedRoot = n + 3
      OBVIOUS
    <3> HIDE DEF t
    <3>2. packets' = put(packets, h, t)
      BY <2>1 DEF t
    <3>3. /\ DOMAIN packets' = DOMAIN packets \cup {h} /\ packets'[h] = t
          /\ \A g \in DOMAIN packets : packets'[g] = packets[g]
      BY <1>4, <3>2 DEF put
    <3> QED
      BY <1>4, <3>1, <3>3 DEF TreePut
  <2>4. TreeMade(node, h, x.sent, node', n)
    BY <1>1, <2>2
  <2>5. LogCounts(node', packets', log', split)
    BY <1>0, <1>1, <1>2, <1>3, <2>2, <2>3, <2>4, FirstCounted
  <2> QED
    BY <2>1, <2>5
<1>5. CASE h \in DOMAIN packets
  <2> DEFINE m == merge(node, packets[h].root, d)
             sp == Append(packets[h].streamPackets, Packet(m.leaf))
  <2>1. /\ node' = m.nodes /\ split' = split \cup m.split
        /\ packets' = [packets EXCEPT ![h] = [packets[h] EXCEPT !.streamPackets = sp]]
    BY <1>5 DEF handleTransmittedData
  <2>2. packets[h].root \in DOMAIN node /\ node[packets[h].root].parent = 0 /\ packets[h] \in Trees
    BY <1>3, <1>5 DEF TreesFit, TreeFits, IsRoot
  <2>3. Merged(node, packets[h].root, d, m.nodes, m.leaf) /\ CountsMerged(node, packets[h].root, d, m)
    BY <1>2, <1>3, <2>2, mergeFacts, mergeCounts
  <2> HIDE DEF m, sp
  <2>4. MergedAndCounted(node, packets[h].root, x.sent, m)
    BY <1>1, <2>3 DEF MergedAndCounted
  <2>5. LogCounts(m.nodes, packets, log', split \cup m.split)
    BY <1>0, <1>1, <1>3, <1>5, <2>4, StreamCounted
  <2>6. SameRoots(packets, packets')
    BY <1>5, <2>1, <2>2, PacketsOnly
  <2> QED
    BY <2>1, <2>5, <2>6, LogCountsSame
<1> QED
  BY <1>4, <1>5

\* So is an answer, in the second tree of the last command.
LEMMA handleReceivedDataCounted ==
  ASSUME LogOK, CountOK, NEW a \in Answers, handleReceivedData(a)
  PROVE  LogCounts(node', packets', log', split')
<1> DEFINE h == lastProcessedPacket
           m == merge(node, packets[h].receivedRoot, a)
           k == lastPacket(h)
           ks == packets[h].streamPackets
           sp == [ks EXCEPT ![k] = [ks[k] EXCEPT !.receivedLeafNode = m.leaf]]
<1>0. a \in Texts
  BY InputsAreTexts
<1>1. /\ TreesFit(node, packets) /\ Forest(node) /\ log \in Seq(LogLines)
      /\ LogCounts(node, packets, log, split)
  BY DEF LogOK, StateOK, TreesFit, LogReads, CountOK, handleReceivedData, Reads
<1>2. h \in DOMAIN packets /\ log # <<>> /\ log[Len(log)].header = h
  BY DEF LogOK, LastLine, StateOK, handleReceivedData
<1>3. /\ node' = m.nodes /\ split' = split \cup m.split
      /\ packets' = [packets EXCEPT ![h] = [packets[h] EXCEPT !.streamPackets = sp]]
      /\ log' = AnsweredLog(log, a)
  BY DEF handleReceivedData, AnsweredLog
<1>4. /\ packets[h].receivedRoot \in DOMAIN node /\ node[packets[h].receivedRoot].parent = 0
      /\ packets[h] \in Trees
  BY <1>1, <1>2 DEF TreesFit, TreeFits, IsRoot
<1>5. /\ Merged(node, packets[h].receivedRoot, a, m.nodes, m.leaf)
      /\ CountsMerged(node, packets[h].receivedRoot, a, m)
  BY <1>0, <1>1, <1>4, mergeFacts, mergeCounts
<1> HIDE DEF m, h, sp
<1>6. MergedAndCounted(node, packets[h].receivedRoot, a, m)
  BY <1>5 DEF MergedAndCounted
<1>7. PICK f \in Seq(LogLines), x \in LogLines : log = Append(f, x)
  BY <1>1, <1>2, LogEnds
<1>8. LastLineIs(f, x, a, log)
  BY <1>0, <1>7, LastLineAnswered
<1> DEFINE y == Answered(x, a)
<1>9. Completed(x, a, y)
  BY <1>0, AnsweredFacts
<1>10. log' = Append(f, y) /\ x.header = h
  BY <1>2, <1>3, <1>8 DEF LastLineIs
<1> HIDE DEF y
<1>11. LogCounts(m.nodes, packets, log', split \cup m.split)
  BY <1>0, <1>1, <1>2, <1>6, <1>7, <1>9, <1>10, AnswerCounted
<1>12. SameRoots(packets, packets')
  BY <1>2, <1>3, <1>4, PacketsOnly
<1> QED
  BY <1>3, <1>11, <1>12, LogCountsSame

\* A time changes no count.
LEMMA handleResponseTimeCounted ==
  ASSUME LogOK, CountOK, handleResponseTime
  PROVE  LogCounts(node', packets', log', split')
<1> DEFINE h == lastProcessedPacket
           k == lastPacket(h)
           ks == packets[h].streamPackets
           sp == [ks EXCEPT ![k] = [ks[k] EXCEPT !.ac = ac]]
<1>1. LogCounts(node, packets, log, split)
  BY DEF CountOK, handleResponseTime, Reads
<1>2. h \in DOMAIN packets
  BY DEF LogOK, StateOK, handleResponseTime
<1>3. packets[h] \in Trees
  BY <1>2 DEF LogOK, StateOK, TreesFit, TreeFits
<1>4. /\ packets' = [packets EXCEPT ![h] = [packets[h] EXCEPT !.streamPackets = sp]]
      /\ UNCHANGED <<node, log, split>>
  BY DEF handleResponseTime
<1> HIDE DEF h, sp
<1>5. SameRoots(packets, packets')
  BY <1>2, <1>3, <1>4, PacketsOnly
<1> QED
  BY <1>1, <1>4, <1>5, LogCountsSame

\* Every step keeps the counts while the log is parsed; the other steps end the parsing or
\* come after it.
LEMMA NextCountOK == LogOK /\ CountOK /\ [Next]_vars => CountOK'
<1> SUFFICES ASSUME LogOK, CountOK, [Next]_vars, phase' = "parse"
             PROVE  LogCounts(node', packets', log', split')
  BY DEF CountOK
<1>1. ASSUME NEW h \in Headers, NEW d \in Sent, handleTransmittedData(h, d)
      PROVE  LogCounts(node', packets', log', split')
  BY <1>1, handleTransmittedDataCounted
<1>2. ASSUME NEW a \in Answers, handleReceivedData(a)
      PROVE  LogCounts(node', packets', log', split')
  BY <1>2, handleReceivedDataCounted
<1>3. CASE handleResponseTime
  BY <1>3, handleResponseTimeCounted
<1>4. CASE UNCHANGED vars
  BY <1>4 DEF vars, CountOK
<1>5. ~StartWriting
  BY DEF StartWriting
<1>6. ASSUME NEW h \in Headers, handleTransmittedDataThrows(h) PROVE FALSE
  BY <1>5, <1>6 DEF handleTransmittedDataThrows
<1>7. CASE handleResponseTimeThrows \/ parseFileEnds
  BY <1>5, <1>7 DEF handleResponseTimeThrows, parseFileEnds
<1>8. ASSUME NEW n, simplifyNodes(n) PROVE FALSE
  BY <1>8 DEF simplifyNodes
<1>9. ASSUME NEW h, write(h) PROVE FALSE
  BY <1>9 DEF write
<1>10. CASE simplifyNodesEnds \/ writeEnds
  BY <1>10 DEF simplifyNodesEnds, writeEnds
<1> QED
  BY <1>1, <1>2, <1>3, <1>4, <1>6, <1>7, <1>8, <1>9, <1>10 DEF Next

\* The counts are those of the log throughout the parsing.
LEMMA SpecCountOK == Spec => [](LogOK /\ CountOK)
<1> QED
  BY InitLogOK, InitCountOK, NextLogOK, NextCountOK, PTL DEF Spec

\* What follows the header in a sequence that begins with it.
LEMMA HeaderAndCut ==
  ASSUME NEW h \in Seq(Bytes), Len(h) = HeaderLength, NEW p \in Seq(Bytes), IsPrefix(h, p)
  PROVE  Cut(p) \in Seq(Bytes) /\ p = Both(h, Cut(p))
<1> DEFINE k == HeaderLength
<1>1. Len(h) \in Nat /\ Len(h) <= Len(p) /\ Len(p) \in Nat /\ \A i \in 1 .. Len(h) : h[i] = p[i]
  BY PrefixFacts
<1>2. k \in 0 .. Len(p) /\ k = Len(h)
  BY <1>1
<1>3. SubSeq(p, 1, k) \in Seq(Bytes) /\ Len(SubSeq(p, 1, k)) = k
      /\ \A i \in 1 .. k : SubSeq(p, 1, k)[i] = p[i]
  <2> HIDE DEF k
  <2> QED
    BY <1>2, FrontFacts
<1>4. /\ SubSeq(p, k + 1, Len(p)) \in Seq(Bytes)
      /\ Both(SubSeq(p, 1, k), SubSeq(p, k + 1, Len(p))) = p
  BY <1>2, CutAndJoin
<1> DEFINE s == SubSeq(p, 1, k)
<1>5. s = h
  <2>1. s \in Seq(Bytes) /\ Len(s) = Len(h) /\ \A i \in 1 .. Len(h) : s[i] = h[i]
    BY <1>1, <1>2, <1>3
  <2> HIDE DEF s
  <2> QED
    BY <2>1, SameSeq
<1> QED
  BY <1>4, <1>5 DEF Cut

\* Sequences that begin alike go on alike.
LEMMA PrefixAfter ==
  ASSUME NEW h \in Seq(Bytes), NEW x \in Seq(Bytes), NEW y \in Seq(Bytes)
  PROVE  IsPrefix(Both(h, x), Both(h, y)) <=> IsPrefix(x, y)
<1> DEFINE a == Both(h, x)
           b == Both(h, y)
           L == Len(h)
<1>1. L \in Nat /\ Len(x) \in Nat /\ Len(y) \in Nat
  OBVIOUS
<1>2. a \in Seq(Bytes) /\ Len(a) = L + Len(x) /\ (\A i \in 1 .. L : a[i] = h[i])
      /\ \A i \in 1 .. Len(x) : a[L + i] = x[i]
  BY BothFacts
<1>3. b \in Seq(Bytes) /\ Len(b) = L + Len(y) /\ (\A i \in 1 .. L : b[i] = h[i])
      /\ \A i \in 1 .. Len(y) : b[L + i] = y[i]
  BY BothFacts
<1> HIDE DEF a, b, L
<1>4. ASSUME IsPrefix(a, b) PROVE IsPrefix(x, y)
  <2>1. Len(a) <= Len(b) /\ \A i \in 1 .. Len(a) : a[i] = b[i]
    BY <1>2, <1>3, <1>4, PrefixFacts
  <2>2. Len(x) <= Len(y)
    BY <1>1, <1>2, <1>3, <2>1
  <2>3. ASSUME NEW i \in 1 .. Len(x) PROVE x[i] = y[i]
    <3>1. L + i \in 1 .. Len(a) /\ i \in 1 .. Len(y)
      BY <1>1, <1>2, <2>2
    <3> QED
      BY <1>2, <1>3, <2>1, <3>1
  <2> QED
    BY <2>2, <2>3, PrefixFacts
<1>5. ASSUME IsPrefix(x, y) PROVE IsPrefix(a, b)
  <2>1. Len(x) <= Len(y) /\ \A i \in 1 .. Len(x) : x[i] = y[i]
    BY <1>5, PrefixFacts
  <2>2. Len(a) <= Len(b)
    BY <1>1, <1>2, <1>3, <2>1
  <2>3. ASSUME NEW i \in 1 .. Len(a) PROVE a[i] = b[i]
    <3>1. CASE i <= L
      <4>1. i \in 1 .. L
        BY <1>1, <1>2, <3>1
      <4> QED
        BY <1>2, <1>3, <4>1
    <3>2. CASE i > L
      <4>1. i - L \in 1 .. Len(x) /\ i - L \in 1 .. Len(y) /\ L + (i - L) = i
        BY <1>1, <1>2, <2>1, <3>2
      <4>2. a[L + (i - L)] = x[i - L] /\ b[L + (i - L)] = y[i - L]
        BY <1>2, <1>3, <4>1
      <4> QED
        BY <2>1, <4>1, <4>2
    <3> QED
      BY <1>1, <1>2, <3>1, <3>2
  <2> QED
    BY <1>2, <1>3, <2>2, <2>3, PrefixFacts
<1> QED
  BY <1>4, <1>5 DEF a, b

\* The texts that pass a node are those that reach it as it is written.
LEMMA PassingReaches ==
  ASSUME StateOK, NEW h \in Headers, NEW root, IsRoot(node, root, h), NEW n \in Under(node, root),
         NEW ss \in Seq(Texts)
  PROVE  Cardinality(Passing(node, n, h, ss)) = Reaching(n, ss)
<1> DEFINE q == node[n].parent
           b == node[n].data[1]
           p == Path(node)[q]
           c == Cut(p)
<1>1. Forest(node) /\ h \in Seq(Bytes) /\ Len(h) = HeaderLength
  BY InputsAreTexts DEF StateOK, TreesFit, Texts
<1>2. root \in DOMAIN node /\ Path(node)[root] = h
  BY DEF IsRoot
<1>3. n \in DOMAIN node /\ q \in DOMAIN node /\ p \in Seq(Bytes) /\ (q = root \/ q \in Under(node, root))
  BY <1>1, KeyFacts
<1>4. IsPrefix(h, p)
  <2>1. CASE q = root
    BY <1>1, <1>2, <2>1, PrefixOfItself
  <2>2. CASE q \in Under(node, root)
    <3>1. RootIsFront(Path(node), root, q)
      BY <1>1, <1>2, <2>2, RootIsShorter
    <3> QED
      BY <1>2, <3>1 DEF RootIsFront
  <2> QED
    BY <1>3, <2>1, <2>2
<1>5. b \in Bytes
  <2>1. node[n].data \in Texts
    BY <1>1, <1>3, ForestFacts, LinkedFacts
  <2> QED
    BY <2>1, TextFacts
<1>6. Written(q) = c
  BY <1>3, WrittenIsCut
<1>7. Key(node, n) = Both(p, <<b>>)
  BY DEF Key
<1> HIDE DEF b, p, c, q
<1>9. c \in Seq(Bytes) /\ p = Both(h, c) /\ <<b>> \in Seq(Bytes)
  BY <1>1, <1>3, <1>4, <1>5, HeaderAndCut DEF c
<1> DEFINE e == Both(c, <<b>>)
<1>8. e \in Seq(Bytes) /\ e = c \o <<b>>
  BY <1>9, BothFacts DEF Both
<1>10. Key(node, n) = Both(h, e)
  <2>1. Both(Both(h, c), <<b>>) = Both(h, Both(c, <<b>>))
    BY <1>1, <1>9, BothAssoc
  <2> QED
    BY <1>7, <1>9, <2>1
<1> HIDE DEF e
<1>11. ASSUME NEW i \in DOMAIN ss
       PROVE  IsPrefix(Key(node, n), Both(h, ss[i])) <=> IsPrefix(e, ss[i])
  <2> DEFINE t == ss[i]
  <2>1. t \in Seq(Bytes)
    BY DEF Texts
  <2> HIDE DEF t
  <2>2. IsPrefix(Both(h, e), Both(h, t)) <=> IsPrefix(e, t)
    BY <1>1, <1>8, <2>1, PrefixAfter
  <2> QED
    BY <1>10, <2>2 DEF t
<1>12. Passing(node, n, h, ss) = {i \in DOMAIN ss : IsPrefix(c \o <<b>>, ss[i])}
  BY <1>8, <1>11 DEF Passing
<1> QED
  BY <1>6, <1>12 DEF Reaching, b, q

\* The invariant of the counts says what CountsExact says.
LEMMA CountsAreExact == LogOK /\ CountOK => CountsExact
<1> SUFFICES ASSUME LogOK, CountOK, phase = "parse", NEW h \in DOMAIN packets
             PROVE  LET es  == Entries(h)
                        out == [i \in DOMAIN es |-> es[i].sent]
                        in  == FlattenSeq([i \in DOMAIN es |-> es[i].answers])
                    IN  /\ node[packets[h].root].count = Len(out)
                        /\ node[packets[h].receivedRoot].count = Len(in)
                        /\ \A n \in InTree \ (Roots \cup split) :
                             /\ RootAbove(n) = packets[h].root =>
                                  node[n].count = Reaching(n, out)
                             /\ RootAbove(n) = packets[h].receivedRoot =>
                                  node[n].count = Reaching(n, in)
  BY DEF CountsExact
<1> DEFINE es  == Entries(h)
           out == SentSeq(es)
           in  == AnswerSeq(es)
           r   == packets[h].root
           b   == packets[h].receivedRoot
<1>1. StateOK /\ h \in Headers /\ TreeFits(node, packets[h], h)
  BY DEF LogOK, StateOK, TreesFit
<1>2. IsRoot(node, r, h) /\ IsRoot(node, b, h)
  BY <1>1 DEF TreeFits
<1>3. es = EntriesOf(log, h)
  BY DEF Entries, EntriesOf
<1>4. Counted(node, r, h, out, split) /\ Counted(node, b, h, in, split)
  BY <1>3 DEF CountOK, LogCounts, TreeCounts
<1> HIDE DEF es
<1>5. ASSUME NEW n \in InTree \ (Roots \cup split)
      PROVE  /\ RootAbove(n) = r => node[n].count = Reaching(n, out)
             /\ RootAbove(n) = b => node[n].count = Reaching(n, in)
  <2>1. n \in DOMAIN node /\ node[n].parent # 0 /\ n \notin split
    BY <1>1, <1>5, RootsFacts DEF InTree
  <2>2. RootAbove(n) = Top(node)[n]
    BY <1>1, <2>1, RootAboveIsTop
  <2> HIDE DEF r, b, out, in
  <2>3. ASSUME RootAbove(n) = r PROVE node[n].count = Reaching(n, out)
    <3>1. n \in Under(node, r) \ split
      BY <2>1, <2>2, <2>3 DEF Under
    <3> QED
      BY <1>1, <1>2, <1>4, <3>1, PassingReaches DEF Counted
  <2>4. ASSUME RootAbove(n) = b PROVE node[n].count = Reaching(n, in)
    <3>1. n \in Under(node, b) \ split
      BY <2>1, <2>2, <2>4 DEF Under
    <3> QED
      BY <1>1, <1>2, <1>4, <3>1, PassingReaches DEF Counted
  <2> QED
    BY <2>3, <2>4
<1>6. node[r].count = Len(out) /\ node[b].count = Len(in)
  BY <1>4 DEF Counted
<1> QED
  BY <1>5, <1>6, Zenon DEF SentSeq, AnswerSeq, AnswerLists, es

\* While a log is read, the count of every root is the number of its commands or answers,
\* and the count of every node that no division touched is the number of those that pass it
\* (Tree.merge, Node.incrementCount), for every log and any number of lines.
THEOREM CountsFollowTheLog == Spec => []CountsExact
<1> QED
  BY SpecCountOK, CountsAreExact, PTL
=============================================================================
