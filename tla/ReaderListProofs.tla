-------------------------- MODULE ReaderListProofs --------------------------
(***************************************************************************)
(* SCardListReaders for every set of readers, of announcements and of      *)
(* buffer sizes: the lists are complete, the calls stay in their buffers,  *)
(* the memory handed out is what SCardFreeMemory finds, and the names the  *)
(* proxy announces are those the application is shown.                     *)
(***************************************************************************)
EXTENDS ReaderList, FiniteSetTheorems, NaturalsInduction, WellFoundedInduction, SequenceTheorems, TLAPS

-----------------------------------------------------------------------------
(* Induction over numbers, and lists that are serialised name by name *)

(* Induction, with the set of the good numbers in place of a predicate. *)
LEMMA SetInduction ==
  ASSUME NEW S, 0 \in S, \A n \in Nat : n \in S => n + 1 \in S
  PROVE  \A n \in Nat : n \in S
<1>0. 0 \in S /\ (\A n \in Nat : n \in S => n + 1 \in S)
  OBVIOUS
<1> DEFINE T == {n \in Nat : n \notin S}
<1> SUFFICES ASSUME T # {} PROVE FALSE
  OBVIOUS
<1>1. T \subseteq Nat
  OBVIOUS
<1>2. \E x \in T : \A y \in T : ~(<<y, x>> \in OpToRel(<, Nat))
  BY <1>1, NatLessThanWellFounded, WFMin, Zenon
<1>3. PICK x \in T : \A y \in T : ~(<<y, x>> \in OpToRel(<, Nat))
  BY <1>2
<1>4. \A y \in T : ~(y < x)
  BY <1>3 DEF OpToRel
<1>5. x # 0 /\ x \in Nat
  BY <1>3
<1>6. x - 1 \in Nat /\ x - 1 \notin T /\ (x - 1) + 1 = x
  BY <1>4, <1>5
<1>7. x - 1 \in S
  BY <1>6
<1>8. x \in S
  BY <1>0, <1>6, <1>7
<1> QED
  BY <1>3, <1>8

\* The partial results of Terminated.
Partial(list, mark, f) ==
  f = [n \in 0 .. Len(list) |-> IF n = 0 THEN <<>> ELSE f[n - 1] \o Marked(list[n], mark)]

LEMMA PartialExists ==
  ASSUME NEW mark, NEW list, Len(list) \in Nat
  PROVE  \E f : Partial(list, mark, f)
<1> DEFINE More(x, n) == x \o Marked(list[n], mark)
           Upto(m, f) == f = [n \in 0 .. m |-> IF n = 0 THEN <<>> ELSE More(f[n - 1], n)]
           S == {m \in Nat : \E f : Upto(m, f)}
<1> HIDE DEF More
<1>1. 0 \in S
  <2> DEFINE f == [n \in 0 .. 0 |-> <<>>]
  <2>1. Upto(0, f)
    OBVIOUS
  <2> QED BY <2>1
<1>2. \A m \in Nat : m \in S => m + 1 \in S
  <2> SUFFICES ASSUME NEW m \in Nat, m \in S PROVE m + 1 \in S
    OBVIOUS
  <2> HIDE DEF Upto
  <2>0. PICK f : Upto(m, f)
    OBVIOUS
  <2>a. SUFFICES \E g : Upto(m + 1, g)
    OBVIOUS
  <2> USE DEF Upto
  <2> DEFINE g == [n \in 0 .. m + 1 |-> IF n = 0 THEN <<>> ELSE More(f[n - 1], n)]
  <2>1. \A n \in 0 .. m : g[n] = f[n]
    BY <2>0
  <2>2. \A n \in 0 .. m + 1 : n # 0 => n - 1 \in 0 .. m
    OBVIOUS
  <2>3. Upto(m + 1, g)
    BY <2>1, <2>2
  <2> QED BY <2>3
<1> HIDE DEF S
<1>3. Len(list) \in S
  BY <1>1, <1>2, SetInduction
<1> QED
  BY <1>3 DEF S, Partial, More

LEMMA TerminatedIsPartial ==
  ASSUME NEW mark, NEW list, Len(list) \in Nat
  PROVE  \E f : Partial(list, mark, f) /\ Terminated(list, mark) = f[Len(list)]
<1> DEFINE f == CHOOSE g : Partial(list, mark, g)
<1>1. Partial(list, mark, f)
  BY PartialExists
<1>2. Terminated(list, mark) = f[Len(list)]
  BY DEF Terminated, Partial
<1> QED BY <1>1, <1>2

\* The partial lists of two lists that begin alike are alike.
LEMMA PartialsAgree ==
  ASSUME NEW mark, NEW a, NEW b, NEW f, NEW g, Partial(a, mark, f), Partial(b, mark, g),
         Len(a) \in Nat, Len(b) \in Nat,
         NEW n \in Nat, n <= Len(a), n <= Len(b), \A i \in 1 .. n : a[i] = b[i]
  PROVE  f[n] = g[n]
<1> DEFINE More(x, y) == x \o Marked(y, mark)
           S == {m \in Nat : m <= n => f[m] = g[m]}
<1>0. \A m \in Nat : m <= n =>
        /\ f[m] = IF m = 0 THEN <<>> ELSE More(f[m - 1], a[m])
        /\ g[m] = IF m = 0 THEN <<>> ELSE More(g[m - 1], b[m])
  <2>1. \A m \in Nat : m <= n => m \in 0 .. Len(a) /\ m \in 0 .. Len(b)
    OBVIOUS
  <2>2. /\ \A m \in 0 .. Len(a) : f[m] = IF m = 0 THEN <<>> ELSE More(f[m - 1], a[m])
        /\ \A m \in 0 .. Len(b) : g[m] = IF m = 0 THEN <<>> ELSE More(g[m - 1], b[m])
    BY Zenon DEF Partial
  <2> HIDE DEF More
  <2> QED BY <2>1, <2>2
<1> HIDE DEF More
<1>1. 0 \in S
  BY <1>0
<1>2. \A m \in Nat : m \in S => m + 1 \in S
  <2> SUFFICES ASSUME NEW m \in Nat, m <= n => f[m] = g[m], m + 1 <= n
               PROVE  f[m + 1] = g[m + 1]
    OBVIOUS
  <2>1. f[m] = g[m] /\ a[m + 1] = b[m + 1]
    OBVIOUS
  <2>2. /\ f[m + 1] = More(f[(m + 1) - 1], a[m + 1])
        /\ g[m + 1] = More(g[(m + 1) - 1], b[m + 1])
    BY <1>0
  <2>3. (m + 1) - 1 = m
    OBVIOUS
  <2> QED BY <2>1, <2>2, <2>3
<1> HIDE DEF S
<1>3. n \in S
  BY <1>1, <1>2, SetInduction
<1> QED
  BY <1>3 DEF S

LEMMA TerminatedEmpty ==
  ASSUME NEW mark
  PROVE  Terminated(<<>>, mark) = <<>>
<1>1. Len(<<>>) = 0
  OBVIOUS
<1>2. PICK f : Partial(<<>>, mark, f) /\ Terminated(<<>>, mark) = f[0]
  BY <1>1, TerminatedIsPartial
<1>3. f[0] = <<>>
  <2>1. \A n \in 0 .. Len(<<>>) : f[n] = IF n = 0 THEN <<>> ELSE f[n - 1] \o Marked(<<>>[n], mark)
    BY <1>2, Zenon DEF Partial
  <2>2. 0 \in 0 .. Len(<<>>)
    BY <1>1
  <2> QED BY <2>1, <2>2, Zenon
<1> QED BY <1>2, <1>3

\* A list is serialised name by name.
LEMMA TerminatedStep ==
  ASSUME NEW mark, NEW S, NEW list \in Seq(S), NEW n \in Nat, n + 1 <= Len(list)
  PROVE  Terminated(SubSeq(list, 1, n + 1), mark)
           = Terminated(SubSeq(list, 1, n), mark) \o Marked(list[n + 1], mark)
<1> DEFINE b == SubSeq(list, 1, n + 1)
           a == SubSeq(list, 1, n)
<1>1. /\ Len(a) = n /\ Len(b) = n + 1 /\ n + 1 \in Nat
      /\ \A i \in 1 .. n : a[i] = b[i]
      /\ b[n + 1] = list[n + 1]
  OBVIOUS
<1> HIDE DEF a, b
<1>2. PICK f : Partial(a, mark, f) /\ Terminated(a, mark) = f[n]
  BY <1>1, TerminatedIsPartial
<1>3. PICK g : Partial(b, mark, g) /\ Terminated(b, mark) = g[n + 1]
  BY <1>1, TerminatedIsPartial
<1>4. f[n] = g[n]
  BY <1>1, <1>2, <1>3, PartialsAgree
<1>5. g[n + 1] = g[n] \o Marked(b[n + 1], mark)
  <2>1. \A m \in 0 .. Len(b) : g[m] = IF m = 0 THEN <<>> ELSE g[m - 1] \o Marked(b[m], mark)
    BY <1>3, Zenon DEF Partial
  <2>2. n + 1 \in 0 .. Len(b) /\ n + 1 # 0 /\ (n + 1) - 1 = n
    BY <1>1
  <2> QED BY <2>1, <2>2, Zenon
<1>6. Terminated(b, mark) = Terminated(a, mark) \o Marked(list[n + 1], mark)
  BY <1>1, <1>2, <1>3, <1>4, <1>5, Zenon
<1> QED BY <1>6 DEF a, b

LEMMA TextJoinOf ==
  ASSUME NEW D, NEW x \in Seq(D), NEW y \in Seq(D)
  PROVE  x \o y \in Seq(D) /\ Len(x \o y) = Len(x) + Len(y)
<1>1. x \o y \in Seq(D)
  BY ConcatProperties, Zenon
<1>2. Len(x \o y) = Len(x) + Len(y)
  BY ConcatProperties, Zenon
<1> QED BY <1>1, <1>2

LEMMA MarkedIsTextOf ==
  ASSUME NEW D, NEW mark \in D, NEW text \in Seq(D)
  PROVE  Marked(text, mark) \in Seq(D)
<1>1. <<mark>> \in Seq(D) /\ <<>> \in Seq(D)
  OBVIOUS
<1>2. text \o <<mark>> \in Seq(D)
  BY <1>1, TextJoinOf
<1> QED BY <1>1, <1>2 DEF Marked

\* A list of texts is serialised to a text.
LEMMA TerminatedTypeOf ==
  ASSUME NEW D, NEW mark \in D, NEW list \in Seq(Seq(D))
  PROVE  Terminated(list, mark) \in Seq(D)
<1> DEFINE S == {n \in Nat : n <= Len(list) => Terminated(SubSeq(list, 1, n), mark) \in Seq(D)}
<1>1. 0 \in S
  <2>1. SubSeq(list, 1, 0) = <<>> /\ <<>> \in Seq(D)
    OBVIOUS
  <2> QED BY <2>1, TerminatedEmpty
<1>2. \A n \in Nat : n \in S => n + 1 \in S
  <2> SUFFICES ASSUME NEW n \in Nat, n \in S, n + 1 <= Len(list)
               PROVE  Terminated(SubSeq(list, 1, n + 1), mark) \in Seq(D)
    OBVIOUS
  <2>1. n + 1 \in 1 .. Len(list) /\ (n + 1) - 1 = n /\ n <= Len(list)
    OBVIOUS
  <2>2. Terminated(SubSeq(list, 1, n + 1), mark)
          = Terminated(SubSeq(list, 1, n), mark) \o Marked(list[n + 1], mark)
    <3>1. list \in Seq(Seq(D))
      OBVIOUS
    <3> QED BY <3>1, TerminatedStep, Zenon
  <2>3. Terminated(SubSeq(list, 1, n), mark) \in Seq(D)
    BY <2>1
  <2>4. list[n + 1] \in Seq(D)
    BY <2>1
  <2>5. Marked(list[n + 1], mark) \in Seq(D)
    BY <2>4, MarkedIsTextOf
  <2>6. Terminated(SubSeq(list, 1, n), mark) \o Marked(list[n + 1], mark) \in Seq(D)
    BY <2>3, <2>5, TextJoinOf
  <2> QED BY <2>2, <2>6, Zenon
<1> HIDE DEF S
<1>3. Len(list) \in S /\ Len(list) \in Nat
  BY <1>1, <1>2, SetInduction
<1>4. SubSeq(list, 1, Len(list)) = list
  BY SubSeqFull
<1>5. Terminated(SubSeq(list, 1, Len(list)), mark) \in Seq(D)
  BY <1>3 DEF S
<1> QED
  BY <1>4, <1>5, Zenon

\* Two lists one after the other.
LEMMA TerminatedJoinOf ==
  ASSUME NEW D, NEW mark \in D, NEW a \in Seq(Seq(D)), NEW b \in Seq(Seq(D))
  PROVE  Terminated(a \o b, mark) = Terminated(a, mark) \o Terminated(b, mark)
<1>0. \A x, y, z \in Seq(D) : (x \o y) \o z = x \o (y \o z)
  <2> SUFFICES ASSUME NEW x \in Seq(D), NEW y \in Seq(D), NEW z \in Seq(D)
               PROVE  (x \o y) \o z = x \o (y \o z)
    OBVIOUS
  <2> QED BY ConcatAssociative, SMTT(40)
<1> DEFINE Joins(n) == Terminated(a \o SubSeq(b, 1, n), mark)
                         = Terminated(a, mark) \o Terminated(SubSeq(b, 1, n), mark)
           S == {n \in Nat : n <= Len(b) => Joins(n)}
<1>1. 0 \in S
  <2>1. SubSeq(b, 1, 0) = <<>> /\ a \o <<>> = a
    OBVIOUS
  <2>2. Terminated(a, mark) \o <<>> = Terminated(a, mark)
    BY TerminatedTypeOf
  <2> QED BY <2>1, <2>2, TerminatedEmpty
<1>2. \A n \in Nat : n \in S => n + 1 \in S
  <2> HIDE DEF Joins
  <2> SUFFICES ASSUME NEW n \in Nat, n \in S, n + 1 <= Len(b) PROVE Joins(n + 1)
    OBVIOUS
  <2> USE DEF Joins
  <2> DEFINE c == a \o SubSeq(b, 1, n + 1)
             d == SubSeq(b, 1, n)
             k == Len(a) + n + 1
  <2>1. /\ n + 1 \in 1 .. Len(b) /\ (n + 1) - 1 = n /\ n <= Len(b)
        /\ d \in Seq(Seq(D)) /\ SubSeq(b, 1, n + 1) \in Seq(Seq(D))
        /\ b[n + 1] \in Seq(D)
    OBVIOUS
  <2>2. /\ c \in Seq(Seq(D)) /\ Len(c) = k /\ k \in 1 .. Len(c) /\ k - 1 = Len(a) + n
        /\ c[k] = b[n + 1]
    BY <2>1
  <2>3. SubSeq(c, 1, k) = c /\ SubSeq(c, 1, k - 1) = a \o d
    <3>1. SubSeq(c, 1, k) = c
      <4>1. c \in Seq(Seq(D)) /\ k = Len(c)
        BY <2>2
      <4> HIDE DEF c, k
      <4> QED BY <4>1, SubSeqFull, Zenon
    <3>2. SubSeq(c, 1, k - 1) \in Seq(Seq(D)) /\ a \o d \in Seq(Seq(D))
      BY <2>1, <2>2, SMTT(40)
    <3>3. Len(SubSeq(c, 1, k - 1)) = Len(a) + n /\ Len(a \o d) = Len(a) + n
      BY <2>1, <2>2
    <3>4. \A i \in 1 .. Len(a) + n : SubSeq(c, 1, k - 1)[i] = (a \o d)[i]
      BY <2>1, <2>2
    <3> HIDE DEF c, d, k
    <3>5. SubSeq(c, 1, k - 1) = a \o d
      BY <3>2, <3>3, <3>4, SeqEqual
    <3> QED BY <3>1, <3>5
  <2>4. Terminated(c, mark) = Terminated(a \o d, mark) \o Marked(b[n + 1], mark)
    <3> HIDE DEF c, d, k
    <3>1. c \in Seq(Seq(D)) /\ k - 1 \in Nat /\ (k - 1) + 1 = k /\ (k - 1) + 1 <= Len(c)
      BY <2>2
    <3>2. Terminated(SubSeq(c, 1, (k - 1) + 1), mark)
            = Terminated(SubSeq(c, 1, k - 1), mark) \o Marked(c[(k - 1) + 1], mark)
      BY <3>1, TerminatedStep, Zenon
    <3> QED BY <2>2, <2>3, <3>1, <3>2, Zenon
  <2>5. Terminated(SubSeq(b, 1, n + 1), mark) = Terminated(d, mark) \o Marked(b[n + 1], mark)
    <3>1. b \in Seq(Seq(D))
      OBVIOUS
    <3> QED BY <3>1, TerminatedStep, Zenon
  <2>6. Terminated(a \o d, mark) = Terminated(a, mark) \o Terminated(d, mark)
    BY <2>1
  <2>7. /\ Terminated(a, mark) \in Seq(D) /\ Terminated(d, mark) \in Seq(D)
        /\ Marked(b[n + 1], mark) \in Seq(D)
    BY <2>1, TerminatedTypeOf, MarkedIsTextOf
  <2> HIDE DEF c, d, k
  <2>9. (Terminated(a, mark) \o Terminated(d, mark)) \o Marked(b[n + 1], mark)
          = Terminated(a, mark) \o (Terminated(d, mark) \o Marked(b[n + 1], mark))
    BY <1>0, <2>7, Zenon
  <2> QED
    <3>1. Terminated(c, mark) = Terminated(a, mark) \o Terminated(SubSeq(b, 1, n + 1), mark)
      BY <2>4, <2>5, <2>6, <2>9, Zenon
    <3> QED BY <3>1, Zenon DEF c
<1> HIDE DEF S
<1>3. Len(b) \in S
  <2>1. Len(b) \in Nat
    OBVIOUS
  <2> QED BY <1>1, <1>2, <2>1, SetInduction, Zenon
<1>4. SubSeq(b, 1, Len(b)) = b
  BY SubSeqFull
<1>5. Terminated(a \o SubSeq(b, 1, Len(b)), mark) = Terminated(a, mark) \o Terminated(SubSeq(b, 1, Len(b)), mark)
  BY <1>3 DEF S
<1> QED
  BY <1>4, <1>5, Zenon

LEMMA JoinFactsOf ==
  ASSUME NEW D, NEW a \in Seq(D), NEW b \in Seq(D)
  PROVE  /\ a \o b \in Seq(D) /\ Len(a \o b) = Len(a) + Len(b)
         /\ \A q \in 1 .. Len(a) : (a \o b)[q] = a[q]
         /\ \A q \in 1 .. Len(b) : (a \o b)[Len(a) + q] = b[q]
         /\ \A q \in 1 .. Len(a) + Len(b) :
              q > Len(a) => q - Len(a) \in 1 .. Len(b) /\ (a \o b)[q] = b[q - Len(a)]
<1> DEFINE c == a \o b
           m == Len(a)
           n == Len(b)
<1>1. /\ c \in Seq(D) /\ Len(c) = m + n
      /\ \A q \in 1 .. m + n : c[q] = IF q <= m THEN a[q] ELSE b[q - m]
  BY ConcatProperties, Zenon
<1>2. m \in Nat /\ n \in Nat
  OBVIOUS
<1> HIDE DEF c, m, n
<1>3. \A q \in 1 .. m : q \in 1 .. m + n /\ q <= m
  BY <1>2
<1>4. \A q \in 1 .. n : m + q \in 1 .. m + n /\ ~(m + q <= m) /\ (m + q) - m = q
  BY <1>2
<1>5. \A q \in 1 .. m + n : q > m => q - m \in 1 .. n /\ ~(q <= m)
  BY <1>2
<1>6. \A q \in 1 .. m : c[q] = a[q]
  BY <1>1, <1>3, Zenon
<1>7. \A q \in 1 .. n : c[m + q] = b[q]
  BY <1>1, <1>4, Zenon
<1>8. \A q \in 1 .. m + n : q > m => q - m \in 1 .. n /\ c[q] = b[q - m]
  BY <1>1, <1>5, Zenon
<1> QED BY <1>1, <1>6, <1>7, <1>8 DEF c, m, n

\* The lists before and after a name.
LEMMA ListPartsOf ==
  ASSUME NEW D, NEW list \in Seq(Seq(D)), NEW j \in 1 .. Len(list)
  PROVE  /\ SubSeq(list, 1, j - 1) \in Seq(Seq(D)) /\ SubSeq(list, 1, j) \in Seq(Seq(D))
         /\ SubSeq(list, j + 1, Len(list)) \in Seq(Seq(D))
         /\ list = SubSeq(list, 1, j) \o SubSeq(list, j + 1, Len(list))
<1> DEFINE T == Seq(D)
           k == Len(list)
<1>1. list \in Seq(T) /\ k \in Nat /\ j \in Nat /\ j <= k /\ 1 <= j /\ \A i \in 1 .. k : list[i] \in T
  OBVIOUS
<1> HIDE DEF T, k
<1>2. SubSeq(list, 1, j - 1) \in Seq(T) /\ SubSeq(list, 1, j) \in Seq(T)
  BY <1>1
<1>3. /\ SubSeq(list, j + 1, k) \in Seq(T)
  BY <1>1
<1>4. SubSeq(list, 1, j) \o SubSeq(list, j + 1, k) = SubSeq(list, 1, k)
  BY <1>1, ConcatAdjacentSubSeq DEF k
<1>5. SubSeq(list, 1, k) = list
  BY <1>1, SubSeqFull DEF k
<1> QED BY <1>2, <1>3, <1>4, <1>5, Zenon DEF T, k

-----------------------------------------------------------------------------
(* The conversions *)

\* Names and announcements are texts of bytes.
Texts == Seq(Seq(Byte))

\* The least of some numbers.
LEMMA MinFacts ==
  ASSUME NEW P, P \subseteq Nat, P # {}
  PROVE  Min(P) \in P /\ \A y \in P : Min(P) <= y
<1>1. PICK x \in P : \A y \in P : ~(<<y, x>> \in OpToRel(<, Nat))
  BY NatLessThanWellFounded, WFMin, Zenon
<1>2. \A y \in P : x <= y
  <2>1. \A y \in P : y \in Nat
    OBVIOUS
  <2>2. \A y \in P : ~(y < x)
    BY <1>1, <2>1 DEF OpToRel
  <2>3. x \in Nat
    BY <1>1, <2>1
  <2> QED BY <2>1, <2>2, <2>3
<1>3. x \in P /\ \A y \in P : x =< y
  BY <1>1, <1>2, Zenon
<1>4. Min(P) \in P /\ \A y \in P : Min(P) =< y
  BY <1>3, Zenon DEF Min
<1> QED BY <1>4

\* The greatest of some positions.
LEMMA MaxFacts ==
  ASSUME NEW P, P \subseteq Nat, P # {}, NEW N \in Nat, \A v \in P : v <= N
  PROVE  Max(P) \in P /\ \A y \in P : y <= Max(P)
<1> DEFINE T == {n \in Nat : \A v \in P : v <= n}
<1>1. T \subseteq Nat /\ T # {}
  OBVIOUS
<1> HIDE DEF T
<1>2. Min(T) \in T /\ \A y \in T : Min(T) <= y
  BY <1>1, MinFacts
<1> DEFINE x == Min(T)
<1> HIDE DEF x
<1>3. x \in Nat /\ (\A v \in P : v <= x) /\ (\A y \in T : x <= y)
  BY <1>2 DEF T, x
<1>4. x \in P
  <2> SUFFICES ASSUME x \notin P PROVE FALSE
    OBVIOUS
  <2>1. \A v \in P : v < x
    BY <1>3
  <2>2. x # 0
    <3>1. PICK v \in P : TRUE
      OBVIOUS
    <3>2. v \in Nat /\ v < x
      BY <2>1, <3>1
    <3> QED BY <3>2
  <2>3. x - 1 \in T
    BY <1>3, <2>1, <2>2 DEF T
  <2> QED BY <1>3, <2>3
<1>5. \A y \in P : x >= y
  BY <1>3
<1> QED
  <2>1. Max(P) \in P /\ \A y \in P : Max(P) >= y
    BY <1>4, <1>5 DEF Max
  <2> QED BY <2>1

\* There is an n-th one.
LEMMA NthFacts ==
  ASSUME NEW P, NEW N \in Nat, P \subseteq 1 .. N, NEW n \in 1 .. Cardinality(P)
  PROVE  Nth(P, n) \in P /\ Cardinality({j \in P : j <= Nth(P, n)}) = n
<1> DEFINE below(m) == {j \in P : j <= m}
           S == {m \in Nat : \A k \in 1 .. Cardinality(below(m)) :
                               \E i \in P : Cardinality(below(i)) = k}
<1>a. \A j \in P : j \in Nat /\ 1 <= j /\ j <= N
  OBVIOUS
<1>0. IsFiniteSet(P) /\ \A m \in Nat : IsFiniteSet(below(m)) /\ Cardinality(below(m)) \in Nat
  <2>1. IsFiniteSet(P)
    <3>1. IsFiniteSet(1 .. N)
      BY FS_Interval
    <3> QED BY <3>1, FS_Subset, Zenon
  <2>2. \A m \in Nat : IsFiniteSet(below(m))
    BY <2>1, FS_Subset
  <2> HIDE DEF below
  <2> QED BY <2>1, <2>2, FS_CardinalityType
<1>1. 0 \in S
  <2>1. below(0) = {}
    <3>1. \A j \in P : ~(j <= 0)
      BY <1>a
    <3> QED BY <3>1, Zenon
  <2>2. Cardinality(below(0)) = 0
    BY <2>1, FS_EmptySet
  <2> HIDE DEF below
  <2>3. 1 .. Cardinality(below(0)) = {}
    BY <2>2
  <2> QED BY <2>3
<1>2. \A m \in Nat : m \in S => m + 1 \in S
  <2> SUFFICES ASSUME NEW m \in Nat, m \in S PROVE m + 1 \in S
    OBVIOUS
  <2>1. CASE m + 1 \in P
    <3>1. below(m + 1) = below(m) \cup {m + 1} /\ m + 1 \notin below(m)
      <4>1. (\A j \in P : j <= m + 1 <=> (j <= m \/ j = m + 1)) /\ m + 1 <= m + 1 /\ ~(m + 1 <= m)
        BY <1>a
      <4> QED BY <2>1, <4>1, Zenon
    <3>2. Cardinality(below(m + 1)) = Cardinality(below(m)) + 1
      <4> HIDE DEF below
      <4> QED BY <1>0, <3>1, FS_AddElement
    <3> HIDE DEF below
    <3> QED BY <1>0, <2>1, <3>2
  <2>2. CASE m + 1 \notin P
    <3>1. below(m + 1) = below(m)
      <4>1. \A j \in P : j <= m + 1 <=> j <= m
        BY <1>a, <2>2
      <4> QED BY <4>1, Zenon
    <3> HIDE DEF below
    <3> QED BY <3>1
  <2> QED BY <2>1, <2>2
<1>3. N \in S
  <2> HIDE DEF S
  <2> QED BY <1>1, <1>2, SetInduction
<1>4. below(N) = P
  BY <1>a
<1>5. \E i \in P : Cardinality(below(i)) = n
  <2> HIDE DEF below
  <2> QED BY <1>3, <1>4
<1> QED
  BY <1>5, Zenon DEF Nth

-----------------------------------------------------------------------------
\* The characters of Base64 and what they stand for.
LEMMA CharFacts ==
  ASSUME NEW s \in 0 .. 63
  PROVE  /\ base64_chars(s) \in 0 .. 255 /\ is_base64(base64_chars(s))
         /\ Sextet(base64_chars(s)) = s /\ base64_chars(s) # Equals
         /\ base64_chars(s) # Separator
<1>1. CASE s \in 0 .. 25
  <2>1. base64_chars(s) = 65 + s
    BY <1>1 DEF base64_chars
  <2> QED BY <1>1, <2>1 DEF is_base64, Sextet, Equals, Separator
<1>2. CASE s \in 26 .. 51
  <2>1. base64_chars(s) = 71 + s
    BY <1>2 DEF base64_chars
  <2> QED BY <1>2, <2>1 DEF is_base64, Sextet, Equals, Separator
<1>3. CASE s \in 52 .. 61
  <2>1. base64_chars(s) = s - 4
    BY <1>3 DEF base64_chars
  <2> QED BY <1>3, <2>1 DEF is_base64, Sextet, Equals, Separator
<1>4. CASE s = 62
  BY <1>4 DEF base64_chars, is_base64, Sextet, Equals, Separator
<1>5. CASE s = 63
  BY <1>5 DEF base64_chars, is_base64, Sextet, Equals, Separator
<1> QED BY <1>1, <1>2, <1>3, <1>4, <1>5

LEMMA EncodedIsText ==
  ASSUME NEW bytes \in Seq(Byte)
  PROVE  base64_encode(bytes) \in Seq(Byte)
<1> DEFINE n == Len(bytes)
<1>0. n \in Nat /\ \A i \in Nat \ {0} : i <= n => bytes[i] \in Byte
  OBVIOUS
<1> HIDE DEF n
<1> DEFINE byte(i) == IF i <= n THEN bytes[i] ELSE 0
           g(p) == 3 * ((p - 1) \div 4)
           k(p) == (p - 1) % 4
           six(p) == CASE k(p) = 0 -> byte(g(p) + 1) \div 4
                 [] k(p) = 1 -> (byte(g(p) + 1) % 4) * 16 + byte(g(p) + 2) \div 16
                 [] k(p) = 2 -> (byte(g(p) + 2) % 16) * 4 + byte(g(p) + 3) \div 64
                 [] k(p) = 3 -> byte(g(p) + 3) % 64
           last == 4 * ((n + 2) \div 3)
           char(p) == IF g(p) + k(p) > n THEN Equals ELSE base64_chars(six(p))
<1>1. last \in Nat
  BY <1>0
<1>2. \A i \in Nat \ {0} : byte(i) \in Byte
  BY <1>0 DEF Byte
<1> HIDE DEF last
<1>3. \A p \in 1 .. last : g(p) \in Nat /\ k(p) \in 0 .. 3
  <2> SUFFICES ASSUME NEW p \in 1 .. last PROVE g(p) \in Nat /\ k(p) \in 0 .. 3
    OBVIOUS
  <2>1. p - 1 \in Nat
    BY <1>1
  <2> QED BY <2>1
<1>4. \A p \in 1 .. last : six(p) \in 0 .. 63
  <2> HIDE DEF six
  <2> SUFFICES ASSUME NEW p \in 1 .. last PROVE six(p) \in 0 .. 63
    OBVIOUS
  <2> USE DEF six
  <2>1. /\ g(p) \in Nat /\ k(p) \in 0 .. 3
        /\ byte(g(p) + 1) \in Byte /\ byte(g(p) + 2) \in Byte /\ byte(g(p) + 3) \in Byte
    <3>1. g(p) \in Nat /\ k(p) \in 0 .. 3
      BY <1>3
    <3> HIDE DEF byte, g, k
    <3> QED BY <1>2, <3>1, SMTT(30)
  <2>2. PICK x \in 0 .. 255, y \in 0 .. 255, z \in 0 .. 255 :
          byte(g(p) + 1) = x /\ byte(g(p) + 2) = y /\ byte(g(p) + 3) = z
    <3>1. Byte = 0 .. 255
      BY DEF Byte
    <3> HIDE DEF byte, g, k
    <3> QED BY <2>1, <3>1, Zenon
  <2>3. /\ x \div 4 \in 0 .. 63 /\ (x % 4) * 16 + y \div 16 \in 0 .. 63
        /\ (y % 16) * 4 + z \div 64 \in 0 .. 63 /\ z % 64 \in 0 .. 63
    OBVIOUS
  <2> HIDE DEF byte, g, k
  <2>4. CASE k(p) = 0
    BY <2>2, <2>3, <2>4
  <2>5. CASE k(p) = 1
    BY <2>2, <2>3, <2>5
  <2>6. CASE k(p) = 2
    BY <2>2, <2>3, <2>6
  <2>7. CASE k(p) = 3
    BY <2>2, <2>3, <2>7
  <2> QED BY <2>1, <2>4, <2>5, <2>6, <2>7
<1>5. \A s \in 0 .. 63 : base64_chars(s) \in Byte
  BY CharFacts DEF Byte
<1>6. \A p \in 1 .. last : char(p) \in Byte
  <2> SUFFICES ASSUME NEW p \in 1 .. last PROVE char(p) \in Byte
    OBVIOUS
  <2>1. six(p) \in 0 .. 63
    BY <1>4
  <2> HIDE DEF six, g, k
  <2>2. base64_chars(six(p)) \in Byte
    BY <1>5, <2>1
  <2>3. Equals \in Byte
    BY DEF Equals, Byte
  <2> QED BY <2>2, <2>3
<1>7. base64_encode(bytes) = [p \in 1 .. last |-> char(p)]
  BY DEF base64_encode, last, n
<1> HIDE DEF char
<1> QED BY <1>1, <1>6, <1>7

\* Bytes are put together from sextets.
LEMMA ByteSums ==
  /\ \A x, y \in 0 .. 63 : x * 4 + y \div 16 \in Byte
  /\ \A x, y \in 0 .. 63 : (x % 16) * 16 + y \div 4 \in Byte
  /\ \A x, y \in 0 .. 63 : (x % 4) * 64 + y \in Byte
BY SMTT(30) DEF Byte

LEMMA CodedFacts ==
  ASSUME NEW text \in Seq(Byte)
  PROVE  /\ Coded(text) \in Nat /\ Coded(text) <= Len(text)
         /\ \A i \in 1 .. Coded(text) : text[i] \in Byte /\ is_base64(text[i]) /\ text[i] # Equals
<1> DEFINE ends == {i \in DOMAIN text : text[i] = Equals \/ ~is_base64(text[i])}
           len  == Len(text)
<1>0. len \in Nat /\ DOMAIN text = 1 .. len /\ \A i \in 1 .. len : text[i] \in Byte
  OBVIOUS
<1> HIDE DEF len
<1>a. \A i \in 1 .. len : i \notin ends => is_base64(text[i]) /\ text[i] # Equals
  BY <1>0
<1>b. \A i \in ends : i \in 1 .. len
  BY <1>0
<1>c. Coded(text) = IF ends = {} THEN len ELSE Min(ends) - 1
  BY Zenon DEF Coded, len
<1> HIDE DEF ends
<1>1. CASE ends = {}
  BY <1>0, <1>a, <1>c, <1>1 DEF len
<1>2. CASE ends # {}
  <2>1. ends \subseteq Nat
    BY <1>b
  <2> DEFINE m == Min(ends)
  <2>2. m \in ends /\ \A y \in ends : m <= y
    BY <1>2, <2>1, MinFacts
  <2>3. Coded(text) = m - 1
    BY <1>2, <1>c
  <2> HIDE DEF m
  <2>4. m \in 1 .. len
    BY <1>b, <2>2
  <2>5. \A i \in 1 .. m - 1 : i \notin ends /\ i \in 1 .. len
    BY <1>0, <2>2, <2>4
  <2>6. m - 1 \in Nat /\ m - 1 <= len
    BY <1>0, <2>4
  <2> QED BY <1>0, <1>a, <2>3, <2>5, <2>6 DEF len
<1> QED BY <1>1, <1>2

LEMMA SextetFacts ==
  ASSUME NEW c \in Byte, is_base64(c)
  PROVE  Sextet(c) \in 0 .. 63
BY DEF is_base64, Sextet, Byte

\* The bytes that m characters make, and the characters each is made of.
LEMMA DecodedLengthFacts ==
  ASSUME NEW m \in Nat, NEW a \in Nat, NEW b \in 0 .. 2
  PROVE  /\ DecodedLength(m) \in Nat
         /\ 3 * a + b + 1 <= DecodedLength(m) => 4 * a + b + 2 <= m
<1> DEFINE c == m \div 4
           d == m % 4
<1>1. c \in Nat /\ d \in 0 .. 3 /\ m = 4 * c + d
  OBVIOUS
<1>2. DecodedLength(m) = 3 * c + (IF d = 0 THEN 0 ELSE d - 1)
  BY DEF DecodedLength
<1> HIDE DEF c, d
<1> QED BY <1>1, <1>2

LEMMA DecodedIsText ==
  ASSUME NEW text \in Seq(Byte)
  PROVE  base64_decode(text) \in Seq(Byte)
<1> DEFINE m == Coded(text)
           six(q, i) == Sextet(text[4 * ((q - 1) \div 3) + i])
           byte(q) == CASE (q - 1) % 3 = 0 -> six(q, 1) * 4 + six(q, 2) \div 16
                        [] (q - 1) % 3 = 1 -> (six(q, 2) % 16) * 16 + six(q, 3) \div 4
                        [] (q - 1) % 3 = 2 -> (six(q, 3) % 4) * 64 + six(q, 4)
<1>1. m \in Nat /\ \A i \in 1 .. m : text[i] \in Byte /\ is_base64(text[i])
  BY CodedFacts
<1>3. \A i \in 1 .. m : Sextet(text[i]) \in 0 .. 63
  BY <1>1, SextetFacts
<1> HIDE DEF m
<1>4. DecodedLength(m) \in Nat
  <2>1. \A a \in Nat, b \in 0 .. 2 : DecodedLength(m) \in Nat
    BY <1>1, DecodedLengthFacts
  <2> QED BY <2>1
<1>5. \A q \in 1 .. DecodedLength(m) : byte(q) \in Byte
  <2> HIDE DEF byte
  <2> SUFFICES ASSUME NEW q \in Nat, 1 <= q, q <= DecodedLength(m) PROVE byte(q) \in Byte
    BY <1>4
  <2>2. PICK a \in Nat, b \in 0 .. 2 : q = 3 * a + b + 1 /\ (q - 1) \div 3 = a /\ (q - 1) % 3 = b
    <3> DEFINE a == (q - 1) \div 3
               b == (q - 1) % 3
    <3>1. a \in Nat /\ b \in 0 .. 2 /\ q = 3 * a + b + 1
      OBVIOUS
    <3> QED BY <3>1
  <2>5. 4 * a + b + 2 <= m
    BY <1>1, <1>4, <2>2, DecodedLengthFacts
  <2>6. \A i \in 1 .. b + 2 : 4 * a + i \in 1 .. m
    BY <2>2, <2>5, <1>1
  <2>7. \A i \in 1 .. b + 2 : Sextet(text[4 * a + i]) \in 0 .. 63
    BY <1>3, <2>6
  <2>b. \A i : six(q, i) = Sextet(text[4 * a + i])
    BY <2>2
  <2>c. \A i \in 1 .. b + 2 : six(q, i) \in 0 .. 63
    BY <2>7, <2>b
  <2> DEFINE r == (q - 1) % 3
  <2>d. r = b
    BY <2>2
  <2> HIDE DEF six, r
  <2>8. CASE b = 0
    <3>0. six(q, 1) \in 0 .. 63 /\ six(q, 2) \in 0 .. 63
      <4>1. 1 \in 1 .. b + 2 /\ 2 \in 1 .. b + 2
        BY <2>8
      <4> QED BY <4>1, <2>c, Zenon
    <3>1. PICK x \in 0 .. 63, y \in 0 .. 63 : six(q, 1) = x /\ six(q, 2) = y
      BY <3>0, Zenon
    <3>2. byte(q) = six(q, 1) * 4 + six(q, 2) \div 16
      <4>1. r = 0 /\ r # 1 /\ r # 2
        BY <2>8, <2>d
      <4> QED BY <4>1, Zenon DEF byte, r
    <3>3. byte(q) = x * 4 + y \div 16
      BY <3>1, <3>2, Zenon
    <3> QED BY <3>3, ByteSums
  <2>9. CASE b = 1
    <3>0. six(q, 2) \in 0 .. 63 /\ six(q, 3) \in 0 .. 63
      <4>1. 2 \in 1 .. b + 2 /\ 3 \in 1 .. b + 2
        BY <2>9
      <4> QED BY <4>1, <2>c, Zenon
    <3>1. PICK x \in 0 .. 63, y \in 0 .. 63 : six(q, 2) = x /\ six(q, 3) = y
      BY <3>0, Zenon
    <3>2. byte(q) = (six(q, 2) % 16) * 16 + six(q, 3) \div 4
      <4>1. r # 0 /\ r = 1 /\ r # 2
        BY <2>9, <2>d
      <4> QED BY <4>1, Zenon DEF byte, r
    <3>3. byte(q) = (x % 16) * 16 + y \div 4
      BY <3>1, <3>2, Zenon
    <3> QED BY <3>3, ByteSums
  <2>10. CASE b = 2
    <3>0. six(q, 3) \in 0 .. 63 /\ six(q, 4) \in 0 .. 63
      <4>1. 3 \in 1 .. b + 2 /\ 4 \in 1 .. b + 2
        BY <2>10
      <4> QED BY <4>1, <2>c, Zenon
    <3>1. PICK x \in 0 .. 63, y \in 0 .. 63 : six(q, 3) = x /\ six(q, 4) = y
      BY <3>0, Zenon
    <3>2. byte(q) = (six(q, 3) % 4) * 64 + six(q, 4)
      <4>1. r # 0 /\ r # 1 /\ r = 2
        BY <2>10, <2>d
      <4> QED BY <4>1, Zenon DEF byte, r
    <3>3. byte(q) = (x % 4) * 64 + y
      BY <3>1, <3>2, Zenon
    <3> QED BY <3>3, ByteSums
  <2> QED BY <2>2, <2>8, <2>9, <2>10
<1>6. base64_decode(text) = [q \in 1 .. DecodedLength(m) |-> byte(q)]
  BY Zenon DEF base64_decode, m
<1> HIDE DEF byte
<1> QED BY <1>4, <1>5, <1>6

-----------------------------------------------------------------------------
(* The names the proxy announces *)

\* A part of a text.
LEMMA PartOfText ==
  ASSUME NEW text \in Seq(Byte), NEW i \in Int, NEW j \in Int, 1 <= i, j <= Len(text)
  PROVE  /\ SubSeq(text, i, j) \in Seq(Byte)
         /\ Len(SubSeq(text, i, j)) = IF i <= j THEN j - i + 1 ELSE 0
<1>1. \A k \in i .. j : text[k] \in Byte
  OBVIOUS
<1> QED BY <1>1, SubSeqProperties

LEMMA ParsedAreTexts ==
  ASSUME NEW text \in Seq(Byte)
  PROVE  String_ParseSeparatedArray(text) \in Seq(Seq(Byte) \ {<<>>})
<1> DEFINE doubled == {i \in 1 .. Len(text) - 1 : text[i] = Separator /\ text[i + 1] = Separator}
           end     == IF doubled = {} THEN Len(text) ELSE Min(doubled) - 1
           starts  == {i \in 1 .. end : text[i] # Separator /\ (i = 1 \/ text[i - 1] = Separator)}
           stop(i) == Min({j \in i .. end : j = end \/ text[j + 1] = Separator})
           n       == Cardinality(starts)
           item(k) == SubSeq(text, Nth(starts, k), stop(Nth(starts, k)))
<1>1. String_ParseSeparatedArray(text) = [k \in 1 .. n |-> item(k)]
  BY Zenon DEF String_ParseSeparatedArray
<1>2. end \in Nat /\ end <= Len(text)
  <2>1. CASE doubled = {}
    BY <2>1
  <2>2. CASE doubled # {}
    <3>1. doubled \subseteq Nat
      OBVIOUS
    <3>2. Min(doubled) \in doubled
      <4> HIDE DEF doubled
      <4> QED BY <2>2, <3>1, MinFacts
    <3> DEFINE m == Min(doubled)
    <3>3. m \in 1 .. Len(text) - 1
      BY <3>2
    <3>4. end = m - 1
      BY <2>2
    <3> HIDE DEF m, end
    <3> QED BY <3>3, <3>4
  <2> QED BY <2>1, <2>2
<1> HIDE DEF end
<1>3. starts \subseteq 1 .. end
  OBVIOUS
<1> HIDE DEF starts
<1>4. n \in Nat
  <2>1. IsFiniteSet(1 .. end)
    BY <1>2, FS_Interval
  <2>2. IsFiniteSet(starts)
    BY <1>3, <2>1, FS_Subset, Zenon
  <2> QED BY <2>2, FS_CardinalityType
<1> HIDE DEF n
<1>5. \A k \in 1 .. n : Nth(starts, k) \in 1 .. end
  <2>1. \A k \in 1 .. n : Nth(starts, k) \in starts
    BY <1>2, <1>3, NthFacts DEF n
  <2> QED BY <1>3, <2>1
<1>6. \A i \in 1 .. end : stop(i) \in i .. end
  <2> SUFFICES ASSUME NEW i \in 1 .. end PROVE stop(i) \in i .. end
    OBVIOUS
  <2> DEFINE P == {j \in i .. end : j = end \/ text[j + 1] = Separator}
  <2>1. P \subseteq Nat /\ end \in P /\ \A j \in P : j \in i .. end
    BY <1>2
  <2> HIDE DEF P
  <2>2. Min(P) \in P
    BY <2>1, MinFacts
  <2>3. Min(P) \in i .. end
    BY <2>1, <2>2
  <2> QED BY <2>3 DEF P
<1>7. \A k \in 1 .. n : item(k) \in Seq(Byte) \ {<<>>}
  <2> SUFFICES ASSUME NEW k \in 1 .. n PROVE item(k) \in Seq(Byte) \ {<<>>}
    OBVIOUS
  <2>1. PICK i \in 1 .. end : i = Nth(starts, k)
    BY <1>5
  <2>2. PICK j \in i .. end : j = stop(i)
    BY <1>6
  <2>3. item(k) = SubSeq(text, i, j)
    BY <2>1, <2>2
  <2>4. i \in Int /\ j \in Int /\ 1 <= i /\ i <= j /\ j <= Len(text)
    BY <1>2, <2>1, <2>2
  <2>5. SubSeq(text, i, j) \in Seq(Byte) /\ Len(SubSeq(text, i, j)) = j - i + 1
    BY <2>4, PartOfText
  <2>6. SubSeq(text, i, j) # <<>>
    BY <2>4, <2>5
  <2> QED BY <2>3, <2>5, <2>6
<1> HIDE DEF item
<1> QED BY <1>1, <1>4, <1>7

LEMMA TrimmedIsText ==
  ASSUME NEW text \in Seq(Byte)
  PROVE  Trimmed(text) \in Seq(Byte)
<1> DEFINE kept == {i \in DOMAIN text : text[i] \notin {Blank, LineFeed, 13, 9}}
<1>1. CASE kept = {}
  BY <1>1 DEF Trimmed
<1>2. CASE kept # {}
  <2>1. /\ kept \subseteq Nat /\ Len(text) \in Nat
        /\ \A v \in kept : v \in Nat /\ v <= Len(text)
    OBVIOUS
  <2>2. Trimmed(text) = SubSeq(text, 1, Max(kept))
    BY <1>2 DEF Trimmed
  <2> HIDE DEF kept
  <2>3. Max(kept) \in kept
    <3>1. \A v \in kept : v <= Len(text)
      BY <2>1
    <3> QED BY <1>2, <2>1, <3>1, MaxFacts, Zenon
  <2>4. Max(kept) \in Int /\ Max(kept) <= Len(text)
    <3>1. Max(kept) \in Nat /\ Max(kept) <= Len(text)
      BY <2>1, <2>3, Zenon
    <3> QED BY <3>1
  <2>5. SubSeq(text, 1, Max(kept)) \in Seq(Byte)
    BY <2>4, PartOfText
  <2> QED BY <2>2, <2>5
<1> QED BY <1>1, <1>2

LEMMA NamesAreTexts ==
  /\ Name \subseteq Seq(Byte)
  /\ RealLists \subseteq Texts /\ StaticLists \subseteq Texts
<1>1. Name \subseteq Seq(Byte)
  <2>1. Byte \ {NUL} \subseteq Byte
    OBVIOUS
  <2> QED BY <2>1 DEF Name
<1>2. Seq(Name) \subseteq Texts
  BY <1>1 DEF Texts
<1> QED BY <1>1, <1>2, ReaderListAssumption

LEMMA ResponseIsText ==
  ASSUME NEW list \in Announcements
  PROVE  Response(list) \in Seq(Byte)
<1> DEFINE texts == [i \in DOMAIN list |->
                  IF list[i].coded THEN base64_encode(list[i].name) ELSE list[i].name]
           all == Terminated(texts, Separator)
<1>1. <<LineFeed>> \in Seq(Byte)
  BY DEF LineFeed, Byte
<1>2. list \in Seq([name : Name, coded : BOOLEAN])
  BY ReaderListAssumption
<1>3. \A i \in DOMAIN list : list[i].name \in Seq(Byte)
  <2> DEFINE R == [name : Name, coded : BOOLEAN]
  <2>1. \A i \in DOMAIN list : list[i] \in R
    <3>1. list \in Seq(R)
      BY <1>2
    <3> HIDE DEF R
    <3> QED BY <3>1
  <2>1a. \A r \in [name : Name, coded : BOOLEAN] : r.name \in Name
    OBVIOUS
  <2>2. \A i \in DOMAIN list : list[i].name \in Name
    BY <2>1, <2>1a, Zenon
  <2> QED BY <2>2, NamesAreTexts, Zenon
<1>4. \A i \in DOMAIN list : base64_encode(list[i].name) \in Seq(Byte)
  BY <1>3, EncodedIsText
<1>5. texts \in Texts
  <2>1. DOMAIN list = 1 .. Len(list) /\ Len(list) \in Nat
    BY <1>2
  <2>2. \A i \in 1 .. Len(list) : texts[i] \in Seq(Byte)
    BY <1>3, <1>4, <2>1
  <2> QED BY <2>1, <2>2 DEF Texts
<1> HIDE DEF texts
<1>6. all \in Seq(Byte)
  <2>1. Separator \in Byte
    BY DEF Separator, Byte
  <2> QED BY <1>5, <2>1, TerminatedTypeOf, Zenon DEF Texts
<1> HIDE DEF all
<1>7. Front(all) \in Seq(Byte)
  <2>1. Len(all) - 1 \in Int /\ Len(all) - 1 <= Len(all)
    BY <1>6
  <2> QED BY <1>6, <2>1, PartOfText DEF Front
<1>8. Front(all) \o <<LineFeed>> \in Seq(Byte)
  BY <1>1, <1>7, TextJoinOf
<1> QED BY <1>1, <1>8 DEF Response, texts, all

LEMMA AnswersAreNames ==
  ASSUME NEW list \in Announcements
  PROVE  Answers[list] \in Texts
<1> DEFINE items == String_ParseSeparatedArray(Trimmed(Response(list)))
           name(i) == IF Last(items[i]) = Equals THEN base64_decode(items[i]) ELSE items[i]
<1>1. items \in Seq(Seq(Byte) \ {<<>>})
  BY ResponseIsText, TrimmedIsText, ParsedAreTexts
<1>2. Answers[list] = [i \in DOMAIN items |-> name(i)]
  BY Zenon DEF Answers, Remote_ListReaders
<1> HIDE DEF items
<1>3. \A i \in DOMAIN items : items[i] \in Seq(Byte)
  BY <1>1
<1>4. \A i \in DOMAIN items : base64_decode(items[i]) \in Seq(Byte)
  BY <1>3, DecodedIsText
<1>5. \A i \in DOMAIN items : name(i) \in Seq(Byte)
  BY <1>3, <1>4
<1>6. DOMAIN items = 1 .. Len(items) /\ Len(items) \in Nat
  BY <1>1
<1> HIDE DEF name
<1> QED BY <1>2, <1>5, <1>6 DEF Texts

-----------------------------------------------------------------------------
(* Lists of buffers *)

\* Two lists of buffers, one after the other.
LEMMA ListedFacts ==
  ASSUME NEW S, NEW a \in Seq(S), NEW b \in Seq(S)
  PROVE  /\ IsInjective(a \o b) <=> /\ IsInjective(a) /\ IsInjective(b)
                                    /\ Range(a) \cap Range(b) = {}
         /\ Range(a \o b) = Range(a) \cup Range(b)
<1> DEFINE c == a \o b
<1>1. PICK m \in Nat, n \in Nat : m = Len(a) /\ n = Len(b)
  OBVIOUS
<1>2. /\ DOMAIN a = 1 .. m /\ DOMAIN b = 1 .. n /\ DOMAIN c = 1 .. m + n
      /\ \A i \in 1 .. m : c[i] = a[i]
      /\ \A i \in 1 .. n : c[m + i] = b[i]
  BY <1>1
<1> HIDE DEF c
<1>3. \A i \in 1 .. m + n : i \in 1 .. m \/ \E j \in 1 .. n : i = m + j
  <2> SUFFICES ASSUME NEW i \in 1 .. m + n, i \notin 1 .. m PROVE \E j \in 1 .. n : i = m + j
    OBVIOUS
  <2>1. i - m \in 1 .. n /\ i = m + (i - m)
    OBVIOUS
  <2> QED BY <2>1
<1>4. \A i \in 1 .. m : i \in 1 .. m + n
  OBVIOUS
<1>5. \A j \in 1 .. n : m + j \in 1 .. m + n
  OBVIOUS
<1>6. Range(c) = Range(a) \cup Range(b)
  <2>1. ASSUME NEW x \in Range(c) PROVE x \in Range(a) \cup Range(b)
    <3>1. PICK i \in 1 .. m + n : x = c[i]
      BY <1>2, <2>1, Zenon DEF Range
    <3>2. CASE i \in 1 .. m
      BY <1>2, <3>1, <3>2, Zenon DEF Range
    <3>3. CASE \E j \in 1 .. n : i = m + j
      BY <1>2, <3>1, <3>3, Zenon DEF Range
    <3> QED BY <1>3, <3>2, <3>3, Zenon
  <2>2. ASSUME NEW x \in Range(a) PROVE x \in Range(c)
    BY <1>2, <1>4, <2>2, Zenon DEF Range
  <2>3. ASSUME NEW x \in Range(b) PROVE x \in Range(c)
    BY <1>2, <1>5, <2>3, Zenon DEF Range
  <2> QED BY <2>1, <2>2, <2>3
<1>7. ASSUME IsInjective(c)
      PROVE  IsInjective(a) /\ IsInjective(b) /\ Range(a) \cap Range(b) = {}
  <2>1. IsInjective(a)
    BY <1>2, <1>4, <1>7, Zenon DEF IsInjective
  <2>2. IsInjective(b)
    <3> SUFFICES ASSUME NEW i \in 1 .. n, NEW j \in 1 .. n, b[i] = b[j] PROVE i = j
      BY <1>2 DEF IsInjective
    <3>1. m + i = m + j
      BY <1>2, <1>5, <1>7, Zenon DEF IsInjective
    <3> QED BY <3>1
  <2>3. \A i \in 1 .. m, j \in 1 .. n : a[i] # b[j]
    <3> SUFFICES ASSUME NEW i \in 1 .. m, NEW j \in 1 .. n, a[i] = b[j] PROVE FALSE
      OBVIOUS
    <3>1. i = m + j
      BY <1>2, <1>4, <1>5, <1>7, Zenon DEF IsInjective
    <3> QED BY <3>1
  <2>4. Range(a) \cap Range(b) = {}
    BY <1>2, <2>3 DEF Range
  <2> QED BY <2>1, <2>2, <2>4
<1>8. ASSUME IsInjective(a), IsInjective(b), Range(a) \cap Range(b) = {}
      PROVE  IsInjective(c)
  <2>1. \A i \in 1 .. m, j \in 1 .. n : a[i] # b[j]
    <3> SUFFICES ASSUME NEW i \in 1 .. m, NEW j \in 1 .. n, a[i] = b[j] PROVE FALSE
      OBVIOUS
    <3>1. a[i] \in Range(a)
      BY <1>2, Zenon DEF Range
    <3>2. b[j] \in Range(b)
      BY <1>2, Zenon DEF Range
    <3> QED BY <1>8, <3>1, <3>2, Zenon
  <2>2. \A i, j \in 1 .. m : c[i] = c[j] => i = j
    BY <1>2, <1>8, Zenon DEF IsInjective
  <2>3. \A i, j \in 1 .. n : c[m + i] = c[m + j] => m + i = m + j
    <3> SUFFICES ASSUME NEW i \in 1 .. n, NEW j \in 1 .. n, c[m + i] = c[m + j] PROVE i = j
      OBVIOUS
    <3>1. b[i] = b[j] /\ i \in DOMAIN b /\ j \in DOMAIN b
      BY <1>2, Zenon
    <3> QED BY <1>8, <3>1, Zenon DEF IsInjective
  <2>4. \A i \in 1 .. m, j \in 1 .. n : c[i] # c[m + j]
    BY <1>2, <2>1, Zenon
  <2> SUFFICES ASSUME NEW i \in 1 .. m + n, NEW j \in 1 .. m + n, c[i] = c[j] PROVE i = j
    BY <1>2 DEF IsInjective
  <2>5. CASE i \in 1 .. m /\ j \in 1 .. m
    BY <2>2, <2>5
  <2>6. CASE i \in 1 .. m /\ j \notin 1 .. m
    BY <1>3, <2>4, <2>6, Zenon
  <2>7. CASE i \notin 1 .. m /\ j \in 1 .. m
    BY <1>3, <2>4, <2>7, Zenon
  <2>8. CASE i \notin 1 .. m /\ j \notin 1 .. m
    <3>1. PICK x \in 1 .. n : i = m + x
      BY <1>3, <2>8, Zenon
    <3>2. PICK y \in 1 .. n : j = m + y
      BY <1>3, <2>8, Zenon
    <3> QED BY <2>3, <3>1, <3>2, Zenon
  <2> QED BY <2>5, <2>6, <2>7, <2>8
<1>9. IsInjective(c) <=> IsInjective(a) /\ IsInjective(b) /\ Range(a) \cap Range(b) = {}
  BY <1>7, <1>8, Zenon
<1> QED BY <1>6, <1>9 DEF c

LEMMA EnteredFacts ==
  ASSUME NEW S, NEW a \in Seq(S), NEW p \in S, IsInjective(a), p \notin Range(a)
  PROVE  /\ Append(a, p) \in Seq(S) /\ IsInjective(Append(a, p))
         /\ Range(Append(a, p)) = Range(a) \cup {p}
<1> DEFINE c == Append(a, p)
<1>1. PICK m \in Nat : m = Len(a)
  OBVIOUS
<1>2. /\ DOMAIN a = 1 .. m /\ DOMAIN c = 1 .. m + 1 /\ c[m + 1] = p /\ c \in Seq(S)
      /\ \A i \in 1 .. m : c[i] = a[i]
  BY <1>1
<1> HIDE DEF c
<1>3. \A i : i \in 1 .. m + 1 <=> i \in 1 .. m \/ i = m + 1
  OBVIOUS
<1>4. Range(c) = Range(a) \cup {p}
  BY <1>2, <1>3, Zenon DEF Range
<1>5. \A i \in 1 .. m : a[i] # p
  BY <1>2, Zenon DEF Range
<1>6. IsInjective(c)
  BY <1>2, <1>3, <1>5, Zenon DEF IsInjective
<1> QED BY <1>2, <1>4, <1>6 DEF c

\* A buffer that is released is no longer listed.
LEMMA WithoutFacts ==
  ASSUME NEW S, NEW a \in Seq(S), NEW p, IsInjective(a)
  PROVE  /\ Without(a, p) \in Seq(S \ {p}) /\ IsInjective(Without(a, p))
         /\ Range(Without(a, p)) = Range(a) \ {p}
<1>1. PICK m \in Nat : m = Len(a)
  OBVIOUS
<1>2. DOMAIN a = 1 .. m /\ \A i \in 1 .. m : a[i] \in S
  BY <1>1
<1>3. CASE \A i \in 1 .. m : a[i] # p
  <2>1. Without(a, p) = a
    BY <1>1, <1>3 DEF Without, RemoveFirst
  <2>2. \A i \in 1 .. m : a[i] \in S \ {p}
    BY <1>2, <1>3
  <2>3. a \in Seq(S \ {p})
    BY <1>1, <2>2
  <2>4. Range(a) = Range(a) \ {p}
    BY <1>2, <1>3, Zenon DEF Range
  <2> QED BY <2>1, <2>3, <2>4
<1>4. CASE \E i \in 1 .. m : a[i] = p
  <2> DEFINE I == {i \in 1 .. Len(a) : a[i] = p}
             k == Min(I)
             c == SubSeq(a, 1, k - 1) \o SubSeq(a, k + 1, Len(a))
  <2>1. I \subseteq Nat /\ I # {}
    BY <1>1, <1>4
  <2>2. Without(a, p) = c
    <3>1. Without(a, p) = RemoveAt(a, SelectInSeq(a, LAMBDA v : v = p))
      BY <1>1, <1>4 DEF Without, RemoveFirst
    <3>2. SelectInSeq(a, LAMBDA v : v = p) = k
      BY <2>1 DEF SelectInSeq
    <3> HIDE DEF k
    <3> QED BY <3>1, <3>2, Zenon DEF RemoveAt
  <2>3. k \in I
    <3> HIDE DEF I
    <3> QED BY <2>1, MinFacts
  <2>4. k \in 1 .. m /\ a[k] = p
    BY <1>1, <2>3
  <2> HIDE DEF k, I
  <2>5. \A i \in 1 .. m : i # k => a[i] \in S \ {p}
    BY <1>2, <2>4 DEF IsInjective
  <2>6. /\ Len(c) = m - 1 /\ DOMAIN c = 1 .. m - 1
        /\ \A i \in 1 .. m - 1 : c[i] = IF i < k THEN a[i] ELSE a[i + 1]
    <3>1. k - 1 \in Nat /\ m - k \in Nat /\ k + 1 \in Int /\ k - 1 \in Int /\ m \in Int
      BY <2>4
    <3> DEFINE x == SubSeq(a, 1, k - 1)
               y == SubSeq(a, k + 1, Len(a))
    <3>2. /\ x \in Seq(S) /\ Len(x) = k - 1 /\ \A i \in 1 .. k - 1 : x[i] = a[i]
      BY <1>1, <2>4, <3>1
    <3>3. /\ y \in Seq(S) /\ Len(y) = m - k /\ \A i \in 1 .. m - k : y[i] = a[k + i]
      BY <1>1, <2>4, <3>1
    <3> HIDE DEF x, y
    <3>4. c = x \o y
      BY DEF x, y
    <3> HIDE DEF c
    <3>5. /\ c \in Seq(S) /\ Len(c) = Len(x) + Len(y)
          /\ \A i \in 1 .. Len(x) + Len(y) : c[i] = IF i <= Len(x) THEN x[i] ELSE y[i - Len(x)]
      BY <3>2, <3>3, <3>4, ConcatProperties, Zenon
    <3>6. /\ Len(c) = m - 1 /\ DOMAIN c = 1 .. m - 1
          /\ \A i \in 1 .. m - 1 : c[i] = IF i <= k - 1 THEN x[i] ELSE y[i - (k - 1)]
      <4>1. Len(x) + Len(y) = m - 1
        BY <2>4, <3>1, <3>2, <3>3
      <4>2. DOMAIN c = 1 .. Len(c)
        BY <3>5
      <4> QED BY <3>2, <3>5, <4>1, <4>2, Zenon
    <3>7. \A i \in 1 .. m - 1 : i > k - 1 => i - (k - 1) \in 1 .. m - k /\ k + (i - (k - 1)) = i + 1
      BY <2>4
    <3>8. ASSUME NEW i \in 1 .. m - 1
          PROVE c[i] = IF i < k THEN a[i] ELSE a[i + 1]
      <4>1. CASE i < k
        <5>1. i \in 1 .. k - 1 /\ i <= k - 1
          BY <2>4, <4>1
        <5> QED BY <3>2, <3>6, <4>1, <5>1, Zenon
      <4>2. CASE i >= k
        <5>1. i > k - 1 /\ ~(i <= k - 1) /\ ~(i < k)
          BY <2>4, <4>2
        <5> QED BY <3>3, <3>6, <3>7, <5>1, Zenon
      <4> QED BY <2>4, <4>1, <4>2
    <3> QED BY <3>6, <3>8
  <2>7. c \in Seq(S \ {p})
    <3>1. \A i \in 1 .. m - 1 : c[i] \in S \ {p}
      <4> SUFFICES ASSUME NEW i \in 1 .. m - 1 PROVE c[i] \in S \ {p}
        OBVIOUS
      <4> HIDE DEF c
      <4> QED BY <2>4, <2>5, <2>6, SMTT(30)
    <3>2. c \in Seq(S)
      BY <1>1, <2>4, ConcatProperties
    <3> HIDE DEF c
    <3> QED BY <2>4, <2>6, <3>1, <3>2
  <2> HIDE DEF c
  <2>8. IsInjective(c)
    <3> SUFFICES ASSUME NEW i \in 1 .. m - 1, NEW j \in 1 .. m - 1, c[i] = c[j] PROVE i = j
      BY <2>6 DEF IsInjective
    <3>1. \A x, y \in 1 .. m : a[x] = a[y] => x = y
      BY <1>2 DEF IsInjective
    <3> DEFINE at(q) == IF q < k THEN q ELSE q + 1
    <3>2. at(i) \in 1 .. m /\ at(j) \in 1 .. m /\ (at(i) = at(j) => i = j)
      BY <2>4
    <3>3. c[i] = a[at(i)] /\ c[j] = a[at(j)]
      BY <2>6, Zenon
    <3> HIDE DEF at
    <3>4. at(i) = at(j)
      BY <3>1, <3>2, <3>3, Zenon
    <3> QED BY <3>2, <3>4
  <2>9. Range(c) = Range(a) \ {p}
    <3>1. \A x \in Range(c) : x \in Range(a) \ {p}
      <4> SUFFICES ASSUME NEW i \in 1 .. m - 1 PROVE c[i] \in Range(a) \ {p}
        BY <2>6 DEF Range
      <4>1. \A j \in 1 .. m : j # k => a[j] \in Range(a) /\ a[j] # p
        BY <1>2, <2>5 DEF Range
      <4> QED BY <2>4, <2>6, <4>1, SMTT(30)
    <3>2. \A x \in Range(a) \ {p} : x \in Range(c)
      <4> SUFFICES ASSUME NEW j \in 1 .. m, a[j] # p PROVE a[j] \in Range(c)
        BY <1>2 DEF Range
      <4>1. \A i \in 1 .. m - 1 : c[i] \in Range(c)
        BY <2>6 DEF Range
      <4>2. CASE j < k
        BY <2>4, <2>6, <4>1, <4>2
      <4>3. CASE j > k
        <5>1. j - 1 \in 1 .. m - 1 /\ ~(j - 1 < k) /\ (j - 1) + 1 = j
          BY <2>4, <4>3
        <5> QED BY <2>6, <4>1, <5>1
      <4> QED BY <2>4, <4>2, <4>3
    <3> QED BY <3>1, <3>2
  <2> QED BY <2>2, <2>7, <2>8, <2>9
<1> QED BY <1>3, <1>4

-----------------------------------------------------------------------------
(* Lists in the characters of either variant *)

\* A character of either variant is a number.
Char == Nat

Names == Seq(Seq(Char))

LEMMA TextJoin ==
  ASSUME NEW x \in Seq(Char), NEW y \in Seq(Char)
  PROVE  x \o y \in Seq(Char) /\ Len(x \o y) = Len(x) + Len(y)
BY TextJoinOf, Zenon

LEMMA TextJoinAssociative ==
  ASSUME NEW x \in Seq(Char), NEW y \in Seq(Char), NEW z \in Seq(Char)
  PROVE  (x \o y) \o z = x \o (y \o z)
BY ConcatAssociative

LEMMA MarkedIsText ==
  ASSUME NEW mark \in Char, NEW text \in Seq(Char)
  PROVE  Marked(text, mark) \in Seq(Char)
BY MarkedIsTextOf, Zenon

LEMMA TerminatedType ==
  ASSUME NEW mark \in Char, NEW list \in Names
  PROVE  Terminated(list, mark) \in Seq(Char)
BY TerminatedTypeOf, Zenon DEF Names

LEMMA TerminatedJoin ==
  ASSUME NEW mark \in Char, NEW a \in Names, NEW b \in Names
  PROVE  Terminated(a \o b, mark) = Terminated(a, mark) \o Terminated(b, mark)
BY TerminatedJoinOf, Zenon DEF Names

LEMMA JoinFacts ==
  ASSUME NEW a \in Seq(Char), NEW b \in Seq(Char)
  PROVE  /\ a \o b \in Seq(Char) /\ Len(a \o b) = Len(a) + Len(b)
         /\ \A q \in 1 .. Len(a) : (a \o b)[q] = a[q]
         /\ \A q \in 1 .. Len(b) : (a \o b)[Len(a) + q] = b[q]
         /\ \A q \in 1 .. Len(a) + Len(b) :
              q > Len(a) => q - Len(a) \in 1 .. Len(b) /\ (a \o b)[q] = b[q - Len(a)]
BY JoinFactsOf, Zenon

LEMMA ListParts ==
  ASSUME NEW list \in Names, NEW j \in 1 .. Len(list)
  PROVE  /\ SubSeq(list, 1, j - 1) \in Names /\ SubSeq(list, 1, j) \in Names
         /\ SubSeq(list, j + 1, Len(list)) \in Names
         /\ list = SubSeq(list, 1, j) \o SubSeq(list, j + 1, Len(list))
BY ListPartsOf, Zenon DEF Names

-----------------------------------------------------------------------------
(* The state of the calls *)

\* Each buffer of the application is listed once; the one a call has allocated is not
\* listed yet.
Ownership ==
  /\ IsInjective(charList) /\ IsInjective(wcharList)
  /\ Range(charList) \cap Range(wcharList) = {}
  /\ Range(charList) \cup Range(wcharList) = held
  /\ pc = "fetch" /\ call.mode = "auto" => readers \in heap \ held

\* Between the two calls of the original library the buffer is empty, and large enough
\* if no reader has come or gone.
Prepared ==
  pc = "fetch" =>
    /\ call.mode \in {"auto", "buffer"}
    /\ ~overrun
    /\ buffer = Zeroed(pcchReaders)
    /\ stable => /\ realLen = Len(MultiString(plugged))
                 /\ pcchReaders >= realLen + Len(Serialize(virtual)) + 2

\* The answer to a query that is not stale is that of the present readers.
Queried ==
  lastQuery # NoQuery =>
    /\ lastQuery.len =
         RequiredLength(lastQuery.wide, Len(MultiString(plugged)), Len(Serialize(virtual)))
    /\ ~(plugged = <<>> /\ virtual = <<>>)

Inv == TypeOK /\ Ownership /\ Prepared /\ Queried /\ StaysInBuffer

LEMMA SeqOfSubset ==
  ASSUME NEW A, NEW B, A \subseteq B
  PROVE  Seq(A) \subseteq Seq(B)
<1> SUFFICES ASSUME NEW s \in Seq(A) PROVE s \in Seq(B)
  OBVIOUS
<1>1. Len(s) \in Nat /\ s = [i \in 1 .. Len(s) |-> s[i]] /\ \A i \in 1 .. Len(s) : s[i] \in A
  OBVIOUS
<1>2. \A i \in 1 .. Len(s) : s[i] \in B
  BY <1>1, Zenon
<1> QED BY <1>1, <1>2

\* A text of bytes is one of characters.
LEMMA TextsAreNames == Seq(Byte) \subseteq Seq(Char) /\ Texts \subseteq Names
<1>1. Byte \subseteq Char
  BY DEF Byte, Char
<1>2. Seq(Byte) \subseteq Seq(Char)
  BY <1>1, SeqOfSubset, Zenon
<1> QED BY <1>2, SeqOfSubset, Zenon DEF Texts, Names

\* What the original library and the rule file name are names.
LEMMA ListsAreNames ==
  /\ RealLists \subseteq Names /\ StaticLists \subseteq Names
BY TextsAreNames, NamesAreTexts, Zenon

\* The preferred name is a text without NUL.
LEMMA PreferredIsText ==
  ASSUME TypeOK
  PROVE  preferred \in Seq(Char \ {NUL}) /\ preferred \in Seq(Char) /\ Len(preferred) \in Nat
<1> DEFINE A == Byte \ {NUL, 255}
           B == Char \ {NUL}
<1>1. preferred \in Seq(A)
  BY ReaderListAssumption DEF TypeOK
<1>2. A \subseteq B /\ A \subseteq Char
  BY DEF Byte, Char
<1> HIDE DEF A, B
<1>3. preferred \in Seq(B) /\ preferred \in Seq(Char)
  BY <1>1, <1>2, SeqOfSubset, Zenon
<1> QED BY <1>3 DEF B

\* The lengths the calls reckon with.
LEMMA Lengths ==
  ASSUME NEW list \in Names
  PROVE  /\ Serialize(list) \in Seq(Char) /\ Len(Serialize(list)) \in Nat
         /\ MultiString(list) \in Seq(Char) /\ Len(MultiString(list)) \in Nat
<1>1. Serialize(list) \in Seq(Char)
  <2>1. NUL \in Char
    BY DEF NUL, Char
  <2> QED BY <2>1, TerminatedType, Zenon DEF Serialize
<1>2. MultiString(list) \in Seq(Char)
  <2>1. <<NUL>> \in Seq(Char) /\ <<>> \in Seq(Char)
    BY DEF NUL, Char
  <2>2. Serialize(list) \o <<NUL>> \in Seq(Char)
    BY <1>1, <2>1, TextJoin
  <2> QED BY <2>1, <2>2 DEF MultiString
<1> HIDE DEF Char
<1> QED BY <1>1, <1>2

\* The same of the lists of a state.
LEMMA StateLengths ==
  ASSUME TypeOK
  PROVE  /\ Len(MultiString(plugged)) \in Nat /\ Len(Serialize(virtual)) \in Nat
         /\ virtual \in Names /\ plugged \in Names
<1>1. virtual \in Names /\ plugged \in Names
  BY ListsAreNames, TextsAreNames DEF TypeOK, Texts
<1> QED BY <1>1, Lengths

\* The invariant holds when the library is loaded.
LEMMA InitInv == Init => Inv
<1> SUFFICES ASSUME Init PROVE Inv
  OBVIOUS
<1> USE DEF Init
<1>1. TypeOK
  <2>1. virtual \in Seq(Seq(Byte))
    BY NamesAreTexts DEF Texts
  <2>2. <<>> \in Seq(heap) /\ 0 \in 0 .. MaxAllocs
    BY ReaderListAssumption
  <2> QED BY <2>1, <2>2, ReaderListAssumption DEF TypeOK, Statuses, NoCall, NoQuery
<1>2. Ownership
  BY DEF Ownership, IsInjective, Range
<1>3. Prepared /\ Queried /\ StaysInBuffer
  BY DEF Prepared, Queried, StaysInBuffer
<1> QED BY <1>1, <1>2, <1>3 DEF Inv

\* The list of virtual readers after the proxy was asked.
LEMMA Refreshed ==
  ASSUME TypeOK, RefreshReaders
  PROVE  virtual' \in Texts /\ announced' \in Announcements \cup {<<>>}
<1>1. static \in Texts /\ virtual \in Texts
  BY NamesAreTexts DEF TypeOK, Texts
<1>2. CASE \E list \in Announcements : announced' = list /\ virtual' = static \o Answers[list]
  <2>1. PICK list \in Announcements : announced' = list /\ virtual' = static \o Answers[list]
    BY <1>2
  <2>2. Answers[list] \in Texts
    BY AnswersAreNames
  <2> DEFINE answer == Answers[list]
  <2> HIDE DEF answer
  <2>3. static \o answer \in Texts
    BY <1>1, <2>2, ConcatProperties, Zenon DEF Texts, answer
  <2> QED BY <2>1, <2>3 DEF answer
<1>3. CASE announced' = <<>> /\ virtual' = static
  BY <1>1, <1>3
<1>4. CASE UNCHANGED <<virtual, announced>>
  BY <1>1, <1>4 DEF TypeOK
<1> QED BY <1>2, <1>3, <1>4, Zenon DEF RefreshReaders

\* A new buffer has an address of its own.
LEMMA NewPointerFacts ==
  ASSUME \E p \in 1 .. MaxAllocs : p \notin heap
  PROVE  NewPointer \in 1 .. MaxAllocs /\ NewPointer \notin heap
BY DEF NewPointer

\* The ways of supplying a buffer.
LEMMA ModeFacts ==
  ASSUME NEW m \in Modes
  PROVE  /\ m[1] \in {"auto", "null", "buffer"} /\ m[2] \in Sizes \cup {0} /\ m[2] \in Nat
<1>1. Sizes \subseteq Nat
  BY ReaderListAssumption
<1>2. CASE m \in {<<"auto", 0>>, <<"null", 0>>}
  <2>1. m = <<"auto", 0>> \/ m = <<"null", 0>>
    BY <1>2
  <2> QED BY <2>1
<1>3. CASE m \in {"buffer"} \X Sizes
  <2>1. m[1] = "buffer" /\ m[2] \in Sizes
    BY <1>3
  <2> QED BY <1>1, <2>1
<1> QED BY <1>2, <1>3 DEF Modes

\* The first half of a call: the lengths are added up and the buffer is prepared.
LEMMA ListReadersInv ==
  ASSUME Inv, NEW wide \in BOOLEAN, NEW m \in Modes, SCardListReaders(wide, m[1], m[2])
  PROVE  Inv'
<1> DEFINE mode == m[1]
           size == m[2]
           real == Len(MultiString(plugged))
           virt == Len(Serialize(virtual'))
           atOnce == ReturnsAtOnce(mode, size)
<1>1. SCardListReaders(wide, mode, size)
  OBVIOUS
<1>2. mode \in {"auto", "null", "buffer"} /\ size \in Sizes \cup {0} /\ size \in Nat
  BY ModeFacts
<1>3. real \in Nat /\ virt \in Nat /\ virtual' \in Texts /\ announced' \in Announcements \cup {<<>>}
  BY <1>1, StateLengths, Refreshed, TextsAreNames, Lengths DEF Inv, SCardListReaders
<1>4. mode = "auto" => NewPointer \in 1 .. MaxAllocs /\ NewPointer \notin heap
  BY <1>1, NewPointerFacts DEF SCardListReaders
<1>5. /\ pc = "idle" /\ call' = [wide |-> wide, mode |-> mode, size |-> size]
      /\ realLen' = real /\ stable' = TRUE /\ overrun' = FALSE
      /\ UNCHANGED <<preferred, connected, plugged, static, charList, wcharList, held>>
  BY <1>1, Zenon DEF SCardListReaders
<1>6. atOnce =>
      /\ pc' = "idle" /\ buffer' = <<>> /\ readers' = 0 /\ heap' = heap
      /\ status' = IF NothingToList THEN "SCARD_E_NO_READERS_AVAILABLE"
                   ELSE IF mode = "null" THEN "SUCCESS" ELSE "SCARD_E_INSUFFICIENT_BUFFER"
      /\ pcchReaders' = IF NothingToList THEN (IF mode = "auto" THEN 0 ELSE size)
                        ELSE RequiredLength(wide, realLen', virt)
      /\ lastQuery' = IF NothingToList THEN NoQuery ELSE [wide |-> wide, len |-> pcchReaders']
  BY <1>1, Zenon DEF SCardListReaders
<1>7. ~atOnce =>
      /\ pc' = "fetch" /\ status' = "SUCCESS"
      /\ pcchReaders' = IF mode = "auto" THEN realLen' + virt + 2 ELSE size
      /\ buffer' = Zeroed(pcchReaders')
      /\ readers' = IF mode = "auto" THEN NewPointer ELSE 0
      /\ heap' = IF mode = "auto" THEN heap \cup {readers'} ELSE heap
      /\ lastQuery' = IF virtual' = virtual THEN lastQuery ELSE NoQuery
  BY <1>1, Zenon DEF SCardListReaders
<1>8. atOnce <=> NothingToList \/ (mode # "auto" /\ (mode = "null" \/ real + virt + 2 > size))
  BY DEF ReturnsAtOnce, TooSmall
<1>9. RequiredLength(wide, realLen', virt) \in Nat
  BY <1>3, <1>5 DEF RequiredLength
<1> HIDE DEF mode, size, real, virt, atOnce
<1>10. TypeOK'
  <2>1. /\ heap' \subseteq 1 .. MaxAllocs /\ heap \subseteq heap' /\ readers' \in 0 .. MaxAllocs
    <3>1. MaxAllocs \in Nat /\ heap \subseteq 1 .. MaxAllocs
      BY ReaderListAssumption DEF Inv, TypeOK
    <3>2. 0 \in 0 .. MaxAllocs /\ 1 .. MaxAllocs \subseteq 0 .. MaxAllocs
      BY <3>1
    <3> QED BY <1>4, <1>6, <1>7, <3>1, <3>2, Zenon
  <2>2. charList' \in Seq(heap') /\ wcharList' \in Seq(heap') /\ held' \subseteq heap'
    <3>1. charList \in Seq(heap) /\ wcharList \in Seq(heap) /\ held \subseteq heap
      BY DEF Inv, TypeOK
    <3>2. ASSUME NEW list \in Seq(heap) PROVE list \in Seq(heap')
      <4>1. Len(list) \in Nat /\ list = [i \in 1 .. Len(list) |-> list[i]]
            /\ \A i \in 1 .. Len(list) : list[i] \in heap
        OBVIOUS
      <4>2. \A i \in 1 .. Len(list) : list[i] \in heap'
        BY <2>1, <4>1, Zenon
      <4> QED BY <4>1, <4>2
    <3> QED BY <1>5, <2>1, <3>1, <3>2, Zenon
  <2>3. pcchReaders' \in Nat /\ status' \in Statuses /\ pc' \in {"idle", "fetch"}
    BY <1>2, <1>3, <1>5, <1>6, <1>7, <1>9 DEF Statuses
  <2>4. call' \in [wide : BOOLEAN, mode : {"auto", "null", "buffer"}, size : Sizes \cup {0}]
    BY <1>2, <1>5
  <2>5. lastQuery' \in [wide : BOOLEAN, len : Nat]
    <3>1. lastQuery \in [wide : BOOLEAN, len : Nat] /\ NoQuery \in [wide : BOOLEAN, len : Nat]
      BY DEF Inv, TypeOK, NoQuery
    <3>2. [wide |-> wide, len |-> pcchReaders'] \in [wide : BOOLEAN, len : Nat]
      BY <2>3
    <3> QED BY <1>6, <1>7, <3>1, <3>2, Zenon
  <2> QED BY <1>3, <1>5, <2>1, <2>2, <2>3, <2>4, <2>5 DEF Inv, TypeOK, Texts
<1>11. Ownership'
  <2>1. Ownership /\ held \subseteq heap
    BY DEF Inv, TypeOK
  <2>2. call'.mode = mode
    BY <1>5
  <2>3. pc' = "fetch" /\ call'.mode = "auto" => readers' \in heap' \ held'
    BY <1>4, <1>5, <1>6, <1>7, <2>1, <2>2
  <2> QED BY <1>5, <2>1, <2>3 DEF Ownership
<1>12. Prepared'
  <2>1. call'.mode = mode /\ MultiString(plugged)' = MultiString(plugged)
    BY <1>5
  <2>2. real' = real /\ real = Len(MultiString(plugged)') /\ virt = Len(Serialize(virtual)')
    BY <2>1 DEF real, virt
  <2>3. pc' = "fetch" =>
          /\ mode \in {"auto", "buffer"} /\ buffer' = Zeroed(pcchReaders')
          /\ pcchReaders' >= real + virt + 2
    BY <1>2, <1>3, <1>5, <1>6, <1>7, <1>8
  <2> QED BY <1>5, <2>1, <2>2, <2>3 DEF Prepared
<1>13. Queried'
  <2>1. MultiString(plugged)' = MultiString(plugged) /\ plugged' = plugged
    BY <1>5
  <2>2. real = Len(MultiString(plugged)') /\ virt = Len(Serialize(virtual)')
    BY <2>1 DEF real, virt
  <2>3. CASE atOnce
    <3> SUFFICES ASSUME ~NothingToList
                 PROVE  Queried'
      BY <1>6, <2>3 DEF Queried
    <3>1. lastQuery' = [wide |-> wide, len |-> RequiredLength(wide, real, virt)]
      BY <1>5, <1>6, <2>3
    <3> QED BY <2>1, <2>2, <3>1 DEF Queried, NothingToList, RequiredLength
  <2>4. CASE ~atOnce
    <3>1. lastQuery' = IF virtual' = virtual THEN lastQuery ELSE NoQuery
      BY <1>7, <2>4
    <3>2. CASE virtual' = virtual
      <4>1. lastQuery' = lastQuery
        BY <3>1, <3>2
      <4> QED BY <2>1, <3>2, <4>1 DEF Inv, Queried
    <3>3. CASE virtual' # virtual
      BY <3>1, <3>3 DEF Queried
    <3> QED BY <3>2, <3>3
  <2> QED BY <2>3, <2>4
<1>14. StaysInBuffer'
  BY <1>5 DEF StaysInBuffer
<1> QED BY <1>10, <1>11, <1>12, <1>13, <1>14 DEF Inv

\* Readers that come and go only make the query stale.
LEMMA HotPlugInv == Inv /\ HotPlug => Inv'
<1> SUFFICES ASSUME Inv, HotPlug PROVE Inv'
  OBVIOUS
<1> USE DEF HotPlug, Inv
<1>1. TypeOK'
  BY DEF TypeOK, NoQuery
<1>2. Ownership'
  BY DEF Ownership
<1>3. Prepared' /\ Queried' /\ StaysInBuffer'
  BY DEF Prepared, Queried, StaysInBuffer
<1> QED BY <1>1, <1>2, <1>3

\* A buffer that is released leaves its list, the heap and the application's hands.
LEMMA FreeMemoryInv ==
  ASSUME Inv, NEW p \in 1 .. MaxAllocs, SCardFreeMemory(p)
  PROVE  Inv'
<1> USE DEF SCardFreeMemory, Inv
<1>1. charList \in Seq(heap) /\ wcharList \in Seq(heap) /\ IsInjective(charList) /\ IsInjective(wcharList)
  BY DEF TypeOK, Ownership
<1>2. /\ Without(charList, p) \in Seq(heap \ {p}) /\ IsInjective(Without(charList, p))
      /\ Range(Without(charList, p)) = Range(charList) \ {p}
  BY <1>1, WithoutFacts
<1>3. /\ Without(wcharList, p) \in Seq(heap \ {p}) /\ IsInjective(Without(wcharList, p))
      /\ Range(Without(wcharList, p)) = Range(wcharList) \ {p}
  BY <1>1, WithoutFacts
<1>4. heap' = heap \ {p} /\ held' = held \ {p}
      /\ charList' = Without(charList, p) /\ wcharList' = Without(wcharList, p) /\ pc' = "idle"
  BY DEF Ownership
<1>5. Ownership'
  BY <1>2, <1>3, <1>4 DEF Ownership
<1>6. TypeOK'
  BY <1>2, <1>3, <1>4 DEF TypeOK
<1>7. Prepared' /\ Queried' /\ StaysInBuffer'
  BY <1>4 DEF Prepared, Queried, StaysInBuffer
<1> QED BY <1>5, <1>6, <1>7

\* What one of the two lists of buffers is after a call.
LEMMA EnteredIsList ==
  ASSUME Inv, pc = "fetch", NEW list, NEW wide, IsInjective(list), list \in Seq(heap),
         Range(list) \subseteq held
  PROVE  /\ Entered(list, wide) \in Seq(heap) /\ IsInjective(Entered(list, wide))
         /\ Range(Entered(list, wide)) =
              IF call.mode = "auto" /\ call.wide = wide /\ Listed(wide)
              THEN Range(list) \cup {readers} ELSE Range(list)
<1>1. CASE call.mode = "auto" /\ call.wide = wide /\ Listed(wide)
  <2>1. readers \in heap /\ readers \notin Range(list)
    BY <1>1 DEF Inv, Ownership
  <2>2. Entered(list, wide) = Append(list, readers)
    BY <1>1 DEF Entered
  <2> QED BY <1>1, <2>1, <2>2, EnteredFacts
<1>2. CASE ~(call.mode = "auto" /\ call.wide = wide /\ Listed(wide))
  BY <1>2, Zenon DEF Entered
<1> QED BY <1>1, <1>2

\* How long the list is that a call returns.
LEMMA CompletedLength ==
  ASSUME TypeOK
  PROVE  /\ Completed.len = IF call.mode = "buffer" /\ virtual = <<>> THEN LayoutLength
                            ELSE TotalLength(LayoutLength, Len(Serialize(virtual)))
         /\ LayoutLength \in Nat /\ Completed.len \in Nat
<1>1. Completed.len = IF call.mode = "buffer" /\ virtual = <<>> THEN LayoutLength
                      ELSE TotalLength(LayoutLength, Len(Serialize(virtual)))
  BY DEF Completed
<1>2. LayoutLength \in Nat
  BY StateLengths DEF LayoutLength, TypeOK
<1>3. TotalLength(LayoutLength, Len(Serialize(virtual))) \in Nat
  BY <1>2, StateLengths DEF TotalLength
<1> QED BY <1>1, <1>2, <1>3, Zenon

\* The virtual readers fit behind the real ones if those are the same as before.
LEMMA FitsWhenStable ==
  ASSUME Inv, pc = "fetch", stable
  PROVE  ~Overwrites
<1> DEFINE real == Len(MultiString(plugged))
           virt == Len(Serialize(virtual))
<1>1. real \in Nat /\ virt \in Nat /\ pcchReaders \in Nat
  BY StateLengths DEF Inv, TypeOK
<1>2. realLen = real /\ pcchReaders >= real + virt + 2 /\ LayoutLength = real
      /\ buffer = Zeroed(pcchReaders)
  BY DEF Inv, Prepared, LayoutLength
<1>3. Len(buffer) = pcchReaders
  BY <1>1, <1>2 DEF Zeroed
<1>4. Completed.len = real \/ Completed.len = TotalLength(real, virt)
  BY <1>2, CompletedLength DEF Inv
<1> HIDE DEF real, virt
<1>5. TotalLength(real, virt) <= real + virt + 1 /\ VirtualPosition(real) + virt <= real + virt
  BY <1>1 DEF TotalLength, VirtualPosition
<1>6. ~(Completed.len > Len(buffer))
  <2>1. real <= real + virt + 1 /\ real + virt + 1 <= Len(buffer)
    BY <1>1, <1>2, <1>3
  <2>2. TotalLength(real, virt) \in Int /\ Len(buffer) \in Int
    BY <1>1, <1>3 DEF TotalLength
  <2> QED BY <1>1, <1>4, <1>5, <2>1, <2>2
<1>7. ~(VirtualPosition(LayoutLength) + virt > Len(buffer))
  BY <1>1, <1>2, <1>3, <1>5 DEF VirtualPosition
<1> QED BY <1>6, <1>7 DEF Overwrites, virt

\* The second half of a call: the names are fetched, the buffer is entered.
LEMMA FetchReadersInv == Inv /\ FetchReaders => Inv'
<1> SUFFICES ASSUME Inv, FetchReaders PROVE Inv'
  OBVIOUS
<1>1. /\ pc = "fetch" /\ pc' = "idle" /\ status' = FetchStatus
      /\ charList' = Entered(charList, FALSE) /\ wcharList' = Entered(wcharList, TRUE)
      /\ held' = IF HandedOut THEN held \cup {readers} ELSE held
      /\ UNCHANGED <<preferred, connected, plugged, static, virtual, announced, call, readers, realLen,
                     heap, stable, lastQuery>>
  BY DEF FetchReaders
<1>2. FetchStatus = "SUCCESS" =>
        pcchReaders' = Completed.len /\ overrun' = (Overwrites \/ MistakesPointer \/ SearchWraps)
  BY DEF FetchReaders
<1>3. FetchStatus # "SUCCESS" =>
        /\ pcchReaders' = IF call.mode = "auto" THEN Len(MultiString(plugged)) ELSE pcchReaders
        /\ overrun' = overrun
  BY DEF FetchReaders
<1>4. ~overrun
  BY <1>1 DEF Inv, Prepared
<1>5. /\ charList \in Seq(heap) /\ wcharList \in Seq(heap) /\ IsInjective(charList)
      /\ IsInjective(wcharList) /\ Range(charList) \cap Range(wcharList) = {}
      /\ Range(charList) \cup Range(wcharList) = held
      /\ call.mode = "auto" => readers \in heap \ held
      /\ call.wide \in BOOLEAN /\ held \subseteq heap
  BY <1>1 DEF Inv, TypeOK, Ownership
<1>6. /\ charList' \in Seq(heap) /\ IsInjective(charList')
      /\ Range(charList') =
           IF call.mode = "auto" /\ call.wide = FALSE /\ Listed(FALSE)
           THEN Range(charList) \cup {readers} ELSE Range(charList)
  <2>1. Range(charList) \subseteq held
    BY <1>5, Zenon
  <2> QED BY <1>1, <1>5, <2>1, EnteredIsList
<1>7. /\ wcharList' \in Seq(heap) /\ IsInjective(wcharList')
      /\ Range(wcharList') =
           IF call.mode = "auto" /\ call.wide = TRUE /\ Listed(TRUE)
           THEN Range(wcharList) \cup {readers} ELSE Range(wcharList)
  <2>1. Range(wcharList) \subseteq held
    BY <1>5, Zenon
  <2> QED BY <1>1, <1>5, <2>1, EnteredIsList
<1>8. Listed(TRUE) = TRUE /\ Listed(FALSE) = (FetchStatus = "SUCCESS")
      /\ HandedOut = (call.mode = "auto" /\ (call.wide \/ FetchStatus = "SUCCESS"))
  BY DEF Listed, HandedOut
<1>9. Ownership'
  <2>1. Range(charList') \cup Range(wcharList') = held'
    BY <1>1, <1>5, <1>6, <1>7, <1>8
  <2>2. Range(charList') \cap Range(wcharList') = {}
    BY <1>5, <1>6, <1>7
  <2> QED BY <1>1, <1>6, <1>7, <2>1, <2>2 DEF Ownership
<1>10. TypeOK'
  <2>1. held' \subseteq heap
    BY <1>1, <1>5, <1>8
  <2>2. pcchReaders' \in Nat
    BY <1>2, <1>3, CompletedLength, StateLengths DEF Inv, TypeOK
  <2>3. overrun' \in BOOLEAN /\ status' \in Statuses
    <3>1. ASSUME FetchStatus = "SUCCESS" PROVE overrun' \in BOOLEAN
      <4>1. overrun' = (Overwrites \/ MistakesPointer \/ SearchWraps)
        BY <1>2, <3>1
      <4> QED BY <4>1, Zenon
    <3>2. ASSUME FetchStatus # "SUCCESS" PROVE overrun' \in BOOLEAN
      <4>1. overrun' = overrun /\ overrun \in BOOLEAN
        BY <1>3, <3>2 DEF Inv, TypeOK
      <4> QED BY <4>1, Zenon
    <3>3. status' \in Statuses
      BY <1>1 DEF FetchStatus, Statuses
    <3> QED BY <3>1, <3>2, <3>3
  <2> QED BY <1>1, <1>6, <1>7, <2>1, <2>2, <2>3 DEF Inv, TypeOK
<1>11. Prepared' /\ Queried'
  BY <1>1 DEF Prepared, Inv, Queried
<1>12. StaysInBuffer'
  <2> SUFFICES ASSUME overrun', stable
               PROVE  \/ call.mode = "auto" /\ (call.wide \/ preferred # <<>>)
                      \/ Len(preferred) > pcchReaders'
    BY <1>1 DEF StaysInBuffer
  <2>1. FetchStatus = "SUCCESS"
    BY <1>3, <1>4
  <2>2. ~Overwrites
    BY <1>1, FitsWhenStable
  <2>3. MistakesPointer \/ SearchWraps
    BY <1>2, <2>1, <2>2
  <2>4. SearchWraps => Len(preferred) > Completed.len
    <3>1. Len(preferred) \in Nat /\ Completed.len \in Nat
      BY CompletedLength, PreferredIsText DEF Inv
    <3> QED BY <3>1 DEF SearchWraps
  <2> QED BY <1>2, <2>1, <2>3, <2>4 DEF MistakesPointer
<1> QED BY <1>9, <1>10, <1>11, <1>12 DEF Inv

\* Every step keeps the invariant.
LEMMA StepInv == Inv /\ [Next]_vars => Inv'
<1> SUFFICES ASSUME Inv, [Next]_vars PROVE Inv'
  OBVIOUS
<1>1. CASE \E wide \in BOOLEAN, m \in Modes : SCardListReaders(wide, m[1], m[2])
  BY <1>1, ListReadersInv
<1>2. CASE HotPlug
  BY <1>2, HotPlugInv
<1>3. CASE FetchReaders
  BY <1>3, FetchReadersInv
<1>4. CASE \E p \in 1 .. MaxAllocs : SCardFreeMemory(p)
  BY <1>4, FreeMemoryInv
<1>5. CASE UNCHANGED vars
  BY <1>5 DEF vars, Inv, TypeOK, Ownership, Prepared, Queried, StaysInBuffer
<1> QED BY <1>1, <1>2, <1>3, <1>4, <1>5 DEF Next

\* The inductive invariant holds throughout.
THEOREM InvIsInvariant == Spec => []Inv
<1>1. Init => Inv
  BY InitInv
<1>2. Inv /\ [Next]_vars => Inv'
  BY StepInv
<1> QED BY <1>1, <1>2, PTL DEF Spec

\* The state of the calls has its types, and the two lists of allocated memory name no
\* buffer that has been deleted.
THEOREM TypeCorrect == Spec => []TypeOK
<1>1. Inv => TypeOK
  BY DEF Inv
<1> QED BY <1>1, InvIsInvariant, PTL

\* While the readers stay, a call stays inside the buffer but for its two slips
\* (SCardListReaders, SCardListReadersW): what is written behind the real names was
\* reckoned with.
THEOREM BufferIsKept == Spec => []StaysInBuffer
<1>1. Inv => StaysInBuffer
  BY DEF Inv
<1> QED BY <1>1, InvIsInvariant, PTL

\* SCardFreeMemory finds exactly what the application holds: each list holds its buffers
\* once, and no buffer is in both.
THEOREM AllocatedIsListed == Spec => []OwnedIsListed
<1>1. Inv => OwnedIsListed
  <2> SUFFICES ASSUME Inv PROVE OwnedIsListed
    OBVIOUS
  <2>1. charList \in Seq(heap) /\ wcharList \in Seq(heap)
    BY DEF Inv, TypeOK
  <2> DEFINE both == charList \o wcharList
  <2>2. /\ IsInjective(both) <=> /\ IsInjective(charList) /\ IsInjective(wcharList)
                                  /\ Range(charList) \cap Range(wcharList) = {}
        /\ Range(both) = Range(charList) \cup Range(wcharList)
    BY <2>1, ListedFacts
  <2> QED BY <2>2, Zenon DEF Inv, Ownership, OwnedIsListed
<1> QED BY <1>1, InvIsInvariant, PTL

\* A buffer of the length the wide variant asked for is never too small.
LEMMA QuerySuffices ==
  ASSUME Inv, NEW wide \in BOOLEAN, NEW size \in Sizes, Follows(TRUE, wide, size)
  PROVE  status' = "SUCCESS" /\ pc' = "fetch"
<1> DEFINE real == Len(MultiString(plugged))
           virt == Len(Serialize(virtual))
<1>1. real \in Nat /\ virt \in Nat /\ size \in Nat
  BY StateLengths, ReaderListAssumption DEF Inv
<1>2. /\ SCardListReaders(wide, "buffer", size) /\ virtual' = virtual
      /\ lastQuery # NoQuery /\ lastQuery.wide = TRUE /\ size >= lastQuery.len
  BY DEF Follows
<1>3. lastQuery.len = RequiredLength(lastQuery.wide, real, virt)
      /\ ~(plugged = <<>> /\ virtual = <<>>)
  BY <1>2 DEF Inv, Queried
<1> HIDE DEF real, virt
<1>4. size >= real + virt + 2
  BY <1>1, <1>2, <1>3 DEF RequiredLength
<1>5. ~ReturnsAtOnce("buffer", size)
  BY <1>1, <1>2, <1>3, <1>4 DEF ReturnsAtOnce, TooSmall, NothingToList, real, virt
<1> QED BY <1>2, <1>5 DEF SCardListReaders

\* The sequence of two calls every application uses works in the wide variant as long as
\* the readers are the same: the length a query returns is enough for the call that follows.
THEOREM QueryThenFetch == Spec => WideQuerySuffices
<1> DEFINE Step == \A wide \in BOOLEAN, size \in Sizes :
                     Follows(TRUE, wide, size) => status' = "SUCCESS" /\ pc' = "fetch"
<1>1. Inv => Step
  BY QuerySuffices
<1>2. [][Step]_vars <=> WideQuerySuffices
  BY DEF WideQuerySuffices
<1> HIDE DEF Step
<1>3. Spec => [][Step]_vars
  BY <1>1, InvIsInvariant, PTL
<1> QED BY <1>2, <1>3

-----------------------------------------------------------------------------
(* What lies in a buffer *)

\* What lies in a buffer from its start.
Begins(chars, text) ==
  Len(text) <= Len(chars) /\ \A q \in 1 .. Len(text) : chars[q] = text[q]

LEMMA BeginsIsPrefix ==
  ASSUME NEW chars \in Seq(Char), NEW text \in Seq(Char), Begins(chars, text)
  PROVE  SubSeq(chars, 1, Len(text)) = text
<1> DEFINE n == Len(text)
<1>1. n \in Nat /\ n <= Len(chars) /\ \A q \in 1 .. n : chars[q] = text[q]
  BY DEF Begins
<1>2. text = [q \in 1 .. n |-> text[q]]
  OBVIOUS
<1>3. SubSeq(chars, 1, n) = [q \in 1 .. n |-> chars[q]]
  <2> HIDE DEF n, Char
  <2> QED BY <1>1
<1> HIDE DEF n
<1> QED BY <1>1, <1>2, <1>3, Zenon DEF n

LEMMA OverlayFacts ==
  ASSUME NEW chars \in Seq(Char), NEW position \in Nat, NEW text \in Seq(Char)
  PROVE  LET new == Overlay(chars, position, text)
         IN  /\ new \in Seq(Char) /\ Len(new) = Len(chars)
             /\ \A q \in 1 .. Len(chars) :
                  new[q] = IF position < q /\ q <= position + Len(text)
                           THEN text[q - position] ELSE chars[q]
<1> DEFINE new == Overlay(chars, position, text)
           n == Len(chars)
           k == Len(text)
           at(q) == IF position < q /\ q <= position + k THEN text[q - position] ELSE chars[q]
<1>1. n \in Nat /\ k \in Nat /\ \A q \in 1 .. n : chars[q] \in Char
  OBVIOUS
<1>2. \A q \in 1 .. k : text[q] \in Char
  OBVIOUS
<1>3. new = [q \in 1 .. n |-> at(q)]
  BY DEF Overlay
<1> HIDE DEF n, k
<1>4. ASSUME NEW q \in 1 .. n PROVE at(q) \in Char
  <2>1. position < q /\ q <= position + k => q - position \in 1 .. k
    BY <1>1
  <2> QED BY <1>1, <1>2, <2>1, Zenon
<1>5. \A q \in 1 .. n : new[q] = at(q)
  BY <1>3
<1> HIDE DEF at, new
<1>6. new \in Seq(Char) /\ Len(new) = n
  BY <1>1, <1>3, <1>4
<1> QED BY <1>5, <1>6 DEF new, n, k, at

\* A text that is put behind another.
LEMMA OverlayBehind ==
  ASSUME NEW chars \in Seq(Char), NEW a \in Seq(Char), NEW b \in Seq(Char),
         Begins(chars, a), Len(a) + Len(b) <= Len(chars)
  PROVE  Begins(Overlay(chars, Len(a), b), a \o b)
<1> DEFINE new == Overlay(chars, Len(a), b)
           c == a \o b
           m == Len(a)
           n == Len(b)
<1>1. m \in Nat /\ n \in Nat /\ Len(chars) \in Nat /\ m + n <= Len(chars)
  OBVIOUS
<1>2. /\ Len(new) = Len(chars)
      /\ \A q \in 1 .. Len(chars) : new[q] = IF m < q /\ q <= m + n THEN b[q - m] ELSE chars[q]
  BY OverlayFacts
<1>3. /\ Len(c) = m + n
      /\ \A q \in 1 .. m : c[q] = a[q]
      /\ \A q \in 1 .. m + n : q > m => c[q] = b[q - m]
  BY JoinFacts
<1>4. \A q \in 1 .. m : chars[q] = a[q]
  BY DEF Begins
<1> HIDE DEF new, c, m, n
<1>5. ASSUME NEW q \in 1 .. m + n PROVE new[q] = c[q]
  <2>1. q \in 1 .. Len(chars)
    BY <1>1
  <2>2. CASE q <= m
    <3>1. q \in 1 .. m /\ ~(m < q)
      BY <1>1, <2>2
    <3> QED BY <1>2, <1>3, <1>4, <2>1, <3>1, Zenon
  <2>3. CASE q > m
    <3>1. m < q /\ q <= m + n
      BY <1>1, <2>3
    <3>2. c[q] = b[q - m]
      BY <1>3, <2>3
    <3>3. new[q] = b[q - m]
      BY <1>2, <2>1, <3>1
    <3> QED BY <3>2, <3>3
  <2> QED BY <1>1, <2>2, <2>3
<1>6. Len(c) <= Len(new)
  BY <1>1, <1>2, <1>3
<1> QED BY <1>3, <1>5, <1>6 DEF Begins, new, c, m, n

\* A text that takes the place of another of its length.
LEMMA OverlayInPlace ==
  ASSUME NEW chars \in Seq(Char), NEW a \in Seq(Char), NEW b \in Seq(Char), NEW rest \in Seq(Char),
         Len(a) = Len(b), Begins(chars, a \o rest)
  PROVE  Begins(Overlay(chars, 0, b), b \o rest)
<1> DEFINE new == Overlay(chars, 0, b)
           c == a \o rest
           d == b \o rest
           m == Len(b)
           n == Len(rest)
<1>1. m \in Nat /\ n \in Nat /\ Len(chars) \in Nat /\ Len(a) = m
  OBVIOUS
<1>2. /\ Len(new) = Len(chars)
      /\ \A q \in 1 .. Len(chars) : new[q] = IF 0 < q /\ q <= 0 + m THEN b[q - 0] ELSE chars[q]
  BY OverlayFacts
<1>3. Len(c) = m + n /\ \A q \in 1 .. m + n : q > m => c[q] = rest[q - m]
  <2>1. /\ Len(c) = Len(a) + Len(rest)
        /\ \A q \in 1 .. Len(a) + Len(rest) :
             q > Len(a) => q - Len(a) \in 1 .. Len(rest) /\ c[q] = rest[q - Len(a)]
    BY JoinFacts, Zenon
  <2> HIDE DEF c, m, n
  <2> QED BY <1>1, <2>1 DEF n
<1>4. /\ Len(d) = m + n
      /\ \A q \in 1 .. m : d[q] = b[q]
      /\ \A q \in 1 .. m + n : q > m => d[q] = rest[q - m]
  BY JoinFacts
<1>5. m + n <= Len(chars) /\ \A q \in 1 .. m + n : chars[q] = c[q]
  BY <1>3 DEF Begins
<1> HIDE DEF new, c, d, m, n
<1>6. ASSUME NEW q \in 1 .. m + n PROVE new[q] = d[q]
  <2>1. q \in 1 .. Len(chars) /\ (q <= m => new[q] = b[q]) /\ (q > m => new[q] = chars[q])
    <3>1. q \in 1 .. Len(chars) /\ q - 0 = q /\ 0 < q /\ 0 + m = m /\ (q > m => ~(q <= m))
      BY <1>1, <1>5
    <3>2. new[q] = IF 0 < q /\ q <= 0 + m THEN b[q - 0] ELSE chars[q]
      BY <1>2, <3>1, Zenon
    <3> QED BY <3>1, <3>2
  <2>2. CASE q <= m
    <3>1. q \in 1 .. m
      BY <1>1, <2>2
    <3> QED BY <1>4, <2>1, <2>2, <3>1, Zenon
  <2>3. CASE q > m
    <3>1. c[q] = rest[q - m]
      BY <1>3, <2>3
    <3>2. d[q] = rest[q - m]
      BY <1>4, <2>3
    <3>3. chars[q] = c[q]
      BY <1>5
    <3> QED BY <2>1, <2>3, <3>1, <3>2, <3>3
  <2> QED BY <1>1, <2>2, <2>3
<1>7. Len(d) <= Len(new)
  BY <1>1, <1>2, <1>4, <1>5
<1> QED BY <1>4, <1>6, <1>7 DEF Begins, new, d, m, n

LEMMA BeginsShorter ==
  ASSUME NEW chars \in Seq(Char), NEW a \in Seq(Char), NEW b \in Seq(Char), Begins(chars, a \o b)
  PROVE  Begins(chars, a)
<1> DEFINE c == a \o b
           m == Len(a)
           n == Len(b)
<1>1. Len(c) = m + n /\ \A q \in 1 .. m : c[q] = a[q]
  BY JoinFacts
<1>2. m \in Nat /\ n \in Nat /\ Len(chars) \in Nat
  OBVIOUS
<1>3. Len(c) <= Len(chars) /\ \A q \in 1 .. Len(c) : chars[q] = c[q]
  BY DEF Begins
<1> HIDE DEF c, m, n
<1>4. m <= Len(chars) /\ \A q \in 1 .. m : q \in 1 .. Len(c)
  BY <1>1, <1>2, <1>3
<1>5. \A q \in 1 .. m : chars[q] = a[q]
  BY <1>1, <1>3, <1>4, Zenon
<1> QED BY <1>4, <1>5 DEF Begins, m

-----------------------------------------------------------------------------
(* The search for the preferred reader *)

\* A list begins with the names up to one of them.
LEMMA PrefixFacts ==
  ASSUME NEW list \in Names, NEW n \in Nat, n + 1 <= Len(list)
  PROVE  /\ Serialize(SubSeq(list, 1, n)) \in Seq(Char) /\ list[n + 1] \in Seq(Char)
         /\ Serialize(SubSeq(list, 1, n + 1))
              = Serialize(SubSeq(list, 1, n)) \o Marked(list[n + 1], NUL)
<1>1. list \in Seq(Seq(Char)) /\ n \in 0 .. Len(list) /\ n + 1 \in 1 .. Len(list)
  BY DEF Names
<1>2. SubSeq(list, 1, n) \in Names
  <2>1. \A i \in 1 .. n : list[i] \in Seq(Char)
    BY <1>1
  <2> HIDE DEF Char
  <2> QED BY <1>1, <2>1 DEF Names
<1>3. list[n + 1] \in Seq(Char)
  BY <1>1
<1>4. Serialize(SubSeq(list, 1, n)) \in Seq(Char)
  BY <1>2, Lengths
<1>5. Serialize(SubSeq(list, 1, n + 1)) = Serialize(SubSeq(list, 1, n)) \o Marked(list[n + 1], NUL)
  BY <1>1, TerminatedStep, Zenon DEF Serialize
<1> QED BY <1>3, <1>4, <1>5, Zenon

\* A text lies in another, after the first i characters.
Occurs(text, word, i) ==
  i + Len(word) <= Len(text) /\ \A q \in 1 .. Len(word) : text[i + q] = word[q]

\* A word that occurs in a serialised list occurs in one of its names.
OccursInName(list, n, word, i) ==
  \E j \in 1 .. n :
    LET before == Len(Serialize(SubSeq(list, 1, j - 1)))
    IN  before <= i /\ Occurs(list[j], word, i - before)

LEMMA OccursInLast ==
  ASSUME NEW a \in Seq(Char), NEW b \in Seq(Char), NEW word \in Seq(Char \ {NUL}), word # <<>>,
         NEW i \in Nat, Occurs(a \o (b \o <<NUL>>), word, i),
         a # <<>> => a[Len(a)] = NUL
  PROVE  Occurs(a, word, i) \/ (Len(a) <= i /\ Occurs(b, word, i - Len(a)))
<1> DEFINE m == Len(a)
           n == Len(b)
           k == Len(word)
           d == b \o <<NUL>>
           c == a \o d
<1>1. m \in Nat /\ n \in Nat /\ k \in Nat /\ k # 0
  OBVIOUS
<1>2. \A q \in 1 .. k : word[q] # NUL
  OBVIOUS
<1>3. /\ d \in Seq(Char) /\ Len(d) = n + 1 /\ d[n + 1] = NUL
      /\ \A q \in 1 .. n : d[q] = b[q]
  <2>1. <<NUL>> \in Seq(Char) /\ Len(<<NUL>>) = 1 /\ <<NUL>>[1] = NUL /\ 1 \in 1 .. 1
    BY DEF NUL, Char
  <2> QED BY <2>1, JoinFacts
<1>4. /\ Len(c) = m + (n + 1)
      /\ \A q \in 1 .. m : c[q] = a[q]
      /\ \A q \in 1 .. n + 1 : c[m + q] = d[q]
  <2>1. /\ Len(c) = m + Len(d)
        /\ \A q \in 1 .. m : c[q] = a[q]
        /\ \A q \in 1 .. Len(d) : c[m + q] = d[q]
    BY <1>3, JoinFacts, Zenon
  <2> QED BY <1>3, <2>1, Zenon
<1>5. i + k <= Len(c) /\ \A q \in 1 .. k : c[i + q] = word[q]
  BY DEF Occurs
<1>6. m # 0 => a[m] = NUL
  OBVIOUS
<1> HIDE DEF m, n, k, d, c
<1>7. CASE i + k <= m
  <2>1. \A q \in 1 .. k : i + q \in 1 .. m
    BY <1>1, <1>7
  <2>2. \A q \in 1 .. k : a[i + q] = word[q]
    BY <1>4, <1>5, <2>1, Zenon
  <2> QED BY <1>7, <2>2 DEF Occurs, m, k
<1>8. CASE i + k > m /\ i < m
  <2>1. m - i \in 1 .. k /\ i + (m - i) = m /\ m \in 1 .. m /\ m # 0
    BY <1>1, <1>8
  <2>2. c[m] = NUL
    BY <1>4, <1>6, <2>1
  <2> QED BY <1>2, <1>5, <2>1, <2>2
<1>9. CASE i >= m
  <2>1. i + k # m + (n + 1)
    <3> SUFFICES ASSUME i + k = m + (n + 1) PROVE FALSE
      OBVIOUS
    <3>1. k \in 1 .. k /\ n + 1 \in 1 .. n + 1
      BY <1>1
    <3>2. c[m + (n + 1)] = NUL
      BY <1>3, <1>4, <3>1
    <3>3. c[i + k] = word[k]
      BY <1>5, <3>1
    <3> QED BY <1>2, <3>1, <3>2, <3>3
  <2>2. (i - m) + k <= n /\ i - m \in Nat
    BY <1>1, <1>4, <1>5, <1>9, <2>1
  <2>3. ASSUME NEW q \in 1 .. k PROVE b[(i - m) + q] = word[q]
    <3>1. (i - m) + q \in 1 .. n /\ (i - m) + q \in 1 .. n + 1 /\ m + ((i - m) + q) = i + q
      BY <1>1, <2>2, <1>9
    <3>2. c[m + ((i - m) + q)] = d[(i - m) + q]
      BY <1>4, <3>1, Zenon
    <3>3. d[(i - m) + q] = b[(i - m) + q]
      BY <1>3, <3>1, Zenon
    <3>4. c[i + q] = word[q]
      BY <1>5
    <3> QED BY <3>1, <3>2, <3>3, <3>4
  <2> QED BY <1>9, <2>2, <2>3 DEF Occurs, m, n, k
<1> QED BY <1>1, <1>7, <1>8, <1>9

LEMMA EndsWithNUL ==
  ASSUME NEW a \in Seq(Char), NEW b \in Seq(Char)
  PROVE  LET c == a \o (b \o <<NUL>>) IN c[Len(c)] = NUL
<1> DEFINE d == b \o <<NUL>>
           c == a \o d
<1>1. d \in Seq(Char) /\ Len(d) = Len(b) + 1 /\ d[Len(b) + 1] = NUL
  BY DEF NUL, Char
<1>2. Len(d) \in 1 .. Len(d)
  BY <1>1
<1>3. Len(c) = Len(a) + Len(d) /\ \A q \in 1 .. Len(d) : c[Len(a) + q] = d[q]
  BY <1>1, JoinFacts, Zenon
<1> HIDE DEF c, d
<1>4. c[Len(c)] = d[Len(d)]
  BY <1>2, <1>3, Zenon
<1> QED BY <1>1, <1>4 DEF c, d

LEMMA OccursSomewhere ==
  ASSUME NEW list \in Names, NEW word \in Seq(Char \ {NUL}), word # <<>>,
         NEW i \in Nat, Occurs(Serialize(list), word, i)
  PROVE  OccursInName(list, Len(list), word, i)
<1> DEFINE T(n) == Serialize(SubSeq(list, 1, n))
           Claim(n) == n <= Len(list) =>
                         /\ T(n) # <<>> => T(n)[Len(T(n))] = NUL
                         /\ Occurs(T(n), word, i) => OccursInName(list, n, word, i)
           S == {n \in Nat : Claim(n)}
<1>1. T(0) = <<>>
  <2>1. SubSeq(list, 1, 0) = <<>>
    OBVIOUS
  <2> QED BY <2>1, TerminatedEmpty DEF Serialize
<1>2. Claim(0)
  <2>1. Len(word) \in Nat /\ Len(word) # 0 /\ Len(<<>>) = 0
    OBVIOUS
  <2>2. ~Occurs(<<>>, word, i)
    BY <2>1 DEF Occurs
  <2> HIDE DEF T
  <2> QED BY <1>1, <2>2
<1>3. ASSUME NEW n \in Nat, Claim(n) PROVE Claim(n + 1)
  <2> HIDE DEF T
  <2> SUFFICES ASSUME n + 1 <= Len(list)
               PROVE  /\ T(n + 1) # <<>> => T(n + 1)[Len(T(n + 1))] = NUL
                      /\ Occurs(T(n + 1), word, i) => OccursInName(list, n + 1, word, i)
    OBVIOUS
  <2>1. T(n) \in Seq(Char) /\ list[n + 1] \in Seq(Char) /\ T(n + 1) = T(n) \o Marked(list[n + 1], NUL)
    BY PrefixFacts DEF T
  <2>2. n <= Len(list) /\ (n + 1) - 1 = n /\ n + 1 \in 1 .. n + 1
    BY DEF Names
  <2>3. CASE list[n + 1] = <<>>
    <3>1. T(n + 1) = T(n)
      BY <2>1, <2>3 DEF Marked
    <3>2. \A j \in 1 .. n : j \in 1 .. n + 1
      OBVIOUS
    <3>3. OccursInName(list, n, word, i) => OccursInName(list, n + 1, word, i)
      BY <3>2, Zenon DEF OccursInName
    <3> QED BY <1>3, <2>2, <3>1, <3>3
  <2>4. ASSUME list[n + 1] # <<>> PROVE T(n + 1) = T(n) \o (list[n + 1] \o <<NUL>>)
    BY <2>1, <2>4 DEF Marked
  <2>5. ASSUME list[n + 1] # <<>> PROVE T(n + 1)[Len(T(n + 1))] = NUL
    BY <2>1, <2>5, <2>4, EndsWithNUL
  <2>6. ASSUME list[n + 1] # <<>>, Occurs(T(n + 1), word, i) PROVE OccursInName(list, n + 1, word, i)
    <3>1. T(n) # <<>> => T(n)[Len(T(n))] = NUL
      BY <1>3, <2>2
    <3>2. Occurs(T(n), word, i) \/ (Len(T(n)) <= i /\ Occurs(list[n + 1], word, i - Len(T(n))))
      BY <2>1, <2>6, <2>4, <3>1, OccursInLast
    <3>3. CASE Occurs(T(n), word, i)
      <4>1. OccursInName(list, n, word, i)
        BY <1>3, <2>2, <3>3
      <4>2. \A j \in 1 .. n : j \in 1 .. n + 1
        OBVIOUS
      <4> QED BY <4>1, <4>2, Zenon DEF OccursInName
    <3>4. CASE Len(T(n)) <= i /\ Occurs(list[n + 1], word, i - Len(T(n)))
      BY <2>2, <3>4 DEF OccursInName, T
    <3> QED BY <3>2, <3>3, <3>4
  <2> QED BY <2>5, <2>6, <2>3
<1> HIDE DEF Claim
<1>4. Len(list) \in S
  <2>1. 0 \in S /\ \A n \in Nat : n \in S => n + 1 \in S
    BY <1>2, <1>3
  <2> HIDE DEF S
  <2>2. \A n \in Nat : n \in S
    BY <2>1, SetInduction
  <2> QED BY <2>2 DEF Names
<1>5. T(Len(list)) = Serialize(list)
  BY SubSeqFull, Zenon DEF Names
<1>6. Claim(Len(list)) /\ Len(list) <= Len(list)
  BY <1>4 DEF Names
<1> QED BY <1>5, <1>6, Zenon DEF Claim

LEMMA SerializeJoin ==
  ASSUME NEW a \in Names, NEW b \in Names
  PROVE  /\ Serialize(a \o b) = Serialize(a) \o Serialize(b)
         /\ a \o b \in Names
<1>1. NUL \in Char
  BY DEF NUL, Char
<1>2. a \o b \in Names
  BY ConcatProperties, Zenon DEF Names
<1> QED BY <1>1, <1>2, TerminatedJoin, Zenon DEF Serialize

\* A serialised list, taken apart at one of its names.
LEMMA SerializeParts ==
  ASSUME NEW list \in Names, NEW j \in 1 .. Len(list), list[j] # <<>>
  PROVE  Serialize(list) = (Serialize(SubSeq(list, 1, j - 1)) \o (list[j] \o <<NUL>>))
                             \o Serialize(SubSeq(list, j + 1, Len(list)))
<1>1. Serialize(list) = Serialize(SubSeq(list, 1, j)) \o Serialize(SubSeq(list, j + 1, Len(list)))
  BY ListParts, SerializeJoin
<1>2. j - 1 \in Nat /\ (j - 1) + 1 = j /\ (j - 1) + 1 <= Len(list)
  BY DEF Names
<1>3. Serialize(SubSeq(list, 1, (j - 1) + 1))
        = Serialize(SubSeq(list, 1, j - 1)) \o Marked(list[(j - 1) + 1], NUL)
  BY <1>2, PrefixFacts
<1>4. Marked(list[j], NUL) = list[j] \o <<NUL>>
  BY Zenon DEF Marked
<1> QED BY <1>1, <1>2, <1>3, <1>4, Zenon

LEMMA SerializeOne ==
  ASSUME NEW name \in Seq(Char), name # <<>>
  PROVE  <<name>> \in Names /\ Serialize(<<name>>) = name \o <<NUL>>
<1> DEFINE list == <<name>>
<1>1. list \in Names /\ Len(list) = 1 /\ list[0 + 1] = name
  BY DEF Names
<1>2. SubSeq(list, 1, 0) = <<>> /\ SubSeq(list, 1, 0 + 1) = list
  <2>1. SubSeq(list, 1, Len(list)) = list
    <3> HIDE DEF list
    <3> QED BY <1>1, SubSeqFull, Zenon DEF Names
  <2>2. SubSeq(list, 1, 0) = <<>>
    OBVIOUS
  <2>3. 0 + 1 = Len(list)
    BY <1>1
  <2> QED BY <2>1, <2>2, <2>3, Zenon
<1>3. Serialize(<<>>) = <<>>
  BY TerminatedEmpty DEF Serialize
<1> HIDE DEF list
<1>4. Serialize(SubSeq(list, 1, 0 + 1)) = Serialize(SubSeq(list, 1, 0)) \o Marked(list[0 + 1], NUL)
  <2>1. 0 \in Nat /\ 0 + 1 <= Len(list)
    BY <1>1
  <2> QED BY <1>1, <2>1, PrefixFacts
<1>5. name \o <<NUL>> \in Seq(Char)
  BY DEF NUL, Char
<1>6. <<>> \o (name \o <<NUL>>) = name \o <<NUL>>
  <2> HIDE DEF Char
  <2> QED BY <1>5, ConcatEmptySeq
<1> QED BY <1>1, <1>2, <1>3, <1>4, <1>6, Zenon DEF list, Marked

Before(list, j) == Len(Serialize(SubSeq(list, 1, j - 1)))

\* A later name begins later.
LEMMA BeforeGrows ==
  ASSUME NEW list \in Names, NEW j \in 1 .. Len(list), NEW n \in 1 .. Len(list), j < n,
         list[j] # <<>>
  PROVE  Before(list, j) < Before(list, n)
<1> DEFINE T(m) == Serialize(SubSeq(list, 1, m))
           Claim(d) == j + d <= Len(list) => Len(T(j - 1)) < Len(T(j + d))
           S == {d \in Nat : Claim(d)}
<1>1. Len(list) \in Nat
  BY DEF Names
<1>2. ASSUME NEW m \in Nat, m + 1 <= Len(list)
      PROVE  /\ Len(T(m)) \in Nat /\ Len(T(m + 1)) \in Nat /\ Len(T(m)) <= Len(T(m + 1))
             /\ list[m + 1] # <<>> => Len(T(m)) < Len(T(m + 1))
  <2>1. /\ T(m) \in Seq(Char) /\ list[m + 1] \in Seq(Char)
        /\ T(m + 1) = T(m) \o Marked(list[m + 1], NUL)
    BY <1>2, PrefixFacts
  <2> HIDE DEF T
  <2>2. <<NUL>> \in Seq(Char) /\ Len(<<NUL>>) = 1
    BY DEF NUL, Char
  <2>3. list[m + 1] \o <<NUL>> \in Seq(Char) /\ Len(list[m + 1] \o <<NUL>>) = Len(list[m + 1]) + 1
    BY <2>1, <2>2, TextJoin
  <2>4. Marked(list[m + 1], NUL) \in Seq(Char)
    <3>1. NUL \in Char
      BY DEF NUL, Char
    <3> QED BY <2>1, <3>1, MarkedIsText
  <2>5. Len(Marked(list[m + 1], NUL)) = IF list[m + 1] = <<>> THEN 0 ELSE Len(list[m + 1]) + 1
    BY <2>3 DEF Marked
  <2>6. Len(T(m + 1)) = Len(T(m)) + Len(Marked(list[m + 1], NUL))
    BY <2>1, <2>4, TextJoin
  <2>7. Len(T(m)) \in Nat /\ Len(list[m + 1]) \in Nat
    BY <2>1
  <2> QED BY <2>6, <2>7, <2>5
<1> HIDE DEF T
<1>3. Claim(0)
  <2>1. j - 1 \in Nat /\ (j - 1) + 1 = j /\ j + 0 = j /\ (j - 1) + 1 <= Len(list)
    BY <1>1
  <2> QED BY <1>2, <2>1
<1>4. ASSUME NEW d \in Nat, Claim(d) PROVE Claim(d + 1)
  <2> SUFFICES ASSUME j + (d + 1) <= Len(list) PROVE Len(T(j - 1)) < Len(T(j + (d + 1)))
    OBVIOUS
  <2>1. /\ j + d \in Nat /\ (j + d) + 1 = j + (d + 1) /\ j + d <= Len(list)
        /\ j - 1 \in Nat /\ (j - 1) + 1 <= Len(list)
    BY <1>1
  <2>2. Len(T(j + d)) \in Nat /\ Len(T(j + (d + 1))) \in Nat /\ Len(T(j + d)) <= Len(T(j + (d + 1)))
    BY <1>2, <2>1
  <2>3. Len(T(j - 1)) \in Nat
    BY <1>2, <2>1
  <2> QED BY <1>4, <2>1, <2>2, <2>3
<1> HIDE DEF Claim
<1>5. \A d \in Nat : d \in S
  <2>1. 0 \in S /\ \A d \in Nat : d \in S => d + 1 \in S
    BY <1>3, <1>4
  <2> HIDE DEF S
  <2> QED BY <2>1, SetInduction
<1>6. (n - 1) - j \in Nat /\ j + ((n - 1) - j) = n - 1 /\ n - 1 <= Len(list)
  BY <1>1
<1>7. Claim((n - 1) - j)
  BY <1>5, <1>6
<1> QED BY <1>6, <1>7, Zenon DEF Claim, Before, T

LEMMA BeforeIsLength ==
  ASSUME NEW list \in Names, NEW j \in 1 .. Len(list)
  PROVE  Before(list, j) \in Nat
<1>1. SubSeq(list, 1, j - 1) \in Names
  BY ListParts
<1> QED BY <1>1, Lengths DEF Before

\* A name occurs where it begins.
LEMMA OccursAtName ==
  ASSUME NEW list \in Names, NEW j \in 1 .. Len(list), list[j] # <<>>
  PROVE  Before(list, j) \in Nat /\ Occurs(Serialize(list), list[j], Before(list, j))
<1> DEFINE a == Serialize(SubSeq(list, 1, j - 1))
           b == list[j] \o <<NUL>>
           c == Serialize(SubSeq(list, j + 1, Len(list)))
           m == Len(a)
           k == Len(list[j])
<1>1. a \in Seq(Char) /\ c \in Seq(Char) /\ list[j] \in Seq(Char) /\ <<NUL>> \in Seq(Char)
  <2>1. SubSeq(list, 1, j - 1) \in Names /\ SubSeq(list, j + 1, Len(list)) \in Names
    BY ListParts
  <2>2. list[j] \in Seq(Char) /\ <<NUL>> \in Seq(Char)
    BY DEF Names, NUL, Char
  <2> QED BY <2>1, <2>2, Lengths
<1>2. Serialize(list) = (a \o b) \o c
  BY SerializeParts
<1>3. /\ b \in Seq(Char) /\ Len(b) = k + 1
      /\ \A q \in 1 .. k : b[q] = list[j][q]
  <2>1. Len(<<NUL>>) = 1
    OBVIOUS
  <2> QED BY <1>1, <2>1, JoinFacts
<1> HIDE DEF b
<1> DEFINE d == a \o b
           e == d \o c
<1> HIDE DEF a, c
<1>4. /\ d \in Seq(Char) /\ Len(d) = m + (k + 1)
      /\ \A q \in 1 .. Len(b) : d[m + q] = b[q]
  <2>1. /\ d \in Seq(Char) /\ Len(d) = m + Len(b)
        /\ \A q \in 1 .. Len(b) : d[m + q] = b[q]
    BY <1>1, <1>3, JoinFacts, Zenon
  <2> QED BY <1>3, <2>1, Zenon
<1> HIDE DEF d
<1>5. /\ Len(e) = (m + (k + 1)) + Len(c)
      /\ \A q \in 1 .. Len(d) : e[q] = d[q]
  <2>1. /\ Len(e) = Len(d) + Len(c)
        /\ \A q \in 1 .. Len(d) : e[q] = d[q]
    BY <1>1, <1>4, JoinFacts, Zenon
  <2> QED BY <1>4, <2>1, Zenon
<1>6. m \in Nat /\ k \in Nat /\ Len(c) \in Nat
  BY <1>1
<1> HIDE DEF m, k, e
<1>7. ASSUME NEW q \in 1 .. k PROVE e[m + q] = list[j][q]
  <2>1. q \in 1 .. Len(b) /\ m + q \in 1 .. Len(d)
    BY <1>3, <1>4, <1>6
  <2> QED BY <1>3, <1>4, <1>5, <2>1, Zenon
<1>8. m + k <= Len(e)
  BY <1>5, <1>6
<1> QED BY <1>2, <1>6, <1>7, <1>8 DEF Occurs, Before, a, c, m, k, d, e

LEMMA SubSeqIsWord ==
  ASSUME NEW text \in Seq(Char), NEW word \in Seq(Char), NEW i \in Nat, i + Len(word) <= Len(text)
  PROVE  SubSeq(text, i + 1, i + Len(word)) = word <=> \A q \in 1 .. Len(word) : text[i + q] = word[q]
<1> DEFINE k == Len(word)
           s == SubSeq(text, i + 1, i + k)
<1>1. k \in Nat /\ i + k <= Len(text) /\ Len(text) \in Nat
  OBVIOUS
<1>2. /\ s \in Seq(Char) /\ Len(s) = k
      /\ \A q \in 1 .. k : s[q] = text[i + q]
  <2> DEFINE m == i + 1
             n == i + k
  <2>1. m \in 1 .. Len(text) + 1 /\ n \in Nat /\ n <= Len(text) /\ n - m + 1 = k
    BY <1>1
  <2> HIDE DEF m, n, k, Char
  <2>2. /\ SubSeq(text, m, n) \in Seq(Char) /\ Len(SubSeq(text, m, n)) = k
        /\ \A q \in 1 .. k : SubSeq(text, m, n)[q] = text[m + q - 1]
    BY <1>1, <2>1
  <2>3. \A q \in 1 .. k : m + q - 1 = i + q
    BY <1>1 DEF m
  <2> QED BY <2>2, <2>3, Zenon DEF m, n
<1>3. word \in Seq(Char) /\ Len(word) = k
  OBVIOUS
<1> HIDE DEF s, k, Char
<1>4. s = word <=> \A q \in 1 .. k : s[q] = word[q]
  BY <1>2, <1>3, SeqEqual
<1> QED BY <1>2, <1>4, Zenon DEF s, k

\* Where the preferred name is found in a serialised list.
LEMMA FoundAtName ==
  ASSUME TypeOK, NEW list \in Names, Unambiguous(list), preferred # <<>>,
         NEW i \in Nat, Occurs(Serialize(list), preferred, i)
  PROVE  \E j \in 1 .. Len(list) : list[j] = preferred /\ i = Before(list, j)
<1>1. preferred \in Seq(Char \ {NUL}) /\ preferred \in Seq(Char) /\ Len(preferred) \in Nat
  BY PreferredIsText
<1>2. PICK j \in 1 .. Len(list) :
        Before(list, j) <= i /\ Occurs(list[j], preferred, i - Before(list, j))
  <2>1. OccursInName(list, Len(list), preferred, i)
    BY <1>1, OccursSomewhere
  <2> QED BY <2>1, Zenon DEF OccursInName, Before
<1>3. list[j] \in Seq(Char) /\ j \in DOMAIN list /\ Before(list, j) \in Nat /\ Len(list[j]) \in Nat
  BY BeforeIsLength DEF Names
<1> DEFINE d == i - Before(list, j)
<1>4. d \in Nat /\ i = Before(list, j) + d
  BY <1>2, <1>3
<1>5. Occurs(list[j], preferred, d)
  BY <1>2
<1> HIDE DEF d
<1>6. d + Len(preferred) <= Len(list[j])
  BY <1>5 DEF Occurs
<1>7. SubSeq(list[j], d + 1, d + Len(preferred)) = preferred
  BY <1>1, <1>3, <1>4, <1>5, <1>6, SubSeqIsWord DEF Occurs
<1>8. d \in 0 .. Len(list[j]) - Len(preferred)
  BY <1>1, <1>3, <1>4, <1>6
<1>9. list[j] = preferred
  BY <1>3, <1>7, <1>8, Zenon DEF Unambiguous
<1>10. d = 0
  BY <1>1, <1>4, <1>6, <1>9
<1> QED BY <1>3, <1>4, <1>9, <1>10

\* The search finds the first reader of that name, or nothing.
LEMMA Search ==
  ASSUME TypeOK, NEW list \in Names, Unambiguous(list), preferred # <<>>,
         NEW chars \in Seq(Char), Begins(chars, Serialize(list) \o <<NUL>>)
  PROVE  LET n     == Len(Serialize(list)) + 1
             found == Places(chars, n)
         IN  /\ found # {} <=> Contains(list, preferred)
             /\ found # {} =>
                  \E j \in 1 .. Len(list) :
                    /\ list[j] = preferred /\ \A m \in 1 .. Len(list) : list[m] = preferred => j <= m
                    /\ Min(found) = Before(list, j)
<1> DEFINE ser   == Serialize(list)
           n     == Len(ser) + 1
           k     == Len(preferred)
           found == Places(chars, n)
           first == Min(found)
           At(j) == Before(list, j)
<1>1. ser \in Seq(Char) /\ Len(ser) \in Nat /\ <<NUL>> \in Seq(Char) /\ Len(list) \in Nat
  BY Lengths DEF NUL, Char, Names
<1>2. preferred \in Seq(Char) /\ k \in Nat
  BY PreferredIsText
<1>3. Begins(chars, ser)
  BY <1>1, BeginsShorter
<1>4. Len(ser) <= Len(chars) /\ Len(chars) \in Nat /\ \A q \in 1 .. Len(ser) : chars[q] = ser[q]
  BY <1>3 DEF Begins
<1> HIDE DEF ser, k
<1>5. ASSUME NEW i \in Nat, i + k <= Len(ser)
      PROVE  SubSeq(chars, i + 1, i + k) = preferred <=> Occurs(ser, preferred, i)
  <2>1. i + k <= Len(chars)
    BY <1>1, <1>2, <1>4, <1>5
  <2>2. SubSeq(chars, i + 1, i + k) = preferred <=> \A q \in 1 .. k : chars[i + q] = preferred[q]
    BY <1>2, <2>1, SubSeqIsWord DEF k
  <2>3. \A q \in 1 .. k : i + q \in 1 .. Len(ser)
    BY <1>1, <1>2, <1>5
  <2>4. \A q \in 1 .. k : chars[i + q] = ser[i + q]
    BY <1>4, <2>3, Zenon
  <2> QED BY <1>5, <2>2, <2>4, Zenon DEF Occurs, k
<1>6. \A i : i \in 0 .. n - k - 1 <=> i \in Nat /\ i + k <= Len(ser)
  BY <1>1, <1>2
<1>7. \A i : i \in found <=> i \in Nat /\ Occurs(ser, preferred, i)
  <2>1. \A i : Occurs(ser, preferred, i) => i + k <= Len(ser)
    BY Zenon DEF Occurs, k
  <2>2. \A i : i \in found <=> i \in 0 .. n - k - 1 /\ SubSeq(chars, i + 1, i + k) = preferred
    BY Zenon DEF Places, k
  <2> HIDE DEF found
  <2> QED BY <1>5, <1>6, <2>1, <2>2, Zenon
<1> HIDE DEF found
<1>8. ASSUME NEW i \in found
      PROVE  \E j \in 1 .. Len(list) : list[j] = preferred /\ i = At(j)
  BY <1>7, <1>8, FoundAtName DEF ser
<1>9. ASSUME NEW j \in 1 .. Len(list), list[j] = preferred
      PROVE  At(j) \in found
  BY <1>7, <1>9, OccursAtName DEF ser
<1>10. found # {} <=> Contains(list, preferred)
  BY <1>8, <1>9, Zenon DEF Contains
<1>11. ASSUME found # {}
       PROVE  \E j \in 1 .. Len(list) :
                /\ list[j] = preferred /\ \A m \in 1 .. Len(list) : list[m] = preferred => j <= m
                /\ first = At(j)
  <2>1. found \subseteq Nat
    BY <1>7
  <2>3. first \in found /\ \A h \in found : first <= h
    BY <1>11, <2>1, MinFacts
  <2>4. PICK j \in 1 .. Len(list) : list[j] = preferred /\ first = At(j)
    BY <1>8, <2>3
  <2>5. ASSUME NEW m \in 1 .. Len(list), list[m] = preferred PROVE j <= m
    <3>1. At(j) <= At(m) /\ At(j) \in Nat /\ At(m) \in Nat
      BY <1>9, <2>3, <2>4, <2>5, BeforeIsLength
    <3>2. m < j => At(m) < At(j)
      BY <2>5, BeforeGrows
    <3> HIDE DEF At
    <3>3. ~(m < j)
      BY <3>1, <3>2
    <3> QED BY <1>1, <3>3
  <2> QED BY <2>4, <2>5
<1> QED BY <1>10, <1>11, Zenon DEF first, found, n, k, ser, At

\* The first entry of a name is removed.
LEMMA RemovedFirst ==
  ASSUME NEW list \in Names, NEW j \in 1 .. Len(list), NEW name, list[j] = name,
         \A m \in 1 .. Len(list) : list[m] = name => j <= m
  PROVE  RemoveFirst(list, name) = SubSeq(list, 1, j - 1) \o SubSeq(list, j + 1, Len(list))
<1> DEFINE I == {m \in 1 .. Len(list) : list[m] = name}
<1>1. SelectInSeq(list, LAMBDA v : v = name) = IF I # {} THEN Min(I) ELSE 0
  BY DEF SelectInSeq
<1>2. j \in I /\ I \subseteq Nat /\ \A m \in I : j <= m
  OBVIOUS
<1> HIDE DEF I
<1>3. Min(I) = j
  <2>1. Min(I) \in I /\ Min(I) <= j
    BY <1>2, MinFacts
  <2>2. j <= Min(I) /\ Min(I) \in Nat /\ j \in Nat
    BY <1>2, <2>1
  <2> QED BY <2>1, <2>2
<1>4. SelectInSeq(list, LAMBDA v : v = name) = j
  BY <1>1, <1>2, <1>3, Zenon
<1>5. RemoveFirst(list, name) = RemoveAt(list, SelectInSeq(list, LAMBDA v : v = name))
  BY DEF RemoveFirst
<1> QED BY <1>4, <1>5, Zenon DEF RemoveAt

-----------------------------------------------------------------------------
(* The list a call returns *)

LEMMA EndAssociative ==
  ASSUME NEW x \in Seq(Char), NEW y \in Seq(Char)
  PROVE  (x \o y) \o <<NUL>> = x \o (y \o <<NUL>>)
<1> DEFINE z == <<NUL>>
<1>1. z \in Seq(Char)
  BY DEF NUL, Char
<1> HIDE DEF z
<1>2. (x \o y) \o z = x \o (y \o z)
  BY <1>1, TextJoinAssociative
<1> QED BY <1>2 DEF z

\* The preferred reader is moved to the front of the list.
LEMMA MovedToFront ==
  ASSUME TypeOK, NEW list \in Names, Unambiguous(list), NEW chars \in Seq(Char),
         Begins(chars, Serialize(list) \o <<NUL>>)
  PROVE  LET moved == Reordered(chars, Len(Serialize(list)) + 1)
         IN  /\ moved \in Seq(Char) /\ Len(moved) = Len(chars)
             /\ InOrder(list) \in Names /\ (list # <<>> => InOrder(list) # <<>>)
             /\ Len(Serialize(InOrder(list))) = Len(Serialize(list))
             /\ Begins(moved, Serialize(InOrder(list)) \o <<NUL>>)
<1> DEFINE ser   == Serialize(list)
           n     == Len(ser) + 1
           k     == Len(preferred)
           found == Places(chars, n)
           i     == Min(found)
           moved == Reordered(chars, n)
           stays == ~Comparable \/ call.mode # "buffer" \/ found = {}
           front == preferred \o <<NUL>>
<1>1. /\ ser \in Seq(Char) /\ Len(ser) \in Nat /\ n \in Nat
      /\ preferred \in Seq(Char) /\ k \in Nat /\ (k = 0 <=> preferred = <<>>)
      /\ <<NUL>> \in Seq(Char) /\ Len(<<NUL>>) = 1
  BY Lengths, PreferredIsText DEF NUL, Char
<1>2. n <= Len(chars)
  <2>1. Len(ser \o <<NUL>>) = n
    BY <1>1, TextJoin
  <2>2. Len(ser \o <<NUL>>) <= Len(chars)
    BY Zenon DEF Begins
  <2> QED BY <2>1, <2>2, Zenon
<1>3. (IF n < Len(chars) THEN n ELSE Len(chars)) = n
  <2>1. n \in Nat /\ Len(chars) \in Nat
    BY <1>1
  <2> HIDE DEF n
  <2> QED BY <1>2, <2>1
<1>4. moved = IF stays THEN chars ELSE Overlay(chars, 0, front \o SubSeq(chars, 1, i))
  <2> DEFINE m == IF n < Len(chars) THEN n ELSE Len(chars)
  <2>1. moved = IF ~Comparable \/ call.mode # "buffer" \/ Places(chars, m) = {}
                THEN chars
                ELSE Overlay(chars, 0, preferred \o <<NUL>> \o SubSeq(chars, 1, Min(Places(chars, m))))
    BY Zenon DEF Reordered
  <2>2. m = n
    BY <1>3, Zenon
  <2> HIDE DEF m, n, moved
  <2> QED BY <2>1, <2>2, Zenon
<1>5. preferred # <<>> => (found # {} <=> Contains(list, preferred))
  BY Search, Zenon
<1>8. Comparable => preferred # <<>>
  BY DEF Comparable
<1>6. CASE stays
  <2>1. InOrder(list) = list
    BY <1>5, <1>8, <1>6, Zenon DEF InOrder
  <2> HIDE DEF stays, moved, ser, found
  <2>2. moved = chars
    BY <1>4, <1>6
  <2> QED BY <2>1, <2>2, Zenon DEF moved, ser
<1>7. CASE ~stays
  <2>1. PICK j \in 1 .. Len(list) :
          /\ list[j] = preferred /\ \A m \in 1 .. Len(list) : list[m] = preferred => j <= m
          /\ i = Before(list, j)
    BY <1>8, <1>7, Search, Zenon
  <2> DEFINE pre == SubSeq(list, 1, j - 1)
             suf == SubSeq(list, j + 1, Len(list))
             a   == Serialize(pre)
             c   == Serialize(suf)
             new == front \o a
             old == a \o front
             rest == c \o <<NUL>>
  <2>2. pre \in Names /\ suf \in Names
    BY ListParts
  <2>3. /\ a \in Seq(Char) /\ c \in Seq(Char) /\ front \in Seq(Char)
        /\ new \in Seq(Char) /\ old \in Seq(Char) /\ rest \in Seq(Char)
        /\ Len(new) = Len(old)
    <3>1. a \in Seq(Char) /\ c \in Seq(Char) /\ front \in Seq(Char)
      BY <1>1, <2>2, Lengths, TextJoin
    <3> HIDE DEF a, c, front
    <3>2. rest \in Seq(Char)
      BY <1>1, <3>1, TextJoin
    <3>3. new \in Seq(Char) /\ old \in Seq(Char) /\ Len(new) = Len(front) + Len(a)
          /\ Len(old) = Len(a) + Len(front)
      BY <3>1, TextJoin
    <3>4. Len(a) \in Nat /\ Len(front) \in Nat
      BY <3>1
    <3>5. Len(new) = Len(old)
      <4> HIDE DEF new, old
      <4> QED BY <3>3, <3>4
    <3> QED BY <3>1, <3>2, <3>3, <3>5
  <2>4. ser = old \o c
    BY <1>8, <1>7, <2>1, SerializeParts
  <2>5. InOrder(list) = <<preferred>> \o (pre \o suf)
    <3>1. Contains(list, preferred) /\ Comparable /\ call.mode = "buffer"
      BY <1>5, <1>8, <1>7
    <3>2. RemoveFirst(list, preferred) = pre \o suf
      BY <2>1, RemovedFirst
    <3> QED BY <3>1, <3>2, Zenon DEF InOrder
  <2>6. /\ InOrder(list) \in Names
        /\ Serialize(InOrder(list)) = front \o (a \o c)
    <3>1. pre \o suf \in Names /\ Serialize(pre \o suf) = a \o c
      BY <2>2, SerializeJoin
    <3>2. <<preferred>> \in Names /\ Serialize(<<preferred>>) = front
      BY <1>1, <1>8, <1>7, SerializeOne
    <3> QED BY <2>5, <3>1, <3>2, SerializeJoin
  <2> HIDE DEF front, a, c
  <2>7. Serialize(InOrder(list)) = new \o c
    <3>1. (front \o a) \o c = front \o (a \o c)
      <4>1. front \in Seq(Char) /\ a \in Seq(Char) /\ c \in Seq(Char)
        BY <2>3
      <4> QED BY <4>1, TextJoinAssociative
    <3> QED BY <2>6, <3>1, Zenon
  <2>8. ser \o <<NUL>> = old \o rest
    <3>1. (old \o c) \o <<NUL>> = old \o (c \o <<NUL>>)
      BY <2>3, EndAssociative
    <3> QED BY <2>4, <3>1, Zenon
  <2>9. Serialize(InOrder(list)) \o <<NUL>> = new \o rest
    <3>1. (new \o c) \o <<NUL>> = new \o (c \o <<NUL>>)
      BY <2>3, EndAssociative
    <3> QED BY <2>7, <3>1, Zenon
  <2>10. SubSeq(chars, 1, i) = a
    <3>1. Begins(chars, old \o rest)
      BY <2>8
    <3>2. Begins(chars, old)
      BY <2>3, <3>1, BeginsShorter
    <3>3. Begins(chars, a)
      BY <2>3, <3>2, BeginsShorter
    <3>4. SubSeq(chars, 1, Len(a)) = a
      BY <2>3, <3>3, BeginsIsPrefix
    <3> QED BY <2>1, <3>4, Zenon DEF Before, a
  <2>11. moved = Overlay(chars, 0, new)
    <3>1. moved = Overlay(chars, 0, front \o SubSeq(chars, 1, i))
      BY <1>4, <1>7, Zenon
    <3> HIDE DEF i, moved
    <3> QED BY <2>10, <3>1, Zenon
  <2>12. Begins(moved, Serialize(InOrder(list)) \o <<NUL>>)
    <3>1. Begins(chars, old \o rest)
      BY <2>8, Zenon
    <3> HIDE DEF old, new, rest, moved
    <3>2. Begins(Overlay(chars, 0, new), new \o rest)
      BY <2>3, <3>1, OverlayInPlace, Zenon
    <3> QED BY <2>9, <2>11, <3>2, Zenon
  <2>13. moved \in Seq(Char) /\ Len(moved) = Len(chars)
    <3>1. 0 \in Nat
      OBVIOUS
    <3> HIDE DEF new, moved
    <3> QED BY <2>3, <2>11, <3>1, OverlayFacts
  <2>14. Len(Serialize(InOrder(list))) = Len(ser)
    <3>1. Len(new \o c) = Len(new) + Len(c) /\ Len(old \o c) = Len(old) + Len(c)
      BY <2>3, TextJoin
    <3> HIDE DEF new, old, c, ser
    <3> QED BY <2>3, <2>4, <2>7, <3>1, Zenon
  <2>15. InOrder(list) # <<>>
    <3>1. pre \o suf \in Seq(Seq(Char)) /\ preferred \in Seq(Char)
      BY <1>1, <2>2, SerializeJoin DEF Names
    <3> HIDE DEF Char
    <3> QED BY <2>5, <3>1
  <2> QED BY <2>6, <2>12, <2>13, <2>14, <2>15, Zenon
<1> QED BY <1>6, <1>7

LEMMA ZeroedIsText ==
  ASSUME NEW n \in Nat
  PROVE  Zeroed(n) \in Seq(Char) /\ Len(Zeroed(n)) = n
BY DEF Zeroed, NUL, Char

LEMMA BeginsAnything ==
  ASSUME NEW chars \in Seq(Char)
  PROVE  Begins(chars, <<>>)
<1>1. Len(<<>>) = 0 /\ Len(chars) \in Nat
  OBVIOUS
<1> HIDE DEF Char
<1> QED BY <1>1 DEF Begins

\* Lists whose names are as long as each other's take the same room.
LEMMA SameLengths ==
  ASSUME NEW a \in Names, NEW b \in Names, Len(a) = Len(b),
         \A i \in 1 .. Len(a) : Len(a[i]) = Len(b[i])
  PROVE  Len(Serialize(a)) = Len(Serialize(b))
<1> DEFINE T(l, n) == Serialize(SubSeq(l, 1, n))
           S == {n \in Nat : n <= Len(a) => Len(T(a, n)) = Len(T(b, n))}
<1>1. 0 \in S
  <2>1. SubSeq(a, 1, 0) = <<>> /\ SubSeq(b, 1, 0) = <<>>
    BY DEF Names
  <2> QED BY <2>1
<1>2. ASSUME NEW l \in Names, NEW n \in Nat, n + 1 <= Len(l)
      PROVE  /\ Len(l[n + 1]) \in Nat /\ Len(T(l, n)) \in Nat
             /\ Len(T(l, n + 1)) =
                  Len(T(l, n)) + (IF Len(l[n + 1]) = 0 THEN 0 ELSE Len(l[n + 1]) + 1)
  <2>1. /\ T(l, n) \in Seq(Char) /\ l[n + 1] \in Seq(Char)
        /\ T(l, n + 1) = T(l, n) \o Marked(l[n + 1], NUL)
    BY <1>2, PrefixFacts
  <2> HIDE DEF T
  <2>2. NUL \in Char /\ <<NUL>> \in Seq(Char) /\ Len(<<NUL>>) = 1
    BY DEF NUL, Char
  <2>3. Marked(l[n + 1], NUL) \in Seq(Char) /\ Len(l[n + 1] \o <<NUL>>) = Len(l[n + 1]) + 1
    BY <2>1, <2>2, MarkedIsText, TextJoin
  <2>4. l[n + 1] = <<>> <=> Len(l[n + 1]) = 0
    BY <2>1
  <2>5. Len(Marked(l[n + 1], NUL)) = IF Len(l[n + 1]) = 0 THEN 0 ELSE Len(l[n + 1]) + 1
    BY <2>3, <2>4 DEF Marked
  <2>6. Len(T(l, n + 1)) = Len(T(l, n)) + Len(Marked(l[n + 1], NUL))
    BY <2>1, <2>3, TextJoin
  <2> QED BY <2>1, <2>5, <2>6
<1>3. Len(a) \in Nat
  BY DEF Names
<1> HIDE DEF T
<1>4. \A n \in Nat : n \in S => n + 1 \in S
  <2> SUFFICES ASSUME NEW n \in Nat, n \in S, n + 1 <= Len(a)
               PROVE  Len(T(a, n + 1)) = Len(T(b, n + 1))
    OBVIOUS
  <2>1. n <= Len(a) /\ n + 1 <= Len(b) /\ n + 1 \in 1 .. Len(a)
    BY <1>3
  <2>2. Len(T(a, n)) = Len(T(b, n)) /\ Len(a[n + 1]) = Len(b[n + 1])
    BY <2>1
  <2> QED BY <1>2, <2>1, <2>2
<1> HIDE DEF S
<1>5. Len(a) \in S
  BY <1>1, <1>3, <1>4, SetInduction
<1>6. Len(T(a, Len(a))) = Len(T(b, Len(a)))
  BY <1>3, <1>5 DEF S
<1>7. SubSeq(a, 1, Len(a)) = a /\ SubSeq(b, 1, Len(b)) = b
  BY SubSeqFull DEF Names
<1> QED BY <1>6, <1>7, Zenon DEF T

\* The virtual readers take the same room in either variant.
LEMMA ShownFacts ==
  ASSUME TypeOK, NEW wide \in BOOLEAN
  PROVE  /\ Shown(wide) \in Names /\ Len(Serialize(Shown(wide))) = Len(Serialize(virtual))
         /\ Shown(wide) = <<>> <=> virtual = <<>>
<1>1. virtual \in Names
  BY StateLengths
<1>2. CASE ~wide
  BY <1>1, <1>2 DEF Shown
<1>3. CASE wide
  <2> DEFINE n == Len(virtual)
             copy(i) == Widened(virtual[i])
             list == [i \in 1 .. n |-> copy(i)]
  <2>1. n \in Nat /\ DOMAIN virtual = 1 .. n /\ \A i \in 1 .. n : virtual[i] \in Seq(Byte)
    BY DEF TypeOK
  <2>2. Shown(wide) = list
    BY <1>3, <2>1 DEF Shown
  <2>3. ASSUME NEW text \in Seq(Byte)
        PROVE  Widened(text) \in Seq(Char) /\ Len(Widened(text)) = Len(text)
    <3> DEFINE m == Len(text)
               char(p) == IF text[p] < 128 THEN text[p] ELSE 65280 + text[p]
    <3>1. m \in Nat /\ DOMAIN text = 1 .. m /\ \A p \in 1 .. m : text[p] \in Byte
      OBVIOUS
    <3>2. \A c \in Byte : (IF c < 128 THEN c ELSE 65280 + c) \in Char
      BY DEF Byte, Char
    <3>3. \A p \in 1 .. m : char(p) \in Char
      BY <3>1, <3>2
    <3>4. Widened(text) = [p \in 1 .. m |-> char(p)]
      BY <3>1 DEF Widened
    <3> HIDE DEF char, m
    <3>5. Widened(text) \in Seq(Char) /\ Len(Widened(text)) = m
      BY <3>1, <3>3, <3>4
    <3> QED BY <3>5 DEF m
  <2>4. \A i \in 1 .. n : copy(i) \in Seq(Char) /\ Len(copy(i)) = Len(virtual[i])
    BY <2>1, <2>3
  <2> HIDE DEF copy, n
  <2>5. list \in Seq(Seq(Char)) /\ Len(list) = n /\ \A i \in 1 .. n : list[i] = copy(i)
    BY <2>1, <2>4
  <2> HIDE DEF list
  <2>6. Len(Serialize(list)) = Len(Serialize(virtual))
    <3>1. list \in Names /\ Len(list) = Len(virtual)
      BY <2>5 DEF Names, n
    <3>2. \A i \in 1 .. Len(list) : Len(list[i]) = Len(virtual[i])
      BY <2>4, <2>5
    <3> QED BY <1>1, <3>1, <3>2, SameLengths
  <2>7. list = <<>> <=> virtual = <<>>
    BY <1>1, <2>5 DEF n, Names
  <2> QED BY <2>2, <2>5, <2>6, <2>7 DEF Names
<1> QED BY <1>2, <1>3

\* What the second call makes of the buffer before the preferred reader is looked for.
LEMMA CompletedIsList ==
  ASSUME Inv, pc = "fetch", stable, FetchStatus = "SUCCESS"
  PROVE  LET list == plugged \o Shown(call.wide)
         IN  /\ list \in Names /\ list # <<>>
             /\ Completed.chars \in Seq(Char) /\ Len(Completed.chars) = pcchReaders
             /\ Completed.len = Len(Serialize(list)) + 1
             /\ Begins(Completed.chars, Serialize(list) \o <<NUL>>)
<1> DEFINE shown == Shown(call.wide)
           list == plugged \o shown
           a == Serialize(plugged)
           b == Serialize(shown)
           z == <<NUL>>
           R == Len(MultiString(plugged))
           V == Len(Serialize(virtual))
           filled == Overlay(buffer, 0, MultiString(plugged))
           total  == TotalLength(LayoutLength, V)
           joined == Overlay(filled, VirtualPosition(LayoutLength), b)
<1>1. /\ plugged \in Names /\ shown \in Names /\ pcchReaders \in Nat
      /\ Len(b) = V /\ (shown = <<>> <=> virtual = <<>>)
  <2>1. call.wide \in BOOLEAN /\ pcchReaders \in Nat /\ TypeOK
    BY DEF Inv, TypeOK
  <2> QED BY <2>1, StateLengths, ShownFacts
<1> HIDE DEF shown
<1>2. /\ a \in Seq(Char) /\ b \in Seq(Char) /\ z \in Seq(Char) /\ Len(z) = 1
      /\ MultiString(plugged) \in Seq(Char)
      /\ Len(a) \in Nat /\ V \in Nat /\ R \in Nat
  BY <1>1, Lengths, StateLengths DEF Inv, NUL, Char
<1>3. list \in Names /\ Serialize(list) = a \o b
  BY <1>1, SerializeJoin
<1>4. list # <<>>
  <2>1. plugged # <<>> \/ virtual # <<>>
    BY DEF FetchStatus
  <2>2. plugged \in Seq(Seq(Char)) /\ shown \in Seq(Seq(Char))
    BY <1>1 DEF Names
  <2> HIDE DEF Char
  <2> QED BY <1>1, <2>1, <2>2, ConcatProperties
<1>5. /\ realLen = R /\ pcchReaders >= R + V + 2 /\ LayoutLength = R
      /\ buffer = Zeroed(pcchReaders) /\ call.mode \in {"auto", "buffer"}
  BY DEF Inv, Prepared, LayoutLength
<1>6. buffer \in Seq(Char) /\ Len(buffer) = pcchReaders
  BY <1>1, <1>5, ZeroedIsText
<1>7. /\ plugged = <<>> => R = 0 /\ a = <<>> /\ MultiString(plugged) = <<>>
      /\ plugged # <<>> => MultiString(plugged) = a \o z /\ R = Len(a) + 1
      /\ virtual = <<>> => b = <<>>
  <2>1. Serialize(<<>>) = <<>> /\ Len(<<>>) = 0
    BY TerminatedEmpty DEF Serialize
  <2>2. Len(a \o z) = Len(a) + Len(z)
    BY <1>2, TextJoin
  <2> QED BY <1>1, <1>2, <2>1, <2>2 DEF MultiString
<1>8. VirtualPosition(R) = Len(a) /\ TotalLength(R, V) = Len(a) + V + 1
  <2>1. CASE plugged = <<>>
    <3>1. R = 0 /\ Len(a) = 0
      BY <1>7, <2>1
    <3> HIDE DEF R, V, a
    <3> QED BY <1>2, <3>1 DEF VirtualPosition, TotalLength
  <2>2. CASE plugged # <<>>
    <3>1. R = Len(a) + 1
      BY <1>7, <2>2
    <3> HIDE DEF R, V, a
    <3> QED BY <1>2, <3>1 DEF VirtualPosition, TotalLength
  <2> QED BY <2>1, <2>2
<1> HIDE DEF a, b, z, R, V
<1>9. /\ filled \in Seq(Char) /\ Len(filled) = pcchReaders
      /\ Begins(filled, MultiString(plugged))
  <2> DEFINE m == MultiString(plugged)
  <2>1. m \in Seq(Char) /\ Len(m) = R /\ 0 \in Nat /\ Len(<<>>) = 0 /\ <<>> \in Seq(Char)
    BY <1>2 DEF R
  <2> HIDE DEF m
  <2>2. <<>> \o m = m
    <3> HIDE DEF Char
    <3> QED BY <2>1, ConcatEmptySeq
  <2>3. Len(<<>>) + Len(m) <= Len(buffer)
    BY <1>1, <1>2, <1>5, <1>6, <2>1
  <2>4. Begins(Overlay(buffer, Len(<<>>), m), <<>> \o m)
    BY <1>6, <2>1, <2>3, BeginsAnything, OverlayBehind
  <2>5. Overlay(buffer, 0, m) \in Seq(Char) /\ Len(Overlay(buffer, 0, m)) = Len(buffer)
    BY <1>6, <2>1, OverlayFacts
  <2> QED BY <1>6, <2>1, <2>2, <2>4, <2>5, Zenon DEF m
<1>10. Begins(filled, a)
  <2> HIDE DEF filled
  <2>1. CASE plugged = <<>>
    BY <1>7, <1>9, <2>1
  <2>2. CASE plugged # <<>>
    <3>1. Begins(filled, a \o z)
      BY <1>7, <1>9, <2>2
    <3> QED BY <1>2, <1>9, <3>1, BeginsShorter
  <2> QED BY <2>1, <2>2
<1>11. Len(a) + V + 1 <= pcchReaders
  BY <1>1, <1>2, <1>5, <1>7
<1>12. CASE call.mode = "buffer" /\ virtual = <<>>
  <2>1. Completed.chars = filled /\ Completed.len = LayoutLength
    BY <1>12 DEF Completed
  <2>2. plugged # <<>>
    BY <1>12 DEF FetchStatus
  <2>3. Serialize(list) = a
    <3>1. b = <<>> /\ a \o <<>> = a
      BY <1>2, <1>7, <1>12
    <3> QED BY <1>3, <3>1, Zenon
  <2>4. Begins(filled, a \o z) /\ R = Len(a) + 1
    BY <1>7, <1>9, <2>2
  <2> HIDE DEF filled, list
  <2> QED BY <1>3, <1>4, <1>5, <1>9, <2>1, <2>3, <2>4, Zenon DEF z, list, shown
<1>13. CASE ~(call.mode = "buffer" /\ virtual = <<>>)
  <2>1. Completed.chars = Overlay(joined, total - 1, z) /\ Completed.len = total
    BY <1>13, Zenon DEF Completed, V, b, z, shown
  <2>2. joined = Overlay(filled, Len(a), b) /\ total = Len(a) + V + 1 /\ total - 1 = Len(a) + V
    BY <1>2, <1>5, <1>8
  <2> HIDE DEF filled, joined, total
  <2>3. /\ joined \in Seq(Char) /\ Len(joined) = pcchReaders
        /\ Begins(joined, a \o b)
    <3>1. Len(a) + Len(b) <= Len(filled)
      BY <1>1, <1>2, <1>9, <1>11
    <3> QED BY <1>2, <1>9, <1>10, <2>2, <3>1, OverlayBehind, OverlayFacts
  <2>4. a \o b \in Seq(Char) /\ Len(a \o b) = Len(a) + V
    BY <1>1, <1>2, TextJoin
  <2> DEFINE s == a \o b
             done == Overlay(joined, Len(s), z)
  <2>5. s \in Seq(Char) /\ Len(s) = Len(a) + V /\ Len(s) \in Nat
    BY <1>2, <2>4
  <2> HIDE DEF s
  <2>6. Len(s) + Len(z) <= Len(joined)
    BY <1>1, <1>2, <1>11, <2>3, <2>5
  <2>7. Begins(done, s \o z) /\ done \in Seq(Char) /\ Len(done) = pcchReaders
    BY <1>2, <2>3, <2>5, <2>6, OverlayBehind, OverlayFacts DEF s
  <2>8. Completed.chars = done /\ Completed.len = Len(s) + 1
    BY <1>2, <2>1, <2>2, <2>5
  <2> HIDE DEF done
  <2> QED BY <1>3, <1>4, <2>7, <2>8, Zenon DEF s, z, shown
<1> QED BY <1>12, <1>13

LEMMA FetchedIsComplete ==
  ASSUME Inv, FetchReaders
  PROVE  ListComplete'
<1> DEFINE list == plugged \o Shown(call.wide)
<1>1. /\ pc = "fetch" /\ status' = FetchStatus
      /\ UNCHANGED <<preferred, plugged, virtual, call, stable>>
  BY DEF FetchReaders
<1>2. FetchStatus = "SUCCESS" =>
        buffer' = Reordered(Completed.chars, Completed.len) /\ pcchReaders' = Completed.len
  BY DEF FetchReaders
<1>3. (\A l \in Names : Unambiguous(l)' <=> Unambiguous(l)) /\ (\A l \in Names : InOrder(l)' = InOrder(l))
      /\ Shown(call.wide)' = Shown(call.wide)
  BY <1>1 DEF Unambiguous, InOrder, Comparable, Shown
<1> SUFFICES ASSUME FetchStatus = "SUCCESS", stable, Unambiguous(list)
             PROVE  SubSeq(buffer', 1, pcchReaders') = MultiString(InOrder(list))
  BY <1>1 DEF ListComplete, Unambiguous, InOrder, Comparable, Shown
<1> DEFINE chars == Completed.chars
           ser   == Serialize(list)
           moved == Reordered(chars, Len(ser) + 1)
           ordered == InOrder(list)
<1>4. /\ list \in Names /\ list # <<>> /\ chars \in Seq(Char)
      /\ Completed.len = Len(ser) + 1 /\ Begins(chars, ser \o <<NUL>>)
  BY <1>1, CompletedIsList
<1>5. /\ moved \in Seq(Char) /\ ordered \in Names /\ ordered # <<>> /\ Len(Serialize(ordered)) = Len(ser)
      /\ Begins(moved, Serialize(ordered) \o <<NUL>>)
  <2> HIDE DEF chars, list
  <2> QED BY <1>4, MovedToFront DEF Inv
<1>6. buffer' = moved /\ pcchReaders' = Len(ser) + 1
  BY <1>2, <1>4
<1> HIDE DEF list, moved, ser
<1>8. MultiString(ordered) = Serialize(ordered) \o <<NUL>>
  BY <1>5 DEF MultiString
<1> DEFINE text == Serialize(ordered) \o <<NUL>>
<1>9. text \in Seq(Char) /\ Len(text) = Len(ser) + 1
  <2>1. <<NUL>> \in Seq(Char) /\ Len(<<NUL>>) = 1
    BY DEF NUL, Char
  <2> HIDE DEF ordered
  <2>2. Serialize(ordered) \in Seq(Char)
    BY <1>5, Lengths
  <2> QED BY <1>5, <2>1, <2>2, TextJoin
<1> HIDE DEF text
<1>10. SubSeq(moved, 1, Len(text)) = text
  BY <1>5, <1>9, BeginsIsPrefix DEF text
<1> QED BY <1>6, <1>8, <1>9, <1>10, Zenon DEF text

\* An application that is told of success has every reader in its buffer
\* (SCardListReaders and SCardListReadersW, the buffer supplied or allocated): from the
\* invariant, each character of the list lies where the multi-string has it.
THEOREM AllReadersListed == Spec => []ListComplete
<1>1. Init => ListComplete
  BY DEF Init, ListComplete
<1>2. Inv /\ ListComplete /\ [Next]_vars => ListComplete'
  <2> SUFFICES ASSUME Inv, ListComplete, [Next]_vars PROVE ListComplete'
    OBVIOUS
  <2>1. ASSUME NEW wide \in BOOLEAN, NEW m \in Modes, SCardListReaders(wide, m[1], m[2])
        PROVE  ListComplete'
    <3>1. pc' = "fetch" \/ buffer' = <<>>
      BY <2>1 DEF SCardListReaders
    <3> QED BY <3>1 DEF ListComplete
  <2>2. CASE HotPlug
    BY <2>2 DEF HotPlug, ListComplete
  <2>3. CASE FetchReaders
    BY <2>3, FetchedIsComplete
  <2>4. ASSUME NEW p \in 1 .. MaxAllocs, SCardFreeMemory(p)
        PROVE  ListComplete'
    BY <2>4 DEF SCardFreeMemory, ListComplete, Unambiguous, InOrder, Comparable, Shown
  <2>5. CASE UNCHANGED vars
    BY <2>5 DEF vars, ListComplete, Unambiguous, InOrder, Comparable, Shown
  <2> QED BY <2>1, <2>2, <2>3, <2>4, <2>5 DEF Next
<1> QED BY <1>1, <1>2, InvIsInvariant, PTL DEF Spec

-----------------------------------------------------------------------------
(* Base64: what is encoded is decoded again *)

\* The sextets of three bytes, and the bytes of the sextets.
SextetFirst(a)     == a \div 4
SextetSecond(a, b) == (a % 4) * 16 + b \div 16
SextetThird(b, c)  == (b % 16) * 4 + c \div 64
SextetFourth(c)    == c % 64

\* They are sextets.
LEMMA SextetsOfBytes ==
  ASSUME NEW a \in Byte, NEW b \in Byte, NEW c \in Byte
  PROVE  /\ SextetFirst(a) \in 0 .. 63 /\ SextetSecond(a, b) \in 0 .. 63
         /\ SextetThird(b, c) \in 0 .. 63 /\ SextetFourth(c) \in 0 .. 63
<1>1. SextetFirst(a) \in 0 .. 63
  BY DEF SextetFirst, Byte
<1>2. SextetSecond(a, b) \in 0 .. 63
  BY DEF SextetSecond, Byte
<1>3. SextetThird(b, c) \in 0 .. 63
  BY DEF SextetThird, Byte
<1>4. SextetFourth(c) \in 0 .. 63
  BY DEF SextetFourth, Byte
<1> QED
  BY <1>1, <1>2, <1>3, <1>4

\* They hold the bytes.
LEMMA BytesOfSextets ==
  ASSUME NEW a \in Byte, NEW b \in Byte, NEW c \in Byte
  PROVE  /\ SextetFirst(a) * 4 + SextetSecond(a, b) \div 16 = a
         /\ (SextetSecond(a, b) % 16) * 16 + SextetThird(b, c) \div 4 = b
         /\ (SextetThird(b, c) % 4) * 64 + SextetFourth(c) = c
<1>1. SextetFirst(a) * 4 + SextetSecond(a, b) \div 16 = a
  BY DEF SextetFirst, SextetSecond, Byte
<1>2. (SextetSecond(a, b) % 16) * 16 + SextetThird(b, c) \div 4 = b
  BY DEF SextetThird, SextetSecond, Byte
<1>3. (SextetThird(b, c) % 4) * 64 + SextetFourth(c) = c
  BY DEF SextetThird, SextetFourth, Byte
<1> QED
  BY <1>1, <1>2, <1>3

\* A byte, or zero after the last one.
ByteAt(bytes, i) == IF i <= Len(bytes) THEN bytes[i] ELSE 0

\* The four characters of the g-th group of three bytes, from a position on.
IsGroup(text, p, bytes, g) ==
  LET a == ByteAt(bytes, 3 * g + 1)
      b == ByteAt(bytes, 3 * g + 2)
      c == ByteAt(bytes, 3 * g + 3)
  IN  /\ a \in Byte /\ b \in Byte /\ c \in Byte
      /\ text[p + 1] = base64_chars(SextetFirst(a))
      /\ text[p + 2] = base64_chars(SextetSecond(a, b))
      /\ text[p + 3] = IF 3 * g + 2 > Len(bytes) THEN Equals ELSE base64_chars(SextetThird(b, c))
      /\ text[p + 4] = IF 3 * g + 3 > Len(bytes) THEN Equals ELSE base64_chars(SextetFourth(c))

\* An encoding is made of such groups.
LEMMA EncodedGroups ==
  ASSUME NEW bytes \in Seq(Byte)
  PROVE  /\ Len(base64_encode(bytes)) = 4 * ((Len(bytes) + 2) \div 3)
         /\ \A g \in Nat : 3 * g < Len(bytes) =>
              /\ 4 * g + 4 <= Len(base64_encode(bytes))
              /\ IsGroup(base64_encode(bytes), 4 * g, bytes, g)
<1> DEFINE n == Len(bytes)
           byte(i) == IF i <= n THEN bytes[i] ELSE 0
           first(p) == 3 * ((p - 1) \div 4)
           place(p) == (p - 1) % 4
           six(f, k) == CASE k = 0 -> byte(f + 1) \div 4
                          [] k = 1 -> (byte(f + 1) % 4) * 16 + byte(f + 2) \div 16
                          [] k = 2 -> (byte(f + 2) % 16) * 4 + byte(f + 3) \div 64
                          [] k = 3 -> byte(f + 3) % 64
           sign(f, k) == IF f + k > n THEN Equals ELSE base64_chars(six(f, k))
           char(p) == sign(first(p), place(p))
           last == 4 * ((n + 2) \div 3)
           text == base64_encode(bytes)
<1>1. n \in Nat /\ \A i \in Nat \ {0} : i <= n => bytes[i] \in Byte
  OBVIOUS
<1>2. text = [p \in 1 .. last |-> char(p)]
  BY DEF base64_encode
<1>3. \A i \in Nat \ {0} : byte(i) \in Byte
  BY <1>1 DEF Byte
<1>4. \A i : byte(i) = ByteAt(bytes, i)
  BY DEF ByteAt
<1> HIDE DEF n, text
<1>5. last \in Nat
  BY <1>1
<1>6. Len(text) = last /\ \A p \in 1 .. last : text[p] = char(p)
  <2> HIDE DEF char, last
  <2> QED
    BY <1>2, <1>5
<1>7. ASSUME NEW g \in Nat, 3 * g < n
      PROVE  4 * g + 4 <= last /\ IsGroup(text, 4 * g, bytes, g)
  <2>1. 4 * g + 4 <= last
    BY <1>1, <1>7
  <2>2. \A k \in 0 .. 3 : /\ 4 * g + (k + 1) \in 1 .. last
                          /\ first(4 * g + (k + 1)) = 3 * g /\ place(4 * g + (k + 1)) = k
    <3> SUFFICES ASSUME NEW k \in 0 .. 3
                 PROVE  /\ 4 * g + (k + 1) \in 1 .. last
                        /\ first(4 * g + (k + 1)) = 3 * g /\ place(4 * g + (k + 1)) = k
      OBVIOUS
    <3>1. (4 * g + (k + 1)) - 1 = 4 * g + k /\ (4 * g + k) \div 4 = g /\ (4 * g + k) % 4 = k
      OBVIOUS
    <3> HIDE DEF last
    <3> QED
      BY <1>5, <2>1, <3>1
  <2> DEFINE a == byte(3 * g + 1)
             b == byte(3 * g + 2)
             c == byte(3 * g + 3)
  <2>3. a \in Byte /\ b \in Byte /\ c \in Byte
    <3>1. \A k \in 1 .. 3 : 3 * g + k \in Nat \ {0}
      OBVIOUS
    <3> HIDE DEF byte
    <3> QED
      BY <1>3, <3>1
  <2> DEFINE f == 3 * g
  <2>0. f \in Nat /\ f < n
    BY <1>7
  <2> HIDE DEF last, byte, first, place
  <2>4. sign(f, 0) = base64_chars(SextetFirst(a))
    BY <1>1, <2>0 DEF SextetFirst
  <2>5. sign(f, 1) = base64_chars(SextetSecond(a, b))
    BY <1>1, <2>0 DEF SextetSecond
  <2>6. sign(f, 2) = IF f + 2 > n THEN Equals ELSE base64_chars(SextetThird(b, c))
    BY <1>1, <2>0 DEF SextetThird
  <2>7. sign(f, 3) = IF f + 3 > n THEN Equals ELSE base64_chars(SextetFourth(c))
    BY <1>1, <2>0 DEF SextetFourth
  <2> HIDE DEF sign
  <2>8. \A k \in 0 .. 3 : text[4 * g + (k + 1)] = sign(f, k)
    BY <1>6, <2>2
  <2>9. /\ text[4 * g + 1] = base64_chars(SextetFirst(a))
        /\ text[4 * g + 2] = base64_chars(SextetSecond(a, b))
        /\ text[4 * g + 3] = IF 3 * g + 2 > n THEN Equals ELSE base64_chars(SextetThird(b, c))
        /\ text[4 * g + 4] = IF 3 * g + 3 > n THEN Equals ELSE base64_chars(SextetFourth(c))
    <3>1. 0 \in 0 .. 3 /\ 1 \in 0 .. 3 /\ 2 \in 0 .. 3 /\ 3 \in 0 .. 3
          /\ 0 + 1 = 1 /\ 1 + 1 = 2 /\ 2 + 1 = 3 /\ 3 + 1 = 4
      OBVIOUS
    <3> HIDE DEF a, b, c
    <3> QED
      BY <2>4, <2>5, <2>6, <2>7, <2>8, <3>1
  <2>10. /\ a = ByteAt(bytes, 3 * g + 1) /\ b = ByteAt(bytes, 3 * g + 2)
         /\ c = ByteAt(bytes, 3 * g + 3)
    BY <1>4
  <2> HIDE DEF a, b, c
  <2> QED
    BY <2>1, <2>3, <2>9, <2>10 DEF IsGroup, n
<1> QED
  BY <1>6, <1>7 DEF n, text

\* The least element is the minimum.
LEMMA LeastIsMin ==
  ASSUME NEW P, P \subseteq Nat, NEW x \in P, \A y \in P : x <= y
  PROVE  Min(P) = x
<1> DEFINE z == Min(P)
<1>1. z \in P /\ \A y \in P : z <= y
  BY MinFacts
<1> HIDE DEF z
<1>2. z \in Nat /\ x \in Nat /\ z <= x /\ x <= z
  BY <1>1
<1>3. z = x
  BY <1>2
<1> QED
  BY <1>3 DEF z

\* How many characters of an encoding stand for something.
Standing(n) == 4 * (n \div 3) + (IF n % 3 = 0 THEN 0 ELSE (n % 3) + 1)

\* The place of a character in its group.
LEMMA InGroups ==
  ASSUME NEW n \in Nat, NEW p \in 1 .. 4 * ((n + 2) \div 3)
  PROVE  \E g \in Nat, k \in 0 .. 3 :
           /\ p = 4 * g + k + 1 /\ 3 * g < n
           /\ p <= Standing(n) <=> (k <= 1 \/ 3 * g + k <= n)
<1> DEFINE g == (p - 1) \div 4
           k == (p - 1) % 4
           c == (n + 2) \div 3
           a == n \div 3
           b == n % 3
<1>1. p - 1 \in Nat /\ p \in Nat
  OBVIOUS
<1>2. g \in Nat /\ k \in 0 .. 3 /\ p = 4 * g + k + 1
  BY <1>1
<1>3. c \in Nat /\ 3 * c <= n + 2 /\ p <= 4 * c
  OBVIOUS
<1>4. a \in Nat /\ b \in 0 .. 2 /\ n = 3 * a + b
  OBVIOUS
<1>5. Standing(n) = 4 * a + (IF b = 0 THEN 0 ELSE b + 1)
  BY DEF Standing
<1> HIDE DEF g, k, a, b, c
<1>6. 3 * g < n
  BY <1>2, <1>3
<1>7. p <= Standing(n) <=> (k <= 1 \/ 3 * g + k <= n)
  <2>1. CASE b = 0
    BY <1>2, <1>4, <1>5, <1>6, <2>1
  <2>2. CASE b = 1
    BY <1>2, <1>4, <1>5, <1>6, <2>2
  <2>3. CASE b = 2
    BY <1>2, <1>4, <1>5, <1>6, <2>3
  <2> QED
    BY <1>4, <2>1, <2>2, <2>3
<1> QED
  BY <1>2, <1>6, <1>7

\* The characters of an encoding: those that stand for something, and the padding.
LEMMA EncodedChars ==
  ASSUME NEW bytes \in Seq(Byte), NEW p \in 1 .. Len(base64_encode(bytes))
  PROVE  IF p <= Standing(Len(bytes)) THEN \E s \in 0 .. 63 : base64_encode(bytes)[p] = base64_chars(s)
         ELSE base64_encode(bytes)[p] = Equals
<1> DEFINE n == Len(bytes)
           text == base64_encode(bytes)
<1>1. n \in Nat /\ p \in 1 .. 4 * ((n + 2) \div 3)
  BY EncodedGroups
<1> HIDE DEF n
<1>2. PICK g \in Nat, k \in 0 .. 3 :
        /\ p = 4 * g + k + 1 /\ 3 * g < n
        /\ p <= Standing(n) <=> (k <= 1 \/ 3 * g + k <= n)
  BY <1>1, InGroups
<1>3. IsGroup(text, 4 * g, bytes, g)
  BY <1>2, EncodedGroups DEF n
<1> HIDE DEF text
<1> DEFINE a == ByteAt(bytes, 3 * g + 1)
           b == ByteAt(bytes, 3 * g + 2)
           c == ByteAt(bytes, 3 * g + 3)
<1>4. /\ a \in Byte /\ b \in Byte /\ c \in Byte
      /\ text[4 * g + 1] = base64_chars(SextetFirst(a))
      /\ text[4 * g + 2] = base64_chars(SextetSecond(a, b))
      /\ text[4 * g + 3] = IF 3 * g + 2 > n THEN Equals ELSE base64_chars(SextetThird(b, c))
      /\ text[4 * g + 4] = IF 3 * g + 3 > n THEN Equals ELSE base64_chars(SextetFourth(c))
  BY <1>3 DEF IsGroup, n
<1> HIDE DEF a, b, c
<1>5. /\ SextetFirst(a) \in 0 .. 63 /\ SextetSecond(a, b) \in 0 .. 63
      /\ SextetThird(b, c) \in 0 .. 63 /\ SextetFourth(c) \in 0 .. 63
  BY <1>4, SextetsOfBytes
<1>6. CASE k = 0
  <2>1. p = 4 * g + 1 /\ p <= Standing(n)
    BY <1>1, <1>2, <1>6
  <2> QED
    BY <1>4, <1>5, <2>1 DEF text, n
<1>7. CASE k = 1
  <2>1. p = 4 * g + 2 /\ p <= Standing(n)
    BY <1>1, <1>2, <1>7
  <2> QED
    BY <1>4, <1>5, <2>1 DEF text, n
<1>8. CASE k = 2
  <2>1. p = 4 * g + 3 /\ (p <= Standing(n) <=> ~(3 * g + 2 > n))
    BY <1>1, <1>2, <1>8
  <2> QED
    BY <1>4, <1>5, <2>1 DEF text, n
<1>9. CASE k = 3
  <2>1. p = 4 * g + 4 /\ (p <= Standing(n) <=> ~(3 * g + 3 > n))
    BY <1>1, <1>2, <1>9
  <2> QED
    BY <1>4, <1>5, <2>1 DEF text, n
<1> QED
  BY <1>2, <1>6, <1>7, <1>8, <1>9

\* What is decoded ends where the padding begins.
LEMMA CodedOfEncoded ==
  ASSUME NEW bytes \in Seq(Byte)
  PROVE  /\ Coded(base64_encode(bytes)) = Standing(Len(bytes))
         /\ Standing(Len(bytes)) <= Len(base64_encode(bytes))
<1> DEFINE n == Len(bytes)
           text == base64_encode(bytes)
           m == Standing(n)
           ends == {i \in DOMAIN text : text[i] = Equals \/ ~is_base64(text[i])}
<1>1. n \in Nat /\ Len(text) = 4 * ((n + 2) \div 3) /\ text \in Seq(Byte)
  BY EncodedGroups, EncodedIsText
<1>2. m \in Nat /\ m <= Len(text)
  <2> HIDE DEF n, text
  <2> QED
    BY <1>1 DEF Standing
<1>3. \A p \in 1 .. Len(text) : IF p <= m THEN \E s \in 0 .. 63 : text[p] = base64_chars(s)
                                ELSE text[p] = Equals
  BY EncodedChars
<1> HIDE DEF n, text, m
<1>4. ends = {p \in 1 .. Len(text) : p > m}
  <2>1. DOMAIN text = 1 .. Len(text)
    BY <1>1
  <2>2. ASSUME NEW p \in 1 .. Len(text)
        PROVE  (text[p] = Equals \/ ~is_base64(text[p])) <=> p > m
    <3>1. CASE p <= m
      <4>1. PICK s \in 0 .. 63 : text[p] = base64_chars(s)
        BY <1>3, <3>1
      <4>2. is_base64(text[p]) /\ text[p] # Equals
        BY <4>1, CharFacts
      <4> QED
        BY <1>2, <3>1, <4>2
    <3>2. CASE p > m
      BY <1>2, <1>3, <3>2
    <3> QED
      BY <1>2, <3>1, <3>2
  <2> QED
    BY <2>1, <2>2
<1>5. Coded(text) = IF ends = {} THEN Len(text) ELSE Min(ends) - 1
  BY DEF Coded
<1>6. Len(text) \in Nat
  BY <1>1
<1>7. CASE m = Len(text)
  <2>1. ends = {}
    BY <1>2, <1>4, <1>7
  <2> QED
    BY <1>2, <1>5, <1>7, <2>1 DEF text, m, n
<1>8. CASE m < Len(text)
  <2>1. m + 1 \in ends /\ ends \subseteq Nat /\ \A e \in ends : m + 1 <= e
    BY <1>2, <1>4, <1>6, <1>8
  <2> HIDE DEF ends
  <2>3. Min(ends) = m + 1
    BY <2>1, LeastIsMin
  <2>4. ends # {} /\ (m + 1) - 1 = m
    BY <1>2, <2>1
  <2>5. Coded(text) = m
    BY <1>5, <2>3, <2>4
  <2> QED
    BY <1>2, <2>5 DEF text, m, n
<1> QED
  BY <1>2, <1>6, <1>7, <1>8

\* The characters that stand for n bytes are as many as n bytes are decoded from.
LEMMA DecodedLengthOf ==
  ASSUME NEW n \in Nat
  PROVE  DecodedLength(Standing(n)) = n
<1> DEFINE a == n \div 3
           b == n % 3
           m == Standing(n)
<1>1. a \in Nat /\ b \in 0 .. 2 /\ n = 3 * a + b
  OBVIOUS
<1>2. m = 4 * a + (IF b = 0 THEN 0 ELSE b + 1)
  BY DEF Standing
<1>3. DecodedLength(m) = 3 * (m \div 4) + (IF m % 4 = 0 THEN 0 ELSE (m % 4) - 1)
  BY DEF DecodedLength
<1> HIDE DEF a, b, m
<1>4. m \div 4 = a /\ m % 4 = IF b = 0 THEN 0 ELSE b + 1
  BY <1>1, <1>2
<1> QED
  BY <1>1, <1>3, <1>4 DEF m

\* What has been encoded is decoded to what it was.
LEMMA DecodedIsEncoded ==
  ASSUME NEW bytes \in Seq(Byte)
  PROVE  base64_decode(base64_encode(bytes)) = bytes
<1> DEFINE n == Len(bytes)
           text == base64_encode(bytes)
           group(q) == (q - 1) \div 3
           place(q) == (q - 1) % 3
           six(q, i) == Sextet(text[4 * group(q) + i])
           byte(q) == CASE place(q) = 0 -> six(q, 1) * 4 + six(q, 2) \div 16
                        [] place(q) = 1 -> (six(q, 2) % 16) * 16 + six(q, 3) \div 4
                        [] place(q) = 2 -> (six(q, 3) % 4) * 64 + six(q, 4)
<1>1. n \in Nat /\ bytes = [q \in 1 .. n |-> bytes[q]] /\ \A q \in 1 .. n : bytes[q] \in Byte
  OBVIOUS
<1>2. DecodedLength(Coded(text)) = n
  BY <1>1, CodedOfEncoded, DecodedLengthOf
<1>3. base64_decode(text) = [q \in 1 .. n |-> byte(q)]
  BY <1>2 DEF base64_decode
<1>4. ASSUME NEW q \in 1 .. n PROVE byte(q) = bytes[q]
  <2> DEFINE g == group(q)
             k == place(q)
             a == ByteAt(bytes, 3 * g + 1)
             b == ByteAt(bytes, 3 * g + 2)
             c == ByteAt(bytes, 3 * g + 3)
  <2>1. g \in Nat /\ k \in 0 .. 2 /\ q = 3 * g + k + 1 /\ 3 * g < n
    <3>1. q - 1 \in Nat /\ q <= n /\ q \in Nat
      BY <1>1
    <3>2. g \in Nat /\ k \in 0 .. 2 /\ q - 1 = 3 * g + k
      BY <3>1
    <3> HIDE DEF g, k, n
    <3> QED
      BY <1>1, <3>1, <3>2
  <2> HIDE DEF group, place
  <2>2. byte(q) = CASE k = 0 -> Sextet(text[4 * g + 1]) * 4 + Sextet(text[4 * g + 2]) \div 16
                    [] k = 1 -> (Sextet(text[4 * g + 2]) % 16) * 16 + Sextet(text[4 * g + 3]) \div 4
                    [] k = 2 -> (Sextet(text[4 * g + 3]) % 4) * 64 + Sextet(text[4 * g + 4])
    BY Zenon
  <2> HIDE DEF g, k
  <2>3. IsGroup(text, 4 * g, bytes, g)
    BY <2>1, EncodedGroups DEF n
  <2>4. /\ a \in Byte /\ b \in Byte /\ c \in Byte
        /\ text[4 * g + 1] = base64_chars(SextetFirst(a))
        /\ text[4 * g + 2] = base64_chars(SextetSecond(a, b))
        /\ text[4 * g + 3] = IF 3 * g + 2 > n THEN Equals ELSE base64_chars(SextetThird(b, c))
        /\ text[4 * g + 4] = IF 3 * g + 3 > n THEN Equals ELSE base64_chars(SextetFourth(c))
    BY <2>3 DEF IsGroup, n
  <2>5. /\ k = 0 => a = bytes[q]
        /\ k = 1 => b = bytes[q] /\ ~(3 * g + 2 > n)
        /\ k = 2 => c = bytes[q] /\ ~(3 * g + 2 > n) /\ ~(3 * g + 3 > n)
    BY <1>1, <2>1 DEF ByteAt, n
  <2> HIDE DEF a, b, c, n, text
  <2>6. /\ SextetFirst(a) \in 0 .. 63 /\ SextetSecond(a, b) \in 0 .. 63
        /\ SextetThird(b, c) \in 0 .. 63 /\ SextetFourth(c) \in 0 .. 63
    BY <2>4, SextetsOfBytes
  <2>7. /\ SextetFirst(a) * 4 + SextetSecond(a, b) \div 16 = a
        /\ (SextetSecond(a, b) % 16) * 16 + SextetThird(b, c) \div 4 = b
        /\ (SextetThird(b, c) % 4) * 64 + SextetFourth(c) = c
    BY <2>4, BytesOfSextets
  <2>8. \A s \in 0 .. 63 : Sextet(base64_chars(s)) = s
    BY CharFacts
  <2>9. /\ Sextet(text[4 * g + 1]) = SextetFirst(a) /\ Sextet(text[4 * g + 2]) = SextetSecond(a, b)
        /\ ~(3 * g + 2 > n) => Sextet(text[4 * g + 3]) = SextetThird(b, c)
        /\ ~(3 * g + 3 > n) => Sextet(text[4 * g + 4]) = SextetFourth(c)
    BY <2>4, <2>6, <2>8, Zenon
  <2> HIDE DEF byte
  <2>10. CASE k = 0
    BY <2>2, <2>5, <2>7, <2>9, <2>10
  <2>11. CASE k = 1
    BY <2>2, <2>5, <2>7, <2>9, <2>11
  <2>12. CASE k = 2
    BY <2>2, <2>5, <2>7, <2>9, <2>12
  <2> QED
    BY <2>1, <2>10, <2>11, <2>12
<1> HIDE DEF byte, text
<1> QED
  BY <1>1, <1>3, <1>4 DEF text

-----------------------------------------------------------------------------
(* A list of items in one text, and how it is taken apart again *)

\* What may stand between separators.
Items == {t \in Seq(Byte) : t # <<>> /\ \A i \in 1 .. Len(t) : t[i] # Separator}

\* Where the items of a list end in the text, each with its separator.
EndsAt(list) == [j \in 0 .. Len(list) |-> Len(Terminated(SubSeq(list, 1, j), Separator))]

\* A text is made of the items of a list, which end where e says.
IsCut(text, list, e) ==
  /\ e[0] = 0 /\ e[Len(list)] = Len(text)
  /\ \A j \in 0 .. Len(list) : e[j] \in Nat
  /\ \A j \in 1 .. Len(list) :
       /\ e[j] = e[j - 1] + Len(list[j]) + 1
       /\ text[e[j]] = Separator
       /\ \A i \in 1 .. Len(list[j]) : text[e[j - 1] + i] = list[j][i]

\* Lists of items are lists of texts.
LEMMA ItemLists ==
  ASSUME NEW list \in Seq(Items)
  PROVE  /\ list \in Texts /\ Len(list) \in Nat
         /\ \A j \in 1 .. Len(list) : list[j] \in Items /\ list[j] # <<>> /\ list[j] \in Seq(Byte)
                                      /\ Len(list[j]) \in Nat \ {0}
<1>1. Items \subseteq Seq(Byte)
  BY DEF Items
<1>2. \A j \in 1 .. Len(list) : list[j] \in Items
  OBVIOUS
<1>3. \A t \in Items : t # <<>> /\ t \in Seq(Byte) /\ Len(t) \in Nat \ {0}
  BY DEF Items
<1>4. list \in Seq(Seq(Byte)) /\ Len(list) \in Nat
  <2> DEFINE D == Seq(Byte)
  <2> HIDE DEF D
  <2>1. list = [j \in 1 .. Len(list) |-> list[j]] /\ Len(list) \in Nat
    OBVIOUS
  <2>2. \A j \in 1 .. Len(list) : list[j] \in D
    BY <1>2, <1>3 DEF D
  <2>3. list \in Seq(D)
    BY <2>1, <2>2
  <2> QED
    BY <2>1, <2>3 DEF D
<1> QED
  BY <1>2, <1>3, <1>4 DEF Texts

\* The parts of a serialised list at one of its items.
LEMMA TerminatedParts ==
  ASSUME NEW mark \in Byte, NEW list \in Texts, NEW j \in 1 .. Len(list), list[j] # <<>>
  PROVE  /\ Terminated(list, mark) = (Terminated(SubSeq(list, 1, j - 1), mark) \o (list[j] \o <<mark>>))
                                       \o Terminated(SubSeq(list, j + 1, Len(list)), mark)
         /\ Terminated(SubSeq(list, 1, j), mark)
              = Terminated(SubSeq(list, 1, j - 1), mark) \o (list[j] \o <<mark>>)
<1>1. Terminated(list, mark)
        = Terminated(SubSeq(list, 1, j), mark) \o Terminated(SubSeq(list, j + 1, Len(list)), mark)
  <2> DEFINE a == SubSeq(list, 1, j)
             b == SubSeq(list, j + 1, Len(list))
  <2>1. a \in Texts /\ b \in Texts /\ list = a \o b
    BY ListPartsOf, Zenon DEF Texts
  <2> HIDE DEF a, b
  <2>2. Terminated(a \o b, mark) = Terminated(a, mark) \o Terminated(b, mark)
    BY <2>1, TerminatedJoinOf, Zenon DEF Texts
  <2> QED
    BY <2>1, <2>2, Zenon DEF a, b
<1>2. j - 1 \in Nat /\ (j - 1) + 1 = j /\ (j - 1) + 1 <= Len(list)
  BY DEF Texts
<1>3. Terminated(SubSeq(list, 1, (j - 1) + 1), mark)
        = Terminated(SubSeq(list, 1, j - 1), mark) \o Marked(list[(j - 1) + 1], mark)
  <2>1. list \in Seq(Seq(Byte))
    BY DEF Texts
  <2> QED
    BY <1>2, <2>1, TerminatedStep, Zenon
<1>4. Marked(list[j], mark) = list[j] \o <<mark>>
  BY Zenon DEF Marked
<1>5. Terminated(SubSeq(list, 1, j), mark)
        = Terminated(SubSeq(list, 1, j - 1), mark) \o (list[j] \o <<mark>>)
  BY <1>2, <1>3, <1>4, Zenon
<1> QED
  BY <1>1, <1>5, Zenon

\* A serialised list is made of its items.
LEMMA TerminatedIsCut ==
  ASSUME NEW list \in Seq(Items)
  PROVE  IsCut(Terminated(list, Separator), list, EndsAt(list))
<1> DEFINE n == Len(list)
           T == Terminated(list, Separator)
           e == EndsAt(list)
           upTo(j) == Terminated(SubSeq(list, 1, j), Separator)
<1>1. Separator \in Byte /\ <<Separator>> \in Seq(Byte)
  BY DEF Separator, Byte
<1>2. list \in Texts /\ n \in Nat /\ \A j \in 1 .. n : list[j] # <<>> /\ list[j] \in Seq(Byte)
  BY ItemLists
<1>3. \A j \in 0 .. n : e[j] = Len(upTo(j))
  BY DEF EndsAt
<1>4. SubSeq(list, 1, 0) = <<>> /\ SubSeq(list, 1, n) = list
  BY <1>2, SubSeqFull DEF Texts
<1>5. upTo(0) = <<>> /\ upTo(n) = T
  BY <1>4, TerminatedEmpty
<1>6. \A j \in 0 .. n : upTo(j) \in Seq(Byte) /\ e[j] \in Nat
  <2> SUFFICES ASSUME NEW j \in 0 .. n PROVE upTo(j) \in Seq(Byte) /\ e[j] \in Nat
    OBVIOUS
  <2>1. SubSeq(list, 1, j) \in Texts
    <3>1. CASE j = 0
      <4>1. <<>> \in Seq(Seq(Byte))
        OBVIOUS
      <4> QED
        BY <1>4, <3>1, <4>1 DEF Texts
    <3>2. CASE j \in 1 .. n
      BY <1>2, <3>2, ListPartsOf, Zenon DEF Texts
    <3> QED
      BY <1>2, <3>1, <3>2
  <2>2. upTo(j) \in Seq(Byte)
    BY <1>1, <2>1, TerminatedTypeOf, Zenon DEF Texts
  <2> QED
    BY <1>3, <2>2
<1>7. ASSUME NEW j \in 1 .. n
      PROVE  /\ e[j] = e[j - 1] + Len(list[j]) + 1
             /\ T[e[j]] = Separator
             /\ \A i \in 1 .. Len(list[j]) : T[e[j - 1] + i] = list[j][i]
  <2> DEFINE x == upTo(j - 1)
             t == list[j]
             m == <<Separator>>
             rest == Terminated(SubSeq(list, j + 1, n), Separator)
             y == t \o m
             z == x \o y
  <2>1. j - 1 \in 0 .. n /\ j \in 0 .. n
    BY <1>2
  <2>0. Len(m) = 1 /\ m[1] = Separator
    OBVIOUS
  <2>2. x \in Seq(Byte) /\ t \in Seq(Byte) /\ m \in Seq(Byte) /\ rest \in Seq(Byte)
        /\ Len(m) = 1 /\ m[1] = Separator
    <3>1. SubSeq(list, j + 1, n) \in Texts
      BY <1>2, ListPartsOf, Zenon DEF Texts
    <3>2. rest \in Seq(Byte)
      BY <1>1, <3>1, TerminatedTypeOf, Zenon DEF Texts
    <3>3. x \in Seq(Byte)
      BY <1>6, <2>1
    <3>4. t \in Seq(Byte)
      BY <1>2
    <3> HIDE DEF x, t, rest
    <3> QED
      BY <1>1, <2>0, <3>2, <3>3, <3>4
  <2>3. T = z \o rest /\ upTo(j) = z
    BY <1>1, <1>2, TerminatedParts
  <2>4. e[j - 1] = Len(x) /\ e[j] = Len(z)
    BY <1>3, <2>1, <2>3
  <2> HIDE DEF x, t, m, rest, T, e
  <2>12. x \in Seq(Char) /\ t \in Seq(Char) /\ m \in Seq(Char) /\ rest \in Seq(Char)
    BY <2>2, TextsAreNames, Zenon
  <2>5. /\ y \in Seq(Char) /\ Len(y) = Len(t) + 1 /\ y[Len(t) + 1] = Separator
        /\ \A i \in 1 .. Len(t) : y[i] = t[i]
    <3>1. Len(t) \in Nat /\ 1 \in 1 .. Len(m)
      BY <2>2
    <3>2. /\ y \in Seq(Char) /\ Len(y) = Len(t) + Len(m)
          /\ \A q \in 1 .. Len(t) : y[q] = t[q]
          /\ \A q \in 1 .. Len(m) : y[Len(t) + q] = m[q]
      BY <2>12, JoinFacts
    <3> HIDE DEF y
    <3> QED
      BY <2>2, <3>1, <3>2
  <2> HIDE DEF y
  <2>6. /\ z \in Seq(Char) /\ Len(z) = Len(x) + Len(y)
        /\ \A i \in 1 .. Len(y) : z[Len(x) + i] = y[i]
    BY <2>12, <2>5, JoinFacts
  <2> HIDE DEF z
  <2>7. \A i \in 1 .. Len(z) : (z \o rest)[i] = z[i]
    BY <2>12, <2>6, JoinFacts
  <2>8. Len(x) \in Nat /\ Len(t) \in Nat
    BY <2>2
  <2>9. \A i \in 1 .. Len(y) : T[Len(x) + i] = y[i]
    <3>1. \A i \in 1 .. Len(y) : Len(x) + i \in 1 .. Len(z)
      BY <2>5, <2>6, <2>8
    <3> QED
      BY <2>3, <2>6, <2>7, <3>1
  <2>10. e[j] = Len(x) + (Len(t) + 1) /\ Len(t) + 1 \in 1 .. Len(y)
         /\ e[j] = e[j - 1] + Len(t) + 1
    BY <2>4, <2>5, <2>6, <2>8
  <2>11. \A i \in 1 .. Len(t) : i \in 1 .. Len(y)
    BY <2>5, <2>8
  <2> QED
    BY <2>4, <2>5, <2>9, <2>10, <2>11 DEF t
<1>8. e[0] = 0 /\ e[n] = Len(T)
  <2>1. 0 \in 0 .. n /\ n \in 0 .. n /\ Len(<<>>) = 0
    BY <1>2
  <2> QED
    BY <1>3, <1>5, <2>1
<1> HIDE DEF e, T, upTo
<1> QED
  BY <1>6, <1>7, <1>8 DEF IsCut, e, T, n

\* The ends of the items ascend.
LEMMA EndsAscend ==
  ASSUME NEW text, NEW list \in Seq(Items), NEW e, IsCut(text, list, e)
  PROVE  \A k \in 0 .. Len(list) : \A j \in 0 .. Len(list) : j < k => e[j] + 2 <= e[k]
<1> DEFINE n == Len(list)
           G == {k \in Nat : k <= n => \A j \in 0 .. n : j < k => e[j] + 2 <= e[k]}
<1>1. n \in Nat /\ \A j \in 1 .. n : Len(list[j]) \in Nat \ {0}
  BY ItemLists
<1>2. /\ \A j \in 0 .. n : e[j] \in Nat
      /\ \A j \in 1 .. n : e[j] = e[j - 1] + Len(list[j]) + 1
  BY DEF IsCut
<1> HIDE DEF n
<1>3. \A j \in 1 .. n : e[j - 1] + 2 <= e[j]
  <2> SUFFICES ASSUME NEW j \in 1 .. n PROVE e[j - 1] + 2 <= e[j]
    OBVIOUS
  <2>1. j - 1 \in 0 .. n /\ j \in 0 .. n
    BY <1>1
  <2> QED
    BY <1>1, <1>2, <2>1
<1>4. 0 \in G
  OBVIOUS
<1>5. ASSUME NEW k \in Nat, k \in G PROVE k + 1 \in G
  <2> SUFFICES ASSUME k + 1 <= n, NEW j \in 0 .. n, j < k + 1 PROVE e[j] + 2 <= e[k + 1]
    OBVIOUS
  <2>1. k + 1 \in 1 .. n /\ (k + 1) - 1 = k /\ k \in 0 .. n /\ k + 1 \in 0 .. n /\ k <= n
    BY <1>1
  <2>2. e[k] + 2 <= e[k + 1] /\ e[k] \in Nat /\ e[k + 1] \in Nat /\ e[j] \in Nat
    BY <1>2, <1>3, <2>1
  <2>3. CASE j = k
    BY <2>2, <2>3
  <2>4. CASE j < k
    BY <1>5, <2>1, <2>2, <2>4
  <2> QED
    BY <2>1, <2>3, <2>4
<1> HIDE DEF G
<1>6. \A k \in Nat : k \in G
  BY <1>4, <1>5, SetInduction
<1> QED
  BY <1>1, <1>6 DEF G, n

\* Every character is in an item, or is the separator after one.
LEMMA CutCovers ==
  ASSUME NEW text, NEW list \in Seq(Items), NEW e, IsCut(text, list, e), NEW p \in 1 .. Len(text)
  PROVE  \E j \in 1 .. Len(list) : \E i \in 1 .. Len(list[j]) + 1 : p = e[j - 1] + i
<1> DEFINE n == Len(list)
           P(j) == \E i \in 1 .. Len(list[j]) + 1 : p = e[j - 1] + i
           G == {k \in Nat : k <= n /\ p <= e[k] => \E j \in 1 .. n : P(j)}
<1>1. n \in Nat /\ \A j \in 1 .. n : Len(list[j]) \in Nat \ {0}
  BY ItemLists
<1>2. /\ e[0] = 0 /\ e[n] = Len(text)
      /\ \A j \in 0 .. n : e[j] \in Nat
      /\ \A j \in 1 .. n : e[j] = e[j - 1] + Len(list[j]) + 1
  BY DEF IsCut
<1>3. p \in Nat /\ 1 <= p /\ p <= e[n]
  <2>1. e[n] \in Nat
    BY <1>1, <1>2
  <2> HIDE DEF n
  <2> QED
    BY <1>2, <2>1
<1> HIDE DEF n
<1>4. 0 \in G
  BY <1>2, <1>3
<1>5. ASSUME NEW k \in Nat, k \in G PROVE k + 1 \in G
  <2> SUFFICES ASSUME k + 1 <= n, p <= e[k + 1] PROVE \E j \in 1 .. n : P(j)
    OBVIOUS
  <2>1. k + 1 \in 1 .. n /\ (k + 1) - 1 = k /\ k \in 0 .. n /\ k + 1 \in 0 .. n /\ k <= n
    BY <1>1
  <2>2. e[k + 1] = e[k] + Len(list[k + 1]) + 1 /\ e[k] \in Nat /\ e[k + 1] \in Nat
        /\ Len(list[k + 1]) \in Nat
    BY <1>1, <1>2, <2>1
  <2>3. CASE p <= e[k]
    <3> HIDE DEF P
    <3> QED
      BY <1>5, <2>1, <2>3
  <2>4. CASE p > e[k]
    <3> DEFINE a == e[k]
               L == Len(list[k + 1])
               z == e[k + 1]
    <3>1. z = a + L + 1 /\ a \in Nat /\ L \in Nat /\ p > a /\ p <= z
      BY <1>3, <2>1, <2>2, <2>4
    <3> HIDE DEF a, L, z
    <3>2. p - a \in 1 .. L + 1 /\ p = a + (p - a)
      BY <1>3, <3>1
    <3>3. \E i \in 1 .. L + 1 : p = a + i
      BY <3>2
    <3>4. P(k + 1)
      <4>1. \E i \in 1 .. L + 1 : p = e[(k + 1) - 1] + i
        <5>1. a = e[(k + 1) - 1]
          BY <2>1, Zenon DEF a
        <5> QED
          BY <3>3, <5>1, Zenon
      <4> QED
        BY <4>1, Zenon DEF L
    <3> HIDE DEF P
    <3> QED
      BY <2>1, <3>4
  <2> QED
    BY <1>3, <2>2, <2>3, <2>4
<1> HIDE DEF G, P
<1>6. n \in G
  BY <1>1, <1>4, <1>5, SetInduction
<1> QED
  BY <1>1, <1>3, <1>6 DEF G, P, n

\* A separator stands only at the end of an item.
LEMMA SeparatorsAtEnds ==
  ASSUME NEW text, NEW list \in Seq(Items), NEW e, IsCut(text, list, e),
         NEW p \in 1 .. Len(text), text[p] = Separator
  PROVE  \E j \in 1 .. Len(list) : p = e[j]
<1>1. PICK j \in 1 .. Len(list) : \E i \in 1 .. Len(list[j]) + 1 : p = e[j - 1] + i
  BY CutCovers
<1>2. PICK i \in 1 .. Len(list[j]) + 1 : p = e[j - 1] + i
  BY <1>1
<1>3. list[j] \in Items /\ Len(list[j]) \in Nat \ {0}
  BY ItemLists
<1>4. i \notin 1 .. Len(list[j])
  <2> SUFFICES ASSUME i \in 1 .. Len(list[j]) PROVE FALSE
    OBVIOUS
  <2>1. text[e[j - 1] + i] = list[j][i]
    BY DEF IsCut
  <2>2. list[j][i] # Separator
    BY <1>3 DEF Items
  <2> QED
    BY <1>2, <2>1, <2>2
<1>5. i = Len(list[j]) + 1
  BY <1>3, <1>4
<1>6. e[j] = e[j - 1] + Len(list[j]) + 1 /\ e[j - 1] \in Nat
  <2>1. j - 1 \in 0 .. Len(list)
    BY ItemLists
  <2> QED
    BY <2>1 DEF IsCut
<1>7. p = e[j]
  BY <1>2, <1>3, <1>5, <1>6
<1> QED
  BY <1>7

\* A text that is made of the items of a list, without a separator at its end.
IsParted(text, list, e) ==
  /\ text \in Seq(Byte) /\ Len(text) = e[Len(list)] - 1
  /\ e[0] = 0 /\ \A j \in 0 .. Len(list) : e[j] \in Nat
  /\ \A k \in 0 .. Len(list) : \A j \in 0 .. Len(list) : j < k => e[j] + 2 <= e[k]
  /\ \A j \in 1 .. Len(list) : e[j] = e[j - 1] + Len(list[j]) + 1
  /\ \A j \in 1 .. Len(list) : \A i \in 1 .. Len(list[j]) :
       e[j - 1] + i \in 1 .. Len(text) /\ text[e[j - 1] + i] = list[j][i]
  /\ \A j \in 1 .. Len(list) - 1 : e[j] \in 1 .. Len(text) /\ text[e[j]] = Separator
  /\ \A p \in 1 .. Len(text) : text[p] = Separator => \E j \in 1 .. Len(list) - 1 : p = e[j]

\* Where the items begin.
BeginsAt(list, e) == {e[j - 1] + 1 : j \in 1 .. Len(list)}

\* The text of a list is parted by its ends.
LEMMA FrontIsParted ==
  ASSUME NEW list \in Seq(Items), list # <<>>, NEW T \in Seq(Byte), NEW e, IsCut(T, list, e)
  PROVE  IsParted(Front(T), list, e)
<1> DEFINE n == Len(list)
           L == Len(T)
           text == Front(T)
<1>1. n \in Nat /\ n >= 1 /\ \A j \in 1 .. n : Len(list[j]) \in Nat \ {0}
  <2>1. n # 0
    BY DEF Items
  <2> QED
    BY <2>1, ItemLists
<1>2. /\ e[n] = L /\ \A j \in 0 .. n : e[j] \in Nat
      /\ \A j \in 1 .. n : /\ e[j] = e[j - 1] + Len(list[j]) + 1 /\ T[e[j]] = Separator
                           /\ \A i \in 1 .. Len(list[j]) : T[e[j - 1] + i] = list[j][i]
  BY DEF IsCut
<1>3. \A j, k \in 0 .. n : j < k => e[j] + 2 <= e[k]
  BY EndsAscend
<1>4. L \in Nat /\ L >= 2
  <2>1. 0 \in 0 .. n /\ n \in 0 .. n /\ 0 < n /\ e[0] \in Nat /\ L \in Nat
    BY <1>1, <1>2
  <2>2. e[0] + 2 <= e[n]
    BY <1>3, <2>1
  <2> HIDE DEF n, L
  <2> QED
    BY <1>2, <2>1, <2>2
<1>5. text \in Seq(Byte) /\ Len(text) = L - 1 /\ \A p \in 1 .. L - 1 : text[p] = T[p]
  <2>1. \A p \in 1 .. L : T[p] \in Byte
    OBVIOUS
  <2>2. text = [p \in 1 .. L - 1 |-> T[p]]
    BY <1>4 DEF Front
  <2> HIDE DEF text, L
  <2> QED
    BY <1>4, <2>1, <2>2
<1> HIDE DEF n, L, text
<1>6. ASSUME NEW j \in 1 .. n
      PROVE  /\ e[j - 1] \in Nat /\ e[j] \in Nat /\ e[j] <= L /\ (j # n => e[j] < L)
             /\ j \in 0 .. n /\ j - 1 \in 0 .. n
  <2>1. j \in 0 .. n /\ j - 1 \in 0 .. n /\ n \in 0 .. n
    BY <1>1
  <2>2. e[j - 1] \in Nat /\ e[j] \in Nat
    BY <1>2, <2>1
  <2>3. j < n => e[j] + 2 <= e[n]
    BY <1>3, <2>1
  <2>4. j = n \/ j < n
    BY <1>1
  <2> QED
    BY <1>2, <1>4, <2>1, <2>2, <2>3, <2>4
<1>7. ASSUME NEW j \in 1 .. n, NEW i \in 1 .. Len(list[j])
      PROVE  e[j - 1] + i \in 1 .. Len(text) /\ text[e[j - 1] + i] = list[j][i]
  <2> DEFINE a == e[j - 1]
             z == e[j]
             k == Len(list[j])
  <2>1. a \in Nat /\ z <= L /\ z = a + k + 1 /\ k \in Nat
    BY <1>1, <1>2, <1>6
  <2>2. T[a + i] = list[j][i]
    BY <1>2
  <2> HIDE DEF a, z
  <2>3. a + i \in 1 .. L - 1
    BY <1>4, <2>1
  <2> QED
    BY <1>5, <2>2, <2>3 DEF a
<1>8. ASSUME NEW j \in 1 .. n - 1 PROVE e[j] \in 1 .. Len(text) /\ text[e[j]] = Separator
  <2>1. j \in 1 .. n /\ j # n /\ 0 \in 0 .. n /\ 0 < j
    BY <1>1
  <2>2. e[j] \in Nat /\ e[j] < L /\ T[e[j]] = Separator /\ j \in 0 .. n
    BY <1>2, <1>6, <2>1
  <2>3. e[0] + 2 <= e[j] /\ e[0] \in Nat
    BY <1>2, <1>3, <2>1, <2>2
  <2>4. e[j] \in 1 .. L - 1
    BY <1>4, <2>2, <2>3
  <2> QED
    BY <1>5, <2>2, <2>4
<1>9. ASSUME NEW p \in 1 .. Len(text), text[p] = Separator
      PROVE  \E j \in 1 .. n - 1 : p = e[j]
  <2>1. p \in 1 .. L - 1 /\ p \in 1 .. L /\ T[p] = Separator /\ p # L
    BY <1>4, <1>5, <1>9
  <2>2. PICK j \in 1 .. n : p = e[j]
    BY <2>1, SeparatorsAtEnds DEF L, n
  <2>3. j # n
    BY <1>2, <2>1, <2>2
  <2>4. j \in 1 .. n - 1
    BY <1>1, <2>3
  <2> QED
    BY <2>2, <2>4
<1>10. text \in Seq(Byte) /\ Len(text) = e[n] - 1
  BY <1>2, <1>5
<1>11. /\ e[0] = 0 /\ \A j \in 0 .. n : e[j] \in Nat
       /\ \A k \in 0 .. n : \A j \in 0 .. n : j < k => e[j] + 2 <= e[k]
       /\ \A j \in 1 .. n : e[j] = e[j - 1] + Len(list[j]) + 1
  BY EndsAscend DEF IsCut, n
<1> QED
  BY <1>7, <1>8, <1>9, <1>10, <1>11 DEF IsParted, text, n

\* No two separators stand together.
LEMMA NothingDoubled ==
  ASSUME NEW text, NEW list \in Seq(Items), NEW e, IsParted(text, list, e),
         NEW i \in 1 .. Len(text) - 1, text[i] = Separator
  PROVE  text[i + 1] # Separator
<1> DEFINE n == Len(list)
<1>1. n \in Nat /\ Len(text) \in Nat
  BY ItemLists DEF IsParted
<1>2. i \in 1 .. Len(text)
  BY <1>1
<1>3. PICK j \in 1 .. n - 1 : i = e[j]
  BY <1>2 DEF IsParted
<1>4. j + 1 \in 1 .. n /\ (j + 1) - 1 = j
  BY <1>1
<1>5. list[j + 1] \in Items /\ 1 \in 1 .. Len(list[j + 1])
  BY <1>4, ItemLists
<1>6. text[e[j] + 1] = list[j + 1][1]
  BY <1>4, <1>5 DEF IsParted
<1>7. list[j + 1][1] # Separator
  BY <1>5 DEF Items
<1> QED
  BY <1>3, <1>6, <1>7

\* The characters behind a separator, and the first one, are where the items begin.
LEMMA ItemsBegin ==
  ASSUME NEW text, NEW list \in Seq(Items), list # <<>>, NEW e, IsParted(text, list, e)
  PROVE  {i \in 1 .. Len(text) : text[i] # Separator /\ (i = 1 \/ text[i - 1] = Separator)}
           = BeginsAt(list, e)
<1> DEFINE n == Len(list)
           starts == {i \in 1 .. Len(text) : text[i] # Separator /\ (i = 1 \/ text[i - 1] = Separator)}
<1>1. n \in Nat /\ n >= 1 /\ Len(text) \in Nat
  <2>1. n # 0
    BY DEF Items
  <2> QED
    BY <2>1, ItemLists DEF IsParted
<1>2. \A j \in 0 .. n : e[j] \in Nat
  BY DEF IsParted
<1>3. ASSUME NEW i \in starts PROVE i \in BeginsAt(list, e)
  <2>1. CASE i = 1
    <3>1. 1 \in 1 .. n /\ e[1 - 1] + 1 = 1
      BY <1>1 DEF IsParted
    <3> QED
      BY <2>1, <3>1 DEF BeginsAt
  <2>2. CASE i # 1
    <3>1. text[i - 1] = Separator /\ i - 1 \in 1 .. Len(text)
      BY <1>1, <2>2
    <3>2. PICK j \in 1 .. n - 1 : i - 1 = e[j]
      BY <3>1 DEF IsParted
    <3>3. j + 1 \in 1 .. n /\ (j + 1) - 1 = j /\ i = (i - 1) + 1
      BY <1>1
    <3>4. i = e[(j + 1) - 1] + 1
      BY <3>2, <3>3
    <3> QED
      BY <3>3, <3>4 DEF BeginsAt
  <2> QED
    BY <2>1, <2>2
<1>4. ASSUME NEW i \in BeginsAt(list, e) PROVE i \in starts
  <2>1. PICK j \in 1 .. n : i = e[j - 1] + 1
    BY DEF BeginsAt
  <2>2. list[j] \in Items /\ 1 \in 1 .. Len(list[j])
    BY ItemLists
  <2>3. i \in 1 .. Len(text) /\ text[i] = list[j][1]
    BY <2>1, <2>2 DEF IsParted
  <2>4. text[i] # Separator
    BY <2>2, <2>3 DEF Items
  <2>5. CASE j = 1
    <3>1. i = 1
      BY <2>1, <2>5 DEF IsParted
    <3> QED
      BY <2>3, <2>4, <3>1
  <2>6. CASE j # 1
    <3>1. j - 1 \in 1 .. n - 1 /\ j - 1 \in 0 .. n
      BY <1>1, <2>6
    <3>2. text[e[j - 1]] = Separator /\ e[j - 1] \in Nat
      BY <1>2, <3>1 DEF IsParted
    <3>3. i - 1 = e[j - 1]
      BY <2>1, <3>2
    <3> QED
      BY <2>3, <2>4, <3>2, <3>3
  <2> QED
    BY <2>5, <2>6
<1> QED
  BY <1>3, <1>4

\* Where the first k items begin.
FirstAt(e, k) == {e[j - 1] + 1 : j \in 1 .. k}

\* The first k items begin at k places.
LEMMA FirstBegins ==
  ASSUME NEW text, NEW list \in Seq(Items), NEW e, IsParted(text, list, e)
  PROVE  \A k \in 0 .. Len(list) : Cardinality(FirstAt(e, k)) = k
<1> DEFINE n == Len(list)
           B(k) == FirstAt(e, k)
           G == {k \in Nat : k <= n => IsFiniteSet(B(k)) /\ Cardinality(B(k)) = k}
<1>1. n \in Nat /\ \A j \in 0 .. n : e[j] \in Nat
  BY ItemLists DEF IsParted
<1>2. \A k \in 0 .. n : \A j \in 0 .. n : j < k => e[j] + 2 <= e[k]
  BY DEF IsParted
<1> HIDE DEF n
<1>3. 0 \in G
  <2>1. B(0) = {}
    BY DEF FirstAt
  <2> HIDE DEF B
  <2> QED
    BY <2>1, FS_EmptySet
<1>4. ASSUME NEW k \in Nat, k \in G PROVE k + 1 \in G
  <2> SUFFICES ASSUME k + 1 <= n PROVE IsFiniteSet(B(k + 1)) /\ Cardinality(B(k + 1)) = k + 1
    OBVIOUS
  <2>1. k \in 0 .. n /\ k <= n
    BY <1>1
  <2>2. B(k + 1) = B(k) \cup {e[k] + 1}
    <3>1. 1 .. k + 1 = (1 .. k) \cup {k + 1} /\ (k + 1) - 1 = k
      OBVIOUS
    <3> QED
      BY <3>1 DEF FirstAt
  <2>3. e[k] + 1 \notin B(k)
    <3> SUFFICES ASSUME NEW j \in 1 .. k, e[k] + 1 = e[j - 1] + 1 PROVE FALSE
      BY DEF FirstAt
    <3>1. j - 1 \in 0 .. n /\ j - 1 < k
      BY <1>1, <2>1
    <3>2. e[j - 1] + 2 <= e[k] /\ e[j - 1] \in Nat /\ e[k] \in Nat
      BY <1>1, <1>2, <2>1, <3>1
    <3> QED
      BY <3>2
  <2> HIDE DEF B
  <2>4. IsFiniteSet(B(k)) /\ Cardinality(B(k)) = k
    BY <1>4, <2>1
  <2> QED
    BY <2>2, <2>3, <2>4, FS_AddElement
<1> HIDE DEF G
<1>5. \A k \in Nat : k \in G
  BY <1>3, <1>4, SetInduction
<1>6. ASSUME NEW k \in 0 .. n PROVE Cardinality(FirstAt(e, k)) = k
  <2>1. k \in Nat /\ k <= n /\ k \in G
    BY <1>1, <1>5
  <2> QED
    BY <2>1 DEF G
<1> QED
  BY <1>6 DEF n

\* The k-th beginning is that of the k-th item.
LEMMA NthBegins ==
  ASSUME NEW text, NEW list \in Seq(Items), NEW e, IsParted(text, list, e)
  PROVE  /\ Cardinality(BeginsAt(list, e)) = Len(list)
         /\ \A k \in 1 .. Len(list) : Nth(BeginsAt(list, e), k) = e[k - 1] + 1
<1> DEFINE n == Len(list)
           B == BeginsAt(list, e)
           upTo(k) == FirstAt(e, k)
<1>1. n \in Nat /\ Len(text) \in Nat /\ \A j \in 0 .. n : e[j] \in Nat
  BY ItemLists DEF IsParted
<1>2. \A k \in 0 .. n : \A j \in 0 .. n : j < k => e[j] + 2 <= e[k]
  BY DEF IsParted
<1>3. \A k \in 0 .. n : Cardinality(upTo(k)) = k
  BY FirstBegins
<1>4. Cardinality(B) = n
  <2>1. B = upTo(n) /\ n \in 0 .. n
    BY <1>1 DEF BeginsAt, FirstAt
  <2> QED
    BY <1>3, <2>1
<1>5. B \subseteq 1 .. Len(text)
  <2> SUFFICES ASSUME NEW j \in 1 .. n PROVE e[j - 1] + 1 \in 1 .. Len(text)
    BY DEF BeginsAt
  <2>1. 1 \in 1 .. Len(list[j])
    BY ItemLists
  <2> QED
    BY <2>1 DEF IsParted
<1> HIDE DEF n, upTo
<1>6. ASSUME NEW k \in 1 .. n PROVE {i \in B : i <= e[k - 1] + 1} = upTo(k)
  <2>0. k - 1 \in 0 .. n /\ e[k - 1] \in Nat
    BY <1>1
  <2>1. ASSUME NEW i \in B, i <= e[k - 1] + 1 PROVE i \in upTo(k)
    <3>1. PICK j \in 1 .. n : i = e[j - 1] + 1
      BY DEF BeginsAt, n
    <3>2. j - 1 \in 0 .. n /\ e[j - 1] \in Nat
      BY <1>1
    <3>3. ~(k - 1 < j - 1)
      BY <1>2, <2>0, <2>1, <3>1, <3>2
    <3>4. j \in 1 .. k
      BY <1>1, <3>3
    <3> QED
      BY <3>1, <3>4 DEF upTo, FirstAt
  <2>2. ASSUME NEW i \in upTo(k) PROVE i \in B /\ i <= e[k - 1] + 1
    <3>1. PICK j \in 1 .. k : i = e[j - 1] + 1
      BY DEF upTo, FirstAt
    <3>2. j \in 1 .. n /\ j - 1 \in 0 .. n /\ e[j - 1] \in Nat /\ (j = k \/ j - 1 < k - 1)
      BY <1>1
    <3>3. i <= e[k - 1] + 1
      BY <1>2, <2>0, <3>1, <3>2
    <3> QED
      BY <3>1, <3>2, <3>3 DEF BeginsAt, n
  <2> QED
    BY <2>1, <2>2
<1>7. ASSUME NEW k \in 1 .. n PROVE Nth(B, k) = e[k - 1] + 1
  <2> DEFINE z == Nth(B, k)
  <2>1. z \in B /\ Cardinality({i \in B : i <= z}) = k
    BY <1>1, <1>4, <1>5, NthFacts
  <2>2. PICK j \in 1 .. n : z = e[j - 1] + 1
    BY <2>1 DEF BeginsAt, n
  <2> HIDE DEF z
  <2>3. {i \in B : i <= z} = upTo(j)
    BY <1>6, <2>2
  <2>4. Cardinality(upTo(j)) = j
    BY <1>1, <1>3
  <2>5. j = k
    BY <2>1, <2>3, <2>4
  <2> QED
    BY <2>2, <2>5 DEF z
<1> QED
  BY <1>4, <1>7 DEF n

\* Where items begin, and where the one that begins at i may end.
StartsIn(text) == {i \in 1 .. Len(text) : text[i] # Separator /\ (i = 1 \/ text[i - 1] = Separator)}

StopsFrom(text, i) == {j \in i .. Len(text) : j = Len(text) \/ text[j + 1] = Separator}

\* Without a doubled separator the whole text is taken apart.
LEMMA ParsedWhole ==
  ASSUME NEW text,
         {i \in 1 .. Len(text) - 1 : text[i] = Separator /\ text[i + 1] = Separator} = {}
  PROVE  String_ParseSeparatedArray(text)
           = [k \in 1 .. Cardinality(StartsIn(text)) |->
                SubSeq(text, Nth(StartsIn(text), k), Min(StopsFrom(text, Nth(StartsIn(text), k))))]
<1> DEFINE doubled == {i \in 1 .. Len(text) - 1 : text[i] = Separator /\ text[i + 1] = Separator}
           end     == IF doubled = {} THEN Len(text) ELSE Min(doubled) - 1
           starts  == {i \in 1 .. end : text[i] # Separator /\ (i = 1 \/ text[i - 1] = Separator)}
           stops(i) == {j \in i .. end : j = end \/ text[j + 1] = Separator}
<1>1. String_ParseSeparatedArray(text)
        = [k \in 1 .. Cardinality(starts) |-> SubSeq(text, Nth(starts, k), Min(stops(Nth(starts, k))))]
  BY Zenon DEF String_ParseSeparatedArray
<1>2. end = Len(text)
  OBVIOUS
<1> HIDE DEF end
<1>3. starts = StartsIn(text)
  BY <1>2, Zenon DEF StartsIn
<1>4. \A i : stops(i) = StopsFrom(text, i)
  BY <1>2, Zenon DEF StopsFrom
<1> HIDE DEF starts, stops
<1> QED
  BY <1>1, <1>3, <1>4, Zenon

\* An item ends before the next separator, the last one with the text.
LEMMA ItemStops ==
  ASSUME NEW text, NEW list \in Seq(Items), NEW e, IsParted(text, list, e), NEW k \in 1 .. Len(list)
  PROVE  Min(StopsFrom(text, e[k - 1] + 1)) = e[k] - 1
<1> DEFINE n == Len(list)
           i == e[k - 1] + 1
           z == e[k] - 1
           P == {j \in i .. Len(text) : j = Len(text) \/ text[j + 1] = Separator}
           len == Len(list[k])
<1>1. n \in Nat /\ Len(text) \in Nat /\ Len(text) = e[n] - 1 /\ len \in Nat \ {0} /\ list[k] \in Items
  BY ItemLists DEF IsParted
<1>2. e[k - 1] \in Nat /\ e[k] = e[k - 1] + len + 1
  <2>1. k - 1 \in 0 .. n
    BY <1>1
  <2> QED
    BY <2>1 DEF IsParted
<1>3. e[k - 1] + len \in 1 .. Len(text) /\ e[k - 1] + len = z
  <2>1. len \in 1 .. len
    BY <1>1
  <2>2. e[k - 1] + len \in 1 .. Len(text)
    BY <2>1 DEF IsParted
  <2> HIDE DEF len
  <2> QED
    BY <1>1, <1>2, <2>2
<1>4. z \in P
  <2>1. z \in i .. Len(text)
    <3> HIDE DEF len, n
    <3> QED
      BY <1>1, <1>2, <1>3
  <2>2. CASE k = n
    BY <1>1, <2>1, <2>2
  <2>3. CASE k # n
    <3>1. k \in 1 .. n - 1
      BY <1>1, <2>3
    <3>2. text[e[k]] = Separator
      BY <3>1 DEF IsParted
    <3>3. z + 1 = e[k]
      <4> DEFINE w == e[k]
      <4>1. w \in Nat
        BY DEF IsParted
      <4> HIDE DEF w
      <4>2. (w - 1) + 1 = w
        BY <4>1
      <4> QED
        BY <4>2 DEF w
    <3> HIDE DEF z
    <3> QED
      BY <2>1, <3>2, <3>3
  <2> QED
    BY <2>2, <2>3
<1>5. ASSUME NEW j \in P PROVE z <= j
  <2> SUFFICES ASSUME j < z PROVE FALSE
    BY <1>1, <1>2
  <2>1. j \in Nat /\ j >= e[k - 1] + 1 /\ j # Len(text)
    BY <1>1, <1>2, <1>3
  <2> DEFINE m == j + 1 - e[k - 1]
  <2>2. m \in 1 .. len /\ e[k - 1] + m = j + 1
    <3> DEFINE a == e[k - 1]
    <3>1. a \in Nat /\ len \in Nat /\ j \in Nat /\ j >= a + 1 /\ z = a + len /\ j < z
      BY <1>1, <1>2, <1>3, <2>1
    <3> HIDE DEF len, a, z
    <3>2. j + 1 - a \in 1 .. len /\ a + (j + 1 - a) = j + 1
      BY <3>1
    <3> QED
      BY <3>2 DEF a
  <2> HIDE DEF m, len
  <2>3. text[e[k - 1] + m] = list[k][m]
    BY <2>2 DEF IsParted, len
  <2>4. list[k][m] # Separator
    BY <1>1, <2>2 DEF Items, len
  <2>5. text[j + 1] = Separator
    BY <2>1
  <2> QED
    BY <2>2, <2>3, <2>4, <2>5
<1>6. P \subseteq Nat
  BY <1>1, <1>2
<1> HIDE DEF P, z
<1>7. Min(P) = z
  BY <1>4, <1>5, <1>6, LeastIsMin
<1>8. P = StopsFrom(text, e[k - 1] + 1)
  BY Zenon DEF P, StopsFrom
<1> QED
  BY <1>7, <1>8 DEF z

\* What lies between the beginning and the end of an item is the item.
LEMMA ItemBetween ==
  ASSUME NEW text, NEW list \in Seq(Items), NEW e, IsParted(text, list, e), NEW k \in 1 .. Len(list)
  PROVE  SubSeq(text, e[k - 1] + 1, e[k] - 1) = list[k]
<1> DEFINE a == e[k - 1]
           t == list[k]
           len == Len(t)
           s == SubSeq(text, a + 1, a + len)
<1>1. t \in Seq(Byte) /\ len \in Nat \ {0} /\ a \in Nat /\ e[k] = a + len + 1
  <2>1. k - 1 \in 0 .. Len(list)
    BY ItemLists
  <2> QED
    BY <2>1, ItemLists DEF IsParted
<1>2. \A i \in 1 .. len : a + i \in 1 .. Len(text) /\ text[a + i] = t[i]
  BY DEF IsParted
<1>3. text \in Seq(Byte) /\ Len(text) \in Nat
  BY DEF IsParted
<1> HIDE DEF a, t
<1>4. a + len \in 1 .. Len(text)
  <2>1. len \in 1 .. len
    BY <1>1
  <2> HIDE DEF len
  <2> QED
    BY <1>2, <2>1
<1>5. s = t <=> \A q \in 1 .. Len(t) : text[a + q] = t[q]
  BY <1>1, <1>3, <1>4, SubSeqIsWord
<1>6. s = t
  BY <1>2, <1>5
<1>7. e[k] - 1 = a + len
  <2> HIDE DEF len
  <2> QED
    BY <1>1
<1> QED
  BY <1>6, <1>7 DEF a, t

\* A list that was put together is taken apart as it was.
LEMMA ParsedIsList ==
  ASSUME NEW list \in Seq(Items), list # <<>>
  PROVE  String_ParseSeparatedArray(Front(Terminated(list, Separator))) = list
<1> DEFINE T == Terminated(list, Separator)
           text == Front(T)
           e == EndsAt(list)
           n == Len(list)
           S == StartsIn(text)
           item(k) == SubSeq(text, Nth(S, k), Min(StopsFrom(text, Nth(S, k))))
<1>1. T \in Seq(Byte) /\ IsCut(T, list, e)
  <2>1. Separator \in Byte
    BY DEF Separator, Byte
  <2> QED
    BY <2>1, ItemLists, TerminatedTypeOf, TerminatedIsCut
<1> HIDE DEF T, e
<1>2. IsParted(text, list, e)
  BY <1>1, FrontIsParted
<1> HIDE DEF text
<1>3. {i \in 1 .. Len(text) - 1 : text[i] = Separator /\ text[i + 1] = Separator} = {}
  BY <1>2, NothingDoubled
<1>4. String_ParseSeparatedArray(text) = [k \in 1 .. Cardinality(S) |-> item(k)]
  BY <1>3, ParsedWhole, Zenon
<1>5. S = BeginsAt(list, e)
  BY <1>2, ItemsBegin, Zenon DEF StartsIn
<1>6. Cardinality(S) = n /\ \A k \in 1 .. n : Nth(S, k) = e[k - 1] + 1
  BY <1>2, <1>5, NthBegins, Zenon
<1> HIDE DEF S
<1>7. ASSUME NEW k \in 1 .. n PROVE item(k) = list[k]
  <2>1. Nth(S, k) = e[k - 1] + 1
    BY <1>6
  <2>2. Min(StopsFrom(text, e[k - 1] + 1)) = e[k] - 1
    BY <1>2, ItemStops
  <2>3. SubSeq(text, e[k - 1] + 1, e[k] - 1) = list[k]
    BY <1>2, ItemBetween
  <2> QED
    BY <2>1, <2>2, <2>3, Zenon
<1> HIDE DEF item
<1>8. list = [k \in 1 .. n |-> list[k]]
  OBVIOUS
<1> QED
  BY <1>4, <1>6, <1>7, <1>8, Zenon DEF text, T

-----------------------------------------------------------------------------
(* What the proxy announces, and what is made of it *)

Trailing == {Blank, LineFeed, 13, 9}

\* Only the line end behind an answer is taken away.
LEMMA TrimmedAnswer ==
  ASSUME NEW text \in Seq(Byte), text # <<>>, text[Len(text)] \notin Trailing
  PROVE  Trimmed(text \o <<LineFeed>>) = text
<1> DEFINE answer == text \o <<LineFeed>>
           n == Len(text)
           kept == {i \in DOMAIN answer : answer[i] \notin {Blank, LineFeed, 13, 9}}
<1>1. <<LineFeed>> \in Seq(Byte)
  BY DEF LineFeed, Byte
<1>2. /\ n \in Nat \ {0} /\ answer \in Seq(Byte) /\ DOMAIN answer = 1 .. n + 1 /\ Len(answer) = n + 1
      /\ \A i \in 1 .. n : answer[i] = text[i]
      /\ answer[n + 1] = LineFeed
  BY <1>1
<1>3. SubSeq(answer, 1, n) = text
  <2>1. SubSeq(answer, 1, n) = [i \in 1 .. n |-> answer[i]]
    BY <1>2
  <2>2. text = [i \in 1 .. n |-> text[i]]
    OBVIOUS
  <2> HIDE DEF answer, n
  <2> QED
    BY <1>2, <2>1, <2>2
<1> HIDE DEF answer
<1>4. n \in kept /\ \A i \in kept : i \in Nat /\ i <= n
  <2>1. answer[n] = text[n] /\ n \in DOMAIN answer
    BY <1>2
  <2>2. ASSUME NEW i \in kept PROVE i \in Nat /\ i <= n
    BY <1>2
  <2> QED
    BY <2>1, <2>2 DEF Trailing
<1> HIDE DEF n
<1>5. Trimmed(answer) = IF kept = {} THEN <<>> ELSE SubSeq(answer, 1, Max(kept))
  BY Zenon DEF Trimmed
<1> HIDE DEF kept
<1>6. Max(kept) = n
  <2>1. kept \subseteq Nat /\ kept # {} /\ n \in Nat /\ \A v \in kept : v <= n
    BY <1>2, <1>4
  <2>2. Max(kept) \in kept /\ \A y \in kept : y <= Max(kept)
    BY <2>1, MaxFacts
  <2> DEFINE z == Max(kept)
  <2>3. z \in Nat /\ z <= n /\ n <= z
    BY <1>4, <2>2
  <2> HIDE DEF z
  <2> QED
    BY <2>1, <2>3 DEF z
<1>7. Trimmed(answer) = SubSeq(answer, 1, n)
  BY <1>4, <1>5, <1>6
<1> QED
  BY <1>3, <1>7 DEF answer

\* An answer that is only a line end names no reader.
LEMMA EmptyAnswer == String_ParseSeparatedArray(Trimmed(<<LineFeed>>)) = <<>>
<1> DEFINE answer == <<LineFeed>>
           kept == {i \in DOMAIN answer : answer[i] \notin {Blank, LineFeed, 13, 9}}
<1>1. kept = {}
  OBVIOUS
<1> HIDE DEF answer
<1>2. Trimmed(answer) = IF kept = {} THEN <<>> ELSE SubSeq(answer, 1, Max(kept))
  BY Zenon DEF Trimmed
<1>3. Trimmed(answer) = <<>>
  BY <1>1, <1>2
<1> DEFINE text == <<>>
<1>4. {i \in 1 .. Len(text) - 1 : text[i] = Separator /\ text[i + 1] = Separator} = {}
  OBVIOUS
<1>5. StartsIn(text) = {}
  BY DEF StartsIn
<1> HIDE DEF text
<1> DEFINE S == StartsIn(text)
           item(k) == SubSeq(text, Nth(S, k), Min(StopsFrom(text, Nth(S, k))))
<1>6. String_ParseSeparatedArray(text) = [k \in 1 .. Cardinality(S) |-> item(k)]
  BY <1>4, ParsedWhole, Zenon
<1>7. Cardinality(S) = 0
  BY <1>5, FS_EmptySet
<1> HIDE DEF S, item
<1>8. String_ParseSeparatedArray(text) = <<>>
  BY <1>6, <1>7
<1> QED
  BY <1>3, <1>8 DEF text, answer

\* The last character of a list that was put together is that of its last item.
LEMMA LastOfParted ==
  ASSUME NEW text, NEW list \in Seq(Items), list # <<>>, NEW e, IsParted(text, list, e)
  PROVE  text # <<>> /\ text[Len(text)] = Last(list[Len(list)])
<1> DEFINE n == Len(list)
           a == e[n - 1]
           t == list[n]
           len == Len(t)
<1>1. n \in Nat /\ n >= 1
  <2>1. n # 0
    BY DEF Items
  <2> QED
    BY <2>1, ItemLists
<1>2. n \in 1 .. n /\ n - 1 \in 0 .. n
  BY <1>1
<1>3. len \in Nat \ {0} /\ len \in 1 .. len
  BY <1>2, ItemLists
<1>4. e[n] = a + len + 1 /\ a \in Nat /\ Len(text) = e[n] - 1
  BY <1>2 DEF IsParted
<1>5. text[a + len] = t[len]
  BY <1>2, <1>3 DEF IsParted
<1> HIDE DEF a, len
<1>6. Len(text) = a + len /\ Len(text) # 0
  BY <1>3, <1>4
<1>7. text # <<>>
  BY <1>6
<1> QED
  BY <1>5, <1>6, <1>7 DEF Last, len

\* A list whose last item ends with no blank arrives as it was sent.
LEMMA AnswerParsed ==
  ASSUME NEW list \in Seq(Items), list # <<>>, Last(list[Len(list)]) \notin Trailing
  PROVE  String_ParseSeparatedArray(Trimmed(Front(Terminated(list, Separator)) \o <<LineFeed>>)) = list
<1> DEFINE T == Terminated(list, Separator)
           text == Front(T)
           e == EndsAt(list)
<1>1. T \in Seq(Byte) /\ IsCut(T, list, e)
  <2>1. Separator \in Byte
    BY DEF Separator, Byte
  <2> QED
    BY <2>1, ItemLists, TerminatedTypeOf, TerminatedIsCut
<1>2. String_ParseSeparatedArray(text) = list
  BY ParsedIsList
<1> HIDE DEF T, e
<1>3. IsParted(text, list, e)
  BY <1>1, FrontIsParted
<1> HIDE DEF text
<1>4. text \in Seq(Byte)
  BY <1>3 DEF IsParted
<1>5. text # <<>> /\ text[Len(text)] \notin Trailing
  BY <1>3, LastOfParted
<1>6. Trimmed(text \o <<LineFeed>>) = text
  BY <1>4, <1>5, TrimmedAnswer
<1>7. String_ParseSeparatedArray(Trimmed(text \o <<LineFeed>>)) = list
  BY <1>2, <1>6, Zenon
<1> QED
  BY <1>7, Zenon DEF text, T

\* How a reader is announced, and under which name the application finds it.
SentAs(r)  == IF r.coded THEN base64_encode(r.name) ELSE r.name
ShownAs(r) == IF r.coded /\ Len(r.name) % 3 = 0 THEN base64_encode(r.name) ELSE r.name

\* A coded text is filled up unless its bytes make whole groups.
LEMMA PaddingStands ==
  ASSUME NEW n \in Nat \ {0}
  PROVE  LET L == 4 * ((n + 2) \div 3)
         IN  L \in Nat \ {0} /\ (L <= Standing(n) <=> n % 3 = 0)
<1> DEFINE a == n \div 3
           b == n % 3
           c == (n + 2) \div 3
<1>1. a \in Nat /\ b \in 0 .. 2 /\ n = 3 * a + b
  OBVIOUS
<1>2. c = IF b = 0 THEN a ELSE a + 1
  OBVIOUS
<1>3. Standing(n) = 4 * a + (IF b = 0 THEN 0 ELSE b + 1)
  BY DEF Standing
<1> HIDE DEF a, b, c
<1>4. 4 * c \in Nat \ {0} /\ (4 * c <= Standing(n) <=> b = 0)
  <2>1. CASE b = 0
    <3>1. c = a /\ Standing(n) = 4 * a /\ a # 0
      BY <1>1, <1>2, <1>3, <2>1
    <3> QED
      BY <1>1, <2>1, <3>1
  <2>2. CASE b # 0
    <3>1. c = a + 1 /\ Standing(n) = 4 * a + (b + 1)
      BY <1>2, <1>3, <2>2
    <3> QED
      BY <1>1, <2>2, <3>1
  <2> QED
    BY <2>1, <2>2
<1> QED
  BY <1>4 DEF b, c

\* A coded name is an item, and its last character tells whether it was filled up.
LEMMA EncodedItem ==
  ASSUME NEW bytes \in Seq(Byte), bytes # <<>>
  PROVE  /\ base64_encode(bytes) \in Items /\ Last(base64_encode(bytes)) \notin Trailing
         /\ Last(base64_encode(bytes)) = Equals <=> Len(bytes) % 3 # 0
<1> DEFINE text == base64_encode(bytes)
           n == Len(bytes)
           L == Len(text)
<1>1. n \in Nat \ {0}
  OBVIOUS
<1>2. L \in Nat \ {0} /\ (L <= Standing(n) <=> n % 3 = 0)
  BY <1>1, EncodedGroups, PaddingStands
<1>3. text \in Seq(Byte)
  BY EncodedIsText
<1>4. \A p \in 1 .. L : IF p <= Standing(n) THEN \E s \in 0 .. 63 : text[p] = base64_chars(s)
                        ELSE text[p] = Equals
  BY EncodedChars
<1> HIDE DEF text, n
<1>5. \A c : is_base64(c) => c \notin Trailing
  BY DEF is_base64, Trailing, Blank, LineFeed
<1>6. Equals \notin Trailing /\ Equals # Separator
  BY DEF Equals, Separator, Trailing, Blank, LineFeed
<1>7. ASSUME NEW p \in 1 .. L
      PROVE  text[p] # Separator /\ text[p] \notin Trailing /\ (text[p] = Equals <=> ~(p <= Standing(n)))
  <2>1. CASE p <= Standing(n)
    <3>1. PICK s \in 0 .. 63 : text[p] = base64_chars(s)
      BY <1>4, <2>1
    <3> QED
      BY <1>5, <2>1, <3>1, CharFacts
  <2>2. CASE ~(p <= Standing(n))
    BY <1>4, <1>6, <2>2
  <2> QED
    BY <2>1, <2>2
<1>8. text \in Items
  BY <1>2, <1>3, <1>7 DEF Items
<1>9. L \in 1 .. L
  BY <1>2
<1>10. Last(text) \notin Trailing /\ (Last(text) = Equals <=> n % 3 # 0)
  BY <1>2, <1>7, <1>9 DEF Last
<1> QED
  BY <1>8, <1>10 DEF text, n

\* A transparent name travels as an item, and is read as what it is shown as.
LEMMA SentItem ==
  ASSUME NEW r \in [name : Name, coded : BOOLEAN], Transparent(r)
  PROVE  /\ SentAs(r) \in Items /\ Last(SentAs(r)) \notin Trailing
         /\ (IF Last(SentAs(r)) = Equals THEN base64_decode(SentAs(r)) ELSE SentAs(r)) = ShownAs(r)
<1> DEFINE name == r.name
<1>1. name \in Seq(Byte) /\ name # <<>> /\ r.coded \in BOOLEAN
  <2>1. name \in Name /\ r.coded \in BOOLEAN
    OBVIOUS
  <2>2. name # <<>>
    BY <2>1 DEF Name
  <2> QED
    BY <2>1, <2>2, NamesAreTexts
<1>2. CASE r.coded
  <2>1. SentAs(r) = base64_encode(name)
    BY <1>2 DEF SentAs
  <2>2. base64_encode(name) \in Items /\ Last(base64_encode(name)) \notin Trailing
        /\ (Last(base64_encode(name)) = Equals <=> Len(name) % 3 # 0)
    BY <1>1, EncodedItem
  <2>3. base64_decode(base64_encode(name)) = name
    BY <1>1, DecodedIsEncoded
  <2>4. ShownAs(r) = IF Len(name) % 3 = 0 THEN base64_encode(name) ELSE name
    BY <1>2 DEF ShownAs
  <2> HIDE DEF name
  <2> QED
    BY <2>1, <2>2, <2>3, <2>4
<1>3. CASE ~r.coded
  <2>1. SentAs(r) = name /\ ShownAs(r) = name
    BY <1>3 DEF SentAs, ShownAs
  <2>2. Separator \notin Range(name) /\ Last(name) \notin {Equals, Blank, LineFeed, 13, 9}
    BY <1>3 DEF Transparent
  <2>3. \A i \in 1 .. Len(name) : name[i] # Separator
    BY <1>1, <2>2 DEF Range
  <2>4. name \in Items
    BY <1>1, <2>3 DEF Items
  <2> HIDE DEF name
  <2> QED
    BY <2>1, <2>2, <2>4 DEF Trailing
<1> QED
  BY <1>1, <1>2, <1>3

\* What the proxy announces is read as it is shown.
LEMMA AnswersAsShown ==
  ASSUME NEW list \in Announcements, \A i \in DOMAIN list : Transparent(list[i])
  PROVE  Answers[list] = [i \in DOMAIN list |-> ShownAs(list[i])]
<1> DEFINE texts == [i \in DOMAIN list |-> SentAs(list[i])]
           items == String_ParseSeparatedArray(Trimmed(Response(list)))
           n == Len(list)
<1>1. n \in Nat /\ DOMAIN list = 1 .. n /\ \A i \in 1 .. n : list[i] \in [name : Name, coded : BOOLEAN]
  <2> DEFINE R == [name : Name, coded : BOOLEAN]
  <2>1. list \in Seq(R)
    BY ReaderListAssumption
  <2> HIDE DEF R
  <2>2. n \in Nat /\ DOMAIN list = 1 .. n /\ \A i \in 1 .. n : list[i] \in R
    BY <2>1
  <2> QED
    BY <2>2 DEF R
<1>2. \A i \in 1 .. n : /\ texts[i] \in Items /\ Last(texts[i]) \notin Trailing
                        /\ (IF Last(texts[i]) = Equals THEN base64_decode(texts[i]) ELSE texts[i])
                             = ShownAs(list[i])
  <2> SUFFICES ASSUME NEW i \in 1 .. n
               PROVE  /\ texts[i] \in Items /\ Last(texts[i]) \notin Trailing
                      /\ (IF Last(texts[i]) = Equals THEN base64_decode(texts[i]) ELSE texts[i])
                           = ShownAs(list[i])
    OBVIOUS
  <2>1. texts[i] = SentAs(list[i]) /\ list[i] \in [name : Name, coded : BOOLEAN] /\ Transparent(list[i])
    BY <1>1
  <2> QED
    BY <2>1, SentItem
<1>3. texts \in Seq(Items) /\ Len(texts) = n /\ DOMAIN texts = 1 .. n
  <2> DEFINE D == Items
  <2>1. \A i \in 1 .. n : texts[i] \in D
    BY <1>2
  <2> HIDE DEF D, n
  <2>2. texts \in Seq(D) /\ Len(texts) = n /\ DOMAIN texts = 1 .. n
    BY <1>1, <2>1
  <2> QED
    BY <2>2 DEF D
<1>4. Response(list) = IF list = <<>> THEN <<LineFeed>>
                       ELSE Front(Terminated(texts, Separator)) \o <<LineFeed>>
  BY Zenon DEF Response, SentAs
<1> HIDE DEF texts
<1>5. items = texts
  <2>1. CASE list = <<>>
    <3>1. items = <<>>
      BY <1>4, <2>1, EmptyAnswer
    <3>2. texts = <<>>
      BY <1>3, <2>1
    <3> QED
      BY <3>1, <3>2
  <2>2. CASE list # <<>>
    <3>1. n \in 1 .. n /\ texts # <<>>
      BY <1>1, <1>3, <2>2
    <3>2. Last(texts[Len(texts)]) \notin Trailing
      BY <1>2, <1>3, <3>1
    <3>3. Response(list) = Front(Terminated(texts, Separator)) \o <<LineFeed>>
      BY <1>4, <2>2
    <3> QED
      BY <1>3, <3>1, <3>2, <3>3, AnswerParsed
  <2> QED
    BY <2>1, <2>2
<1>6. Answers[list] = [i \in DOMAIN items |->
                         IF Last(items[i]) = Equals THEN base64_decode(items[i]) ELSE items[i]]
  BY Zenon DEF Answers, Remote_ListReaders
<1> HIDE DEF items, n
<1>7. Answers[list] = [i \in 1 .. n |->
                         IF Last(texts[i]) = Equals THEN base64_decode(texts[i]) ELSE texts[i]]
  BY <1>3, <1>5, <1>6
<1> QED
  BY <1>1, <1>2, <1>7

\* The application finds the readers under the names the proxy announced them with
\* (Remote_ListReaders: base64_decode after String_ParseSeparatedArray), after those of
\* the rule file: separators, line end and padding are taken away and nothing else, for
\* names of every length; those of a length divisible by three stay coded.
THEOREM ReadersFollowTheAnnouncement == Spec => []ReadersAsAnnounced
<1> DEFINE Named(list) == [i \in DOMAIN list |-> ShownAs(list[i])]
           AsShown == (\A i \in DOMAIN announced : Transparent(announced[i]))
                        => virtual = static \o Named(announced)
<1>1. AsShown <=> ReadersAsAnnounced
  BY Zenon DEF ReadersAsAnnounced, ShownAs
<1>2. Init => AsShown
  <2> SUFFICES ASSUME Init PROVE virtual = static \o Named(announced)
    OBVIOUS
  <2>1. announced = <<>> /\ virtual = static /\ static \in Seq(Name)
    BY ReaderListAssumption DEF Init
  <2>2. Named(announced) = <<>>
    BY <2>1
  <2> HIDE DEF Named
  <2> QED
    BY <2>1, <2>2
<1>3. Inv /\ AsShown /\ [Next]_vars => AsShown'
  <2> SUFFICES ASSUME Inv, AsShown, [Next]_vars PROVE AsShown'
    OBVIOUS
  <2> HIDE DEF Named
  <2>1. CASE UNCHANGED <<static, virtual, announced>>
    BY <2>1 DEF Named
  <2>2. ASSUME RefreshReaders, static' = static PROVE AsShown'
    <3>1. CASE UNCHANGED <<virtual, announced>>
      BY <2>1, <2>2, <3>1
    <3>2. ASSUME NEW list \in Announcements, announced' = list, virtual' = static \o Answers[list]
          PROVE  AsShown'
      <4> SUFFICES ASSUME \A i \in DOMAIN list : Transparent(list[i])
                   PROVE  virtual' = static' \o Named(list)
        BY <3>2 DEF Named
      <4>1. Answers[list] = Named(list)
        BY AnswersAsShown DEF Named
      <4> QED
        BY <2>2, <3>2, <4>1
    <3>3. CASE announced' = <<>> /\ virtual' = static
      <4>1. Named(<<>>) = <<>>
        BY DEF Named
      <4>2. static \o <<>> = static
        <5>1. static \in Texts
          BY NamesAreTexts DEF Inv, TypeOK
        <5> QED
          BY <5>1 DEF Texts
      <4> QED
        BY <2>2, <3>3, <4>1, <4>2
    <3> QED
      BY <2>2, <3>1, <3>2, <3>3, Zenon DEF RefreshReaders
  <2>3. ASSUME NEW wide \in BOOLEAN, NEW m \in Modes, SCardListReaders(wide, m[1], m[2])
        PROVE  AsShown'
    BY <2>2, <2>3 DEF SCardListReaders
  <2>4. CASE HotPlug
    BY <2>1, <2>4 DEF HotPlug
  <2>5. CASE FetchReaders
    BY <2>1, <2>5 DEF FetchReaders
  <2>6. ASSUME NEW p \in 1 .. MaxAllocs, SCardFreeMemory(p)
        PROVE  AsShown'
    BY <2>1, <2>6 DEF SCardFreeMemory
  <2>7. CASE UNCHANGED vars
    BY <2>1, <2>7 DEF vars
  <2> QED
    BY <2>3, <2>4, <2>5, <2>6, <2>7 DEF Next
<1> HIDE DEF AsShown
<1>4. Spec => []AsShown
  BY <1>2, <1>3, InvIsInvariant, PTL DEF Spec
<1> QED
  BY <1>1, <1>4, PTL
=============================================================================
