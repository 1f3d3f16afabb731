---------------------------- MODULE IniFileProofs ----------------------------
(***************************************************************************)
(* The INI parser.  First the dictionary: its arrays stay consistent       *)
(* whatever is set, removed or fails to be allocated, for every size, hash *)
(* function and set of names, and it is a map.  Then the loading of a      *)
(* file, for every file, every length of lines and every failed            *)
(* allocation: to the dictionary it is a sequence of ordinary calls, what  *)
(* it leaves there is what the lines mean, and a line that cannot be read  *)
(* costs the file.  Last the saving: the lines a dictionary is written as  *)
(* mean what it holds.                                                     *)
(***************************************************************************)
EXTENDS IniFile, FiniteSetTheorems, SequenceTheorems, WellFoundedInduction, NaturalsInduction,
        TLAPS

-----------------------------------------------------------------------------
(* The least element of a set of natural numbers, as found by a loop that  *)
(* counts up, exists and is least.                                         *)
LEMMA FirstIsLeast ==
  ASSUME NEW S \in SUBSET Nat, S # {}
  PROVE  First(S) \in S /\ \A j \in S : First(S) <= j
<1> DEFINE R == {ss \in Nat \X Nat : ss[1] < ss[2]}
<1>1. IsWellFoundedOn(R, Nat)
  BY NatLessThanWellFounded DEF OpToRel
<1> HIDE DEF R
<1>2. \E x \in S : \A y \in S : ~ (<<y, x>> \in R)
  BY <1>1, WFMin
<1>3. PICK x \in S : \A y \in S : ~ (<<y, x>> \in R)
  BY <1>2
<1>4. ASSUME NEW y \in S PROVE x <= y
  <2>1. <<y, x>> \notin R
    BY <1>3
  <2>2. <<y, x>> \in Nat \X Nat /\ <<y, x>>[1] = y /\ <<y, x>>[2] = x
    OBVIOUS
  <2>3. ~ (y < x)
    BY <2>1, <2>2 DEF R
  <2> QED
    BY <2>3
<1> QED
  BY <1>4 DEF First

-----------------------------------------------------------------------------
(* The invariants of the arrays, of any dictionary.                        *)
IsDictionary(d) ==
  /\ d = [size |-> d.size, n |-> d.n, key |-> d.key, val |-> d.val, hash |-> d.hash]
  /\ d.size \in Nat \ {0}
  /\ d.n \in 0 .. d.size
  /\ d.key \in [Slots(d) -> Names \cup {NULL}]
  /\ d.val \in [Slots(d) -> Values \cup {NULL}]
  /\ DOMAIN d.hash = Slots(d)

Distinct(d)  == \A i, j \in Used(d) : d.key[i] = d.key[j] => i = j
Hashed(d)    == \A i \in Used(d) : d.hash[i] = Hash(d.key[i])
Covered(d)   == Cardinality(Used(d)) <= d.n
Exact(d)     == Cardinality(Used(d)) = d.n

Consistent(d) == IsDictionary(d) /\ Distinct(d) /\ Hashed(d) /\ Covered(d)

\* The slots and the used ones are finite sets of natural numbers.
LEMMA SlotsFinite ==
  ASSUME NEW d, IsDictionary(d)
  PROVE  /\ Slots(d) \in SUBSET Nat
         /\ IsFiniteSet(Slots(d))
         /\ Cardinality(Slots(d)) = d.size
         /\ Used(d) \in SUBSET Slots(d)
         /\ IsFiniteSet(Used(d))
         /\ Cardinality(Used(d)) \in Nat
         /\ Cardinality(Used(d)) <= d.size
<1>1. d.size \in Nat /\ d.size > 0
  BY DEF IsDictionary
<1>2. IsFiniteSet(0 .. d.size - 1) /\ Cardinality(0 .. d.size - 1) = d.size
  <2> DEFINE b == d.size - 1
  <2>1. 0 \in Int /\ b \in Int /\ ~(0 > b) /\ b - 0 + 1 = d.size
    BY <1>1
  <2> HIDE DEF b
  <2>2. IsFiniteSet(0 .. b) /\ Cardinality(0 .. b) = b - 0 + 1
    BY <2>1, FS_Interval
  <2> QED
    BY <2>1, <2>2 DEF b
<1>3. Used(d) \in SUBSET Slots(d)
  BY DEF Used
<1>4. IsFiniteSet(Used(d)) /\ Cardinality(Used(d)) <= Cardinality(Slots(d))
  BY <1>2, <1>3, FS_Subset DEF Slots
<1>5. Cardinality(Used(d)) \in Nat
  BY <1>4, FS_CardinalityType
<1> QED
  BY <1>1, <1>2, <1>3, <1>4, <1>5 DEF Slots

\* "Because d->n < d->size this will necessarily terminate."
LEMMA FreeSlotIsFree ==
  ASSUME NEW d, IsDictionary(d), Covered(d), d.n < d.size
  PROVE  FreeSlot(d) \in Slots(d) /\ FreeSlot(d) \notin Used(d)
<1> DEFINE free  == Slots(d) \ Used(d)
           after == {i \in free : d.n <= i}
<1>1. d.size \in Nat /\ d.n \in Nat
  BY DEF IsDictionary
<1>2. free # {}
  <2>1. ~ (Slots(d) \subseteq Used(d))
    <3>1. ASSUME Slots(d) \subseteq Used(d) PROVE FALSE
      <4>1. Used(d) = Slots(d)
        BY <3>1, SlotsFinite
      <4>2. Cardinality(Used(d)) = d.size
        BY <4>1, SlotsFinite
      <4> QED
        BY <4>2, <1>1 DEF Covered
    <3> QED
      BY <3>1
  <2> QED
    BY <2>1
<1>3. free \in SUBSET Nat /\ after \in SUBSET Nat
  BY SlotsFinite
<1>4. First(free) \in free
  BY <1>2, <1>3, FirstIsLeast
<1>5. after # {} => First(after) \in after
  BY <1>3, FirstIsLeast
<1>6. FreeSlot(d) = IF after # {} THEN First(after) ELSE First(free)
  BY DEF FreeSlot
<1> QED
  BY <1>4, <1>5, <1>6

-----------------------------------------------------------------------------
(* The operations keep a dictionary consistent.                            *)
LEMMA NewIsConsistent ==
  ASSUME NEW size \in Nat
  PROVE  /\ Consistent(dictionary_new(size))
         /\ Used(dictionary_new(size)) = {}
         /\ Exact(dictionary_new(size))
<1> DEFINE d == dictionary_new(size)
           s == IF size < DICTMINSZ THEN DICTMINSZ ELSE size
<1>1. s \in Nat \ {0}
  BY DictionaryAssumption
<1>2. /\ d = [size |-> s, n |-> 0, key |-> [i \in 0 .. s - 1 |-> NULL],
              val |-> [i \in 0 .. s - 1 |-> NULL], hash |-> [i \in 0 .. s - 1 |-> 0]]
  BY DEF dictionary_new
<1> HIDE DEF s, d
<1>3. /\ d.size = s /\ d.n = 0
      /\ d.key = [i \in 0 .. s - 1 |-> NULL]
      /\ d.val = [i \in 0 .. s - 1 |-> NULL]
      /\ d.hash = [i \in 0 .. s - 1 |-> 0]
  BY <1>2
<1>4. d = [size |-> d.size, n |-> d.n, key |-> d.key, val |-> d.val, hash |-> d.hash]
  BY <1>2
<1>5. IsDictionary(d)
  BY <1>1, <1>3, <1>4 DEF IsDictionary, Slots
<1>6. Used(d) = {}
  BY <1>3 DEF Used, Slots
<1>7. Cardinality(Used(d)) = 0
  BY <1>6, FS_EmptySet
<1>8. Distinct(d) /\ Hashed(d) /\ Covered(d) /\ Exact(d)
  BY <1>3, <1>6, <1>7 DEF Distinct, Hashed, Covered, Exact
<1> QED
  BY <1>5, <1>6, <1>8 DEF Consistent, d

LEMMA GrownIsConsistent ==
  ASSUME NEW d, Consistent(d)
  PROVE  LET g == dictionary_grow(d)
         IN  /\ Consistent(g)
             /\ g.n = d.n /\ g.size = 2 * d.size
             /\ Used(g) = Used(d)
             /\ \A i \in Used(d) : g.key[i] = d.key[i] /\ g.val[i] = d.val[i]
<1> DEFINE g == dictionary_grow(d)
<1>1. /\ d.size \in Nat \ {0} /\ d.n \in 0 .. d.size
      /\ d.key \in [Slots(d) -> Names \cup {NULL}]
      /\ d.val \in [Slots(d) -> Values \cup {NULL}]
  BY DEF Consistent, IsDictionary
<1>2. /\ g.size = 2 * d.size /\ g.n = d.n
      /\ g.key = Longer(d.key, d.size, NULL)
      /\ g.val = Longer(d.val, d.size, NULL)
      /\ g.hash = Longer(d.hash, d.size, 0)
      /\ g = [size |-> g.size, n |-> g.n, key |-> g.key, val |-> g.val, hash |-> g.hash]
  BY DEF dictionary_grow
<1> HIDE DEF g
<1>3. Slots(g) = 0 .. 2 * d.size - 1
  BY <1>2 DEF Slots
<1>4. g.key = [i \in Slots(g) |-> IF i < d.size THEN d.key[i] ELSE NULL]
  BY <1>2, <1>3 DEF Longer
<1>5. g.val = [i \in Slots(g) |-> IF i < d.size THEN d.val[i] ELSE NULL]
  BY <1>2, <1>3 DEF Longer
<1>6. g.hash = [i \in Slots(g) |-> IF i < d.size THEN d.hash[i] ELSE 0]
  BY <1>2, <1>3 DEF Longer
<1>7. \A i \in Slots(g) : i < d.size <=> i \in Slots(d)
  BY <1>1, <1>3 DEF Slots
<1>8. Slots(d) \subseteq Slots(g)
  <2>1. d.size \in Nat
    BY <1>1
  <2>2. ASSUME NEW i \in 0 .. d.size - 1 PROVE i \in 0 .. 2 * d.size - 1
    BY <2>1
  <2> QED
    BY <2>2, <1>3 DEF Slots
<1>9. IsDictionary(g)
  <2>1. g.size \in Nat \ {0} /\ g.n \in 0 .. g.size
    BY <1>1, <1>2
  <2>2. g.key \in [Slots(g) -> Names \cup {NULL}]
    BY <1>1, <1>4, <1>7
  <2>3. g.val \in [Slots(g) -> Values \cup {NULL}]
    BY <1>1, <1>5, <1>7
  <2>4. DOMAIN g.hash = Slots(g)
    BY <1>6
  <2> QED
    BY <1>2, <2>1, <2>2, <2>3, <2>4 DEF IsDictionary
<1>10. Used(g) = Used(d)
  BY <1>4, <1>7, <1>8 DEF Used
<1>11. \A i \in Used(d) : /\ g.key[i] = d.key[i] /\ g.val[i] = d.val[i]
                          /\ g.hash[i] = d.hash[i]
  BY <1>4, <1>5, <1>6, <1>7, <1>8 DEF Used
<1>12. Distinct(g) /\ Hashed(g) /\ Covered(g)
  BY <1>2, <1>10, <1>11 DEF Consistent, Distinct, Hashed, Covered
<1> QED
  BY <1>2, <1>9, <1>10, <1>11, <1>12 DEF Consistent, g

LEMMA AddedIsConsistent ==
  ASSUME NEW d, Consistent(d), d.n < d.size,
         NEW k \in Names, SlotsOf(d, k) = {},
         NEW copy \in {k, NULL}, NEW v \in Values \cup {NULL}
  PROVE  LET a == Added(d, k, copy, v)
             i == FreeSlot(d)
         IN  /\ Consistent(a)
             /\ Exact(d) /\ copy = k => Exact(a)
             /\ copy = NULL => Used(a) = Used(d)
             /\ copy = k => Used(a) = Used(d) \cup {i} /\ i \notin Used(d)
                            /\ a.key[i] = k /\ a.val[i] = v
             /\ \A j \in Used(d) : a.key[j] = d.key[j] /\ a.val[j] = d.val[j]
<1> DEFINE a == Added(d, k, copy, v)
           i == FreeSlot(d)
<1>1. /\ IsDictionary(d) /\ Distinct(d) /\ Hashed(d) /\ Covered(d)
      /\ d.size \in Nat \ {0} /\ d.n \in Nat
      /\ d.key \in [Slots(d) -> Names \cup {NULL}]
      /\ d.val \in [Slots(d) -> Values \cup {NULL}]
      /\ DOMAIN d.hash = Slots(d)
  BY DEF Consistent, IsDictionary
<1>2. i \in Slots(d) /\ i \notin Used(d)
  BY <1>1, FreeSlotIsFree
<1>3. /\ a.size = d.size /\ a.n = d.n + 1
      /\ a.key = [d.key EXCEPT ![i] = copy]
      /\ a.val = [d.val EXCEPT ![i] = v]
      /\ a.hash = [d.hash EXCEPT ![i] = Hash(k)]
      /\ a = [size |-> a.size, n |-> a.n, key |-> a.key, val |-> a.val, hash |-> a.hash]
  BY DEF Added, Stored
<1> HIDE DEF a, i
<1>4. Slots(a) = Slots(d)
  BY <1>3 DEF Slots
<1>5. NULL \notin Names /\ k # NULL /\ copy \in Names \cup {NULL}
  BY DictionaryAssumption
<1>6. IsDictionary(a)
  <2>1. a.size \in Nat \ {0} /\ a.n \in 0 .. a.size
    BY <1>1, <1>3
  <2>2. a.key \in [Slots(a) -> Names \cup {NULL}]
    <3>1. d.key \in [Slots(d) -> Names \cup {NULL}]
      BY <1>1
    <3>2. a.key = [d.key EXCEPT ![i] = copy]
      BY <1>3
    <3> QED
      BY <3>1, <3>2, <1>4, <1>5
  <2>3. a.val \in [Slots(a) -> Values \cup {NULL}]
    <3>1. d.val \in [Slots(d) -> Values \cup {NULL}]
      BY <1>1
    <3>2. a.val = [d.val EXCEPT ![i] = v]
      BY <1>3
    <3> QED
      BY <3>1, <3>2, <1>4
  <2>4. DOMAIN a.hash = Slots(a)
    BY <1>1, <1>3, <1>4
  <2> QED
    BY <1>3, <2>1, <2>2, <2>3, <2>4 DEF IsDictionary
<1>7. \A j \in Slots(d) : j # i =>
        a.key[j] = d.key[j] /\ a.val[j] = d.val[j] /\ a.hash[j] = d.hash[j]
  BY <1>1, <1>3
<1>8. a.key[i] = copy /\ a.val[i] = v /\ a.hash[i] = Hash(k)
  BY <1>1, <1>2, <1>3
<1>9. copy = NULL => Used(a) = Used(d)
  BY <1>2, <1>4, <1>7, <1>8 DEF Used
<1>10. copy = k => Used(a) = Used(d) \cup {i}
  BY <1>2, <1>4, <1>5, <1>7, <1>8 DEF Used
<1>11. \A j \in Used(d) : d.key[j] # k
  BY <1>1 DEF SlotsOf, Hashed
<1>12. \A j \in Used(d) : j # i /\ j \in Slots(d)
  BY <1>2 DEF Used
<1>13. Distinct(a) /\ Hashed(a)
  <2>1. CASE copy = NULL
    BY <2>1, <1>1, <1>7, <1>9, <1>12 DEF Distinct, Hashed
  <2>2. CASE copy = k
    BY <2>2, <1>1, <1>7, <1>8, <1>10, <1>11, <1>12 DEF Distinct, Hashed
  <2> QED
    BY <2>1, <2>2
<1>14. Covered(a) /\ (Exact(d) /\ copy = k => Exact(a))
  <2>1. IsFiniteSet(Used(d)) /\ Cardinality(Used(d)) \in Nat
    BY <1>1, SlotsFinite
  <2>2. Cardinality(Used(d) \cup {i}) = Cardinality(Used(d)) + 1
    BY <1>2, <2>1, FS_AddElement
  <2>3. CASE copy = NULL
    BY <2>1, <2>3, <1>1, <1>3, <1>5, <1>9 DEF Covered, Exact
  <2>4. CASE copy = k
    <3>1. Cardinality(Used(a)) = Cardinality(Used(d)) + 1 /\ a.n = d.n + 1
      BY <2>2, <2>4, <1>3, <1>10
    <3> QED
      BY <3>1, <2>1, <1>1 DEF Covered, Exact
  <2> QED
    BY <2>3, <2>4
<1> QED
  BY <1>2, <1>6, <1>7, <1>8, <1>9, <1>10, <1>12, <1>13, <1>14 DEF Consistent, a, i

\* A search finds the only slot of a key.
LEMMA SearchFindsSlot ==
  ASSUME NEW d, Consistent(d)
  PROVE  /\ \A k : SlotsOf(d, k) = {i \in Used(d) : d.key[i] = k}
         /\ \A i \in Used(d) : /\ d.key[i] \in Names
                              /\ SlotsOf(d, d.key[i]) = {i}
                              /\ First(SlotsOf(d, d.key[i])) = i
                              /\ dictionary_get(d, d.key[i], NULL) = d.val[i]
<1>1. Distinct(d) /\ Hashed(d)
  BY DEF Consistent
<1>2. \A k : SlotsOf(d, k) = {i \in Used(d) : d.key[i] = k}
  BY <1>1 DEF SlotsOf, Hashed
<1>3. ASSUME NEW i \in Used(d)
      PROVE  /\ SlotsOf(d, d.key[i]) = {i}
             /\ First(SlotsOf(d, d.key[i])) = i
  <2>1. SlotsOf(d, d.key[i]) = {i}
    BY <1>1, <1>2 DEF Distinct
  <2>2. {i} \in SUBSET Nat
    BY SlotsFinite DEF Consistent
  <2>3. First({i}) = i
    BY <2>2, FirstIsLeast
  <2> QED
    BY <2>1, <2>3
<1>4. \A i \in Used(d) : d.key[i] \in Names
  BY DEF Consistent, IsDictionary, Used
<1> QED
  BY <1>2, <1>3, <1>4 DEF dictionary_get

LEMMA ReplacedIsConsistent ==
  ASSUME NEW d, Consistent(d), NEW i \in Used(d), NEW v \in Values \cup {NULL}
  PROVE  LET r == Replaced(d, d.key[i], v)
         IN  /\ Consistent(r)
             /\ Exact(d) => Exact(r)
             /\ Used(r) = Used(d)
             /\ r.val[i] = v
             /\ \A j \in Used(d) : r.key[j] = d.key[j] /\ (j # i => r.val[j] = d.val[j])
<1> DEFINE r == Replaced(d, d.key[i], v)
<1>1. /\ Distinct(d) /\ Hashed(d) /\ Covered(d)
      /\ d.size \in Nat \ {0} /\ d.n \in 0 .. d.size
      /\ d.key \in [Slots(d) -> Names \cup {NULL}]
      /\ d.val \in [Slots(d) -> Values \cup {NULL}]
      /\ DOMAIN d.hash = Slots(d)
      /\ i \in Slots(d)
  BY DEF Consistent, IsDictionary, Used
<1>2. r = Stored(d, i, d.key[i], v, d.hash[i], d.n)
  BY SearchFindsSlot DEF Replaced
<1>3. /\ r.size = d.size /\ r.n = d.n
      /\ r.key = [d.key EXCEPT ![i] = d.key[i]]
      /\ r.val = [d.val EXCEPT ![i] = v]
      /\ r.hash = [d.hash EXCEPT ![i] = d.hash[i]]
      /\ r = [size |-> r.size, n |-> r.n, key |-> r.key, val |-> r.val, hash |-> r.hash]
  BY <1>2 DEF Stored
<1> HIDE DEF r
<1>4. Slots(r) = Slots(d)
  BY <1>3 DEF Slots
<1>5. r.key = d.key
  BY <1>1, <1>3
<1>6. \A j \in Slots(d) : r.hash[j] = d.hash[j] /\ (j # i => r.val[j] = d.val[j])
  BY <1>1, <1>3
<1>7. r.val[i] = v /\ r.val \in [Slots(r) -> Values \cup {NULL}]
  BY <1>1, <1>3, <1>4
<1>8. DOMAIN r.hash = Slots(r)
  BY <1>1, <1>3, <1>4
<1>9. IsDictionary(r)
  BY <1>1, <1>3, <1>4, <1>5, <1>7, <1>8 DEF IsDictionary
<1>10. Used(r) = Used(d)
  BY <1>4, <1>5 DEF Used
<1>11. Used(d) \subseteq Slots(d)
  BY DEF Used
<1>12. Distinct(r) /\ Hashed(r) /\ Covered(r) /\ (Exact(d) => Exact(r))
  BY <1>1, <1>3, <1>5, <1>6, <1>10, <1>11 DEF Distinct, Hashed, Covered, Exact
<1> QED
  BY <1>5, <1>6, <1>7, <1>9, <1>10, <1>11, <1>12 DEF Consistent, r

LEMMA UnsetIsConsistent ==
  ASSUME NEW d, Consistent(d), NEW i \in Used(d)
  PROVE  LET u == dictionary_unset(d, d.key[i])
         IN  /\ Consistent(u)
             /\ Exact(d) => Exact(u)
             /\ Used(u) = Used(d) \ {i}
             /\ \A j \in Used(u) : u.key[j] = d.key[j] /\ u.val[j] = d.val[j]
<1> DEFINE u == dictionary_unset(d, d.key[i])
<1>1. /\ IsDictionary(d) /\ Distinct(d) /\ Hashed(d) /\ Covered(d)
      /\ d.size \in Nat \ {0} /\ d.n \in 0 .. d.size
      /\ d.key \in [Slots(d) -> Names \cup {NULL}]
      /\ d.val \in [Slots(d) -> Values \cup {NULL}]
      /\ DOMAIN d.hash = Slots(d)
      /\ i \in Slots(d)
  BY DEF Consistent, IsDictionary, Used
<1>2. u = Stored(d, i, NULL, NULL, 0, d.n - 1)
  BY SearchFindsSlot DEF dictionary_unset
<1>3. /\ u.size = d.size /\ u.n = d.n - 1
      /\ u.key = [d.key EXCEPT ![i] = NULL]
      /\ u.val = [d.val EXCEPT ![i] = NULL]
      /\ u.hash = [d.hash EXCEPT ![i] = 0]
      /\ u = [size |-> u.size, n |-> u.n, key |-> u.key, val |-> u.val, hash |-> u.hash]
  BY <1>2 DEF Stored
<1> HIDE DEF u
<1>4. Slots(u) = Slots(d)
  BY <1>3 DEF Slots
<1>5. \A j \in Slots(d) : j # i =>
        u.key[j] = d.key[j] /\ u.val[j] = d.val[j] /\ u.hash[j] = d.hash[j]
  BY <1>1, <1>3
<1>6. u.key[i] = NULL
  BY <1>1, <1>3
<1>7. Used(u) = Used(d) \ {i}
  BY <1>4, <1>5, <1>6 DEF Used
<1>8. /\ IsFiniteSet(Used(d))
      /\ Cardinality(Used(d)) \in Nat
      /\ Cardinality(Used(u)) = Cardinality(Used(d)) - 1
  <2>1. IsFiniteSet(Used(d)) /\ Cardinality(Used(d)) \in Nat
    BY <1>1, SlotsFinite
  <2>2. Cardinality(Used(d) \ {i}) = Cardinality(Used(d)) - 1
    BY <2>1, FS_RemoveElement
  <2> QED
    BY <2>1, <2>2, <1>7
<1>9. Cardinality(Used(u)) \in Nat
  <2>1. IsFiniteSet(Used(u))
    BY <1>7, <1>8, FS_RemoveElement
  <2> QED
    BY <2>1, FS_CardinalityType
<1>10. d.n >= 1
  BY <1>1, <1>8, <1>9 DEF Covered
<1>11. IsDictionary(u)
  <2>1. u.size \in Nat \ {0} /\ u.n \in 0 .. u.size
    BY <1>1, <1>3, <1>10
  <2>2. u.key \in [Slots(u) -> Names \cup {NULL}]
    <3>1. d.key \in [Slots(d) -> Names \cup {NULL}]
      BY <1>1
    <3>2. u.key = [d.key EXCEPT ![i] = NULL]
      BY <1>3
    <3> QED
      BY <3>1, <3>2, <1>4
  <2>3. u.val \in [Slots(u) -> Values \cup {NULL}]
    <3>1. d.val \in [Slots(d) -> Values \cup {NULL}]
      BY <1>1
    <3>2. u.val = [d.val EXCEPT ![i] = NULL]
      BY <1>3
    <3> QED
      BY <3>1, <3>2, <1>4
  <2>4. DOMAIN u.hash = Slots(u)
    BY <1>1, <1>3, <1>4
  <2> QED
    BY <1>3, <2>1, <2>2, <2>3, <2>4 DEF IsDictionary
<1>12. Used(d) \subseteq Slots(d)
  BY DEF Used
<1>13. Distinct(u) /\ Hashed(u)
  BY <1>1, <1>5, <1>7, <1>12 DEF Distinct, Hashed
<1>14. Covered(u) /\ (Exact(d) => Exact(u))
  BY <1>1, <1>3, <1>8 DEF Covered, Exact
<1> QED
  BY <1>5, <1>7, <1>11, <1>12, <1>13, <1>14 DEF Consistent, u

-----------------------------------------------------------------------------
(* What a dictionary holds, as a map.                                      *)
Keys(d) == {d.key[i] : i \in Used(d)}

\* The map with the value of k replaced, or added.
Updated(f, k, v) == [x \in DOMAIN f \cup {k} |-> IF x = k THEN v ELSE f[x]]

LEMMA ContentsOfSlots ==
  ASSUME NEW d, Consistent(d)
  PROVE  /\ ContentsOf(d) = [k \in Keys(d) |-> dictionary_get(d, k, NULL)]
         /\ DOMAIN ContentsOf(d) = Keys(d)
         /\ \A i \in Used(d) : d.key[i] \in Keys(d) /\ ContentsOf(d)[d.key[i]] = d.val[i]
<1>1. ContentsOf(d) = [k \in Keys(d) |-> dictionary_get(d, k, NULL)]
  BY DEF ContentsOf, Keys
<1>2. \A i \in Used(d) : d.key[i] \in Keys(d)
  BY DEF Keys
<1>3. \A i \in Used(d) : dictionary_get(d, d.key[i], NULL) = d.val[i]
  BY SearchFindsSlot
<1> QED
  BY <1>1, <1>2, <1>3

\* Dictionaries with the same keys and values in the same slots are the same map.
LEMMA SameContents ==
  ASSUME NEW d, Consistent(d), NEW e, Consistent(e), Used(e) = Used(d),
         \A i \in Used(d) : e.key[i] = d.key[i] /\ e.val[i] = d.val[i]
  PROVE  ContentsOf(e) = ContentsOf(d)
<1>1. Keys(e) = Keys(d)
  BY DEF Keys
<1>2. ASSUME NEW k \in Keys(d) PROVE ContentsOf(e)[k] = ContentsOf(d)[k]
  <2>1. PICK i \in Used(d) : k = d.key[i]
    BY DEF Keys
  <2> QED
    BY <2>1, ContentsOfSlots
<1>3. /\ ContentsOf(d) = [k \in Keys(d) |-> ContentsOf(d)[k]]
      /\ ContentsOf(e) = [k \in Keys(e) |-> ContentsOf(e)[k]]
  BY ContentsOfSlots
<1> QED
  BY <1>1, <1>2, <1>3

\* A dictionary that differs in the slot of one key differs in that key.
LEMMA UpdatedContents ==
  ASSUME NEW d, Consistent(d), NEW e, Consistent(e), NEW i \in Used(e),
         Used(e) = Used(d) \cup {i},
         \A j \in Used(d) \ {i} : e.key[j] = d.key[j] /\ e.val[j] = d.val[j],
         i \in Used(d) => e.key[i] = d.key[i]
  PROVE  ContentsOf(e) = Updated(ContentsOf(d), e.key[i], e.val[i])
<1> DEFINE U == Updated(ContentsOf(d), e.key[i], e.val[i])
<1>1. Keys(e) = Keys(d) \cup {e.key[i]}
  BY DEF Keys
<1>2. U = [x \in Keys(e) |-> IF x = e.key[i] THEN e.val[i] ELSE ContentsOf(d)[x]]
  BY <1>1, ContentsOfSlots DEF Updated
<1>3. ASSUME NEW x \in Keys(e)
      PROVE  ContentsOf(e)[x] = IF x = e.key[i] THEN e.val[i] ELSE ContentsOf(d)[x]
  <2>1. PICK j \in Used(e) : x = e.key[j]
    BY DEF Keys
  <2>2. CASE x = e.key[i]
    BY <2>2, ContentsOfSlots
  <2>3. CASE x # e.key[i]
    <3>1. j \in Used(d) /\ j # i
      BY <2>1, <2>3
    <3>2. ContentsOf(e)[x] = e.val[j] /\ ContentsOf(d)[x] = d.val[j]
      BY <2>1, <3>1, ContentsOfSlots
    <3> QED
      BY <2>3, <3>1, <3>2
  <2> QED
    BY <2>2, <2>3
<1>4. ContentsOf(e) = [x \in Keys(e) |-> ContentsOf(e)[x]]
  BY ContentsOfSlots
<1> QED
  BY <1>2, <1>3, <1>4

\* A key that is not found is in no slot.
LEMMA NotFoundIsNoKey ==
  ASSUME NEW d, Consistent(d), NEW k, ~Found(d, k)
  PROVE  SlotsOf(d, k) = {} /\ k \notin Keys(d)
<1>1. SlotsOf(d, k) = {}
  <2>0. d.n \in Nat
    BY DEF Consistent, IsDictionary
  <2>1. CASE d.n > 0
    BY <2>1 DEF Found
  <2>2. CASE d.n = 0
    <3>1. IsFiniteSet(Used(d)) /\ Cardinality(Used(d)) = 0
      BY <2>2, SlotsFinite DEF Consistent, Covered
    <3>2. Used(d) = {}
      BY <3>1, FS_EmptySet
    <3> QED
      BY <3>2 DEF SlotsOf
  <2> QED
    BY <2>0, <2>1, <2>2
<1>2. \A i \in Used(d) : d.key[i] # k
  BY <1>1, SearchFindsSlot
<1> QED
  BY <1>1, <1>2 DEF Keys

\* Whatever memory there is, setting an entry leaves a consistent dictionary that
\* differs from the old one in the value of that entry, if at all.
LEMMA SetIsUpdate ==
  ASSUME NEW d, Consistent(d), NEW k \in Names, NEW v \in Values \cup {NULL},
         NEW r \in SetResults(d, k, v)
  PROVE  /\ Consistent(r)
         /\ ~outOfMemory /\ Exact(d) => Exact(r)
         /\ \/ /\ outOfMemory
               /\ k \notin DOMAIN ContentsOf(d)
               /\ ContentsOf(r) = ContentsOf(d)
            \/ \E w \in Copies(v) : ContentsOf(r) = Updated(ContentsOf(d), k, w)
<1>1. CASE Found(d, k)
  <2>1. PICK i \in Used(d) : d.key[i] = k
    BY <1>1, SearchFindsSlot DEF Found
  <2>2. PICK w \in Copies(v) : r = Replaced(d, d.key[i], w)
    BY <1>1, <2>1 DEF SetResults
  <2>3. w \in Values \cup {NULL}
    BY <2>2 DEF Copies
  <2>4. /\ Consistent(r) /\ (Exact(d) => Exact(r)) /\ Used(r) = Used(d)
        /\ r.val[i] = w
        /\ \A j \in Used(d) : r.key[j] = d.key[j] /\ (j # i => r.val[j] = d.val[j])
    BY <2>2, <2>3, ReplacedIsConsistent
  <2>5. ContentsOf(r) = Updated(ContentsOf(d), r.key[i], r.val[i])
    BY <2>4, UpdatedContents
  <2>6. r.key[i] = k /\ r.val[i] = w
    BY <2>1, <2>4
  <2>7. ContentsOf(r) = Updated(ContentsOf(d), k, w)
    BY <2>5, <2>6
  <2> QED
    BY <2>2, <2>4, <2>7
<1>2. CASE ~Found(d, k)
  <2> DEFINE room == IF IsFull(d) THEN dictionary_grow(d) ELSE d
  <2>1. PICK copy \in Copies(k), w \in Copies(v) : r = Added(room, k, copy, w)
    BY <1>2 DEF SetResults
  <2>2. copy \in {k, NULL} /\ w \in Values \cup {NULL} /\ (~outOfMemory => copy = k)
    BY <2>1 DEF Copies
  <2>3. d.n \in Nat /\ d.size \in Nat \ {0} /\ d.n <= d.size
    BY DEF Consistent, IsDictionary
  <2>4. /\ Consistent(room) /\ room.n < room.size /\ room.n = d.n /\ Used(room) = Used(d)
        /\ \A i \in Used(d) : room.key[i] = d.key[i] /\ room.val[i] = d.val[i]
    <3>1. CASE IsFull(d)
      BY <3>1, <2>3, GrownIsConsistent DEF IsFull
    <3>2. CASE ~IsFull(d)
      BY <3>2, <2>3 DEF IsFull
    <3> QED
      BY <3>1, <3>2
  <2> HIDE DEF room
  <2>5. SlotsOf(d, k) = {} /\ k \notin DOMAIN ContentsOf(d)
    BY <1>2, NotFoundIsNoKey, ContentsOfSlots
  <2>6. SlotsOf(room, k) = {}
    BY <2>4, <2>5, SearchFindsSlot
  <2>7. Exact(d) => Exact(room)
    BY <2>4 DEF Exact
  <2>8. ContentsOf(room) = ContentsOf(d)
    BY <2>4, SameContents
  <2> DEFINE f == FreeSlot(room)
  <2>9. /\ Consistent(r)
        /\ Exact(room) /\ copy = k => Exact(r)
        /\ copy = NULL => Used(r) = Used(room)
        /\ copy = k => Used(r) = Used(room) \cup {f} /\ f \notin Used(room)
                       /\ r.key[f] = k /\ r.val[f] = w
        /\ \A j \in Used(room) : r.key[j] = room.key[j] /\ r.val[j] = room.val[j]
    BY <2>1, <2>2, <2>4, <2>6, AddedIsConsistent
  <2> HIDE DEF f
  <2>10. CASE copy = NULL
    <3>1. ContentsOf(r) = ContentsOf(room)
      BY <2>4, <2>9, <2>10, SameContents
    <3>2. outOfMemory
      BY <2>2, <2>10, DictionaryAssumption
    <3> QED
      BY <3>1, <3>2, <2>5, <2>8, <2>9
  <2>11. CASE copy = k
    <3>1. ContentsOf(r) = Updated(ContentsOf(room), r.key[f], r.val[f])
      BY <2>4, <2>9, <2>11, UpdatedContents
    <3>2. r.key[f] = k /\ r.val[f] = w
      BY <2>9, <2>11
    <3>3. ContentsOf(r) = Updated(ContentsOf(d), k, w)
      BY <3>1, <3>2, <2>8
    <3> QED
      BY <3>3, <2>1, <2>7, <2>9, <2>11
  <2> QED
    BY <2>2, <2>10, <2>11
<1> QED
  BY <1>1, <1>2

\* Removing an entry leaves a consistent dictionary without it.
LEMMA UnsetIsErase ==
  ASSUME NEW d, Consistent(d), NEW k \in Names
  PROVE  LET u == dictionary_unset(d, k)
         IN  /\ Consistent(u)
             /\ Exact(d) => Exact(u)
             /\ \/ u = d
                \/ /\ k \in DOMAIN ContentsOf(d)
                   /\ ContentsOf(u) = [x \in DOMAIN ContentsOf(d) \ {k} |-> ContentsOf(d)[x]]
<1> DEFINE u == dictionary_unset(d, k)
<1>1. CASE SlotsOf(d, k) = {}
  BY <1>1 DEF dictionary_unset
<1>2. CASE SlotsOf(d, k) # {}
  <2>1. PICK i \in Used(d) : d.key[i] = k
    BY <1>2, SearchFindsSlot
  <2>2. /\ Consistent(u) /\ (Exact(d) => Exact(u)) /\ Used(u) = Used(d) \ {i}
        /\ \A j \in Used(u) : u.key[j] = d.key[j] /\ u.val[j] = d.val[j]
    BY <2>1, UnsetIsConsistent
  <2> HIDE DEF u
  <2>3. \A j \in Used(u) : j \in Used(d) /\ d.key[j] # k
    BY <2>1, <2>2 DEF Consistent, Distinct
  <2>4. Keys(u) = Keys(d) \ {k}
    <3>1. Keys(u) \subseteq Keys(d) \ {k}
      BY <2>2, <2>3 DEF Keys
    <3>2. Keys(d) \ {k} \subseteq Keys(u)
      <4>1. ASSUME NEW x \in Keys(d), x # k PROVE x \in Keys(u)
        <5>1. PICK j \in Used(d) : x = d.key[j]
          BY DEF Keys
        <5>2. j \in Used(u)
          BY <2>1, <2>2, <4>1, <5>1
        <5> QED
          BY <2>2, <5>1, <5>2 DEF Keys
      <4> QED
        BY <4>1
    <3> QED
      BY <3>1, <3>2
  <2>5. ASSUME NEW x \in Keys(u) PROVE ContentsOf(u)[x] = ContentsOf(d)[x]
    <3>1. PICK j \in Used(u) : x = u.key[j]
      BY DEF Keys
    <3> QED
      BY <2>2, <2>3, <3>1, ContentsOfSlots
  <2>6. ContentsOf(u) = [x \in Keys(u) |-> ContentsOf(u)[x]]
    BY <2>2, ContentsOfSlots
  <2>7. DOMAIN ContentsOf(d) = Keys(d) /\ k \in Keys(d)
    BY <2>1, ContentsOfSlots
  <2>8. ContentsOf(u) = [x \in DOMAIN ContentsOf(d) \ {k} |-> ContentsOf(d)[x]]
    BY <2>4, <2>5, <2>6, <2>7
  <2> QED
    BY <2>2, <2>7, <2>8 DEF u
<1> QED
  BY <1>1, <1>2

-----------------------------------------------------------------------------
(* The specification                                                       *)
DictInv ==
  /\ outOfMemory \in BOOLEAN
  /\ dict # None => Consistent(dict) /\ (~outOfMemory => Exact(dict))

LEMMA DictInvStep == DictInv /\ [Next]_dictVars => DictInv'
<1> SUFFICES ASSUME DictInv, [Next]_dictVars PROVE DictInv'
  OBVIOUS
<1> USE DEF DictInv
<1>1. CASE New
  <2>1. 0 \in Nat
    OBVIOUS
  <2>2. Consistent(dictionary_new(0)) /\ Exact(dictionary_new(0))
    BY <2>1, NewIsConsistent
  <2> QED
    BY <1>1, <2>2 DEF New
<1>2. ASSUME NEW k \in Names, NEW v \in Values \cup {NULL}, Set(k, v)
      PROVE  DictInv'
  <2>1. Consistent(dict') /\ (~outOfMemory /\ Exact(dict) => Exact(dict'))
    BY <1>2, SetIsUpdate DEF Set
  <2> QED
    BY <1>2, <2>1 DEF Set
<1>3. ASSUME NEW k \in Names, SetFails(k) PROVE DictInv'
  BY <1>3 DEF SetFails
<1>4. ASSUME NEW k \in Names, Unset(k) PROVE DictInv'
  <2>1. Consistent(dict') /\ (Exact(dict) => Exact(dict'))
    BY <1>4, UnsetIsErase DEF Unset
  <2> QED
    BY <1>4, <2>1 DEF Unset
<1>5. CASE Del
  BY <1>5 DEF Del
<1>6. CASE UNCHANGED dictVars
  BY <1>6 DEF dictVars
<1> QED
  BY <1>1, <1>2, <1>3, <1>4, <1>5, <1>6 DEF Next

LEMMA DictInvHolds == Spec => []DictInv
<1>1. Init => DictInv
  BY DEF Init, DictInv
<1> QED
  BY <1>1, DictInvStep, PTL DEF Spec

\* Sizes, counts, keys and values of the dictionary stay within their types.
THEOREM DictionaryTypeCorrect == Spec => []TypeOK
<1>1. DictInv => TypeOK
  BY DEF DictInv, Consistent, IsDictionary, TypeOK
<1> QED
  BY <1>1, DictInvHolds, PTL

\* No key is twice in the arrays, every hash belongs to its key and the count covers
\* the used slots: searches end and find what was set last, for every size, hash
\* function, order of changes and failure of an allocation.
THEOREM ArraysStayConsistent == Spec => []ArraysConsistent
<1>1. DictInv => NoDuplicates
  BY DEF DictInv, Consistent, Distinct, NoDuplicates
<1>2. DictInv => HashesMatch
  BY DEF DictInv, Consistent, Hashed, HashesMatch
<1>3. DictInv => CountCoversUsed
  BY DEF DictInv, Consistent, Covered, Exact, CountCoversUsed
<1>4. DictInv => ArraysConsistent
  BY <1>1, <1>2, <1>3 DEF ArraysConsistent
<1> QED
  BY <1>4, DictInvHolds, PTL

-----------------------------------------------------------------------------
(* The dictionary implements the map.                                      *)
LEMMA ClearedContents == dictionary_new(0) = None \/ ContentsOf(dictionary_new(0)) = [k \in {} |-> NULL]
<1>1. 0 \in Nat
  OBVIOUS
<1>2. Used(dictionary_new(0)) = {}
  BY <1>1, NewIsConsistent
<1> QED
  BY <1>2 DEF ContentsOf

LEMMA MapInit == Init => Map!Init
BY DEF Init, Map!Init, Map!Empty, Contents

LEMMA MapStep == DictInv /\ DictInv' /\ [Next]_dictVars => [Map!Next]_(Map!vars)
<1> SUFFICES ASSUME DictInv, DictInv', [Next]_dictVars PROVE [Map!Next]_(Map!vars)
  OBVIOUS
<1>1. CASE New
  <2>1. Contents = [k \in {} |-> NULL] /\ Contents' = [k \in {} |-> NULL]
    BY <1>1, ClearedContents DEF New, Contents
  <2> QED
    BY <1>1, <2>1 DEF New, Map!vars
<1>2. ASSUME NEW k \in Names, NEW v \in Values \cup {NULL}, Set(k, v)
      PROVE  [Map!Next]_(Map!vars)
  <2>1. Consistent(dict) /\ dict # None /\ UNCHANGED outOfMemory
    BY <1>2 DEF Set, DictInv
  <2>2. \/ ContentsOf(dict') = ContentsOf(dict)
        \/ \E w : ContentsOf(dict') = Updated(ContentsOf(dict), k, w)
    BY <1>2, <2>1, SetIsUpdate DEF Set
  <2>3. Contents = ContentsOf(dict)
    BY <2>1 DEF Contents
  <2>4. CASE dict' = None
    <3>1. Contents' = [x \in {} |-> NULL]
      BY <2>4 DEF Contents
    <3> QED
      BY <2>1, <3>1 DEF Map!Next, Map!Clear, Map!Empty
  <2>5. CASE dict' # None /\ ContentsOf(dict') = ContentsOf(dict)
    BY <2>1, <2>3, <2>5 DEF Contents, Map!vars
  <2>6. ASSUME dict' # None, NEW w, ContentsOf(dict') = Updated(ContentsOf(dict), k, w)
        PROVE  Map!Next
    <3>1. Contents' = [x \in DOMAIN Contents \cup {k} |-> IF x = k THEN w ELSE Contents[x]]
      BY <2>3, <2>6 DEF Contents, Updated
    <3>2. k \in DOMAIN Contents' /\ Contents'[k] = w
      BY <3>1
    <3>3. Map!Put(k, Contents'[k])
      BY <3>1, <3>2 DEF Map!Put, Map!With
    <3> QED
      BY <2>1, <3>2, <3>3 DEF Map!Next
  <2> QED
    BY <2>2, <2>4, <2>5, <2>6
<1>3. ASSUME NEW k \in Names, SetFails(k) PROVE [Map!Next]_(Map!vars)
  BY <1>3 DEF SetFails, Map!vars, Contents
<1>4. ASSUME NEW k \in Names, Unset(k) PROVE [Map!Next]_(Map!vars)
  <2>1. Consistent(dict) /\ dict # None /\ UNCHANGED outOfMemory
    BY <1>4 DEF Unset, DictInv
  <2>2. \/ dict' = dict
        \/ /\ k \in DOMAIN ContentsOf(dict)
           /\ ContentsOf(dict') = [x \in DOMAIN ContentsOf(dict) \ {k} |-> ContentsOf(dict)[x]]
    BY <1>4, <2>1, UnsetIsErase DEF Unset
  <2>3. Contents = ContentsOf(dict)
    BY <2>1 DEF Contents
  <2>4. CASE dict' = dict
    BY <2>1, <2>4 DEF Contents, Map!vars
  <2>5. CASE dict' = None
    <3>1. Contents' = [x \in {} |-> NULL]
      BY <2>5 DEF Contents
    <3> QED
      BY <2>1, <3>1 DEF Map!Next, Map!Clear, Map!Empty
  <2>6. CASE /\ dict' # None
             /\ k \in DOMAIN ContentsOf(dict)
             /\ ContentsOf(dict') = [x \in DOMAIN ContentsOf(dict) \ {k} |-> ContentsOf(dict)[x]]
    <3>1. /\ k \in DOMAIN Contents
          /\ Contents' = [x \in DOMAIN Contents \ {k} |-> Contents[x]]
      BY <2>3, <2>6 DEF Contents
    <3>2. Map!Erase(k)
      BY <3>1 DEF Map!Erase
    <3> QED
      BY <2>1, <3>1, <3>2 DEF Map!Next
  <2> QED
    BY <2>2, <2>4, <2>5, <2>6
<1>5. CASE Del
  <2>1. Contents' = [k \in {} |-> NULL] /\ UNCHANGED outOfMemory
    BY <1>5 DEF Del, Contents
  <2> QED
    BY <2>1 DEF Map!Next, Map!Clear, Map!Empty
<1>6. CASE UNCHANGED dictVars
  BY <1>6 DEF dictVars, Map!vars, Contents
<1> QED
  BY <1>1, <1>2, <1>3, <1>4, <1>5, <1>6 DEF Next

\* The arrays are the map of entries that the rest of the parser takes them for: every
\* operation changes the entry it is about, or none.
THEOREM DictionaryImplementsMap == Spec => ImplementsMap
<1> QED
  BY MapInit, MapStep, DictInvHolds, PTL DEF Spec, ImplementsMap, Map!Spec

-----------------------------------------------------------------------------
(* Induction, with the set of the good numbers in place of a predicate. *)
LEMMA SetInduction ==
  ASSUME NEW S, 0 \in S, \A n \in Nat : n \in S => n + 1 \in S
  PROVE  \A n \in Nat : n \in S
<1>0. 0 \in S /\ (\A n \in Nat : n \in S => n + 1 \in S)
  OBVIOUS
<1> DEFINE T == {n \in Nat : n \notin S}
<1> SUFFICES ASSUME T # {} PROVE FALSE
  OBVIOUS
<1>1. T \subseteq Nat
  OBVIOUS
<1>2. \E x \in T : \A y \in T : ~(<<y, x>> \in OpToRel(<, Nat))
  BY <1>1, NatLessThanWellFounded, WFMin, Zenon
<1>3. PICK x \in T : \A y \in T : ~(<<y, x>> \in OpToRel(<, Nat))
  BY <1>2
<1>4. \A y \in T : ~(y < x)
  BY <1>3 DEF OpToRel
<1>5. x # 0 /\ x \in Nat
  BY <1>3
<1>6. x - 1 \in Nat /\ x - 1 \notin T /\ (x - 1) + 1 = x
  BY <1>4, <1>5
<1>7. x - 1 \in S
  BY <1>6
<1>8. x \in S
  BY <1>0, <1>6, <1>7
<1> QED
  BY <1>3, <1>8

-----------------------------------------------------------------------------
(* Texts                                                                   *)

LEMMA PartsOfTexts ==
  ASSUME NEW T, NEW s \in Seq(T), NEW m \in Int, NEW n \in Int, 1 <= m, n <= Len(s)
  PROVE  SubSeq(s, m, n) \in Seq(T)
  OBVIOUS

LEMMA PlaceOfToken ==
  ASSUME NEW T, NEW s \in Seq(T), NEW x
  PROVE  /\ Place(s, x) \in 0 .. Len(s)
         /\ Place(s, x) # 0 => s[Place(s, x)] = x
         /\ \A i \in 1 .. Len(s) : s[i] = x => Place(s, x) # 0 /\ Place(s, x) <= i
<1> DEFINE I == {i \in 1 .. Len(s) : s[i] = x}
<1>1. Place(s, x) = IF I # {} THEN First(I) ELSE 0
  BY DEF Place, SelectInSeq, Min, First
<1>2. Len(s) \in Nat
  OBVIOUS
<1>3. CASE I # {}
  <2>1. I \in SUBSET Nat
    BY <1>2
  <2>2. First(I) \in I /\ \A j \in I : First(I) <= j
    BY <1>3, <2>1, FirstIsLeast
  <2>3. Place(s, x) \in I /\ \A j \in I : Place(s, x) <= j
    BY <1>1, <1>3, <2>2
  <2> QED
    BY <1>2, <2>3
<1>4. CASE I = {}
  BY <1>1, <1>2, <1>4
<1> QED
  BY <1>3, <1>4

LEMMA BeforeToken ==
  ASSUME NEW T, NEW s \in Seq(T), NEW x
  PROVE  Before(s, x) \in Seq(T)
<1> DEFINE p == Place(s, x)
<1>1. p \in 0 .. Len(s) /\ Len(s) \in Nat
  BY PlaceOfToken
<1> HIDE DEF p
<1>2. p - 1 \in Int /\ p - 1 <= Len(s)
  BY <1>1
<1>3. SubSeq(s, 1, p - 1) \in Seq(T)
  BY <1>2, PartsOfTexts
<1> QED
  BY <1>3 DEF Before, p

LEMMA AfterToken ==
  ASSUME NEW T, NEW s \in Seq(T), NEW x
  PROVE  After(s, x) \in Seq(T)
<1> DEFINE p == Place(s, x)
<1>1. p \in 0 .. Len(s) /\ Len(s) \in Nat
  BY PlaceOfToken
<1> HIDE DEF p
<1>2. p + 1 \in Int /\ 1 <= p + 1 /\ Len(s) \in Int
  BY <1>1
<1>3. SubSeq(s, p + 1, Len(s)) \in Seq(T)
  BY <1>2, PartsOfTexts
<1> QED
  BY <1>3 DEF After, p

LEMMA LowerText ==
  ASSUME NEW s \in Seq(Tokens)
  PROVE  strlwc(s) \in Seq(Tokens)
<1>1. DOMAIN s = 1 .. Len(s) /\ Len(s) \in Nat /\ \A i \in 1 .. Len(s) : s[i] \in Tokens
  OBVIOUS
<1>2. \A x \in DOMAIN Lower : Lower[x] \in Tokens
  BY IniFileAssumption
<1>3. strlwc(s) \in [1 .. Len(s) -> Tokens]
  BY <1>1, <1>2, Zenon DEF strlwc
<1> QED
  BY <1>1, <1>3

LEMMA NameInText ==
  ASSUME NEW s \in Seq(Tokens), s # <<>>, NEW old \in Seq(Tokens)
  PROVE  NameIn(s, old) \in Seq(Tokens)
<1>1. Tail(s) \in Seq(Tokens)
  OBVIOUS
<1>2. Before(Tail(s), "]") \in Seq(Tokens)
  BY <1>1, BeforeToken
<1> DEFINE p == IF Len(s) <= Len(old) THEN Len(s) - 1 ELSE Len(old)
<1>3. SubSeq(old, 1, p) \in Seq(Tokens)
  <2>1. Len(s) \in Nat /\ Len(old) \in Nat
    OBVIOUS
  <2>2. p \in Int /\ p <= Len(old)
    BY <2>1
  <2> HIDE DEF p
  <2> QED
    BY <2>2, PartsOfTexts
<1> QED
  BY <1>2, <1>3, LowerText DEF NameIn

LEMMA KeyInText ==
  ASSUME NEW s \in Seq(Tokens)
  PROVE  KeyIn(s) \in Seq(Tokens)
  BY BeforeToken, LowerText DEF KeyIn

LEMMA ValueInText ==
  ASSUME NEW s \in Seq(Tokens)
  PROVE  ValueIn(s) \in Seq(Tokens)
<1> DEFINE rest  == After(s, "=")
           plain == Before(rest, ";")
           quoted == Before(Tail(rest), Quote)
<1>1. rest \in Seq(Tokens)
  BY AfterToken
<1> HIDE DEF rest
<1>2. plain \in Seq(Tokens)
  BY <1>1, BeforeToken
<1>3. rest # <<>> => quoted \in Seq(Tokens)
  <2>1. rest # <<>> => Tail(rest) \in Seq(Tokens)
    BY <1>1
  <2> QED
    BY <2>1, BeforeToken
<1>4. <<>> \in Seq(Tokens)
  OBVIOUS
<1>5. ValueIn(s) = IF rest # <<>> /\ Head(rest) = Quote /\ quoted # <<>> THEN quoted
                   ELSE IF plain = <<Quote, Quote>> THEN <<>> ELSE plain
  BY DEF ValueIn, rest
<1> HIDE DEF plain, quoted
<1> QED
  BY <1>2, <1>3, <1>4, <1>5

LEMMA FrontOfText ==
  ASSUME NEW T, NEW s \in Seq(T), s # <<>>
  PROVE  Front(s) \in Seq(T)
<1>1. Len(s) \in Nat
  OBVIOUS
<1>2. Len(s) - 1 \in Int /\ Len(s) - 1 <= Len(s)
  BY <1>1
<1> QED
  BY <1>2, PartsOfTexts DEF Front

LEMMA FunctionsAreSequences ==
  ASSUME NEW T, NEW n \in Nat, NEW f \in [1 .. n -> T]
  PROVE  f \in Seq(T)
  OBVIOUS

\* Names of entries.
LEMMA NamesOfEntries ==
  ASSUME NEW s \in Seq(Tokens)
  PROVE  /\ <<s>> \in Names
         /\ \A x \in Seq(Tokens) : <<s, x>> \in Names
  BY IniFileAssumption

LEMMA EntryIsName ==
  ASSUME NEW e \in Edits
  PROVE  Entry(e) \in Names
<1>1. Names = Seq(Seq(Tokens)) /\ e \in Seq(Seq(Tokens))
  BY IniFileAssumption
<1>2. DOMAIN e = 1 .. Len(e) /\ Len(e) \in Nat /\ \A i \in 1 .. Len(e) : e[i] \in Seq(Tokens)
  BY <1>1
<1>3. Entry(e) \in [1 .. Len(e) -> Seq(Tokens)]
  BY <1>2, LowerText DEF Entry
<1> QED
  BY <1>1, <1>2, <1>3, FunctionsAreSequences

-----------------------------------------------------------------------------
(* The lines of a file, joined                                             *)

\* Line j, when the lines before are joined as in texts.
Appended(f, texts, j) ==
  IF j > 1 /\ IsContinued(texts[j - 1]) THEN Front(texts[j - 1]) \o f[j] ELSE f[j]

LEMMA AppendedDependsOnLast ==
  ASSUME NEW f, NEW g, NEW h, NEW j, j > 1 => h[j - 1] = g[j - 1]
  PROVE  Appended(f, h, j) = Appended(f, g, j)
<1>1. CASE j > 1
  BY <1>1 DEF Appended
<1>2. CASE ~(j > 1)
  BY <1>2 DEF Appended
<1> QED
  BY <1>1, <1>2

LEMMA LinesCanBeJoined ==
  ASSUME NEW f
  PROVE  \A n \in Nat : \E g : g = [j \in 1 .. n |-> Appended(f, g, j)]
<1> DEFINE S == {n \in Nat : \E g : g = [j \in 1 .. n |-> Appended(f, g, j)]}
<1>1. 0 \in S
  <2> DEFINE g == [j \in 1 .. 0 |-> 0]
  <2>1. 1 .. 0 = {}
    OBVIOUS
  <2>2. g = [j \in 1 .. 0 |-> Appended(f, g, j)]
    BY <2>1
  <2> QED
    BY <2>2
<1>2. ASSUME NEW n \in Nat, n \in S PROVE n + 1 \in S
  <2>1. PICK g : g = [j \in 1 .. n |-> Appended(f, g, j)]
    BY <1>2
  <2> DEFINE h == [j \in 1 .. n + 1 |-> IF j = n + 1 THEN Appended(f, g, n + 1) ELSE g[j]]
  <2>2. ASSUME NEW j \in 1 .. n + 1
        PROVE  h[j] = Appended(f, h, j)
    <3>1. ASSUME j > 1 PROVE h[j - 1] = g[j - 1]
      <4>1. j - 1 \in 1 .. n + 1 /\ j - 1 # n + 1
        BY <3>1, <1>2
      <4> QED
        BY <4>1, Zenon
    <3>2. Appended(f, h, j) = Appended(f, g, j)
      BY <3>1, AppendedDependsOnLast, Zenon
    <3>3. CASE j = n + 1
      BY <3>2, <3>3, Zenon
    <3>4. CASE j # n + 1
      <4>1. j \in 1 .. n
        BY <3>4, <1>2
      <4>2. g[j] = Appended(f, g, j)
        BY <4>1, <2>1, Zenon
      <4> QED
        BY <4>2, <3>2, <3>4, Zenon
    <3> QED
      BY <3>3, <3>4
  <2>3. h = [j \in 1 .. n + 1 |-> Appended(f, h, j)]
    <3> DEFINE k == [j \in 1 .. n + 1 |-> Appended(f, h, j)]
    <3>1. DOMAIN h = DOMAIN k /\ \A j \in DOMAIN h : h[j] = k[j]
      BY <2>2, Zenon
    <3> QED
      BY <3>1, Zenon
  <2>4. n + 1 \in Nat
    BY <1>2
  <2> HIDE DEF h
  <2> QED
    BY <2>3, <2>4
<1>3. \A n \in Nat : n \in S
  BY <1>1, <1>2, SetInduction
<1> QED
  BY <1>3

LEMMA JoinedUnfolds ==
  ASSUME NEW T, NEW f \in Seq(T), NEW i \in 1 .. Len(f)
  PROVE  Joined(f, i) = IF i > 1 /\ IsContinued(Joined(f, i - 1))
                          THEN Front(Joined(f, i - 1)) \o f[i] ELSE f[i]
<1> DEFINE text == CHOOSE g : g = [j \in DOMAIN f |-> Appended(f, g, j)]
<1>1. DOMAIN f = 1 .. Len(f) /\ Len(f) \in Nat
  OBVIOUS
<1>2. \E g : g = [j \in DOMAIN f |-> Appended(f, g, j)]
  <2>1. \E g : g = [j \in 1 .. Len(f) |-> Appended(f, g, j)]
    BY <1>1, LinesCanBeJoined
  <2> QED
    BY <1>1, <2>1
<1>3. text = [j \in DOMAIN f |-> Appended(f, text, j)]
  BY <1>2, Zenon
<1>4. \A j : Joined(f, j) = text[j]
  BY Zenon DEF Joined, Appended
<1> HIDE DEF text
<1>5. text[i] = Appended(f, text, i)
  BY <1>1, <1>3, Zenon
<1> QED
  BY <1>4, <1>5, Zenon DEF Appended

LEMMA JoinedIsText ==
  ASSUME NEW T, NEW f \in Seq(Seq(T)), NEW i \in 1 .. Len(f)
  PROVE  Joined(f, i) \in Seq(T)
<1> DEFINE S == {n \in Nat : n \in 1 .. Len(f) => Joined(f, n) \in Seq(T)}
<1>1. 0 \in S
  OBVIOUS
<1>2. ASSUME NEW n \in Nat, n \in S PROVE n + 1 \in S
  <2> SUFFICES ASSUME n + 1 \in 1 .. Len(f) PROVE Joined(f, n + 1) \in Seq(T)
    OBVIOUS
  <2>1. f[n + 1] \in Seq(T)
    OBVIOUS
  <2>2. Joined(f, n + 1) = IF n + 1 > 1 /\ IsContinued(Joined(f, n))
                             THEN Front(Joined(f, n)) \o f[n + 1] ELSE f[n + 1]
    <3>1. (n + 1) - 1 = n
      BY <1>2
    <3> QED
      BY <3>1, JoinedUnfolds
  <2>3. ASSUME n + 1 > 1, IsContinued(Joined(f, n))
        PROVE  Front(Joined(f, n)) \o f[n + 1] \in Seq(T)
    <3>1. n \in 1 .. Len(f)
      BY <1>2, <2>3
    <3>2. Joined(f, n) \in Seq(T) /\ Joined(f, n) # <<>>
      BY <1>2, <2>3, <3>1 DEF IsContinued
    <3>3. Front(Joined(f, n)) \in Seq(T)
      BY <3>2, FrontOfText
    <3> QED
      BY <2>1, <3>3
  <2> QED
    BY <2>1, <2>2, <2>3
<1>3. \A n \in Nat : n \in S
  BY <1>1, <1>2, SetInduction
<1> QED
  BY <1>3

-----------------------------------------------------------------------------
(* The loader and its dictionary                                           *)

DictionaryOK ==
  /\ outOfMemory \in BOOLEAN
  /\ dict # None => Consistent(dict) /\ (~outOfMemory => Exact(dict))

LoadStates == {"start", "reading", "breaking", "done", "failed", "freed"}

LoaderOK ==
  /\ file \in Seq(Seq(Tokens))
  /\ lineno \in 0 .. Len(file)
  /\ line \in Seq(Tokens)
  /\ section \in Seq(Tokens)
  /\ errs \in BOOLEAN
  /\ load \in LoadStates
  /\ (dict = None) = (load \in {"start", "failed", "freed"})
  /\ edits \in 0 .. MaxEdits

LEMMA ConsistentIsSome ==
  ASSUME NEW d, Consistent(d)
  PROVE  d # None
  BY DEF Consistent, IsDictionary, None

LEMMA DictionaryOKIsInv == DictionaryOK <=> DictInv
  BY DEF DictionaryOK, DictInv

LEMMA FileInitOK == FileInit => LoaderOK
<1> SUFFICES ASSUME FileInit PROVE LoaderOK
  OBVIOUS
<1>1. file \in Seq(Seq(Tokens)) /\ MaxEdits \in Nat
  BY IniFileAssumption DEF FileInit
<1>2. <<>> \in Seq(Tokens)
  OBVIOUS
<1>3. 0 \in 0 .. Len(file)
  <2>1. Len(file) \in Nat
    BY <1>1
  <2> QED
    BY <2>1
<1>4. 0 \in 0 .. MaxEdits
  BY <1>1
<1>5. dict = None /\ lineno = 0 /\ line = <<>> /\ section = <<>> /\ errs = FALSE
      /\ load = "start" /\ edits = 0
  BY DEF FileInit, Init
<1> QED
  BY <1>1, <1>2, <1>3, <1>4, <1>5, Zenon DEF LoaderOK, LoadStates

\* Setting an entry keeps the dictionary.
LEMMA SetKeepsSome ==
  ASSUME DictionaryOK, NEW k \in Names, NEW v \in Values \cup {NULL}, Set(k, v)
  PROVE  dict' # None /\ dict # None
<1>1. dict # None /\ Consistent(dict) /\ dict' \in SetResults(dict, k, v)
  BY DEF Set, DictionaryOK
<1>2. Consistent(dict')
  BY <1>1, SetIsUpdate
<1> QED
  BY <1>1, <1>2, ConsistentIsSome

LEMMA TextOfLine ==
  ASSUME LoaderOK, lineno < Len(file)
  PROVE  /\ Text \in Seq(Tokens)
         /\ lineno + 1 \in 1 .. Len(file)
         /\ file[lineno + 1] \in Seq(Tokens)
         /\ NameIn(Text, section) \in Seq(Tokens) \/ Text = <<>>
<1>1. lineno + 1 \in 1 .. Len(file) /\ file \in Seq(Seq(Tokens)) /\ line \in Seq(Tokens)
      /\ section \in Seq(Tokens)
  BY DEF LoaderOK
<1>2. file[lineno + 1] \in Seq(Tokens)
  BY <1>1
<1>3. Text \in Seq(Tokens)
  BY <1>1, <1>2 DEF Text
<1>4. Text # <<>> => NameIn(Text, section) \in Seq(Tokens)
  BY <1>1, <1>3, NameInText
<1> QED
  BY <1>1, <1>2, <1>3, <1>4

\* What a whole line is taken for: what it is, or empty when it could not be copied.
LEMMA StatusOfLine ==
  ASSUME TakeLine
  PROVE  \E status \in {iniparser_line(Text), "empty"} :
           /\ ~outOfMemory => status = iniparser_line(Text)
           /\ section' = IF status = "section" THEN NameIn(Text, section) ELSE section
           /\ errs' = (errs \/ status = "error")
           /\ CASE status = "section" -> Enter(<<section'>>, NULL)
                [] status = "value"   -> Enter(<<section, KeyIn(Text)>>, ValueIn(Text))
                [] OTHER              -> UNCHANGED <<dict, outOfMemory, load>>
  BY DEF TakeLine, Statuses

\* What a whole line does to the dictionary.
LEMMA EnteredLine ==
  ASSUME LoaderOK, TakeLine
  PROVE  /\ section' \in Seq(Tokens)
         /\ \/ UNCHANGED <<dict, outOfMemory, load>>
            \/ \E k \in Names, v \in Values \cup {NULL} : Enter(k, v)
<1>1. lineno < Len(file) /\ section \in Seq(Tokens)
  BY DEF TakeLine, Reads, LoaderOK
<1>2. Text \in Seq(Tokens)
  BY <1>1, TextOfLine
<1>3. PICK status \in {iniparser_line(Text), "empty"} :
        /\ section' = IF status = "section" THEN NameIn(Text, section) ELSE section
        /\ CASE status = "section" -> Enter(<<section'>>, NULL)
             [] status = "value"   -> Enter(<<section, KeyIn(Text)>>, ValueIn(Text))
             [] OTHER              -> UNCHANGED <<dict, outOfMemory, load>>
  BY StatusOfLine
<1>4. status = "section" => Text # <<>>
  BY DEF iniparser_line
<1>5. section' \in Seq(Tokens)
  BY <1>1, <1>3, <1>4, TextOfLine
<1>6. CASE status = "section"
  <2>1. Enter(<<section'>>, NULL)
    BY <1>3, <1>6
  <2>2. <<section'>> \in Names
    BY <1>5, NamesOfEntries
  <2> QED
    BY <1>5, <2>1, <2>2
<1>7. CASE status = "value"
  <2>1. Enter(<<section, KeyIn(Text)>>, ValueIn(Text))
    BY <1>3, <1>7
  <2>2. <<section, KeyIn(Text)>> \in Names
    BY <1>1, <1>2, NamesOfEntries, KeyInText
  <2>3. ValueIn(Text) \in Values
    BY <1>2, ValueInText, IniFileAssumption
  <2> QED
    BY <1>5, <2>1, <2>2, <2>3
<1>8. CASE status # "section" /\ status # "value"
  BY <1>3, <1>5, <1>8
<1> QED
  BY <1>6, <1>7, <1>8

\* Every step of the loader is a step of the dictionary.
LEMMA LoaderStepsDictionary ==
  ASSUME LoaderOK, [FileNext]_fileVars
  PROVE  [Next]_dictVars
<1>1. CASE Open
  BY <1>1 DEF Open, Next, dictVars
<1>2. CASE TooLong
  BY <1>2 DEF TooLong, Next
<1>3. CASE Continue
  BY <1>3 DEF Continue, dictVars
<1>4. CASE TakeLine
  <2>1. CASE UNCHANGED <<dict, outOfMemory, load>>
    BY <2>1 DEF dictVars
  <2>2. CASE \E k \in Names, v \in Values \cup {NULL} : Enter(k, v)
    BY <2>2 DEF Enter, Next
  <2> QED
    BY <1>4, <2>1, <2>2, EnteredLine
<1>5. CASE Finish
  BY <1>5 DEF Finish, Next, dictVars
<1>6. CASE Edit
  <2>1. PICK e \in Edits : Set(Entry(e), <<"edited">>) \/ SetFails(Entry(e)) \/ Unset(Entry(e))
    BY <1>6 DEF Edit
  <2>2. Entry(e) \in Names
    BY EntryIsName
  <2>3. <<"edited">> \in Values
    BY IniFileAssumption
  <2> QED
    BY <2>1, <2>2, <2>3 DEF Next
<1>7. CASE Free
  BY <1>7 DEF Free, Next
<1>8. CASE UNCHANGED fileVars
  BY <1>8 DEF fileVars, dictVars
<1> QED
  BY <1>1, <1>2, <1>3, <1>4, <1>5, <1>6, <1>7, <1>8 DEF FileNext

LEMMA LoaderOKStep ==
  ASSUME LoaderOK, DictionaryOK, [FileNext]_fileVars
  PROVE  LoaderOK'
<1>0. lineno \in Nat /\ Len(file) \in Nat /\ edits \in Nat /\ MaxEdits \in Nat
  BY IniFileAssumption DEF LoaderOK
<1>1. CASE Open
  <2>1. CASE New /\ load' = "reading"
    <3>1. Consistent(dictionary_new(0))
      <4>1. 0 \in Nat
        OBVIOUS
      <4> QED
        BY <4>1, NewIsConsistent
    <3>2. dict' # None
      BY <2>1, <3>1, ConsistentIsSome DEF New
    <3> QED
      BY <1>1, <2>1, <3>2 DEF Open, reading, LoaderOK, LoadStates
  <2>2. CASE UNCHANGED <<dict, outOfMemory>> /\ load' = "failed"
    BY <1>1, <2>2 DEF Open, reading, LoaderOK, LoadStates
  <2> QED
    BY <1>1, <2>1, <2>2 DEF Open
<1>2. CASE TooLong
  BY <1>0, <1>2 DEF TooLong, Reads, Del, LoaderOK, LoadStates
<1>3. CASE Continue
  <2>1. Text \in Seq(Tokens) /\ Text # <<>>
    BY <1>3, TextOfLine DEF Continue, Reads, IsContinued
  <2>2. line' \in Seq(Tokens)
    BY <1>3, <2>1, FrontOfText DEF Continue
  <2> QED
    BY <1>0, <1>3, <2>2 DEF Continue, Reads, LoaderOK, LoadStates
<1>4. CASE TakeLine
  <2>1. section' \in Seq(Tokens)
    BY <1>4, EnteredLine
  <2>2. load = "reading" /\ lineno < Len(file) /\ lineno' = lineno + 1
        /\ UNCHANGED <<file, edits>> /\ line' = <<>>
        /\ errs' \in BOOLEAN
    BY <1>4, StatusOfLine DEF TakeLine, Reads
  <2>3. load' \in {"reading", "breaking"} /\ dict' # None
    <3>1. dict # None
      BY <2>2 DEF LoaderOK
    <3>2. CASE UNCHANGED <<dict, outOfMemory, load>>
      BY <2>2, <3>1, <3>2
    <3>3. ASSUME NEW k \in Names, NEW v \in Values \cup {NULL}, Enter(k, v)
          PROVE  load' \in {"reading", "breaking"} /\ dict' # None
      <4>1. CASE Set(k, v) /\ load' = load
        BY <2>2, <4>1, SetKeepsSome
      <4>2. CASE SetFails(k) /\ load' = "breaking"
        BY <3>1, <4>2 DEF SetFails
      <4> QED
        BY <3>3, <4>1, <4>2 DEF Enter
    <3> QED
      BY <1>4, <3>2, <3>3, EnteredLine
  <2>4. lineno' \in 0 .. Len(file') /\ file' \in Seq(Seq(Tokens)) /\ edits' \in 0 .. MaxEdits
    BY <1>0, <2>2 DEF LoaderOK
  <2>5. line' \in Seq(Tokens)
    BY <2>2
  <2>6. (dict' = None) = (load' \in {"start", "failed", "freed"})
    BY <2>3
  <2> QED
    BY <2>1, <2>2, <2>3, <2>4, <2>5, <2>6 DEF LoaderOK, LoadStates
<1>5. CASE Finish
  BY <1>5 DEF Finish, reading, Del, LoaderOK, LoadStates
<1>6. CASE Edit
  <2>1. PICK e \in Edits : Set(Entry(e), <<"edited">>) \/ SetFails(Entry(e)) \/ Unset(Entry(e))
    BY <1>6 DEF Edit
  <2>2. Entry(e) \in Names /\ <<"edited">> \in Values
    BY EntryIsName, IniFileAssumption
  <2>3. dict # None /\ dict' # None
    <3>1. CASE Set(Entry(e), <<"edited">>)
      BY <2>2, <3>1, SetKeepsSome
    <3>2. CASE SetFails(Entry(e))
      BY <3>2 DEF SetFails
    <3>3. CASE Unset(Entry(e))
      <4>1. dict # None /\ Consistent(dict) /\ dict' = dictionary_unset(dict, Entry(e))
        BY <3>3 DEF Unset, DictionaryOK
      <4>2. Consistent(dict')
        BY <2>2, <4>1, UnsetIsErase
      <4> QED
        BY <4>1, <4>2, ConsistentIsSome
    <3> QED
      BY <2>1, <3>1, <3>2, <3>3
  <2> QED
    BY <1>0, <1>6, <2>3 DEF Edit, reading, LoaderOK, LoadStates
<1>7. CASE Free
  BY <1>7 DEF Free, reading, Del, LoaderOK, LoadStates
<1>8. CASE UNCHANGED fileVars
  BY <1>8 DEF fileVars, reading, LoaderOK, LoadStates
<1> QED
  BY <1>1, <1>2, <1>3, <1>4, <1>5, <1>6, <1>7, <1>8 DEF FileNext

LEMMA DictionaryOKStep ==
  ASSUME LoaderOK, DictionaryOK, [FileNext]_fileVars
  PROVE  DictionaryOK'
<1>1. DictInv /\ [Next]_dictVars
  BY LoaderStepsDictionary, DictionaryOKIsInv
<1>2. DictInv'
  BY <1>1, DictInvStep
<1> QED
  BY <1>2 DEF DictionaryOK, DictInv

FileInv == LoaderOK /\ DictionaryOK

LEMMA FileInvHolds == FileSpec => []FileInv
<1>1. FileInit => FileInv
  <2>1. FileInit => Init
    BY DEF FileInit
  <2>2. Init => DictionaryOK
    BY DEF Init, DictionaryOK
  <2> QED
    BY <2>1, <2>2, FileInitOK DEF FileInv
<1>2. FileInv /\ [FileNext]_fileVars => FileInv'
  BY LoaderOKStep, DictionaryOKStep DEF FileInv
<1> QED
  BY <1>1, <1>2, PTL DEF FileSpec

\* To the dictionary, loading a file is a sequence of ordinary calls of its functions
\* (iniparser_load calls dictionary_new, dictionary_set and dictionary_del).
THEOREM LoaderUsesDictionary == FileSpec => Spec
<1>1. FileInit => Init
  BY DEF FileInit
<1>2. FileInv /\ [FileNext]_fileVars => [Next]_dictVars
  BY LoaderStepsDictionary DEF FileInv
<1> QED
  BY <1>1, <1>2, FileInvHolds, PTL DEF FileSpec, Spec

\* Line numbers, states and names stay in their types, and there is a dictionary exactly
\* while iniparser_load is at work or its answer has not been freed.
THEOREM FileTypeCorrect == FileSpec => []FileTypeOK
<1>1. FileInv => FileTypeOK
  BY DEF FileInv, LoaderOK, LoadStates, DictionaryOK, Consistent, IsDictionary, FileTypeOK, TypeOK
<1> QED
  BY <1>1, FileInvHolds, PTL

-----------------------------------------------------------------------------
(* The lines read so far                                                   *)

KeptAfter(f, n) ==
  IF n > 0 /\ IsContinued(Joined(f, n)) THEN Front(Joined(f, n)) ELSE <<>>

Faulty(f, n)  == \E i \in 1 .. n : Whole(f, i) /\ Status(f, i) = "error"
Fitting(f, n) == \A i \in 1 .. n : Len(Joined(f, i)) <= ASCIILINESZ

Loading == load \in {"reading", "breaking", "done"}

LinesRead ==
  /\ load = "start" => lineno = 0 /\ line = <<>> /\ section = <<>> /\ errs = FALSE
  /\ load = "reading" => line = KeptAfter(file, lineno)
  /\ Loading => /\ Fitting(file, lineno)
                /\ errs => Faulty(file, lineno)
                /\ ~outOfMemory => errs = Faulty(file, lineno)
  /\ load = "breaking" => outOfMemory
  /\ load = "done" => ~errs /\ (outOfMemory \/ lineno = Len(file))
  /\ load = "failed" /\ lineno > 0 => Refused(file)

LEMMA EmptyAtFront ==
  ASSUME NEW T, NEW s \in Seq(T)
  PROVE  <<>> \o s = s
  OBVIOUS

\* The text the code looks at is the next line with those continued into it.
LEMMA TextIsJoined ==
  ASSUME LoaderOK, LinesRead, load = "reading", lineno < Len(file)
  PROVE  Text = Joined(file, lineno + 1)
<1>1. lineno + 1 \in 1 .. Len(file) /\ file[lineno + 1] \in Seq(Tokens)
  BY TextOfLine
<1>2. file \in Seq(Seq(Tokens)) /\ lineno \in Nat /\ (lineno + 1) - 1 = lineno
      /\ (lineno + 1 > 1 <=> lineno > 0)
  BY DEF LoaderOK
<1>3. Joined(file, lineno + 1) = IF lineno > 0 /\ IsContinued(Joined(file, lineno))
                                   THEN Front(Joined(file, lineno)) \o file[lineno + 1]
                                   ELSE file[lineno + 1]
  BY <1>1, <1>2, JoinedUnfolds
<1>4. line = KeptAfter(file, lineno)
  BY DEF LinesRead
<1>5. CASE lineno > 0 /\ IsContinued(Joined(file, lineno))
  BY <1>3, <1>4, <1>5 DEF Text, KeptAfter
<1>6. CASE ~(lineno > 0 /\ IsContinued(Joined(file, lineno)))
  <2>1. Text = <<>> \o file[lineno + 1]
    BY <1>4, <1>6 DEF Text, KeptAfter
  <2> QED
    BY <1>1, <1>3, <1>6, <2>1, EmptyAtFront
<1> QED
  BY <1>5, <1>6

LEMMA NextLine ==
  ASSUME NEW n \in Nat
  PROVE  1 .. n + 1 = (1 .. n) \cup {n + 1}
  OBVIOUS

LEMMA NextLineChecked ==
  ASSUME NEW f, NEW n \in Nat
  PROVE  /\ Faulty(f, n + 1) <=> Faulty(f, n) \/ (Whole(f, n + 1) /\ Status(f, n + 1) = "error")
         /\ Fitting(f, n + 1) <=> Fitting(f, n) /\ Len(Joined(f, n + 1)) <= ASCIILINESZ
  BY NextLine, Zenon DEF Faulty, Fitting

LEMMA FaultyIsRefused ==
  ASSUME LoaderOK
  PROVE  /\ Faulty(file, lineno) => Refused(file)
         /\ Fitting(file, lineno) /\ ~Faulty(file, lineno) /\ lineno = Len(file)
              => ~Refused(file)
<1>1. file \in Seq(Seq(Tokens)) /\ lineno \in 0 .. Len(file) /\ ASCIILINESZ \in Nat
  BY IniFileAssumption DEF LoaderOK
<1>2. \A i \in 1 .. lineno : i \in 1 .. Len(file)
  BY <1>1
<1>3. \A i \in 1 .. Len(file) : Len(Joined(file, i)) \in Nat
  <2>1. \A i \in 1 .. Len(file) : Joined(file, i) \in Seq(Tokens)
    BY <1>1, JoinedIsText
  <2> QED
    BY <2>1
<1>4. Faulty(file, lineno) => Refused(file)
  BY <1>2 DEF Faulty, Refused
<1>5. ASSUME Fitting(file, lineno), ~Faulty(file, lineno), lineno = Len(file)
      PROVE  ~Refused(file)
  <2>1. \A i \in 1 .. Len(file) : ~(Whole(file, i) /\ Status(file, i) = "error")
    BY <1>5 DEF Faulty
  <2>2. \A i \in 1 .. Len(file) : ~(Len(Joined(file, i)) > ASCIILINESZ)
    BY <1>1, <1>3, <1>5 DEF Fitting
  <2> QED
    BY <2>1, <2>2 DEF Refused
<1> QED
  BY <1>4, <1>5

LEMMA EnterNeedsMemory ==
  ASSUME NEW k, NEW v, Enter(k, v), load = "reading"
  PROVE  /\ load' \in {"reading", "breaking"} /\ outOfMemory' = outOfMemory
         /\ load' = "breaking" => outOfMemory
  BY DEF Enter, Set, SetFails, MayNotGrow

LEMMA LinesReadStep ==
  ASSUME LoaderOK, LinesRead, [FileNext]_fileVars
  PROVE  LinesRead'
<1>0. lineno \in Nat /\ file \in Seq(Seq(Tokens)) /\ lineno \in 0 .. Len(file)
  BY DEF LoaderOK
<1>1. CASE Open
  <2>1. load = "start" /\ lineno = 0 /\ line = <<>> /\ errs = FALSE
    BY <1>1 DEF Open, LinesRead
  <2>2. UNCHANGED <<lineno, line, section, errs, file>> /\ load' \in {"reading", "failed"}
    BY <1>1 DEF Open, reading
  <2>3. KeptAfter(file, 0) = <<>> /\ Fitting(file, 0) /\ Faulty(file, 0) = FALSE
    BY DEF KeptAfter, Fitting, Faulty
  <2>4. /\ line' = KeptAfter(file', lineno')
        /\ Fitting(file', lineno')
        /\ errs' = Faulty(file', lineno') /\ errs' = FALSE
    BY <2>1, <2>2, <2>3
  <2>5. load' # "start" /\ load' # "breaking" /\ load' # "done" /\ lineno' = 0
    BY <2>1, <2>2
  <2> QED
    BY <2>4, <2>5 DEF LinesRead, Loading
<1>2. CASE TooLong
  <2>1. load = "reading" /\ lineno < Len(file) /\ lineno' = lineno + 1 /\ file' = file
        /\ Len(Text) > ASCIILINESZ /\ load' = "failed"
    BY <1>2 DEF TooLong, Reads
  <2>2. lineno + 1 \in 1 .. Len(file) /\ Len(Joined(file, lineno + 1)) > ASCIILINESZ
    BY <1>0, <2>1, TextIsJoined
  <2>3. Refused(file)
    BY <2>2 DEF Refused
  <2>4. Refused(file')
    BY <2>1, <2>3
  <2> QED
    BY <2>1, <2>4 DEF LinesRead, Loading
<1>3. CASE Continue
  <2>1. load = "reading" /\ lineno < Len(file) /\ lineno' = lineno + 1 /\ file' = file
        /\ Len(Text) <= ASCIILINESZ /\ load' = load /\ IsContinued(Text) /\ line' = Front(Text)
        /\ errs' = errs /\ outOfMemory' = outOfMemory
    BY <1>3 DEF Continue, Reads
  <2>2. Text = Joined(file, lineno + 1)
    BY <2>1, TextIsJoined
  <2>3. line' = KeptAfter(file', lineno')
    BY <1>0, <2>1, <2>2 DEF KeptAfter
  <2>4. Fitting(file, lineno + 1) /\ Faulty(file, lineno + 1) = Faulty(file, lineno)
    <3>1. Fitting(file, lineno)
      BY <2>1 DEF LinesRead, Loading
    <3>2. ~Whole(file, lineno + 1)
      BY <2>1, <2>2 DEF Whole
    <3>3. Fitting(file, lineno + 1)
      BY <1>0, <2>1, <2>2, <3>1, NextLineChecked
    <3>4. Faulty(file, lineno + 1) <=> Faulty(file, lineno)
      BY <1>0, <3>2, NextLineChecked
    <3>5. Faulty(file, lineno + 1) \in BOOLEAN /\ Faulty(file, lineno) \in BOOLEAN
      BY DEF Faulty
    <3> QED
      BY <3>3, <3>4, <3>5
  <2>5. /\ errs' => Faulty(file', lineno')
        /\ ~outOfMemory' => errs' = Faulty(file', lineno')
    BY <2>1, <2>4 DEF LinesRead, Loading
  <2>6. Fitting(file', lineno')
    BY <2>1, <2>4
  <2> QED
    BY <2>1, <2>3, <2>5, <2>6 DEF LinesRead, Loading
<1>4. CASE TakeLine
  <2>1. load = "reading" /\ lineno < Len(file) /\ lineno' = lineno + 1 /\ file' = file
        /\ Len(Text) <= ASCIILINESZ /\ ~IsContinued(Text) /\ line' = <<>>
    BY <1>4 DEF TakeLine, Reads
  <2>2. Text = Joined(file, lineno + 1)
    BY <2>1, TextIsJoined
  <2>3. line' = KeptAfter(file', lineno')
    BY <2>1, <2>2 DEF KeptAfter
  <2>4. Fitting(file, lineno) /\ errs \in BOOLEAN /\ (errs => Faulty(file, lineno))
        /\ (~outOfMemory => errs = Faulty(file, lineno))
    BY <2>1 DEF LinesRead, Loading, LoaderOK
  <2>5. Whole(file, lineno + 1) /\ Status(file, lineno + 1) = iniparser_line(Text)
    BY <2>1, <2>2 DEF Whole, Status
  <2>6. Fitting(file', lineno')
    BY <1>0, <2>1, <2>2, <2>4, NextLineChecked
  <2>7. /\ load' \in {"reading", "breaking"} /\ (load' = "breaking" => outOfMemory')
        /\ outOfMemory' = outOfMemory
    <3>1. CASE UNCHANGED <<dict, outOfMemory, load>>
      BY <2>1, <3>1
    <3>2. CASE \E k \in Names, v \in Values \cup {NULL} : Enter(k, v)
      BY <2>1, <3>2, EnterNeedsMemory
    <3> QED
      BY <1>4, <3>1, <3>2, EnteredLine
  <2>8. /\ errs' => Faulty(file', lineno')
        /\ ~outOfMemory' => errs' = Faulty(file', lineno')
    <3>1. Faulty(file, lineno + 1) <=> Faulty(file, lineno) \/ iniparser_line(Text) = "error"
      BY <1>0, <2>5, NextLineChecked
    <3>2. Faulty(file, lineno + 1) \in BOOLEAN /\ Faulty(file, lineno) \in BOOLEAN
      BY DEF Faulty
    <3>3. Faulty(file', lineno') = Faulty(file, lineno + 1)
      BY <2>1
    <3>4. PICK status \in {iniparser_line(Text), "empty"} :
            /\ ~outOfMemory => status = iniparser_line(Text)
            /\ errs' = (errs \/ status = "error")
      BY <1>4, StatusOfLine
    <3> QED
      BY <2>4, <2>7, <3>1, <3>2, <3>3, <3>4
  <2> QED
    BY <2>3, <2>6, <2>7, <2>8 DEF LinesRead, Loading
<1>5. CASE Finish
  <2>1. UNCHANGED <<lineno, line, section, errs, file>> /\ outOfMemory' = outOfMemory
        /\ load \in {"reading", "breaking"}
        /\ (load = "reading" => lineno = Len(file))
        /\ load' = IF errs THEN "failed" ELSE "done"
    BY <1>5 DEF Finish, reading, Del
  <2>2. Fitting(file, lineno) /\ (errs => Faulty(file, lineno))
        /\ (~outOfMemory => errs = Faulty(file, lineno))
        /\ (load = "breaking" => outOfMemory)
    BY <2>1 DEF LinesRead, Loading
  <2>3. errs => Refused(file)
    BY <2>2, FaultyIsRefused
  <2> QED
    BY <2>1, <2>2, <2>3 DEF LinesRead, Loading
<1>6. CASE Edit
  <2>1. UNCHANGED <<lineno, line, section, errs, file, load>> /\ load = "done"
    BY <1>6 DEF Edit, reading
  <2>2. outOfMemory' = outOfMemory
    BY <1>6 DEF Edit, Set, SetFails, Unset
  <2> QED
    BY <2>1, <2>2 DEF LinesRead, Loading
<1>7. CASE Free
  BY <1>7 DEF Free, reading, LinesRead, Loading
<1>8. CASE UNCHANGED fileVars
  BY <1>8 DEF fileVars, LinesRead, Loading
<1> QED
  BY <1>1, <1>2, <1>3, <1>4, <1>5, <1>6, <1>7, <1>8 DEF FileNext

LEMMA LinesReadHolds == FileSpec => [](LoaderOK /\ LinesRead)
<1>1. FileInit => LinesRead
  BY DEF FileInit, LinesRead, Loading
<1>2. FileInv => LoaderOK
  BY DEF FileInv
<1>3. LoaderOK /\ LinesRead /\ [FileNext]_fileVars => LinesRead'
  BY LinesReadStep
<1> QED
  BY <1>1, <1>2, <1>3, FileInvHolds, PTL DEF FileSpec

\* One bad line, wherever it is, and only a bad line makes iniparser_load answer NULL.
THEOREM BadLineCostsTheFile == FileSpec => []RefusedAsAWhole
<1>1. LoaderOK /\ LinesRead => RefusedAsAWhole
  <2> SUFFICES ASSUME LoaderOK, LinesRead, load \in {"done", "failed"}, lineno > 0, ~outOfMemory
               PROVE  (load = "failed") = Refused(file)
    BY DEF RefusedAsAWhole
  <2>1. Refused(file) \in BOOLEAN
    BY DEF Refused
  <2>2. CASE load = "failed"
    BY <2>1, <2>2 DEF LinesRead
  <2>3. CASE load = "done"
    <3>1. Fitting(file, lineno) /\ ~Faulty(file, lineno) /\ lineno = Len(file)
      BY <2>3 DEF LinesRead, Loading
    <3>2. ~Refused(file)
      BY <3>1, FaultyIsRefused
    <3> QED
      BY <2>1, <2>3, <3>2
  <2> QED
    BY <2>2, <2>3
<1> QED
  BY <1>1, LinesReadHolds, PTL

-----------------------------------------------------------------------------
(* What the lines mean, line by line                                       *)

LEMMA LargestExists ==
  ASSUME NEW n \in Nat, NEW S \in SUBSET (1 .. n), S # {}
  PROVE  \E i \in S : \A j \in S : j <= i
<1> DEFINE G == {m \in Nat : \A U \in SUBSET (1 .. m) :
                   U # {} => \E i \in U : \A j \in U : j <= i}
<1>1. 0 \in G
  <2>1. 1 .. 0 = {}
    OBVIOUS
  <2> QED
    BY <2>1, Zenon
<1>2. ASSUME NEW m \in Nat, m \in G PROVE m + 1 \in G
  <2> SUFFICES ASSUME NEW U \in SUBSET (1 .. m + 1), U # {}
               PROVE  \E i \in U : \A j \in U : j <= i
    OBVIOUS
  <2>1. CASE m + 1 \in U
    BY <2>1
  <2>2. CASE m + 1 \notin U
    <3>1. U \in SUBSET (1 .. m)
      BY <2>2, NextLine
    <3> QED
      BY <1>2, <3>1
  <2> QED
    BY <2>1, <2>2
<1>3. \A m \in Nat : m \in G
  BY <1>1, <1>2, SetInduction
<1> QED
  BY <1>3

\* Line j names a section, when some lines are lost.
NamesSection(f, j, lost) == j \notin lost /\ Whole(f, j) /\ Status(f, j) = "section"

\* The section after line j, when name has those after the lines before.
NamedNext(f, lost, name, j) ==
  IF j = 0 THEN <<>>
    ELSE IF NamesSection(f, j, lost) THEN NameIn(Joined(f, j), name[j - 1]) ELSE name[j - 1]

LEMMA NamedDependsOnLast ==
  ASSUME NEW f, NEW lost, NEW g, NEW h, NEW j, j # 0 => h[j - 1] = g[j - 1]
  PROVE  NamedNext(f, lost, h, j) = NamedNext(f, lost, g, j)
<1>1. CASE j = 0
  BY <1>1 DEF NamedNext
<1>2. CASE j # 0
  BY <1>2 DEF NamedNext
<1> QED
  BY <1>1, <1>2

LEMMA SectionsCanBeNamed ==
  ASSUME NEW f, NEW lost
  PROVE  \A n \in Nat : \E g : g = [j \in 0 .. n |-> NamedNext(f, lost, g, j)]
<1> DEFINE S == {n \in Nat : \E g : g = [j \in 0 .. n |-> NamedNext(f, lost, g, j)]}
<1>1. 0 \in S
  <2> DEFINE g == [j \in 0 .. 0 |-> <<>>]
  <2>1. \A j \in 0 .. 0 : NamedNext(f, lost, g, j) = <<>>
    BY DEF NamedNext
  <2>2. g = [j \in 0 .. 0 |-> NamedNext(f, lost, g, j)]
    BY <2>1
  <2> QED
    BY <2>2
<1>2. ASSUME NEW n \in Nat, n \in S PROVE n + 1 \in S
  <2>1. PICK g : g = [j \in 0 .. n |-> NamedNext(f, lost, g, j)]
    BY <1>2
  <2> DEFINE h == [j \in 0 .. n + 1 |-> IF j = n + 1 THEN NamedNext(f, lost, g, n + 1) ELSE g[j]]
  <2>2. ASSUME NEW j \in 0 .. n + 1
        PROVE  h[j] = NamedNext(f, lost, h, j)
    <3>1. ASSUME j # 0 PROVE h[j - 1] = g[j - 1]
      <4>1. j - 1 \in 0 .. n + 1 /\ j - 1 # n + 1
        BY <3>1, <1>2
      <4> QED
        BY <4>1, Zenon
    <3>2. NamedNext(f, lost, h, j) = NamedNext(f, lost, g, j)
      BY <3>1, NamedDependsOnLast, Zenon
    <3>3. CASE j = n + 1
      BY <3>2, <3>3, Zenon
    <3>4. CASE j # n + 1
      <4>1. j \in 0 .. n
        BY <3>4, <1>2
      <4>2. g[j] = NamedNext(f, lost, g, j)
        BY <4>1, <2>1, Zenon
      <4> QED
        BY <4>2, <3>2, <3>4, Zenon
    <3> QED
      BY <3>3, <3>4
  <2>3. h = [j \in 0 .. n + 1 |-> NamedNext(f, lost, h, j)]
    <3> DEFINE k == [j \in 0 .. n + 1 |-> NamedNext(f, lost, h, j)]
    <3>1. DOMAIN h = DOMAIN k /\ \A j \in DOMAIN h : h[j] = k[j]
      BY <2>2, Zenon
    <3> QED
      BY <3>1, Zenon
  <2>4. n + 1 \in Nat
    BY <1>2
  <2> HIDE DEF h
  <2> QED
    BY <2>3, <2>4
<1>3. \A n \in Nat : n \in S
  BY <1>1, <1>2, SetInduction
<1> QED
  BY <1>3

LEMMA SectionUnfolds ==
  ASSUME NEW T, NEW f \in Seq(T), NEW lost
  PROVE  /\ SectionAt(f, 0, lost) = <<>>
         /\ \A n \in 0 .. Len(f) - 1 :
              SectionAt(f, n + 1, lost) =
                IF NamesSection(f, n + 1, lost)
                  THEN NameIn(Joined(f, n + 1), SectionAt(f, n, lost))
                  ELSE SectionAt(f, n, lost)
<1> DEFINE name == CHOOSE g : g = [j \in 0 .. Len(f) |-> NamedNext(f, lost, g, j)]
<1>1. Len(f) \in Nat
  OBVIOUS
<1>2. \E g : g = [j \in 0 .. Len(f) |-> NamedNext(f, lost, g, j)]
  BY <1>1, SectionsCanBeNamed
<1>3. name = [j \in 0 .. Len(f) |-> NamedNext(f, lost, name, j)]
  BY <1>2, Zenon
<1>4. \A j : SectionAt(f, j, lost) = name[j]
  BY Zenon DEF SectionAt, NamedNext, NamesSection
<1> HIDE DEF name
<1>5. name[0] = <<>>
  <2>1. 0 \in 0 .. Len(f)
    BY <1>1
  <2>2. name[0] = NamedNext(f, lost, name, 0)
    BY <2>1, <1>3, Zenon
  <2> QED
    BY <2>2 DEF NamedNext
<1>6. ASSUME NEW n \in 0 .. Len(f) - 1
      PROVE  name[n + 1] = IF NamesSection(f, n + 1, lost) THEN NameIn(Joined(f, n + 1), name[n])
                           ELSE name[n]
  <2>1. n + 1 \in 0 .. Len(f) /\ n + 1 # 0 /\ (n + 1) - 1 = n
    BY <1>1
  <2>2. name[n + 1] = NamedNext(f, lost, name, n + 1)
    BY <2>1, <1>3, Zenon
  <2> QED
    BY <2>1, <2>2 DEF NamedNext
<1> QED
  BY <1>4, <1>5, <1>6, Zenon

\* Which of the later lines are lost does not matter.
LEMMA SectionOfLinesBefore ==
  ASSUME NEW T, NEW f \in Seq(T), NEW A, NEW B, NEW n \in 0 .. Len(f),
         A \cap (1 .. n) = B \cap (1 .. n)
  PROVE  \A i \in 0 .. n : SectionAt(f, i, A) = SectionAt(f, i, B)
<1> DEFINE S == {i \in Nat : i <= n => SectionAt(f, i, A) = SectionAt(f, i, B)}
<1>0. Len(f) \in Nat /\ n \in Nat
  OBVIOUS
<1>1. 0 \in S
  BY SectionUnfolds
<1>2. ASSUME NEW i \in Nat, i \in S PROVE i + 1 \in S
  <2> SUFFICES ASSUME i + 1 <= n PROVE SectionAt(f, i + 1, A) = SectionAt(f, i + 1, B)
    BY <1>2
  <2>1. i \in 0 .. Len(f) - 1 /\ i + 1 \in 1 .. n /\ i <= n
    BY <1>0
  <2>2. SectionAt(f, i, A) = SectionAt(f, i, B)
    BY <1>2, <2>1
  <2>3. i + 1 \in A <=> i + 1 \in B
    BY <2>1
  <2>4. NamesSection(f, i + 1, A) <=> NamesSection(f, i + 1, B)
    BY <2>3 DEF NamesSection
  <2> QED
    BY <2>1, <2>2, <2>4, SectionUnfolds
<1>3. \A i \in Nat : i \in S
  BY <1>1, <1>2, SetInduction
<1>4. \A i \in 0 .. n : i \in Nat /\ i <= n
  BY <1>0
<1> QED
  BY <1>3, <1>4

EntersAt(f, i, lost) == i \notin lost /\ Whole(f, i) /\ Status(f, i) \in {"section", "value"}
Entering(f, n, lost) == {i \in 1 .. n : EntersAt(f, i, lost)}

NamesAtLines(f, lines, lost) == {NameAt(f, i, lost) : i \in lines}

\* Line i is the last of the first n that says something about k.
IsLast(f, n, lost, k, i) ==
  /\ i \in Entering(f, n, lost)
  /\ NameAt(f, i, lost) = k
  /\ \A j \in Entering(f, n, lost) : NameAt(f, j, lost) = k => j <= i

LEMMA MeaningIsOfLast ==
  ASSUME NEW f, NEW n \in Nat, NEW lost
  PROVE  /\ DOMAIN Meaning(f, n, lost) = NamesAtLines(f, Entering(f, n, lost), lost)
         /\ Meaning(f, n, lost) = [k \in DOMAIN Meaning(f, n, lost) |-> Meaning(f, n, lost)[k]]
         /\ \A k, i : IsLast(f, n, lost, k, i) =>
              k \in DOMAIN Meaning(f, n, lost) /\ Meaning(f, n, lost)[k] = ValueAt(f, i)
         /\ \A k \in DOMAIN Meaning(f, n, lost) : \E i : IsLast(f, n, lost, k, i)
<1> DEFINE names == NamesAtLines(f, Entering(f, n, lost), lost)
           last(k) == CHOOSE i \in Entering(f, n, lost) :
                        /\ NameAt(f, i, lost) = k
                        /\ \A j \in Entering(f, n, lost) : NameAt(f, j, lost) = k => j <= i
<1>0. Entering(f, n, lost) =
        {i \in (1 .. n) \ lost : Whole(f, i) /\ Status(f, i) \in {"section", "value"}}
  BY DEF Entering, EntersAt
<1>1. Meaning(f, n, lost) = [k \in names |-> ValueAt(f, last(k))]
  BY <1>0 DEF Meaning, NamesAtLines
<1>2. DOMAIN Meaning(f, n, lost) = names
  BY <1>1
<1>3. ASSUME NEW k, NEW i, IsLast(f, n, lost, k, i)
      PROVE  k \in names /\ Meaning(f, n, lost)[k] = ValueAt(f, i)
  <2>1. k \in names
    BY <1>3 DEF IsLast, NamesAtLines
  <2>2. Entering(f, n, lost) \subseteq Nat
    BY DEF Entering
  <2>3. \A j : IsLast(f, n, lost, k, j) => j = i
    BY <1>3, <2>2 DEF IsLast
  <2>4. last(k) = CHOOSE j : IsLast(f, n, lost, k, j)
    BY Zenon DEF IsLast
  <2>5. IsLast(f, n, lost, k, CHOOSE j : IsLast(f, n, lost, k, j))
    BY <1>3, Zenon
  <2>6. last(k) = i
    BY <2>3, <2>4, <2>5, Zenon
  <2> HIDE DEF last
  <2> QED
    BY <1>1, <2>1, <2>6
<1>4. ASSUME NEW k \in names PROVE \E i : IsLast(f, n, lost, k, i)
  <2> DEFINE S == {i \in Entering(f, n, lost) : NameAt(f, i, lost) = k}
  <2>1. S # {} /\ S \in SUBSET (1 .. n)
    BY DEF Entering, NamesAtLines
  <2>2. PICK i \in S : \A j \in S : j <= i
    BY <2>1, LargestExists
  <2> QED
    BY <2>2 DEF IsLast
<1> QED
  BY <1>1, <1>2, <1>3, <1>4

\* Meanings with the same last lines are the same.
LEMMA SameLastLines ==
  ASSUME NEW f, NEW m \in Nat, NEW n \in Nat, NEW A, NEW B,
         \A k, i : IsLast(f, m, A, k, i) <=> IsLast(f, n, B, k, i)
  PROVE  Meaning(f, m, A) = Meaning(f, n, B)
<1> DEFINE a == Meaning(f, m, A)
           b == Meaning(f, n, B)
<1>1. ASSUME NEW k \in DOMAIN a PROVE k \in DOMAIN b /\ b[k] = a[k]
  <2>1. PICK i : IsLast(f, m, A, k, i)
    BY MeaningIsOfLast, Zenon
  <2>2. a[k] = ValueAt(f, i)
    BY <2>1, MeaningIsOfLast, Zenon
  <2>3. IsLast(f, n, B, k, i)
    BY <2>1
  <2>4. k \in DOMAIN b /\ b[k] = ValueAt(f, i)
    BY <2>3, MeaningIsOfLast, Zenon
  <2> QED
    BY <2>2, <2>4
<1>2. ASSUME NEW k \in DOMAIN b PROVE k \in DOMAIN a
  <2>1. PICK i : IsLast(f, n, B, k, i)
    BY MeaningIsOfLast, Zenon
  <2>2. IsLast(f, m, A, k, i)
    BY <2>1
  <2> QED
    BY <2>2, MeaningIsOfLast, Zenon
<1>3. a = [k \in DOMAIN a |-> a[k]] /\ b = [k \in DOMAIN b |-> b[k]]
  BY MeaningIsOfLast, Zenon
<1> HIDE DEF a, b
<1>4. DOMAIN a = DOMAIN b
  BY <1>1, <1>2
<1>5. a = b
  BY <1>1, <1>3, <1>4
<1> QED
  BY <1>5 DEF a, b

LEMMA MeaningOfLinesBefore ==
  ASSUME NEW T, NEW f \in Seq(T), NEW A, NEW B, NEW n \in 0 .. Len(f),
         A \cap (1 .. n) = B \cap (1 .. n)
  PROVE  Meaning(f, n, A) = Meaning(f, n, B)
<1>1. n \in Nat /\ \A i \in 1 .. n : i \in 0 .. n
  OBVIOUS
<1>2. \A i \in 1 .. n : NameAt(f, i, A) = NameAt(f, i, B)
  <2>1. \A i \in 0 .. n : SectionAt(f, i, A) = SectionAt(f, i, B)
    BY SectionOfLinesBefore
  <2> QED
    BY <1>1, <2>1 DEF NameAt
<1>3. Entering(f, n, A) = Entering(f, n, B)
  BY DEF Entering, EntersAt
<1>4. Entering(f, n, A) \subseteq 1 .. n
  BY DEF Entering
<1>5. \A k, i : IsLast(f, n, A, k, i) <=> IsLast(f, n, B, k, i)
  BY <1>2, <1>3, <1>4 DEF IsLast
<1> QED
  BY <1>1, <1>5, SameLastLines

LEMMA NothingMeansNothing ==
  ASSUME NEW f, NEW lost
  PROVE  Meaning(f, 0, lost) = [k \in {} |-> NULL]
<1>1. Entering(f, 0, lost) = {}
  BY DEF Entering
<1>2. NamesAtLines(f, {}, lost) = {}
  BY DEF NamesAtLines
<1> DEFINE m == Meaning(f, 0, lost)
<1>3. DOMAIN m = {} /\ m = [k \in DOMAIN m |-> m[k]]
  BY <1>1, <1>2, MeaningIsOfLast
<1> HIDE DEF m
<1>4. m = [k \in {} |-> NULL]
  BY <1>3
<1> QED
  BY <1>4 DEF m

LEMMA IdleLineMeansNothing ==
  ASSUME NEW f, NEW n \in Nat, NEW lost, ~EntersAt(f, n + 1, lost)
  PROVE  Meaning(f, n + 1, lost) = Meaning(f, n, lost)
<1>1. Entering(f, n + 1, lost) = Entering(f, n, lost)
  BY NextLine DEF Entering
<1>2. n + 1 \in Nat
  OBVIOUS
<1>3. \A k, i : IsLast(f, n + 1, lost, k, i) <=> IsLast(f, n, lost, k, i)
  BY <1>1 DEF IsLast
<1> QED
  BY <1>2, <1>3, SameLastLines

LEMMA EnteringLineUpdates ==
  ASSUME NEW f, NEW n \in Nat, NEW lost, EntersAt(f, n + 1, lost)
  PROVE  Meaning(f, n + 1, lost)
           = Updated(Meaning(f, n, lost), NameAt(f, n + 1, lost), ValueAt(f, n + 1))
<1> DEFINE m == Meaning(f, n, lost)
           next == Meaning(f, n + 1, lost)
           name == NameAt(f, n + 1, lost)
           u == Updated(m, name, ValueAt(f, n + 1))
<1>1. n + 1 \in Nat /\ Entering(f, n + 1, lost) = Entering(f, n, lost) \cup {n + 1}
  BY NextLine DEF Entering
<1>2. Entering(f, n, lost) \subseteq 1 .. n
  BY DEF Entering
<1>3. DOMAIN next = DOMAIN m \cup {name}
  <2>0. DOMAIN next = NamesAtLines(f, Entering(f, n + 1, lost), lost)
    BY <1>1, MeaningIsOfLast, Zenon
  <2>1. DOMAIN next = NamesAtLines(f, Entering(f, n, lost) \cup {n + 1}, lost)
    BY <1>1, <2>0
  <2>2. DOMAIN m = NamesAtLines(f, Entering(f, n, lost), lost)
    BY MeaningIsOfLast
  <2>3. NamesAtLines(f, Entering(f, n, lost) \cup {n + 1}, lost)
          = NamesAtLines(f, Entering(f, n, lost), lost) \cup {name}
    BY Zenon DEF NamesAtLines
  <2> QED
    BY <2>1, <2>2, <2>3
<1>4. IsLast(f, n + 1, lost, name, n + 1)
  BY <1>1, <1>2 DEF IsLast
<1>5. next[name] = ValueAt(f, n + 1)
  BY <1>1, <1>4, MeaningIsOfLast
<1>6. ASSUME NEW k \in DOMAIN m, k # name PROVE next[k] = m[k]
  <2>1. PICK i : IsLast(f, n, lost, k, i)
    BY MeaningIsOfLast, Zenon
  <2>2. IsLast(f, n + 1, lost, k, i)
    BY <1>1, <1>6, <2>1 DEF IsLast
  <2> QED
    BY <1>1, <2>1, <2>2, MeaningIsOfLast
<1>7. next = [k \in DOMAIN next |-> next[k]]
  BY <1>1, MeaningIsOfLast
<1> HIDE DEF m, next, name
<1>8. u = [k \in DOMAIN m \cup {name} |-> IF k = name THEN ValueAt(f, n + 1) ELSE m[k]]
  BY DEF Updated
<1>9. \A k \in DOMAIN m \cup {name} :
        next[k] = IF k = name THEN ValueAt(f, n + 1) ELSE m[k]
  BY <1>5, <1>6
<1> HIDE DEF u
<1>10. next = u
  BY <1>3, <1>7, <1>8, <1>9
<1> QED
  BY <1>10 DEF m, next, name, u

-----------------------------------------------------------------------------
(* The dictionary holds what the lines mean                                *)

\* Every entry of c is one of m, with its value or with none.
Held(c, m) == \A k \in DOMAIN c : k \in DOMAIN m /\ c[k] \in {NULL, m[k]}

LEMMA HeldAfterUpdate ==
  ASSUME NEW c, NEW m, Held(c, m), NEW k, NEW v
  PROVE  /\ \A w \in {v, NULL} : Held(Updated(c, k, w), Updated(m, k, v))
         /\ k \notin DOMAIN c => Held(c, Updated(m, k, v))
<1> DEFINE next == Updated(m, k, v)
<1>1. DOMAIN next = DOMAIN m \cup {k} /\ next[k] = v /\ \A x \in DOMAIN m : x # k => next[x] = m[x]
  BY DEF Updated
<1>2. ASSUME NEW w \in {v, NULL} PROVE Held(Updated(c, k, w), next)
  <2> DEFINE u == Updated(c, k, w)
  <2>1. DOMAIN u = DOMAIN c \cup {k} /\ u[k] = w /\ \A x \in DOMAIN c : x # k => u[x] = c[x]
    BY DEF Updated
  <2> HIDE DEF u, next
  <2>2. \A x \in DOMAIN u : x \in DOMAIN next /\ u[x] \in {NULL, next[x]}
    BY <1>1, <2>1 DEF Held
  <2> QED
    BY <2>2 DEF Held, u
<1> HIDE DEF next
<1>3. k \notin DOMAIN c => Held(c, next)
  BY <1>1 DEF Held
<1> QED
  BY <1>2, <1>3 DEF next

\* The section and the dictionary are what the lines read mean without the lost ones.
MeantWithout(lost) ==
  /\ ~outOfMemory => lost = {}
  /\ section = SectionAt(file, lineno, lost)
  /\ edits = 0 => /\ Held(Contents, Meaning(file, lineno, lost))
                  /\ ~outOfMemory => Contents = Meaning(file, lineno, lost)

LinesMeant == Loading => \E lost \in SUBSET (1 .. lineno) : MeantWithout(lost)

LEMMA NewDictionaryIsEmpty ==
  ASSUME DictionaryOK, New
  PROVE  Contents' = [k \in {} |-> NULL]
<1>1. dict' = dictionary_new(0)
  BY DEF New
<1>2. Consistent(dictionary_new(0))
  <2>1. 0 \in Nat
    OBVIOUS
  <2> QED
    BY <2>1, NewIsConsistent
<1>3. ContentsOf(dictionary_new(0)) = [k \in {} |-> NULL]
  BY <1>2, ConsistentIsSome, ClearedContents
<1> QED
  BY <1>1, <1>3 DEF Contents

LEMMA SetContents ==
  ASSUME DictionaryOK, NEW k \in Names, NEW v \in Values \cup {NULL}, Set(k, v)
  PROVE  /\ ~outOfMemory => Contents' = Updated(Contents, k, v)
         /\ \/ k \notin DOMAIN Contents /\ Contents' = Contents
            \/ \E w \in {v, NULL} : Contents' = Updated(Contents, k, w)
<1>1. dict # None /\ Consistent(dict) /\ dict' \in SetResults(dict, k, v)
  BY DEF Set, DictionaryOK
<1>2. dict' # None
  BY SetKeepsSome
<1>3. Contents = ContentsOf(dict)
  BY <1>1 DEF Contents
<1>4. Contents' = ContentsOf(dict')
  BY <1>2 DEF Contents
<1>5. \/ /\ outOfMemory
         /\ k \notin DOMAIN ContentsOf(dict)
         /\ ContentsOf(dict') = ContentsOf(dict)
      \/ \E w \in Copies(v) : ContentsOf(dict') = Updated(ContentsOf(dict), k, w)
  BY <1>1, SetIsUpdate
<1>6. Copies(v) \subseteq {v, NULL} /\ (~outOfMemory => Copies(v) = {v})
  BY DEF Copies
<1> QED
  BY <1>3, <1>4, <1>5, <1>6, Zenon

\* An entry for which the arrays could not grow was not there.
LEMMA FailedContents ==
  ASSUME DictionaryOK, NEW k, SetFails(k)
  PROVE  outOfMemory /\ Contents' = Contents /\ k \notin DOMAIN Contents
<1>1. dict # None /\ Consistent(dict) /\ ~Found(dict, k) /\ outOfMemory /\ dict' = dict
  BY DEF SetFails, MayNotGrow, DictionaryOK
<1>2. k \notin Keys(dict)
  BY <1>1, NotFoundIsNoKey
<1>3. Contents = ContentsOf(dict) /\ Contents' = ContentsOf(dict)
  BY <1>1 DEF Contents
<1> QED
  BY <1>1, <1>2, <1>3, ContentsOfSlots

\* A line that says nothing, or that is lost.
LEMMA IdleLine ==
  ASSUME LoaderOK, NEW lost \in SUBSET (1 .. lineno), MeantWithout(lost),
         lineno < Len(file), lineno' = lineno + 1, UNCHANGED <<file, edits>>,
         UNCHANGED <<dict, outOfMemory, section>>,
         NEW next \in SUBSET (1 .. lineno + 1),
         next \cap (1 .. lineno) = lost, ~outOfMemory => next = {},
         ~EntersAt(file, lineno + 1, next)
  PROVE  MeantWithout(next)'
<1>0. /\ file \in Seq(Seq(Tokens)) /\ lineno \in Nat /\ lineno \in 0 .. Len(file)
      /\ lineno \in 0 .. Len(file) - 1
  BY DEF LoaderOK
<1>1. lost \cap (1 .. lineno) = next \cap (1 .. lineno)
  OBVIOUS
<1>2. SectionAt(file, lineno + 1, next) = SectionAt(file, lineno, next)
  BY <1>0, SectionUnfolds DEF EntersAt, NamesSection
<1>3. SectionAt(file, lineno, next) = SectionAt(file, lineno, lost)
  BY <1>0, <1>1, SectionOfLinesBefore
<1>4. Meaning(file, lineno + 1, next) = Meaning(file, lineno, next)
  BY <1>0, IdleLineMeansNothing
<1>5. Meaning(file, lineno, next) = Meaning(file, lineno, lost)
  BY <1>0, <1>1, MeaningOfLinesBefore
<1>6. Contents' = Contents
  BY DEF Contents
<1>7. SectionAt(file', lineno', next) = section'
  BY <1>2, <1>3 DEF MeantWithout
<1>8. Meaning(file', lineno', next) = Meaning(file, lineno, lost)
  BY <1>4, <1>5
<1>9. edits' = 0 => /\ Held(Contents', Meaning(file', lineno', next))
                    /\ ~outOfMemory' => Contents' = Meaning(file', lineno', next)
  BY <1>6, <1>8 DEF MeantWithout
<1> QED
  BY <1>7, <1>9 DEF MeantWithout

\* A line that enters its name and its value.
LEMMA WorkingLine ==
  ASSUME LoaderOK, DictionaryOK, NEW lost \in SUBSET (1 .. lineno), MeantWithout(lost),
         load = "reading", lineno < Len(file), lineno' = lineno + 1, UNCHANGED <<file, edits>>,
         EntersAt(file, lineno + 1, lost),
         section' = SectionAt(file, lineno + 1, lost),
         NEW k \in Names, NEW v \in Values \cup {NULL},
         k = NameAt(file, lineno + 1, lost), v = ValueAt(file, lineno + 1),
         Enter(k, v)
  PROVE  MeantWithout(lost)'
<1> DEFINE m == Meaning(file, lineno, lost)
<1>1. lineno \in Nat
  BY DEF LoaderOK
<1>2. Meaning(file', lineno', lost) = Updated(m, k, v)
  BY <1>1, EnteringLineUpdates
<1>3. outOfMemory' = outOfMemory /\ section' = SectionAt(file', lineno', lost)
  BY EnterNeedsMemory
<1>4. ASSUME edits = 0
      PROVE  /\ Held(Contents', Updated(m, k, v))
             /\ ~outOfMemory => Contents' = Updated(m, k, v)
  <2>1. Held(Contents, m) /\ (~outOfMemory => Contents = m)
    BY <1>4 DEF MeantWithout
  <2> HIDE DEF m
  <2>2. /\ \A w \in {v, NULL} : Held(Updated(Contents, k, w), Updated(m, k, v))
        /\ k \notin DOMAIN Contents => Held(Contents, Updated(m, k, v))
    BY <2>1, HeldAfterUpdate
  <2>3. CASE Set(k, v)
    <3>1. /\ ~outOfMemory => Contents' = Updated(Contents, k, v)
          /\ \/ k \notin DOMAIN Contents /\ Contents' = Contents
             \/ \E w \in {v, NULL} : Contents' = Updated(Contents, k, w)
      BY <2>3, SetContents
    <3>2. Held(Contents', Updated(m, k, v))
      <4>1. CASE k \notin DOMAIN Contents /\ Contents' = Contents
        BY <2>2, <4>1
      <4>2. ASSUME NEW w \in {v, NULL}, Contents' = Updated(Contents, k, w)
            PROVE  Held(Contents', Updated(m, k, v))
        BY <2>2, <4>2, Zenon
      <4> QED
        BY <3>1, <4>1, <4>2
    <3> QED
      BY <2>1, <3>1, <3>2
  <2>4. CASE SetFails(k)
    <3>1. outOfMemory /\ Contents' = Contents /\ k \notin DOMAIN Contents
      BY <2>4, FailedContents
    <3> QED
      BY <2>2, <3>1
  <2> QED
    BY <2>3, <2>4 DEF Enter
<1> QED
  BY <1>2, <1>3, <1>4 DEF MeantWithout

LEMMA TakenLine ==
  ASSUME LoaderOK, DictionaryOK, LinesRead, NEW lost \in SUBSET (1 .. lineno),
         MeantWithout(lost), TakeLine
  PROVE  \E next \in SUBSET (1 .. lineno + 1) : MeantWithout(next)'
<1> DEFINE n == lineno + 1
           what == iniparser_line(Text)
<1>1. /\ load = "reading" /\ lineno < Len(file) /\ ~IsContinued(Text) /\ lineno \in Nat
      /\ lineno' = lineno + 1 /\ UNCHANGED <<file, edits>>
      /\ file \in Seq(Seq(Tokens)) /\ lineno \in 0 .. Len(file) - 1
  BY DEF TakeLine, Reads, LoaderOK
<1>2. Text = Joined(file, n)
  BY <1>1, TextIsJoined
<1>3. Whole(file, n) /\ Status(file, n) = what
  BY <1>1, <1>2 DEF Whole, Status
<1>4. PICK status \in {what, "empty"} :
        /\ ~outOfMemory => status = what
        /\ section' = IF status = "section" THEN NameIn(Text, section) ELSE section
        /\ CASE status = "section" -> Enter(<<section'>>, NULL)
             [] status = "value"   -> Enter(<<section, KeyIn(Text)>>, ValueIn(Text))
             [] OTHER              -> UNCHANGED <<dict, outOfMemory, load>>
  BY StatusOfLine
<1>5. Text \in Seq(Tokens) /\ section' \in Seq(Tokens)
  BY <1>1, TextOfLine, EnteredLine
<1>6. n \notin lost /\ 1 .. n = (1 .. lineno) \cup {n} /\ n \notin 1 .. lineno
  BY <1>1
<1>7. section = SectionAt(file, lineno, lost)
  BY DEF MeantWithout
<1> HIDE DEF what
<1>8. CASE status \notin {"section", "value"}
  <2>1. UNCHANGED <<dict, outOfMemory, section>>
    BY <1>4, <1>8
  <2>2. \E next \in SUBSET (1 .. n) :
          /\ next \cap (1 .. lineno) = lost
          /\ ~outOfMemory => next = {}
          /\ ~EntersAt(file, n, next)
    <3>1. CASE status = what
      <4>1. lost \in SUBSET (1 .. n) /\ lost \cap (1 .. lineno) = lost
        BY <1>6
      <4>2. ~outOfMemory => lost = {}
        BY DEF MeantWithout
      <4>3. ~EntersAt(file, n, lost)
        BY <1>3, <1>8, <3>1 DEF EntersAt
      <4> QED
        BY <4>1, <4>2, <4>3
    <3>2. CASE status # what
      <4>1. lost \cup {n} \in SUBSET (1 .. n) /\ (lost \cup {n}) \cap (1 .. lineno) = lost
        BY <1>6
      <4>2. outOfMemory
        BY <1>4, <3>2
      <4>3. ~EntersAt(file, n, lost \cup {n})
        BY DEF EntersAt
      <4> QED
        BY <4>1, <4>2, <4>3
    <3> QED
      BY <3>1, <3>2
  <2>3. PICK next \in SUBSET (1 .. n) :
          /\ next \cap (1 .. lineno) = lost
          /\ ~outOfMemory => next = {}
          /\ ~EntersAt(file, n, next)
    BY <2>2
  <2>4. /\ lineno < Len(file) /\ lineno' = lineno + 1 /\ UNCHANGED <<file, edits>>
        /\ next \in SUBSET (1 .. lineno + 1) /\ next \cap (1 .. lineno) = lost
        /\ ~EntersAt(file, lineno + 1, next)
    BY <1>1, <2>3
  <2>5. MeantWithout(next)'
    BY <2>1, <2>3, <2>4, IdleLine
  <2> QED
    BY <2>5
<1>9. CASE status \in {"section", "value"}
  <2>1. status = what
    BY <1>4, <1>9
  <2>2. EntersAt(file, n, lost)
    BY <1>3, <1>6, <1>9, <2>1 DEF EntersAt
  <2>3. section' = SectionAt(file, n, lost)
    <3>1. NamesSection(file, n, lost) <=> status = "section"
      BY <1>3, <1>6, <2>1 DEF NamesSection
    <3>2. SectionAt(file, n, lost) = IF NamesSection(file, n, lost)
                                       THEN NameIn(Joined(file, n), SectionAt(file, lineno, lost))
                                       ELSE SectionAt(file, lineno, lost)
      BY <1>1, SectionUnfolds
    <3> QED
      BY <1>2, <1>4, <1>7, <3>1, <3>2
  <2> DEFINE k == IF status = "section" THEN <<section'>> ELSE <<section', KeyIn(Text)>>
             v == IF status = "section" THEN NULL ELSE ValueIn(Text)
  <2>4. k = NameAt(file, n, lost) /\ v = ValueAt(file, n)
    BY <1>2, <1>3, <2>1, <2>3 DEF NameAt, ValueAt
  <2>5. k \in Names /\ v \in Values \cup {NULL}
    <3>1. KeyIn(Text) \in Seq(Tokens) /\ ValueIn(Text) \in Values
      BY <1>5, KeyInText, ValueInText, IniFileAssumption
    <3> QED
      BY <1>5, <3>1, NamesOfEntries
  <2>6. Enter(k, v)
    BY <1>4, <1>9
  <2> HIDE DEF k, v
  <2>7. MeantWithout(lost)'
    BY <1>1, <2>2, <2>3, <2>4, <2>5, <2>6, WorkingLine
  <2>8. lost \in SUBSET (1 .. n)
    BY <1>6
  <2> QED
    BY <2>7, <2>8
<1> QED
  BY <1>8, <1>9

LEMMA LinesMeantStep ==
  ASSUME LoaderOK, DictionaryOK, LinesRead, LinesMeant, [FileNext]_fileVars
  PROVE  LinesMeant'
<1>0. lineno \in Nat /\ edits \in Nat /\ Len(file) \in Nat /\ file \in Seq(Seq(Tokens))
  BY IniFileAssumption DEF LoaderOK
<1>1. CASE Open
  <2>1. CASE New
    <3>1. lineno' = 0 /\ file' = file /\ section' = <<>>
      BY <1>1 DEF Open, reading, LinesRead
    <3>2. Contents' = Meaning(file, 0, {}) /\ DOMAIN Contents' = {}
      BY <2>1, NewDictionaryIsEmpty, NothingMeansNothing
    <3>3. SectionAt(file, 0, {}) = <<>>
      BY <1>0, SectionUnfolds
    <3>4. MeantWithout({})'
      <4>1. Held(Contents', Meaning(file', lineno', {}))
        BY <3>2 DEF Held
      <4>2. Contents' = Meaning(file', lineno', {}) /\ section' = SectionAt(file', lineno', {})
        BY <3>1, <3>2, <3>3
      <4> QED
        BY <4>1, <4>2 DEF MeantWithout
    <3>5. {} \in SUBSET (1 .. lineno')
      OBVIOUS
    <3> QED
      BY <3>4, <3>5 DEF LinesMeant
  <2>2. CASE load' = "failed"
    BY <2>2 DEF LinesMeant, Loading
  <2> QED
    BY <1>1, <2>1, <2>2 DEF Open
<1>2. CASE TooLong
  BY <1>2 DEF TooLong, LinesMeant, Loading
<1>3. CASE Continue
  <2>1. load = "reading" /\ lineno < Len(file) /\ lineno' = lineno + 1 /\ UNCHANGED <<file, edits>>
        /\ IsContinued(Text) /\ UNCHANGED <<dict, outOfMemory, section>>
    BY <1>3 DEF Continue, Reads
  <2>2. PICK lost \in SUBSET (1 .. lineno) : MeantWithout(lost)
    BY <2>1 DEF LinesMeant, Loading
  <2>3. ~EntersAt(file, lineno + 1, lost)
    BY <2>1, TextIsJoined DEF EntersAt, Whole
  <2>4. lost \in SUBSET (1 .. lineno + 1) /\ lost \cap (1 .. lineno) = lost
    BY <1>0, NextLine
  <2>5. ~outOfMemory => lost = {}
    BY <2>2 DEF MeantWithout
  <2>6. MeantWithout(lost)'
    BY <2>1, <2>2, <2>3, <2>4, <2>5, IdleLine
  <2>7. lost \in SUBSET (1 .. lineno')
    BY <2>1, <2>4
  <2> QED
    BY <2>6, <2>7 DEF LinesMeant
<1>4. CASE TakeLine
  <2>1. load = "reading" /\ lineno' = lineno + 1
    BY <1>4 DEF TakeLine, Reads
  <2>2. PICK lost \in SUBSET (1 .. lineno) : MeantWithout(lost)
    BY <2>1 DEF LinesMeant, Loading
  <2>3. PICK next \in SUBSET (1 .. lineno + 1) : MeantWithout(next)'
    BY <1>4, <2>2, TakenLine
  <2>4. next \in SUBSET (1 .. lineno')
    BY <2>1
  <2> QED
    BY <2>3, <2>4 DEF LinesMeant
<1>5. CASE Finish
  <2>1. CASE errs
    BY <1>5, <2>1 DEF Finish, LinesMeant, Loading
  <2>2. CASE ~errs
    <3>1. UNCHANGED <<dict, outOfMemory, file, lineno, section, edits>> /\ Loading
      BY <1>5, <2>2 DEF Finish, reading, Loading
    <3>2. Contents' = Contents
      BY <3>1 DEF Contents
    <3> QED
      BY <3>1, <3>2 DEF LinesMeant, MeantWithout
  <2> QED
    BY <2>1, <2>2
<1>6. CASE Edit
  <2>1. edits' # 0 /\ UNCHANGED <<file, lineno, section>> /\ load = "done"
    BY <1>0, <1>6 DEF Edit, reading
  <2>2. outOfMemory' = outOfMemory
    BY <1>6 DEF Edit, Set, SetFails, Unset
  <2> QED
    BY <2>1, <2>2 DEF LinesMeant, MeantWithout, Loading
<1>7. CASE Free
  BY <1>7 DEF Free, LinesMeant, Loading
<1>8. CASE UNCHANGED fileVars
  <2>1. UNCHANGED <<dict, outOfMemory, file, lineno, section, edits, load>>
    BY <1>8 DEF fileVars
  <2>2. Contents' = Contents
    BY <2>1 DEF Contents
  <2> QED
    BY <2>1, <2>2 DEF LinesMeant, MeantWithout, Loading
<1> QED
  BY <1>1, <1>2, <1>3, <1>4, <1>5, <1>6, <1>7, <1>8 DEF FileNext

LoadInv == FileInv /\ LinesRead /\ LinesMeant

LEMMA LoadInvHolds == FileSpec => []LoadInv
<1>1. FileInit => LinesMeant
  BY DEF FileInit, LinesMeant, Loading
<1>2. FileInv /\ LinesRead /\ LinesMeant /\ [FileNext]_fileVars => LinesMeant'
  BY LinesMeantStep DEF FileInv
<1> QED
  BY <1>1, <1>2, FileInvHolds, LinesReadHolds, PTL DEF FileSpec, LoadInv

\* What iniparser_load has put into the dictionary is what the lines read so far mean, the
\* last value of each name; with too little memory it is what they mean without the lines
\* of which no copy was made, but for entries and values that found no memory.
THEOREM LoadedIsWritten == FileSpec => []LoadsWhatIsWritten
<1>1. LoadInv => LoadsWhatIsWritten
  <2> SUFFICES ASSUME LoadInv, Loading, edits = 0
               PROVE  IF outOfMemory
                        THEN \E lost \in SUBSET (1 .. lineno) : Held(Contents, Meaning(file, lineno, lost))
                        ELSE Contents = Meaning(file, lineno, {})
    BY DEF LoadsWhatIsWritten, Loading, Held
  <2>1. PICK lost \in SUBSET (1 .. lineno) : MeantWithout(lost)
    BY DEF LoadInv, LinesMeant
  <2> QED
    BY <2>1 DEF MeantWithout
<1> QED
  BY <1>1, LoadInvHolds, PTL

\* In particular no failed line or allocation leaves a duplicate or a lost entry behind.
THEOREM LoadedArraysConsistent == FileSpec => []ArraysConsistent
  BY LoaderUsesDictionary, ArraysStayConsistent, PTL

\* Loading, editing and freeing are changes of the map the arrays stand for.
THEOREM LoaderImplementsMap == FileSpec => ImplementsMap
  BY LoaderUsesDictionary, DictionaryImplementsMap, PTL

-----------------------------------------------------------------------------
(* Slots in the order of the arrays                                        *)

UpTo(S, i) == {m \in S : m <= i}

LEMMA RankFacts ==
  ASSUME NEW S \in SUBSET Nat, IsFiniteSet(S), NEW i \in S
  PROVE  /\ Cardinality(UpTo(S, i)) \in 1 .. Cardinality(S)
         /\ \A j \in S : Cardinality(UpTo(S, j)) = Cardinality(UpTo(S, i)) => j = i
<1>1. \A j \in S : UpTo(S, j) \subseteq S /\ j \in UpTo(S, j)
  BY DEF UpTo
<1>2. \A j \in S : IsFiniteSet(UpTo(S, j)) /\ Cardinality(UpTo(S, j)) \in Nat
  BY <1>1, FS_Subset, FS_CardinalityType
<1>3. Cardinality(S) \in Nat /\ Cardinality(UpTo(S, i)) <= Cardinality(S)
  BY <1>1, FS_Subset, FS_CardinalityType
<1>4. Cardinality(UpTo(S, i)) # 0
  BY <1>1, <1>2, FS_EmptySet
<1>5. ASSUME NEW a \in S, NEW b \in S, a < b
      PROVE  Cardinality(UpTo(S, a)) # Cardinality(UpTo(S, b))
  <2>0. a \in Nat /\ b \in Nat /\ \A m \in S : m \in Nat
    OBVIOUS
  <2>1. UpTo(S, a) \subseteq UpTo(S, b) /\ b \notin UpTo(S, a) /\ b \in UpTo(S, b)
    <3>1. ~(b <= a) /\ b <= b /\ \A m \in S : m <= a => m <= b
      BY <1>5, <2>0
    <3> QED
      BY <3>1, Zenon DEF UpTo
  <2>2. UpTo(S, a) # UpTo(S, b)
    BY <2>1
  <2>3. Cardinality(UpTo(S, a)) = Cardinality(UpTo(S, b)) => UpTo(S, a) = UpTo(S, b)
    BY <1>2, <2>1, FS_Subset
  <2> QED
    BY <2>2, <2>3
<1>6. ASSUME NEW j \in S, Cardinality(UpTo(S, j)) = Cardinality(UpTo(S, i))
      PROVE  j = i
  <2>1. i \in Nat /\ j \in Nat
    OBVIOUS
  <2>2. ~(i < j) /\ ~(j < i)
    BY <1>5, <1>6
  <2> QED
    BY <2>1, <2>2
<1>7. Cardinality(UpTo(S, i)) \in 1 .. Cardinality(S)
  BY <1>1, <1>2, <1>3, <1>4
<1> QED
  BY <1>6, <1>7

LEMMA SlotAtFacts ==
  ASSUME NEW N \in Nat, NEW S \in SUBSET (0 .. N - 1), IsFiniteSet(S),
         NEW n \in 1 .. Cardinality(S)
  PROVE  SlotAt(S, n) \in S /\ Cardinality(UpTo(S, SlotAt(S, n))) = n
<1> DEFINE below(m) == {j \in S : j < m}
           T == {m \in Nat : \A k \in 1 .. Cardinality(below(m)) :
                               \E i \in S : Cardinality(UpTo(S, i)) = k}
<1>0. \A j \in S : j \in Nat /\ j < N
  OBVIOUS
<1>1. \A m \in Nat : IsFiniteSet(below(m)) /\ Cardinality(below(m)) \in Nat
  <2>1. \A m \in Nat : below(m) \subseteq S
    OBVIOUS
  <2> HIDE DEF below
  <2> QED
    BY <2>1, FS_Subset, FS_CardinalityType
<1>2. 0 \in T
  <2>1. below(0) = {}
    <3>1. \A j \in S : ~(j < 0)
      BY <1>0
    <3> QED
      BY <3>1, Zenon
  <2>2. Cardinality(below(0)) = 0
    BY <2>1, FS_EmptySet
  <2> HIDE DEF below
  <2>3. 1 .. Cardinality(below(0)) = {}
    BY <2>2
  <2> QED
    BY <2>3
<1>3. ASSUME NEW m \in Nat, m \in T PROVE m + 1 \in T
  <2>1. CASE m \in S
    <3>1. below(m + 1) = below(m) \cup {m} /\ m \notin below(m)
      <4>1. (\A j \in S : j < m + 1 <=> (j < m \/ j = m)) /\ m < m + 1 /\ ~(m < m)
        BY <1>0
      <4> QED
        BY <2>1, <4>1, Zenon
    <3>2. below(m + 1) = UpTo(S, m)
      <4>1. \A j \in S : j < m + 1 <=> j <= m
        BY <1>0
      <4> QED
        BY <4>1, Zenon DEF UpTo
    <3> HIDE DEF below
    <3>3. Cardinality(below(m + 1)) = Cardinality(below(m)) + 1
      BY <1>1, <3>1, FS_AddElement
    <3> QED
      BY <1>1, <1>3, <2>1, <3>2, <3>3
  <2>2. CASE m \notin S
    <3>1. below(m + 1) = below(m)
      <4>1. \A j \in S : j < m + 1 <=> j < m
        BY <1>0, <2>2
      <4> QED
        BY <4>1, Zenon
    <3> HIDE DEF below
    <3> QED
      BY <1>3, <3>1
  <2> QED
    BY <2>1, <2>2
<1>4. N \in T
  <2> HIDE DEF T
  <2> QED
    BY <1>2, <1>3, SetInduction
<1>5. below(N) = S
  BY <1>0
<1>6. \E i \in S : Cardinality(UpTo(S, i)) = n
  <2> HIDE DEF below
  <2> QED
    BY <1>4, <1>5
<1> QED
  BY <1>6, Zenon DEF SlotAt, UpTo

\* The names in some slots.
SlotsListed(d, slots) == {d.key[i] : i \in slots}

LEMMA NamesInFacts ==
  ASSUME NEW d, IsDictionary(d), NEW slots \in SUBSET Used(d)
  PROVE  /\ NamesIn(d, slots) \in Seq(SlotsListed(d, slots))
         /\ Len(NamesIn(d, slots)) = Cardinality(slots)
         /\ \A k \in SlotsListed(d, slots) : \E j \in DOMAIN NamesIn(d, slots) : NamesIn(d, slots)[j] = k
         /\ slots = {} => Cardinality(slots) = 0
         /\ slots # {} => Cardinality(slots) > 0
         /\ Distinct(d) => \A i, j \in DOMAIN NamesIn(d, slots) :
                             NamesIn(d, slots)[i] = NamesIn(d, slots)[j] => i = j
<1> DEFINE n == Cardinality(slots)
           names == NamesIn(d, slots)
<1>1. d.size \in Nat /\ slots \in SUBSET (0 .. d.size - 1) /\ slots \in SUBSET Nat
  BY SlotsFinite DEF IsDictionary, Slots
<1>2. IsFiniteSet(slots)
  BY SlotsFinite, FS_Subset
<1>3. n \in Nat /\ (slots = {} <=> n = 0)
  BY <1>2, FS_CardinalityType, FS_EmptySet
<1>4. \A j \in 1 .. n : SlotAt(slots, j) \in slots /\ Cardinality(UpTo(slots, SlotAt(slots, j))) = j
  BY <1>1, <1>2, SlotAtFacts
<1>5. \A i \in slots : SlotAt(slots, Cardinality(UpTo(slots, i))) = i
                       /\ Cardinality(UpTo(slots, i)) \in 1 .. n
  <2> SUFFICES ASSUME NEW i \in slots
               PROVE  SlotAt(slots, Cardinality(UpTo(slots, i))) = i
                      /\ Cardinality(UpTo(slots, i)) \in 1 .. n
    OBVIOUS
  <2> DEFINE r == Cardinality(UpTo(slots, i))
  <2>1. r \in 1 .. n /\ \A j \in slots : Cardinality(UpTo(slots, j)) = r => j = i
    BY <1>1, <1>2, RankFacts
  <2> HIDE DEF r
  <2>2. SlotAt(slots, r) \in slots /\ Cardinality(UpTo(slots, SlotAt(slots, r))) = r
    BY <1>4, <2>1
  <2> QED
    BY <2>1, <2>2 DEF r
<1>6. names = [j \in 1 .. n |-> d.key[SlotAt(slots, j)]]
  BY DEF NamesIn
<1>7. \A j \in 1 .. n : d.key[SlotAt(slots, j)] \in SlotsListed(d, slots)
  BY <1>4 DEF SlotsListed
<1> HIDE DEF n, names
<1>8. names \in [1 .. n -> SlotsListed(d, slots)]
  BY <1>6, <1>7
<1>9. names \in Seq(SlotsListed(d, slots)) /\ Len(names) = n /\ DOMAIN names = 1 .. n
  BY <1>3, <1>8
<1>10. ASSUME NEW k \in SlotsListed(d, slots) PROVE \E j \in DOMAIN names : names[j] = k
  <2>1. PICK i \in slots : k = d.key[i]
    BY DEF SlotsListed
  <2> DEFINE j == Cardinality(UpTo(slots, i))
  <2>2. j \in 1 .. n /\ SlotAt(slots, j) = i
    BY <1>5
  <2> HIDE DEF j
  <2>3. names[j] = k
    BY <1>6, <2>1, <2>2
  <2> QED
    BY <1>9, <2>2, <2>3
<1>11. ASSUME Distinct(d), NEW i \in 1 .. n, NEW j \in 1 .. n, names[i] = names[j]
       PROVE  i = j
  <2>1. d.key[SlotAt(slots, i)] = d.key[SlotAt(slots, j)]
    BY <1>6, <1>11
  <2>2. SlotAt(slots, i) = SlotAt(slots, j)
    BY <1>4, <1>11, <2>1 DEF Distinct
  <2> QED
    BY <1>4, <2>2
<1> QED
  BY <1>3, <1>9, <1>10, <1>11 DEF n, names
-----------------------------------------------------------------------------
(* The lines a dictionary is saved as                                      *)

\* The tokens of a saved file.
Marked == Tokens \cup {"[", "]", "="}

LEMMA PlaceAfterText ==
  ASSUME NEW T, NEW a \in Seq(T), NEW w \in Seq(T), NEW t, Place(a, t) = 0,
         Len(a) < Len(w), w[Len(a) + 1] = t, \A i \in 1 .. Len(a) : w[i] = a[i]
  PROVE  Place(w, t) = Len(a) + 1 /\ Before(w, t) = a
<1> DEFINE n == Len(a)
           p == Place(w, t)
<1>1. n \in Nat /\ Len(w) \in Nat /\ n + 1 \in 1 .. Len(w)
  OBVIOUS
<1>2. \A i \in 1 .. n : w[i] # t
  BY PlaceOfToken
<1>3. p \in 0 .. Len(w) /\ (p # 0 => w[p] = t) /\ p # 0 /\ p <= n + 1
  BY <1>1, PlaceOfToken
<1> HIDE DEF p
<1>4. p = n + 1
  BY <1>1, <1>2, <1>3
<1>5. Before(w, t) = SubSeq(w, 1, n)
  BY <1>1, <1>4 DEF Before, p
<1>6. SubSeq(w, 1, n) = a
  BY <1>1
<1> QED
  BY <1>4, <1>5, <1>6 DEF p

TextParts(w, a, t, b) == w = a \o <<t>> \o b

LEMMA MarkBetween ==
  ASSUME NEW T, NEW a \in Seq(T), NEW b \in Seq(T), NEW t \in T, Place(a, t) = 0, NEW w,
         TextParts(w, a, t, b)
  PROVE  Place(w, t) = Len(a) + 1 /\ Before(w, t) = a /\ After(w, t) = b
<1> DEFINE n == Len(a)
<1>1. w \in Seq(T) /\ n \in Nat /\ Len(b) \in Nat /\ Len(w) = n + 1 + Len(b)
  BY DEF TextParts
<1>2. w[n + 1] = t /\ \A i \in 1 .. n : w[i] = a[i]
  BY DEF TextParts
<1>3. Place(w, t) = n + 1 /\ Before(w, t) = a
  <2>1. Len(a) < Len(w)
    BY <1>1
  <2> QED
    BY <1>1, <1>2, <2>1, PlaceAfterText
<1>4. SubSeq(w, n + 1 + 1, Len(w)) = b
  BY <1>1 DEF TextParts
<1>5. After(w, t) = b
  BY <1>3, <1>4 DEF After
<1> QED
  BY <1>3, <1>5

LEMMA BeginOfLine ==
  ASSUME NEW T, NEW a \in Seq(T), NEW b \in Seq(T), NEW t \in T, a # <<>>, NEW w,
         w = a \o <<t>> \o b
  PROVE  /\ w \in Seq(T) /\ w # <<>> /\ Head(w) = Head(a)
         /\ Len(a) >= 1 /\ Len(a) \in Nat
<1> DEFINE h == a \o <<t>>
<1>1. h \in Seq(T) /\ Len(a) \in Nat /\ Len(a) >= 1 /\ Len(h) = Len(a) + 1 /\ h[1] = a[1]
  OBVIOUS
<1>2. w = h \o b
  OBVIOUS
<1> HIDE DEF h
<1>3. w \in Seq(T) /\ Len(w) = Len(h) + Len(b) /\ w[1] = h[1] /\ Len(b) \in Nat
  BY <1>1, <1>2
<1>4. Head(w) = w[1] /\ Head(a) = a[1]
  BY <1>1, <1>3
<1> QED
  BY <1>1, <1>3, <1>4

LEMMA NotThere ==
  ASSUME NEW T, NEW s \in Seq(T), NEW t, Place(s, t) = 0
  PROVE  Before(s, t) = s /\ \A i \in 1 .. Len(s) : s[i] # t
  BY PlaceOfToken DEF Before

LEMMA SectionLine ==
  ASSUME NEW s \in Seq(Tokens), NamesSectionLine(s), strlwc(s) = s, NEW text,
         text = <<"[">> \o s \o <<"]">>
  PROVE  /\ text \in Seq(Marked)
         /\ ~IsContinued(text)
         /\ iniparser_line(text) = "section"
         /\ NameIn(text, <<>>) = s
         /\ s # <<>> => \A old : NameIn(text, old) = s
<1>1. s \in Seq(Marked) /\ "[" \in Marked /\ "]" \in Marked
  BY DEF Marked
<1> HIDE DEF Marked
<1>2. text \in Seq(Marked) /\ text # <<>> /\ Head(text) = "[" /\ text[Len(text)] = "]"
      /\ Tail(text) = s \o <<"]">>
  BY <1>1
<1>3. Backslash # "]"
  BY IniFileAssumption
<1>4. ~IsContinued(text)
  BY <1>2, <1>3 DEF IsContinued, Last
<1>5. iniparser_line(text) = "section"
  BY <1>2 DEF iniparser_line, IsComment, IsSection, Last
<1>6. Before(Tail(text), "]") = s
  <2> DEFINE w == s \o <<"]">>
  <2>1. w \in Seq(Marked) /\ Len(s) < Len(w) /\ w[Len(s) + 1] = "]"
        /\ \A i \in 1 .. Len(s) : w[i] = s[i]
    BY <1>1
  <2>2. Place(s, "]") = 0
    BY DEF NamesSectionLine
  <2> HIDE DEF w
  <2>3. Before(w, "]") = s
    BY <1>1, <2>1, <2>2, PlaceAfterText
  <2> QED
    BY <1>2, <2>3 DEF w
<1>7. s # <<>> => \A old : NameIn(text, old) = s
  BY <1>6 DEF NameIn
<1>8. s = <<>> => NameIn(text, <<>>) = s
  <2>1. ~(Len(text) <= Len(<<>>)) /\ Len(<<>>) = 0 /\ SubSeq(<<>>, 1, 0) = <<>>
    BY <1>2
  <2>2. s = <<>> => NameIn(text, <<>>) = strlwc(<<>>)
    BY <1>6, <2>1 DEF NameIn
  <2> QED
    BY <2>2
<1> QED
  BY <1>2, <1>4, <1>5, <1>7, <1>8

LEMMA ValueLine ==
  ASSUME NEW x \in Seq(Tokens), NEW v \in Seq(Tokens), BeginsValueLine(x), strlwc(x) = x,
         Plain(v), NEW text, text = x \o <<"=">> \o v
  PROVE  /\ text \in Seq(Marked)
         /\ ~IsContinued(text)
         /\ iniparser_line(text) = "value"
         /\ KeyIn(text) = x
         /\ ValueIn(text) = v
<1>1. x \in Seq(Marked) /\ v \in Seq(Marked) /\ "=" \in Marked
  BY DEF Marked
<1> HIDE DEF Marked
<1>2. x # <<>> /\ Head(x) # "[" /\ Head(x) # ";" /\ Place(x, "=") = 0
  BY DEF BeginsValueLine
<1>3. text \in Seq(Marked) /\ text # <<>> /\ Head(text) = Head(x) /\ Len(x) >= 1
      /\ Len(x) \in Nat
  <2> DEFINE t == "="
             T == Marked
  <2>1. x \in Seq(T) /\ v \in Seq(T) /\ t \in T /\ x # <<>> /\ text = x \o <<t>> \o v
    BY <1>1, <1>2, Zenon
  <2> HIDE DEF t, T
  <2>2. /\ text \in Seq(T) /\ text # <<>> /\ Head(text) = Head(x)
        /\ Len(x) >= 1 /\ Len(x) \in Nat
    BY <2>1, BeginOfLine
  <2> QED
    BY <2>2 DEF T
<1>4. Place(text, "=") = Len(x) + 1 /\ Before(text, "=") = x /\ After(text, "=") = v
  <2> DEFINE t == "="
  <2>1. Place(x, t) = 0 /\ t \in Marked /\ TextParts(text, x, t, v)
    BY <1>1, <1>2, Zenon DEF TextParts
  <2> HIDE DEF t
  <2>2. Place(text, t) = Len(x) + 1 /\ Before(text, t) = x /\ After(text, t) = v
    BY <1>1, <2>1, MarkBetween
  <2> QED
    BY <2>2 DEF t
<1>5. \A t \in {";", Quote, Backslash} : Before(v, t) = v /\ \A i \in 1 .. Len(v) : v[i] # t
  BY NotThere DEF Plain
<1>6. text[Len(text)] = IF v = <<>> THEN "=" ELSE v[Len(v)]
  BY <1>1
<1>7. v # <<>> => Len(v) \in 1 .. Len(v) /\ Head(v) = v[1] /\ 1 \in 1 .. Len(v)
  OBVIOUS
<1>8. ~IsContinued(text)
  <2>1. text[Len(text)] # Backslash
    BY <1>5, <1>6, <1>7, IniFileAssumption
  <2> QED
    BY <2>1 DEF IsContinued, Last
<1>9. iniparser_line(text) = "value"
  <2>1. Place(text, "=") > 1
    BY <1>3, <1>4
  <2>2. ~IsComment(text) /\ ~IsSection(text)
    BY <1>2, <1>3, Zenon DEF IsComment, IsSection
  <2> QED
    BY <1>3, <2>1, <2>2, Zenon DEF iniparser_line, IsValue
<1>10. KeyIn(text) = x
  BY <1>4 DEF KeyIn
<1>11. ValueIn(text) = v
  <2>1. v # <<>> => Head(v) # Quote
    BY <1>5, <1>7
  <2>2. v # <<Quote, Quote>>
    <3>1. v # <<>> => v[1] # Quote
      BY <2>1, <1>7
    <3> QED
      BY <3>1
  <2>3. Before(v, ";") = v
    BY <1>5
  <2> QED
    BY <1>4, <2>1, <2>2, <2>3 DEF ValueIn
<1> QED
  BY <1>3, <1>8, <1>9, <1>10, <1>11
-----------------------------------------------------------------------------
(* The order the entries are saved in                                      *)

\* Names are kept in lower case.
LowerNames == dict # None => \A k \in Keys(dict) : Entry(k) = k

Savable == dict # None /\ Consistent(dict) /\ CanBeSaved(dict) /\ LowerNames

NamesASection(k) ==
  /\ k = <<k[1]>> /\ k[1] \in Seq(Tokens) /\ Len(k) = 1
  /\ Contents[k] = NULL
  /\ NamesSectionLine(k[1]) /\ strlwc(k[1]) = k[1]

NamesAValue(k) ==
  /\ k = <<k[1], k[2]>> /\ k[1] \in Seq(Tokens) /\ k[2] \in Seq(Tokens) /\ Len(k) = 2
  /\ <<k[1]>> \in Keys(dict)
  /\ BeginsValueLine(k[2]) /\ strlwc(k[2]) = k[2]
  /\ Contents[k] \in Seq(Tokens) /\ Plain(Contents[k])
  /\ dictionary_get(dict, k, NULL) = Contents[k]

LEMMA PairOfTwo ==
  ASSUME NEW T, NEW k \in Seq(T), Len(k) = 2
  PROVE  k = <<k[1], k[2]>> /\ k[1] \in T /\ k[2] \in T /\ 2 \in DOMAIN k
<1>1. DOMAIN k = 1 .. 2 /\ k[1] \in T /\ k[2] \in T
  OBVIOUS
<1> DEFINE w == <<k[1], k[2]>>
<1>2. w \in Seq(T) /\ Len(w) = 2 /\ w[1] = k[1] /\ w[2] = k[2]
  BY <1>1
<1> HIDE DEF w
<1>3. \A i \in 1 .. Len(k) : k[i] = w[i]
  BY <1>2
<1>4. k = w
  BY <1>2, <1>3, SeqEqual
<1> QED
  BY <1>1, <1>4 DEF w

LEMMA OneOfOne ==
  ASSUME NEW T, NEW k \in Seq(T), Len(k) = 1
  PROVE  k = <<k[1]>> /\ k[1] \in T /\ 1 \in DOMAIN k
  OBVIOUS

LEMMA PlainIsSome == ASSUME NEW v, Plain(v) PROVE v # NULL
  BY Zenon DEF Plain

LEMMA EntryForms ==
  ASSUME Savable, NEW k \in Keys(dict)
  PROVE  NamesASection(k) \/ NamesAValue(k)
<1>1. dict # None /\ IsDictionary(dict) /\ Consistent(dict) /\ CanBeSaved(dict) /\ Entry(k) = k
  BY DEF Savable, Consistent, LowerNames
<1>2. k \in Seq(Seq(Tokens))
  <2>1. k \in Names
    BY <1>1 DEF Keys, IsDictionary, Used
  <2> QED
    BY <2>1, IniFileAssumption
<1>3. Contents = [x \in Keys(dict) |-> dictionary_get(dict, x, NULL)]
  BY <1>1 DEF Contents, ContentsOf, Keys
<1>4. Contents[k] = dictionary_get(dict, k, NULL)
  BY <1>3
<1>5. Contents[k] \in Seq(Tokens) \cup {NULL}
  <2>0. PICK i \in Used(dict) : k = dict.key[i]
    BY DEF Keys
  <2>1. ContentsOf(dict)[k] = dict.val[i]
    BY <1>1, <2>0, ContentsOfSlots
  <2>2. dict.val[i] \in Values \cup {NULL}
    BY <1>1, <2>0 DEF IsDictionary, Used
  <2> QED
    BY <1>1, <2>1, <2>2, IniFileAssumption DEF Contents
<1>6. \/ Len(k) = 1 /\ Contents[k] = NULL /\ NamesSectionLine(k[1])
      \/ /\ Len(k) = 2 /\ <<k[1]>> \in Keys(dict)
         /\ BeginsValueLine(k[2]) /\ Plain(Contents[k])
  BY <1>1 DEF CanBeSaved, Entries, Keys
<1>7. \A i \in DOMAIN k : strlwc(k[i]) = k[i]
  <2>1. \A i \in DOMAIN k : Entry(k)[i] = strlwc(k[i])
    BY DEF Entry
  <2> QED
    BY <1>1, <2>1
<1>8. CASE Len(k) = 1 /\ Contents[k] = NULL /\ NamesSectionLine(k[1])
  <2>0. Len(k) = 1
    BY <1>8
  <2>1. k = <<k[1]>> /\ k[1] \in Seq(Tokens) /\ 1 \in DOMAIN k
    BY <1>2, <2>0, OneOfOne
  <2> QED
    BY <1>7, <1>8, <2>1 DEF NamesASection
<1>9. CASE /\ Len(k) = 2 /\ <<k[1]>> \in Keys(dict)
           /\ BeginsValueLine(k[2]) /\ Plain(Contents[k])
  <2>0. Len(k) = 2
    BY <1>9
  <2>1. k = <<k[1], k[2]>> /\ k[1] \in Seq(Tokens) /\ k[2] \in Seq(Tokens) /\ 2 \in DOMAIN k
    BY <1>2, <2>0, PairOfTwo
  <2>2. Contents[k] \in Seq(Tokens)
    BY <1>5, <1>9, PlainIsSome
  <2> QED
    BY <1>4, <1>7, <1>9, <2>1, <2>2 DEF NamesAValue
<1> QED
  BY <1>6, <1>8, <1>9

\* The line of an entry.
LineOf(k) == IF Len(k) = 1 THEN <<"[">> \o k[1] \o <<"]">> ELSE Assignment(dict, k, k[2])

\* What the parser finds in it.
ReadsAs(text, k) ==
  /\ text \in Seq(Marked)
  /\ ~IsContinued(text)
  /\ iniparser_line(text) = IF Len(k) = 1 THEN "section" ELSE "value"
  /\ Len(k) = 1 => /\ NameIn(text, <<>>) = k[1]
                   /\ k[1] # <<>> => \A old : NameIn(text, old) = k[1]
  /\ Len(k) = 2 => KeyIn(text) = k[2] /\ ValueIn(text) = Contents[k]
  /\ Len(k) = 1 => Contents[k] = NULL

LEMMA LineReadsAs ==
  ASSUME Savable, NEW k \in Keys(dict)
  PROVE  ReadsAs(LineOf(k), k)
<1> DEFINE text == LineOf(k)
<1>1. CASE NamesASection(k)
  <2> DEFINE s == k[1]
  <2>1. s \in Seq(Tokens) /\ NamesSectionLine(s) /\ strlwc(s) = s
        /\ Len(k) = 1 /\ Contents[k] = NULL
    BY <1>1 DEF NamesASection
  <2>a. Len(k) # 2
    BY <2>1
  <2>2. text = <<"[">> \o s \o <<"]">>
    BY <2>1 DEF LineOf
  <2> HIDE DEF text, s
  <2>3. /\ text \in Seq(Marked)
        /\ ~IsContinued(text)
        /\ iniparser_line(text) = "section"
        /\ NameIn(text, <<>>) = s
        /\ s # <<>> => \A old : NameIn(text, old) = s
    BY <2>1, <2>2, SectionLine
  <2>4. ReadsAs(text, k)
    BY <2>1, <2>a, <2>3, Zenon DEF ReadsAs, s
  <2> QED
    BY <2>4 DEF text
<1>2. CASE NamesAValue(k)
  <2> DEFINE x == k[2]
             v == Contents[k]
  <2>1. x \in Seq(Tokens) /\ v \in Seq(Tokens) /\ BeginsValueLine(x)
        /\ strlwc(x) = x /\ Plain(v) /\ Len(k) = 2
        /\ dictionary_get(dict, k, NULL) = v
    BY <1>2, Zenon DEF NamesAValue
  <2>a. Len(k) # 1
    BY <2>1
  <2>b. v # NULL
    BY <2>1, PlainIsSome
  <2>2. text = x \o <<"=">> \o v
    BY <2>1, <2>a, <2>b DEF LineOf, Assignment
  <2> HIDE DEF text, x, v
  <2>3. /\ text \in Seq(Marked)
        /\ ~IsContinued(text)
        /\ iniparser_line(text) = "value"
        /\ KeyIn(text) = x
        /\ ValueIn(text) = v
    BY <2>1, <2>2, ValueLine
  <2>4. ReadsAs(text, k)
    BY <2>1, <2>a, <2>3, Zenon DEF ReadsAs, x, v
  <2> QED
    BY <2>4 DEF text
<1> QED
  BY <1>1, <1>2, EntryForms

\* Every line of a text, its entry, and the entry of the line before.
Follows(order, i) ==
  \/ Len(order[i]) = 1 /\ (order[i] = <<<<>>>> => i = 1)
  \/ i > 1 /\ Len(order[i]) = 2 /\ order[i - 1][1] = order[i][1]

IsSaved(order, text) ==
  /\ order \in Seq(Keys(dict))
  /\ text \in Seq(Seq(Marked)) /\ Len(text) = Len(order)
  /\ \A i \in 1 .. Len(order) : text[i] = LineOf(order[i]) /\ Follows(order, i)

Holds(order, k) == \E i \in 1 .. Len(order) : order[i] = k

\* The entries of a section.
BlockOf(s) == <<<<s>>>> \o SectionKeys(dict, s)

IsBlock(order, text, s) ==
  /\ order \in Seq(Keys(dict))
  /\ text \in Seq(Seq(Marked)) /\ Len(text) = Len(order)
  /\ \A i \in 1 .. Len(order) : text[i] = LineOf(order[i])
  /\ Len(order) > 0 /\ order[1] = <<s>>
  /\ \A i \in 2 .. Len(order) : Len(order[i]) = 2 /\ order[i][1] = s

LEMMA PutBefore ==
  ASSUME NEW T, NEW x \in T, NEW r \in Seq(T), NEW n, Len(r) = n
  PROVE  /\ <<x>> \o r \in Seq(T) /\ Len(<<x>> \o r) = n + 1 /\ n \in Nat
         /\ \A i \in 1 .. n + 1 : (<<x>> \o r)[i] = IF i = 1 THEN x ELSE r[i - 1]
  OBVIOUS

LEMMA LineIsMarked ==
  ASSUME Savable, NEW k \in Keys(dict)
  PROVE  LineOf(k) \in Seq(Marked)
  BY LineReadsAs DEF ReadsAs

LEMMA KeysOfSection ==
  ASSUME Savable, NEW s
  PROVE  /\ SectionKeys(dict, s) \in Seq(Keys(dict))
         /\ \A j \in 1 .. Len(SectionKeys(dict, s)) :
              Len(SectionKeys(dict, s)[j]) = 2 /\ SectionKeys(dict, s)[j][1] = s
         /\ \A k \in Keys(dict) : Len(k) = 2 /\ k[1] = s => Holds(SectionKeys(dict, s), k)
<1> DEFINE slots == {i \in Used(dict) : Len(dict.key[i]) = 2 /\ dict.key[i][1] = s}
           names == SectionKeys(dict, s)
<1>1. IsDictionary(dict)
  BY DEF Savable, Consistent
<1>2. slots \in SUBSET Used(dict) /\ names = NamesIn(dict, slots)
  BY DEF SectionKeys
<1>3. \A k : k \in SlotsListed(dict, slots) <=> k \in Keys(dict) /\ Len(k) = 2 /\ k[1] = s
  BY DEF SlotsListed, Keys
<1> HIDE DEF slots, names
<1>4. /\ names \in Seq(SlotsListed(dict, slots))
      /\ \A k \in SlotsListed(dict, slots) : \E j \in DOMAIN names : names[j] = k
  BY <1>1, <1>2, NamesInFacts
<1>5. DOMAIN names = 1 .. Len(names) /\ \A j \in 1 .. Len(names) : names[j] \in SlotsListed(dict, slots)
  BY <1>4
<1>6. names \in Seq(Keys(dict))
  <2>1. SlotsListed(dict, slots) \subseteq Keys(dict)
    BY <1>3
  <2> QED
    BY <1>4, <2>1, SeqMonotonic
<1>7. \A k \in Keys(dict) : Len(k) = 2 /\ k[1] = s => Holds(names, k)
  BY <1>3, <1>4, <1>5, Zenon DEF Holds
<1>8. \A j \in 1 .. Len(names) : Len(names[j]) = 2 /\ names[j][1] = s
  BY <1>3, <1>5
<1> QED
  BY <1>6, <1>7, <1>8 DEF names

LEMMA BlockIsOf ==
  ASSUME Savable, NEW s, <<s>> \in Keys(dict)
  PROVE  /\ IsBlock(BlockOf(s), DumpSection(dict, s), s)
         /\ Holds(BlockOf(s), <<s>>)
         /\ \A k \in Keys(dict) : Len(k) = 2 /\ k[1] = s => Holds(BlockOf(s), k)
<1> DEFINE names == SectionKeys(dict, s)
           order == BlockOf(s)
           rest == [j \in DOMAIN names |-> Assignment(dict, names[j], names[j][2])]
           first == <<(<<"[">> \o s \o <<"]">>)>>
           text == DumpSection(dict, s)
<1>1. /\ names \in Seq(Keys(dict))
      /\ \A j \in 1 .. Len(names) : Len(names[j]) = 2 /\ names[j][1] = s
      /\ \A k \in Keys(dict) : Len(k) = 2 /\ k[1] = s => Holds(names, k)
  BY KeysOfSection
<1>2. order = <<<<s>>>> \o names
  BY DEF BlockOf
<1>3. text = first \o rest
  BY DEF DumpSection
<1> DEFINE n == Len(names)
<1> HIDE DEF names, order, text
<1>4. n \in Nat /\ DOMAIN names = 1 .. n /\ \A j \in 1 .. n : names[j] \in Keys(dict)
  BY <1>1
<1>a. \A j \in 1 .. n : Len(names[j]) = 2 /\ names[j][1] = s
  BY <1>1, Zenon
<1>b. \A j \in 1 .. n : rest[j] = Assignment(dict, names[j], names[j][2])
  BY <1>4
<1> HIDE DEF rest
<1>5. \A j \in 1 .. n : rest[j] = LineOf(names[j])
  <2> SUFFICES ASSUME NEW j \in 1 .. n PROVE rest[j] = LineOf(names[j])
    OBVIOUS
  <2>0. Len(names[j]) = 2
    BY <1>a, Zenon
  <2>1. Len(names[j]) # 1
    BY <2>0
  <2> QED
    BY <1>b, <2>1 DEF LineOf
<1>6. rest \in Seq(Seq(Marked)) /\ Len(rest) = n
  <2>1. \A j \in 1 .. n : rest[j] \in Seq(Marked)
    BY <1>4, <1>5, LineIsMarked
  <2>2. DOMAIN rest = 1 .. n /\ rest = [j \in 1 .. n |-> rest[j]]
    BY <1>4 DEF rest
  <2>3. rest \in [1 .. n -> Seq(Marked)]
    BY <2>1, <2>2
  <2> QED
    BY <1>4, <2>3
<1>7. LineOf(<<s>>) = <<"[">> \o s \o <<"]">>
  BY DEF LineOf
<1>8. first = <<LineOf(<<s>>)>> /\ LineOf(<<s>>) \in Seq(Marked)
  BY <1>7, LineIsMarked
<1> HIDE DEF first, n
<1>10. text \in Seq(Seq(Marked)) /\ Len(text) = n + 1
       /\ \A i \in 1 .. n + 1 : text[i] = IF i = 1 THEN LineOf(<<s>>) ELSE rest[i - 1]
  <2> DEFINE x == LineOf(<<s>>)
             T == Seq(Marked)
  <2>1. x \in T /\ rest \in Seq(T) /\ Len(rest) = n /\ text = <<x>> \o rest
    BY <1>3, <1>6, <1>8
  <2> HIDE DEF x, T
  <2>2. /\ text \in Seq(T) /\ Len(text) = n + 1
        /\ \A i \in 1 .. n + 1 : text[i] = IF i = 1 THEN x ELSE rest[i - 1]
    BY <2>1, PutBefore
  <2> QED
    BY <2>2 DEF x, T
<1>11. order \in Seq(Keys(dict)) /\ Len(order) = n + 1
       /\ \A i \in 1 .. n + 1 : order[i] = IF i = 1 THEN <<s>> ELSE names[i - 1]
  <2> DEFINE x == <<s>>
             T == Keys(dict)
  <2>1. x \in T /\ names \in Seq(T) /\ Len(names) = n /\ order = <<x>> \o names
    BY <1>1, <1>2, Zenon DEF n
  <2> HIDE DEF x, T
  <2>2. /\ order \in Seq(T) /\ Len(order) = n + 1
        /\ \A i \in 1 .. n + 1 : order[i] = IF i = 1 THEN x ELSE names[i - 1]
    BY <2>1, PutBefore
  <2> QED
    BY <2>2 DEF x, T
<1>12. \A i \in 2 .. n + 1 : i - 1 \in 1 .. n /\ i # 1 /\ i \in 1 .. n + 1
  BY <1>4
<1>13. n + 1 \in Nat /\ 1 \in 1 .. n + 1 /\ n + 1 > 0
  BY <1>4
<1>14. \A i \in 1 .. n + 1 : text[i] = LineOf(order[i])
  <2> SUFFICES ASSUME NEW i \in 1 .. n + 1 PROVE text[i] = LineOf(order[i])
    OBVIOUS
  <2>1. CASE i = 1
    BY <1>10, <1>11, <2>1
  <2>2. CASE i # 1
    <3>1. i - 1 \in 1 .. n
      BY <1>4, <2>2
    <3> QED
      BY <1>5, <1>10, <1>11, <2>2, <3>1
  <2> QED
    BY <2>1, <2>2
<1>15. \A i \in 2 .. n + 1 : Len(order[i]) = 2 /\ order[i][1] = s
  <2>1. \A i \in 2 .. n + 1 : order[i] = names[i - 1]
    BY <1>11, <1>12
  <2> QED
    BY <1>a, <1>12, <2>1
<1>16. order[1] = <<s>>
  BY <1>11, <1>13
<1>17. IsBlock(order, text, s)
  BY <1>10, <1>11, <1>13, <1>14, <1>15, <1>16 DEF IsBlock
<1>18. Holds(order, <<s>>)
  BY <1>11, <1>13, <1>16 DEF Holds
<1>19. ASSUME NEW k \in Keys(dict), Len(k) = 2 /\ k[1] = s PROVE Holds(order, k)
  <2>1. PICK j \in 1 .. n : names[j] = k
    BY <1>1, <1>19 DEF Holds, n
  <2>2. j + 1 \in 1 .. n + 1 /\ j + 1 # 1 /\ (j + 1) - 1 = j
    BY <1>4
  <2>3. order[j + 1] = k
    BY <1>11, <2>1, <2>2
  <2> QED
    BY <1>11, <2>2, <2>3 DEF Holds
<1> QED
  BY <1>17, <1>18, <1>19 DEF order, text

LEMMA BlockAppended ==
  ASSUME Savable, NEW o, NEW t, IsSaved(o, t), NEW b, NEW u, NEW s, IsBlock(b, u, s),
         s = <<>> => o = <<>>
  PROVE  /\ IsSaved(o \o b, t \o u)
         /\ \A k : Holds(o, k) \/ Holds(b, k) => Holds(o \o b, k)
<1> DEFINE n == Len(o)
           m == Len(b)
           order == o \o b
           text == t \o u
<1>1. /\ o \in Seq(Keys(dict)) /\ t \in Seq(Seq(Marked)) /\ Len(t) = n
      /\ \A i \in 1 .. n : t[i] = LineOf(o[i]) /\ Follows(o, i)
  BY DEF IsSaved
<1>2. /\ b \in Seq(Keys(dict)) /\ u \in Seq(Seq(Marked)) /\ Len(u) = m
      /\ \A i \in 1 .. m : u[i] = LineOf(b[i])
      /\ m > 0 /\ b[1] = <<s>>
      /\ \A i \in 2 .. m : Len(b[i]) = 2 /\ b[i][1] = s
  BY DEF IsBlock
<1>3. n \in Nat /\ m \in Nat
  BY <1>1, <1>2
<1>4. order \in Seq(Keys(dict)) /\ Len(order) = n + m
      /\ \A i \in 1 .. n + m : order[i] = IF i <= n THEN o[i] ELSE b[i - n]
  BY <1>1, <1>2, ConcatProperties
<1>5. text \in Seq(Seq(Marked)) /\ Len(text) = n + m
      /\ \A i \in 1 .. n + m : text[i] = IF i <= n THEN t[i] ELSE u[i - n]
  <2>1. Len(t) = n /\ Len(u) = m
    BY <1>1, <1>2
  <2> DEFINE T == Seq(Marked)
  <2>2. t \in Seq(T) /\ u \in Seq(T)
    BY <1>1, <1>2
  <2> HIDE DEF T, n, m
  <2>3. /\ text \in Seq(T) /\ Len(text) = Len(t) + Len(u)
        /\ \A i \in 1 .. Len(t) + Len(u) :
             text[i] = IF i <= Len(t) THEN t[i] ELSE u[i - Len(t)]
    BY <2>2, ConcatProperties
  <2> QED
    BY <2>1, <2>3, Zenon DEF T
<1>6. n = 0 <=> o = <<>>
  BY <1>1
<1> HIDE DEF n, m, order, text
<1>7. ASSUME NEW i \in 1 .. n + m
      PROVE  text[i] = LineOf(order[i]) /\ Follows(order, i)
  <2>1. CASE i <= n
    <3>1. i \in 1 .. n /\ (i > 1 => i - 1 \in 1 .. n + m /\ i - 1 <= n)
      BY <1>3, <2>1
    <3>2. order[i] = o[i] /\ text[i] = t[i] /\ (i > 1 => order[i - 1] = o[i - 1])
      BY <1>4, <1>5, <2>1, <3>1
    <3>3. t[i] = LineOf(o[i]) /\ Follows(o, i)
      BY <1>1, <3>1
    <3> QED
      BY <3>2, <3>3, Zenon DEF Follows
  <2>2. CASE ~(i <= n)
    <3> DEFINE j == i - n
    <3>1. j \in 1 .. m /\ i \in Nat /\ (j # 1 => j \in 2 .. m /\ i > 1) /\ (j = 1 => i = n + 1)
      BY <1>3, <2>2
    <3>2. order[i] = b[j] /\ text[i] = u[j] /\ u[j] = LineOf(b[j])
      BY <1>2, <1>4, <1>5, <2>2, <3>1
    <3>3. CASE j = 1
      <4>1. order[i] = <<s>>
        BY <1>2, <3>2, <3>3
      <4>2. Len(order[i]) = 1
        BY <4>1
      <4>3. order[i] = <<<<>>>> => s = <<>>
        BY <4>1
      <4>4. s = <<>> => i = 1
        BY <1>3, <1>6, <3>1, <3>3
      <4> QED
        BY <3>2, <4>2, <4>3, <4>4 DEF Follows
    <3>4. CASE j # 1
      <4>1. Len(b[j]) = 2 /\ b[j][1] = s /\ i > 1
        BY <1>2, <3>1, <3>4
      <4>2. i - 1 \in 1 .. n + m /\ ~(i - 1 <= n) /\ (i - 1) - n = j - 1 /\ j - 1 \in 1 .. m
            /\ (j - 1 # 1 => j - 1 \in 2 .. m)
        BY <1>3, <2>2, <3>1, <3>4
      <4>3. order[i - 1] = b[j - 1]
        BY <1>4, <4>2
      <4>4. b[j - 1][1] = s
        <5>1. CASE j - 1 = 1
          <6>1. b[j - 1] = <<s>>
            BY <1>2, <5>1
          <6> QED
            BY <6>1
        <5>2. CASE j - 1 # 1
          BY <1>2, <4>2, <5>2
        <5> QED
          BY <5>1, <5>2
      <4> QED
        BY <3>2, <4>1, <4>3, <4>4 DEF Follows
    <3> QED
      BY <3>3, <3>4
  <2> QED
    BY <2>1, <2>2
<1>8. IsSaved(order, text)
  BY <1>4, <1>5, <1>7 DEF IsSaved
<1>9. ASSUME NEW k, Holds(o, k) \/ Holds(b, k) PROVE Holds(order, k)
  <2>1. CASE Holds(o, k)
    <3>1. PICK i \in 1 .. n : o[i] = k
      BY <2>1 DEF Holds, n
    <3>2. i \in 1 .. n + m /\ i <= n
      BY <1>3
    <3> QED
      BY <1>4, <3>1, <3>2 DEF Holds
  <2>2. CASE Holds(b, k)
    <3>1. PICK i \in 1 .. m : b[i] = k
      BY <2>2 DEF Holds, m
    <3>2. n + i \in 1 .. n + m /\ ~(n + i <= n) /\ (n + i) - n = i
      BY <1>3
    <3> QED
      BY <1>4, <3>1, <3>2 DEF Holds
  <2> QED
    BY <1>9, <2>1, <2>2
<1> QED
  BY <1>8, <1>9 DEF order, text


-----------------------------------------------------------------------------
(* The text of a whole dictionary                                          *)

\* A step of FlattenSeq.
FlatStep(s, f, i) == IF i = 1 THEN s[i] ELSE f[i - 1] \o s[i]

IsFlat(s, n, f) == f = [i \in 1 .. n |-> FlatStep(s, f, i)]

\* A step depends on the one before it only.
LEMMA FlatDependsOnLast ==
  ASSUME NEW s, NEW v, NEW w, NEW i, i # 1 => v[i - 1] = w[i - 1]
  PROVE  FlatStep(s, v, i) = FlatStep(s, w, i)
<1>1. CASE i = 1
  BY <1>1, Zenon DEF FlatStep
<1>2. CASE i # 1
  BY <1>2, Zenon DEF FlatStep
<1> QED
  BY <1>1, <1>2

\* The recursion of FlattenSeq has a solution for every number of sequences.
LEMMA FlatExists ==
  ASSUME NEW s
  PROVE  \A n \in Nat : \E f : IsFlat(s, n, f)
<1> DEFINE G == {n \in Nat : \E f : IsFlat(s, n, f)}
<1>1. 0 \in G
  <2> DEFINE w == [i \in 1 .. 0 |-> FlatStep(s, <<>>, i)]
  <2>1. \A i \in 1 .. 0 : FlatStep(s, <<>>, i) = FlatStep(s, w, i)
    OBVIOUS
  <2>2. IsFlat(s, 0, w)
    BY <2>1, Zenon DEF IsFlat
  <2> QED
    BY <2>2
<1>2. ASSUME NEW n \in Nat, n \in G PROVE n + 1 \in G
  <2>1. PICK v : v = [i \in 1 .. n |-> FlatStep(s, v, i)]
    BY <1>2 DEF IsFlat
  <2> DEFINE w == [i \in 1 .. n + 1 |-> IF i = n + 1 THEN FlatStep(s, v, n + 1) ELSE v[i]]
  <2>2. ASSUME NEW i \in 1 .. n + 1 PROVE w[i] = FlatStep(s, w, i)
    <3>1. ASSUME i # 1 PROVE v[i - 1] = w[i - 1]
      <4>1. i - 1 \in 1 .. n + 1 /\ i - 1 # n + 1
        BY <3>1, <1>2
      <4> QED
        BY <4>1, Zenon
    <3> HIDE DEF w
    <3>2. FlatStep(s, v, i) = FlatStep(s, w, i)
      BY <3>1, FlatDependsOnLast, Zenon
    <3>3. CASE i = n + 1
      BY <3>2, <3>3, Zenon DEF w
    <3>4. CASE i # n + 1
      <4>1. i \in 1 .. n
        BY <3>4, <1>2
      <4>2. v[i] = FlatStep(s, v, i)
        BY <4>1, <2>1, Zenon
      <4> QED
        BY <4>2, <3>2, <3>4, Zenon DEF w
    <3> QED
      BY <3>3, <3>4
  <2>3. IsFlat(s, n + 1, w)
    <3> DEFINE u == [i \in 1 .. n + 1 |-> FlatStep(s, w, i)]
    <3>1. DOMAIN w = DOMAIN u /\ \A i \in DOMAIN w : w[i] = u[i]
      BY <2>2, Zenon
    <3>2. w = [i \in DOMAIN w |-> w[i]] /\ u = [i \in DOMAIN u |-> u[i]]
      OBVIOUS
    <3> HIDE DEF w, u
    <3>3. w = u
      BY <3>1, <3>2, Zenon
    <3> QED
      BY <3>3, Zenon DEF u, IsFlat
  <2> QED
    BY <2>3
<1>3. \A n \in Nat : n \in G
  <2> HIDE DEF G
  <2> QED
    BY <1>1, <1>2, SetInduction
<1> QED
  BY <1>3, Zenon

\* The steps of FlattenSeq.
Flattens(s, n, f) == \A i \in 1 .. n : f[i] = FlatStep(s, f, i)

\* FlattenSeq is the last of its steps.
LEMMA FlatUnfold ==
  ASSUME NEW S, NEW s \in Seq(S), s # <<>>
  PROVE  \E f : FlattenSeq(s) = f[Len(s)] /\ Flattens(s, Len(s), f)
<1> DEFINE f == CHOOSE v : v = [i \in 1 .. Len(s) |-> FlatStep(s, v, i)]
<1>1. Len(s) \in Nat /\ Len(s) # 0
  OBVIOUS
<1>2. \E v : v = [i \in 1 .. Len(s) |-> FlatStep(s, v, i)]
  <2>1. \E v : IsFlat(s, Len(s), v)
    BY <1>1, FlatExists
  <2> QED
    BY <2>1, Zenon DEF IsFlat
<1>3. f = [i \in 1 .. Len(s) |-> FlatStep(s, f, i)]
  BY <1>2, Zenon
<1>4. FlattenSeq(s) = f[Len(s)]
  BY <1>1, Zenon DEF FlattenSeq, FlatStep
<1> HIDE DEF f
<1>5. Flattens(s, Len(s), f)
  BY <1>3, Zenon DEF Flattens
<1> QED
  BY <1>4, <1>5

LEMMA SectionsListed ==
  ASSUME Savable
  PROVE  /\ Sections(dict) \in Seq(Keys(dict))
         /\ \A j \in 1 .. Len(Sections(dict)) : Sections(dict)[j] = <<Sections(dict)[j][1]>>
         /\ \A i, j \in 1 .. Len(Sections(dict)) : Sections(dict)[i] = Sections(dict)[j] => i = j
         /\ \A k \in Keys(dict) : Len(k) = 1 => Holds(Sections(dict), k)
<1> DEFINE slots == {i \in Used(dict) : Len(dict.key[i]) = 1}
           names == Sections(dict)
<1>1. IsDictionary(dict) /\ Distinct(dict)
  BY DEF Savable, Consistent
<1>2. slots \in SUBSET Used(dict) /\ names = NamesIn(dict, slots)
  BY DEF Sections
<1>3. \A k : k \in SlotsListed(dict, slots) <=> k \in Keys(dict) /\ Len(k) = 1
  BY DEF SlotsListed, Keys
<1> HIDE DEF slots, names
<1>4. /\ names \in Seq(SlotsListed(dict, slots))
      /\ \A k \in SlotsListed(dict, slots) : \E j \in DOMAIN names : names[j] = k
      /\ \A i, j \in DOMAIN names : names[i] = names[j] => i = j
  BY <1>1, <1>2, NamesInFacts
<1>5. DOMAIN names = 1 .. Len(names) /\ \A j \in 1 .. Len(names) : names[j] \in SlotsListed(dict, slots)
  BY <1>4
<1>6. names \in Seq(Keys(dict))
  <2>1. SlotsListed(dict, slots) \subseteq Keys(dict)
    BY <1>3
  <2> QED
    BY <1>4, <2>1, SeqMonotonic
<1>7. \A k \in Keys(dict) : Len(k) = 1 => Holds(names, k)
  BY <1>3, <1>4, <1>5, Zenon DEF Holds
<1>8. \A j \in 1 .. Len(names) : names[j] = <<names[j][1]>>
  <2> SUFFICES ASSUME NEW j \in 1 .. Len(names) PROVE names[j] = <<names[j][1]>>
    OBVIOUS
  <2> DEFINE k == names[j]
  <2>1. k \in Keys(dict) /\ Len(k) = 1
    BY <1>3, <1>5, Zenon
  <2> HIDE DEF k
  <2>2. Len(k) # 2
    BY <2>1
  <2>3. k = <<k[1]>>
    BY <2>1, <2>2, EntryForms, Zenon DEF NamesASection, NamesAValue
  <2> QED
    BY <2>3 DEF k
<1> QED
  BY <1>4, <1>5, <1>6, <1>7, <1>8 DEF names

\* An order has the name of a section and those of its keys.
HoldsSection(order, j) ==
  /\ Holds(order, Sections(dict)[j])
  /\ \A k \in Keys(dict) : Len(k) = 2 /\ k[1] = Sections(dict)[j][1] => Holds(order, k)

SavedUpTo(order, text, m) == IsSaved(order, text) /\ \A j \in 1 .. m : HoldsSection(order, j)

LEMMA NextBlock ==
  ASSUME Savable, NEW o, NEW t, NEW m \in Nat, SavedUpTo(o, t, m),
         m + 1 \in 1 .. Len(Sections(dict)), m = 0 => o = <<>>
  PROVE  \E order : SavedUpTo(order, t \o DumpSection(dict, Sections(dict)[m + 1][1]), m + 1)
<1> DEFINE k == Sections(dict)[m + 1]
           s == k[1]
           b == BlockOf(s)
           u == DumpSection(dict, s)
<1>1. k \in Keys(dict) /\ k = <<s>>
  BY SectionsListed
<1>2. s = <<>> => o = <<>>
  <2>1. ASSUME s = <<>> PROVE m + 1 = 1
    <3>1. <<<<>>>> \in Keys(dict)
      BY <1>1, <2>1
    <3>2. Sections(dict)[1] = <<<<>>>>
      BY <3>1 DEF Savable, CanBeSaved, Entries, Keys
    <3>3. Sections(dict)[m + 1] = <<<<>>>>
      BY <1>1, <2>1
    <3>4. 1 \in 1 .. Len(Sections(dict))
      BY SectionsListed
    <3> QED
      BY <3>2, <3>3, <3>4, SectionsListed, Zenon
  <2> QED
    BY <2>1
<1> HIDE DEF k, s
<1>3. /\ IsBlock(b, u, s)
      /\ Holds(b, <<s>>)
      /\ \A x \in Keys(dict) : Len(x) = 2 /\ x[1] = s => Holds(b, x)
  BY <1>1, BlockIsOf
<1> HIDE DEF b, u
<1>4. IsSaved(o, t) /\ \A j \in 1 .. m : HoldsSection(o, j)
  BY DEF SavedUpTo
<1>5. IsSaved(o \o b, t \o u) /\ \A x : Holds(o, x) \/ Holds(b, x) => Holds(o \o b, x)
  BY <1>2, <1>3, <1>4, BlockAppended
<1>6. \A j \in 1 .. m : HoldsSection(o \o b, j)
  BY <1>4, <1>5, Zenon DEF HoldsSection
<1>7. HoldsSection(o \o b, m + 1)
  <2>1. Holds(o \o b, k)
    BY <1>1, <1>3, <1>5
  <2>2. \A x \in Keys(dict) : Len(x) = 2 /\ x[1] = s => Holds(o \o b, x)
    BY <1>3, <1>5, Zenon
  <2> QED
    BY <2>1, <2>2, Zenon DEF HoldsSection, k, s
<1>8. SavedUpTo(o \o b, t \o u, m + 1)
  BY <1>5, <1>6, <1>7, NextLine, Zenon DEF SavedUpTo
<1> QED
  BY <1>8 DEF u, s, k

LEMMA NoLines ==
  ASSUME NEW t, t = <<>>
  PROVE  SavedUpTo(<<>>, t, 0)
<1>1. IsSaved(<<>>, t)
  BY DEF IsSaved
<1>2. 1 .. 0 = {}
  OBVIOUS
<1> QED
  BY <1>1, <1>2, Zenon DEF SavedUpTo

LEMMA SavedBlocks ==
  ASSUME Savable, NEW f,
         Flattens([j \in DOMAIN Sections(dict) |-> DumpSection(dict, Sections(dict)[j][1])],
                  Len(Sections(dict)), f)
  PROVE  \A m \in 1 .. Len(Sections(dict)) : \E order : SavedUpTo(order, f[m], m)
<1> DEFINE n == Len(Sections(dict))
           block(j) == DumpSection(dict, Sections(dict)[j][1])
           S == {m \in Nat : m + 1 \in 1 .. n => \E order : SavedUpTo(order, f[m + 1], m + 1)}
<1>1. n \in Nat /\ DOMAIN Sections(dict) = 1 .. n
  BY SectionsListed
<1>2. \A j \in 1 .. n : f[j] = IF j = 1 THEN block(1) ELSE f[j - 1] \o block(j)
  BY <1>1 DEF Flattens, FlatStep
<1>3. 0 \in S
  <2> SUFFICES ASSUME 0 + 1 \in 1 .. n PROVE \E order : SavedUpTo(order, f[1], 0 + 1)
    OBVIOUS
  <2> HIDE DEF n
  <2>1. PICK order : SavedUpTo(order, <<>> \o block(0 + 1), 0 + 1)
    <3>1. SavedUpTo(<<>>, <<>>, 0)
      BY NoLines
    <3> QED
      BY <3>1, NextBlock, Zenon DEF n
  <2>2. f[1] = block(1)
    BY <1>2
  <2>3. block(1) \in Seq(Seq(Marked))
    <3>1. <<Sections(dict)[1][1]>> \in Keys(dict)
      BY SectionsListed DEF n
    <3> QED
      BY <3>1, BlockIsOf DEF IsBlock
  <2>4. <<>> \o block(1) = block(1)
    BY <2>3, EmptyAtFront
  <2> HIDE DEF block
  <2> QED
    BY <2>1, <2>2, <2>4
<1>4. ASSUME NEW m \in Nat, m \in S PROVE m + 1 \in S
  <2> DEFINE p == m + 1
  <2>1. p \in Nat /\ p # 0 /\ p + 1 # 1 /\ (p + 1) - 1 = p
    OBVIOUS
  <2> SUFFICES ASSUME p + 1 \in 1 .. n PROVE \E order : SavedUpTo(order, f[p + 1], p + 1)
    BY <2>1
  <2>2. p \in 1 .. n
    BY <1>1
  <2>3. PICK o : SavedUpTo(o, f[p], p)
    BY <1>4, <2>2
  <2> HIDE DEF p
  <2>4. f[p + 1] = f[p] \o block(p + 1)
    BY <1>2, <2>1
  <2>5. \E order : SavedUpTo(order, f[p] \o block(p + 1), p + 1)
    BY <2>1, <2>3, NextBlock
  <2> QED
    BY <2>4, <2>5
<1>5. \A m \in Nat : m \in S
  <2> HIDE DEF S
  <2> QED
    BY <1>3, <1>4, SetInduction
<1>6. ASSUME NEW m \in 1 .. n PROVE \E order : SavedUpTo(order, f[m], m)
  <2>1. m - 1 \in Nat /\ (m - 1) + 1 = m
    BY <1>1
  <2>2. m - 1 \in S
    BY <1>5, <2>1
  <2> QED
    BY <2>1, <2>2
<1> QED
  BY <1>6

LEMMA NoSections ==
  ASSUME Savable, Len(Sections(dict)) = 0
  PROVE  Keys(dict) = {} /\ DumpIni(dict) = <<>>
<1>1. \A k \in Keys(dict) : Len(k) # 1
  BY SectionsListed DEF Holds
<1>2. Keys(dict) = {}
  <2> SUFFICES ASSUME NEW k \in Keys(dict) PROVE FALSE
    OBVIOUS
  <2>1. NamesAValue(k)
    BY <1>1, EntryForms DEF NamesASection
  <2>2. <<k[1]>> \in Keys(dict) /\ Len(<<k[1]>>) = 1
    BY <2>1 DEF NamesAValue
  <2> QED
    BY <1>1, <2>2
<1> DEFINE all == NamesIn(dict, Used(dict))
<1>3. Used(dict) = {}
  BY <1>2 DEF Keys
<1>4. all \in Seq(SlotsListed(dict, Used(dict))) /\ Len(all) = 0
  BY <1>3, NamesInFacts DEF Savable, Consistent
<1>5. DOMAIN all = 1 .. 0
  BY <1>4
<1>6. DumpIni(dict) = [j \in DOMAIN all |-> Assignment(dict, all[j], all[j][1] \o <<":">> \o all[j][2])]
  BY DEF DumpIni, iniparser_getnsec, Savable
<1> HIDE DEF all
<1>7. DumpIni(dict) \in [1 .. 0 -> {}]
  BY <1>5, <1>6
<1> QED
  BY <1>2, <1>7

\* The saved lines are those of the entries, each section before its keys.
LEMMA SavedOrder ==
  ASSUME Savable
  PROVE  \E order : IsSaved(order, DumpIni(dict)) /\ \A k \in Keys(dict) : Holds(order, k)
<1> DEFINE n == Len(Sections(dict))
           s == [j \in DOMAIN Sections(dict) |-> DumpSection(dict, Sections(dict)[j][1])]
<1>1. n \in Nat /\ DOMAIN Sections(dict) = 1 .. n
  BY SectionsListed
<1>2. CASE n = 0
  <2>1. DumpIni(dict) = <<>> /\ Keys(dict) = {}
    BY <1>2, NoSections
  <2>2. IsSaved(<<>>, DumpIni(dict))
    BY <2>1, NoLines DEF SavedUpTo
  <2> QED
    BY <2>1, <2>2
<1>3. CASE n # 0
  <2>1. DumpIni(dict) = FlattenSeq(s)
    BY <1>1, <1>3 DEF DumpIni, iniparser_getnsec, Savable
  <2>2. s \in Seq(Seq(Seq(Marked))) /\ Len(s) = n /\ s # <<>>
    <3>1. \A j \in 1 .. n : DumpSection(dict, Sections(dict)[j][1]) \in Seq(Seq(Marked))
      <4> SUFFICES ASSUME NEW j \in 1 .. n
                   PROVE  DumpSection(dict, Sections(dict)[j][1]) \in Seq(Seq(Marked))
        OBVIOUS
      <4>1. <<Sections(dict)[j][1]>> \in Keys(dict)
        BY SectionsListed
      <4> QED
        BY <4>1, BlockIsOf DEF IsBlock
    <3> DEFINE T == Seq(Seq(Marked))
    <3>2. s \in [1 .. n -> T]
      BY <1>1, <3>1
    <3> HIDE DEF T, s, n
    <3>3. s \in Seq(T) /\ Len(s) = n /\ s # <<>>
      BY <1>1, <1>3, <3>2
    <3> QED
      BY <3>3 DEF T
  <2> HIDE DEF s
  <2>3. PICK f : FlattenSeq(s) = f[Len(s)] /\ Flattens(s, Len(s), f)
    BY <2>2, FlatUnfold
  <2>4. Flattens(s, n, f) /\ DumpIni(dict) = f[n]
    BY <2>1, <2>2, <2>3
  <2>5. n \in 1 .. n
    BY <1>1, <1>3
  <2>6. PICK order : SavedUpTo(order, f[n], n)
    BY <2>4, <2>5, SavedBlocks DEF s
  <2>7. ASSUME NEW k \in Keys(dict) PROVE Holds(order, k)
    <3>1. \A x \in Keys(dict) : Len(x) = 1 => \E j \in 1 .. n : Sections(dict)[j] = x
      BY SectionsListed, Zenon DEF Holds
    <3>2. CASE NamesASection(k)
      <4>1. PICK j \in 1 .. n : Sections(dict)[j] = k
        BY <3>1, <3>2, Zenon DEF NamesASection
      <4> QED
        BY <2>6, <4>1, Zenon DEF SavedUpTo, HoldsSection
    <3>3. CASE NamesAValue(k)
      <4>1. <<k[1]>> \in Keys(dict) /\ Len(k) = 2
        BY <3>3, Zenon DEF NamesAValue
      <4>2. Len(<<k[1]>>) = 1
        OBVIOUS
      <4>3. PICK j \in 1 .. n : Sections(dict)[j] = <<k[1]>>
        BY <3>1, <4>1, <4>2, Zenon
      <4>4. Sections(dict)[j][1] = k[1]
        BY <4>3
      <4> QED
        BY <2>6, <4>1, <4>4, Zenon DEF SavedUpTo, HoldsSection
    <3> QED
      BY <3>2, <3>3, EntryForms
  <2> QED
    BY <2>4, <2>6, <2>7 DEF SavedUpTo
<1> QED
  BY <1>2, <1>3

-----------------------------------------------------------------------------
(* What the saved lines mean                                               *)

LEMMA NothingIsContinued ==
  ASSUME NEW T, NEW f \in Seq(T), \A i \in 1 .. Len(f) : ~IsContinued(f[i])
  PROVE  \A i \in 1 .. Len(f) : Joined(f, i) = f[i]
<1> DEFINE S == {n \in Nat : n \in 1 .. Len(f) => Joined(f, n) = f[n]}
<1>0. Len(f) \in Nat
  OBVIOUS
<1>1. 0 \in S
  OBVIOUS
<1>2. ASSUME NEW n \in Nat, n \in S PROVE n + 1 \in S
  <2> SUFFICES ASSUME n + 1 \in 1 .. Len(f) PROVE Joined(f, n + 1) = f[n + 1]
    OBVIOUS
  <2>1. (n + 1) - 1 = n /\ (n + 1 > 1 => n \in 1 .. Len(f))
    BY <1>0
  <2>2. Joined(f, n + 1) = IF n + 1 > 1 /\ IsContinued(Joined(f, n))
                             THEN Front(Joined(f, n)) \o f[n + 1] ELSE f[n + 1]
    BY <2>1, JoinedUnfolds
  <2>3. ~(n + 1 > 1 /\ IsContinued(Joined(f, n)))
    BY <1>2, <2>1
  <2> QED
    BY <2>2, <2>3
<1>3. \A n \in Nat : n \in S
  <2> HIDE DEF S
  <2> QED
    BY <1>1, <1>2, SetInduction
<1> QED
  BY <1>3

\* Every line is whole and is read as the one entry it was written for.
LEMMA SavedLines ==
  ASSUME Savable, NEW order, NEW f, IsSaved(order, f), NEW i \in 1 .. Len(f)
  PROVE  /\ order[i] \in Keys(dict) /\ ReadsAs(f[i], order[i]) /\ Follows(order, i)
         /\ NamesASection(order[i]) \/ NamesAValue(order[i])
         /\ Joined(f, i) = f[i] /\ Whole(f, i)
         /\ Status(f, i) = IF Len(order[i]) = 1 THEN "section" ELSE "value"
<1>1. /\ order \in Seq(Keys(dict)) /\ f \in Seq(Seq(Marked)) /\ Len(f) = Len(order)
      /\ \A j \in 1 .. Len(f) : f[j] = LineOf(order[j]) /\ Follows(order, j)
  BY DEF IsSaved
<1>2. \A j \in 1 .. Len(f) : order[j] \in Keys(dict)
  BY <1>1
<1>3. \A j \in 1 .. Len(f) : ReadsAs(f[j], order[j])
  BY <1>1, <1>2, LineReadsAs, Zenon
<1>4. \A j \in 1 .. Len(f) : ~IsContinued(f[j])
  BY <1>3, Zenon DEF ReadsAs
<1>5. Joined(f, i) = f[i]
  BY <1>1, <1>4, NothingIsContinued
<1>6. Whole(f, i)
  BY <1>4, <1>5, Zenon DEF Whole
<1>7. Status(f, i) = IF Len(order[i]) = 1 THEN "section" ELSE "value"
  BY <1>3, <1>5, Zenon DEF Status, ReadsAs
<1>8. NamesASection(order[i]) \/ NamesAValue(order[i])
  BY <1>2, EntryForms
<1> QED
  BY <1>1, <1>2, <1>3, <1>5, <1>6, <1>7, <1>8

LEMMA SavedSections ==
  ASSUME Savable, NEW order, NEW f, IsSaved(order, f)
  PROVE  \A i \in 1 .. Len(f) : SectionAt(f, i, {}) = order[i][1]
<1> DEFINE S == {n \in Nat : n \in 1 .. Len(f) => SectionAt(f, n, {}) = order[n][1]}
<1>0. Len(f) \in Nat /\ f \in Seq(Seq(Marked))
  BY DEF IsSaved
<1>1. 0 \in S
  OBVIOUS
<1>2. ASSUME NEW n \in Nat, n \in S PROVE n + 1 \in S
  <2> DEFINE p == n + 1
             k == order[p]
  <2> SUFFICES ASSUME p \in 1 .. Len(f) PROVE SectionAt(f, p, {}) = k[1]
    OBVIOUS
  <2>1. /\ k \in Keys(dict) /\ ReadsAs(f[p], k) /\ Follows(order, p)
        /\ NamesASection(k) \/ NamesAValue(k)
        /\ Joined(f, p) = f[p] /\ Whole(f, p)
        /\ Status(f, p) = IF Len(k) = 1 THEN "section" ELSE "value"
    BY SavedLines
  <2>2. SectionAt(f, p, {}) = IF NamesSection(f, p, {})
                                THEN NameIn(Joined(f, p), SectionAt(f, n, {}))
                                ELSE SectionAt(f, n, {})
    <3>1. n \in 0 .. Len(f) - 1
      BY <1>0
    <3> QED
      BY <1>0, <3>1, SectionUnfolds
  <2>3. p - 1 = n /\ (p > 1 => n \in 1 .. Len(f)) /\ (p = 1 => n = 0)
    BY <1>0
  <2> HIDE DEF k, p
  <2>4. CASE NamesASection(k)
    <3>1. k = <<k[1]>> /\ Len(k) = 1
      BY <2>4 DEF NamesASection
    <3>2. NamesSection(f, p, {})
      BY <2>1, <3>1 DEF NamesSection
    <3>3. NameIn(f[p], <<>>) = k[1] /\ (k[1] # <<>> => \A old : NameIn(f[p], old) = k[1])
      BY <2>1, <3>1, Zenon DEF ReadsAs
    <3>4. SectionAt(f, p, {}) = NameIn(f[p], SectionAt(f, n, {}))
      BY <2>1, <2>2, <3>2
    <3>5. CASE k[1] # <<>>
      BY <3>3, <3>4, <3>5
    <3>6. CASE k[1] = <<>>
      <4>1. k = <<<<>>>>
        BY <3>1, <3>6, Zenon
      <4>2. p = 1
        <5>1. Len(order[p]) # 2
          BY <3>1 DEF k
        <5> QED
          BY <2>1, <4>1, <5>1, Zenon DEF Follows, k
      <4>3. SectionAt(f, n, {}) = <<>>
        BY <1>0, <2>3, <4>2, SectionUnfolds
      <4> QED
        BY <3>3, <3>4, <4>3
    <3> QED
      BY <3>5, <3>6
  <2>5. CASE NamesAValue(k)
    <3>1. Len(k) = 2
      BY <2>5 DEF NamesAValue
    <3>2. Len(k) # 1
      BY <3>1
    <3>3. Status(f, p) # "section"
      BY <2>1, <3>2
    <3>4. p > 1 /\ order[n][1] = k[1]
      BY <2>1, <2>3, <3>2, Zenon DEF Follows, k
    <3>5. SectionAt(f, p, {}) = SectionAt(f, n, {})
      BY <2>2, <3>3 DEF NamesSection
    <3> QED
      BY <1>2, <2>3, <3>4, <3>5
  <2> QED
    BY <2>1, <2>4, <2>5
<1>3. \A n \in Nat : n \in S
  <2> HIDE DEF S
  <2> QED
    BY <1>1, <1>2, SetInduction
<1> QED
  BY <1>3

LEMMA SavedEntries ==
  ASSUME Savable, NEW order, NEW f, IsSaved(order, f), NEW i \in 1 .. Len(f)
  PROVE  /\ EntersAt(f, i, {})
         /\ NameAt(f, i, {}) = order[i]
         /\ ValueAt(f, i) = Contents[order[i]]
<1> DEFINE k == order[i]
<1>1. /\ k \in Keys(dict) /\ ReadsAs(f[i], k)
      /\ NamesASection(k) \/ NamesAValue(k)
      /\ Joined(f, i) = f[i] /\ Whole(f, i)
      /\ Status(f, i) = IF Len(k) = 1 THEN "section" ELSE "value"
  BY SavedLines
<1>2. SectionAt(f, i, {}) = k[1]
  BY SavedSections
<1> HIDE DEF k
<1>3. CASE NamesASection(k)
  <2>1. k = <<k[1]>> /\ Len(k) = 1 /\ Contents[k] = NULL
    BY <1>3 DEF NamesASection
  <2>2. Status(f, i) = "section"
    BY <1>1, <2>1
  <2>3. EntersAt(f, i, {})
    BY <1>1, <2>2 DEF EntersAt
  <2>4. NameAt(f, i, {}) = <<k[1]>> /\ ValueAt(f, i) = NULL
    BY <1>2, <2>2 DEF NameAt, ValueAt
  <2> QED
    BY <2>1, <2>3, <2>4, Zenon DEF k
<1>4. CASE NamesAValue(k)
  <2>1. k = <<k[1], k[2]>> /\ Len(k) = 2
    BY <1>4, Zenon DEF NamesAValue
  <2>a. Len(k) # 1
    BY <2>1
  <2>2. Status(f, i) = "value"
    BY <1>1, <2>a
  <2>3. EntersAt(f, i, {})
    BY <1>1, <2>2 DEF EntersAt
  <2>4. KeyIn(f[i]) = k[2] /\ ValueIn(f[i]) = Contents[k]
    BY <1>1, <2>1, Zenon DEF ReadsAs
  <2>5. NameAt(f, i, {}) = <<SectionAt(f, i, {}), KeyIn(Joined(f, i))>>
        /\ ValueAt(f, i) = ValueIn(Joined(f, i))
    BY <2>2 DEF NameAt, ValueAt
  <2>6. NameAt(f, i, {}) = <<k[1], k[2]>> /\ ValueAt(f, i) = Contents[k]
    BY <1>1, <1>2, <2>4, <2>5, Zenon
  <2> QED
    BY <2>1, <2>3, <2>6, Zenon DEF k
<1> QED
  BY <1>1, <1>3, <1>4

\* A dictionary that can be saved is what its lines mean.
LEMMA SavedMeansContents ==
  ASSUME Savable
  PROVE  Meaning(DumpIni(dict), Len(DumpIni(dict)), {}) = Contents
<1> DEFINE f == DumpIni(dict)
           n == Len(f)
           m == Meaning(f, n, {})
           c == Contents
<1>1. PICK order : IsSaved(order, f) /\ \A k \in Keys(dict) : Holds(order, k)
  BY SavedOrder
<1>2. n \in Nat /\ Len(order) = n
  BY <1>1 DEF IsSaved
<1>3. c = [k \in Keys(dict) |-> c[k]] /\ DOMAIN c = Keys(dict)
  BY DEF Contents, ContentsOf, Keys, Savable
<1> HIDE DEF f
<1>4. \A i \in 1 .. n : /\ EntersAt(f, i, {}) /\ order[i] \in Keys(dict)
                        /\ NameAt(f, i, {}) = order[i] /\ ValueAt(f, i) = Contents[order[i]]
  BY <1>1, SavedLines, SavedEntries
<1>5. /\ DOMAIN m = NamesAtLines(f, Entering(f, n, {}), {})
      /\ m = [k \in DOMAIN m |-> m[k]]
      /\ \A k, i : IsLast(f, n, {}, k, i) => k \in DOMAIN m /\ m[k] = ValueAt(f, i)
      /\ \A k \in DOMAIN m : \E i : IsLast(f, n, {}, k, i)
  BY <1>2, MeaningIsOfLast
<1> HIDE DEF m, n, c
<1>6. Entering(f, n, {}) = 1 .. n
  BY <1>4, Zenon DEF Entering
<1>7. DOMAIN m = Keys(dict)
  <2>1. ASSUME NEW k \in DOMAIN m PROVE k \in Keys(dict)
    <3>1. PICK i : IsLast(f, n, {}, k, i)
      BY <1>5
    <3>2. i \in 1 .. n /\ NameAt(f, i, {}) = k
      BY <1>6, <3>1, Zenon DEF IsLast
    <3> QED
      BY <1>4, <3>2, Zenon
  <2>2. ASSUME NEW k \in Keys(dict) PROVE k \in DOMAIN m
    <3>1. PICK i \in 1 .. n : order[i] = k
      BY <1>1, <1>2 DEF Holds
    <3> QED
      BY <1>4, <1>5, <1>6, <3>1, Zenon DEF NamesAtLines
  <2> QED
    BY <2>1, <2>2
<1>8. ASSUME NEW k \in Keys(dict) PROVE m[k] = c[k]
  <2>1. PICK i : IsLast(f, n, {}, k, i)
    BY <1>5, <1>7
  <2>2. i \in 1 .. n /\ NameAt(f, i, {}) = k
    BY <1>6, <2>1, Zenon DEF IsLast
  <2>3. m[k] = ValueAt(f, i)
    BY <1>5, <2>1
  <2> QED
    BY <1>4, <2>2, <2>3, Zenon DEF c
<1>9. m = c
  BY <1>3, <1>5, <1>7, <1>8
<1> QED
  BY <1>9 DEF m, n, c, f

\* A saved line takes no fewer columns than it has tokens.
LEMMA LineWidth ==
  ASSUME Savable, NEW k \in Keys(dict)
  PROVE  Len(LineOf(k)) \in Nat /\ Columns(k) \in Nat /\ Len(LineOf(k)) <= Columns(k)
<1>1. CASE NamesASection(k)
  <2> DEFINE s == k[1]
  <2>1. s \in Seq(Tokens) /\ Len(k) = 1
    BY <1>1 DEF NamesASection
  <2>2. LineOf(k) = <<"[">> \o s \o <<"]">> /\ Columns(k) = Len(s) + 2
    BY <2>1 DEF LineOf, Columns
  <2> HIDE DEF s
  <2>3. s \in Seq(Marked) /\ "[" \in Marked /\ "]" \in Marked
    BY <2>1 DEF Marked
  <2> HIDE DEF Marked
  <2>4. Len(<<"[">> \o s \o <<"]">>) = Len(s) + 2 /\ Len(s) \in Nat
    BY <2>3
  <2> QED
    BY <2>2, <2>4
<1>2. CASE NamesAValue(k)
  <2> DEFINE x == k[2]
             v == Contents[k]
  <2>1. x \in Seq(Tokens) /\ v \in Seq(Tokens) /\ Len(k) = 2 /\ v # NULL
        /\ dictionary_get(dict, k, NULL) = v
    BY <1>2, PlainIsSome, Zenon DEF NamesAValue
  <2>a. Len(k) # 1
    BY <2>1
  <2>2. LineOf(k) = x \o <<"=">> \o v
        /\ Columns(k) = (IF Len(x) < KeyWidth THEN KeyWidth ELSE Len(x)) + 3 + Len(v)
    BY <2>1, <2>a DEF LineOf, Assignment, Columns
  <2> HIDE DEF x, v
  <2>3. x \in Seq(Marked) /\ v \in Seq(Marked) /\ "=" \in Marked
    BY <2>1 DEF Marked
  <2> HIDE DEF Marked
  <2>4. Len(x \o <<"=">> \o v) = Len(x) + 1 + Len(v) /\ Len(x) \in Nat /\ Len(v) \in Nat
    BY <2>3
  <2>5. KeyWidth \in Nat
    BY IniFileAssumption
  <2> QED
    BY <2>2, <2>4, <2>5
<1> QED
  BY <1>1, <1>2, EntryForms

\* The loader refuses no line of a saved file that fits.
LEMMA SavedIsAccepted ==
  ASSUME Savable, SavedFits
  PROVE  ~Refused(DumpIni(dict))
<1> DEFINE f == DumpIni(dict)
<1>1. PICK order : IsSaved(order, f)
  BY SavedOrder
<1>2. DOMAIN Contents = Keys(dict)
  BY DEF Contents, ContentsOf, Keys, Savable
<1> HIDE DEF f
<1>3. ASSUME NEW i \in 1 .. Len(f)
      PROVE  ~(Whole(f, i) /\ Status(f, i) = "error") /\ ~(Len(Joined(f, i)) > ASCIILINESZ)
  <2>1. /\ order[i] \in Keys(dict)
        /\ Joined(f, i) = f[i]
        /\ Status(f, i) = IF Len(order[i]) = 1 THEN "section" ELSE "value"
    BY <1>1, SavedLines
  <2>2. f[i] = LineOf(order[i])
    BY <1>1 DEF IsSaved
  <2>3. Columns(order[i]) <= ASCIILINESZ
    BY <1>2, <2>1 DEF SavedFits
  <2>4. Len(LineOf(order[i])) \in Nat /\ Columns(order[i]) \in Nat
        /\ Len(LineOf(order[i])) <= Columns(order[i])
    BY <2>1, LineWidth
  <2>5. ASCIILINESZ \in Nat
    BY IniFileAssumption
  <2>6. ~(Len(Joined(f, i)) > ASCIILINESZ)
    BY <2>1, <2>2, <2>3, <2>4, <2>5
  <2> QED
    BY <2>1, <2>6
<1> QED
  BY <1>3 DEF Refused, f

-----------------------------------------------------------------------------
(* Names are kept in lower case                                            *)

LEMMA LowerTwice == ASSUME NEW s PROVE strlwc(strlwc(s)) = strlwc(s)
<1> DEFINE w == strlwc(s)
<1>1. w = [i \in DOMAIN s |-> IF s[i] \in DOMAIN Lower THEN Lower[s[i]] ELSE s[i]]
  BY DEF strlwc
<1>2. strlwc(w) = [i \in DOMAIN w |-> IF w[i] \in DOMAIN Lower THEN Lower[w[i]] ELSE w[i]]
  BY DEF strlwc
<1> HIDE DEF w
<1>3. DOMAIN w = DOMAIN s
  BY <1>1
<1>4. \A i \in DOMAIN w : w[i] \notin DOMAIN Lower
  BY <1>1, <1>3, IniFileAssumption
<1>5. strlwc(w) = [i \in DOMAIN w |-> w[i]]
  BY <1>2, <1>4
<1>6. w = [i \in DOMAIN w |-> w[i]]
  BY <1>1
<1> QED
  BY <1>5, <1>6 DEF w

IsLower(k) == Entry(k) = k

LEMMA LowerParts ==
  /\ strlwc(<<>>) = <<>>
  /\ \A text, old : strlwc(NameIn(text, old)) = NameIn(text, old)
  /\ \A text : strlwc(KeyIn(text)) = KeyIn(text)
  /\ \A s : strlwc(s) = s => IsLower(<<s>>)
  /\ \A s, x : strlwc(s) = s /\ strlwc(x) = x => IsLower(<<s, x>>)
  /\ \A e : IsLower(Entry(e))
<1>1. strlwc(<<>>) = <<>>
  BY DEF strlwc
<1>2. \A text, old : strlwc(NameIn(text, old)) = NameIn(text, old)
  BY LowerTwice DEF NameIn
<1>3. \A text : strlwc(KeyIn(text)) = KeyIn(text)
  BY LowerTwice DEF KeyIn
<1>4. ASSUME NEW s, strlwc(s) = s PROVE IsLower(<<s>>)
  <2>1. Entry(<<s>>) = <<strlwc(s)>>
    BY DEF Entry
  <2> QED
    BY <1>4, <2>1 DEF IsLower
<1>5. ASSUME NEW s, NEW x, strlwc(s) = s, strlwc(x) = x PROVE IsLower(<<s, x>>)
  <2>1. Entry(<<s, x>>) = <<strlwc(s), strlwc(x)>>
    BY DEF Entry
  <2> QED
    BY <1>5, <2>1 DEF IsLower
<1>6. ASSUME NEW e PROVE IsLower(Entry(e))
  <2> DEFINE k == Entry(e)
  <2>1. k = [i \in DOMAIN e |-> strlwc(e[i])]
    BY DEF Entry
  <2>2. Entry(k) = [i \in DOMAIN k |-> strlwc(k[i])]
    BY DEF Entry
  <2> HIDE DEF k
  <2>3. DOMAIN k = DOMAIN e /\ \A i \in DOMAIN k : strlwc(k[i]) = k[i]
    BY <2>1, LowerTwice
  <2>4. k = [i \in DOMAIN k |-> k[i]]
    BY <2>1
  <2>5. Entry(k) = k
    BY <2>2, <2>3, <2>4
  <2> QED
    BY <2>5 DEF IsLower, k
<1> QED
  BY <1>1, <1>2, <1>3, <1>4, <1>5, <1>6

LowerOK == LowerNames /\ strlwc(section) = section

LEMMA KeysAfterSet ==
  ASSUME DictionaryOK, NEW k \in Names, NEW v \in Values \cup {NULL}, Set(k, v)
  PROVE  \A x \in Keys(dict') : x \in Keys(dict) \/ x = k
<1>1. dict # None /\ Consistent(dict) /\ dict' \in SetResults(dict, k, v)
  BY DEF Set, DictionaryOK
<1>2. /\ Consistent(dict')
      /\ \/ ContentsOf(dict') = ContentsOf(dict)
         \/ \E w \in Copies(v) : ContentsOf(dict') = Updated(ContentsOf(dict), k, w)
  BY <1>1, SetIsUpdate
<1>3. DOMAIN ContentsOf(dict') = Keys(dict') /\ DOMAIN ContentsOf(dict) = Keys(dict)
  BY <1>1, <1>2, ContentsOfSlots
<1>4. \A w : DOMAIN Updated(ContentsOf(dict), k, w) = DOMAIN ContentsOf(dict) \cup {k}
  BY DEF Updated
<1> QED
  BY <1>2, <1>3, <1>4

LEMMA KeysAfterUnset ==
  ASSUME DictionaryOK, NEW k \in Names, Unset(k)
  PROVE  \A x \in Keys(dict') : x \in Keys(dict)
<1>1. dict # None /\ Consistent(dict) /\ dict' = dictionary_unset(dict, k)
  BY DEF Unset, DictionaryOK
<1>2. /\ Consistent(dict')
      /\ \/ dict' = dict
         \/ ContentsOf(dict') = [x \in DOMAIN ContentsOf(dict) \ {k} |-> ContentsOf(dict)[x]]
  BY <1>1, UnsetIsErase
<1>3. DOMAIN ContentsOf(dict') = Keys(dict') /\ DOMAIN ContentsOf(dict) = Keys(dict)
  BY <1>1, <1>2, ContentsOfSlots
<1> QED
  BY <1>2, <1>3

\* Calls with a name in lower case keep all names in lower case.
LEMMA LowerKept ==
  ASSUME DictionaryOK, LowerNames, NEW k \in Names, IsLower(k),
         NEW v \in Values \cup {NULL}, Set(k, v) \/ SetFails(k) \/ Unset(k)
  PROVE  LowerNames'
<1>1. dict # None /\ \A x \in Keys(dict) : Entry(x) = x
  BY DEF Set, SetFails, Unset, LowerNames
<1>2. Entry(k) = k
  BY DEF IsLower
<1>3. CASE Set(k, v)
  <2>1. \A x \in Keys(dict') : x \in Keys(dict) \/ x = k
    BY <1>3, KeysAfterSet
  <2> QED
    BY <1>1, <1>2, <2>1 DEF LowerNames
<1>4. CASE SetFails(k)
  BY <1>1, <1>4 DEF SetFails, LowerNames
<1>5. CASE Unset(k)
  <2>1. \A x \in Keys(dict') : x \in Keys(dict)
    BY <1>5, KeysAfterUnset
  <2> QED
    BY <1>1, <2>1 DEF LowerNames
<1> QED
  BY <1>3, <1>4, <1>5

LEMMA LowerOKStep ==
  ASSUME LoaderOK, DictionaryOK, LowerOK, [FileNext]_fileVars
  PROVE  LowerOK'
<1>0. LowerNames /\ strlwc(section) = section
  BY DEF LowerOK
<1>1. CASE Open
  <2>1. CASE New
    <3>1. Used(dict') = {}
      BY <2>1 DEF New, dictionary_new, Used, Slots
    <3>2. Keys(dict') = {}
      BY <3>1 DEF Keys
    <3> QED
      BY <1>0, <1>1, <3>2 DEF Open, reading, LowerOK, LowerNames
  <2>2. CASE UNCHANGED <<dict, outOfMemory>>
    BY <1>0, <1>1, <2>2 DEF Open, reading, LowerOK, LowerNames
  <2> QED
    BY <1>1, <2>1, <2>2 DEF Open
<1>2. CASE TooLong
  BY <1>0, <1>2 DEF TooLong, Del, LowerOK, LowerNames
<1>3. CASE Continue
  BY <1>0, <1>3 DEF Continue, LowerOK, LowerNames
<1>4. CASE TakeLine
  <2>1. PICK status \in {iniparser_line(Text), "empty"} :
          /\ section' = IF status = "section" THEN NameIn(Text, section) ELSE section
          /\ CASE status = "section" -> Enter(<<section'>>, NULL)
               [] status = "value"   -> Enter(<<section, KeyIn(Text)>>, ValueIn(Text))
               [] OTHER              -> UNCHANGED <<dict, outOfMemory, load>>
    BY <1>4, StatusOfLine
  <2>2. section \in Seq(Tokens) /\ Text \in Seq(Tokens) /\ section' \in Seq(Tokens)
    BY <1>4, TextOfLine, EnteredLine DEF TakeLine, Reads, LoaderOK
  <2>3. strlwc(section') = section'
    BY <1>0, <2>1, LowerParts
  <2>4. \A k, v : Enter(k, v) => Set(k, v) \/ SetFails(k)
    BY DEF Enter
  <2>5. CASE status = "section"
    <3> DEFINE k == <<section'>>
    <3>1. k \in Names /\ IsLower(k) /\ NULL \in Values \cup {NULL}
      BY <2>2, <2>3, NamesOfEntries, LowerParts
    <3>2. Set(k, NULL) \/ SetFails(k)
      BY <2>1, <2>4, <2>5
    <3> HIDE DEF k
    <3>3. LowerNames'
      BY <1>0, <3>1, <3>2, LowerKept
    <3> QED
      BY <2>3, <3>3 DEF LowerOK
  <2>6. CASE status = "value"
    <3> DEFINE k == <<section, KeyIn(Text)>>
               v == ValueIn(Text)
    <3>1. k \in Names /\ IsLower(k)
      BY <1>0, <2>2, NamesOfEntries, KeyInText, LowerParts
    <3>2. v \in Values \cup {NULL}
      BY <2>2, ValueInText, IniFileAssumption
    <3>3. Set(k, v) \/ SetFails(k)
      BY <2>1, <2>4, <2>6
    <3> HIDE DEF k, v
    <3>4. LowerNames'
      BY <1>0, <3>1, <3>2, <3>3, LowerKept
    <3> QED
      BY <2>3, <3>4 DEF LowerOK
  <2>7. CASE status # "section" /\ status # "value"
    <3>1. dict' = dict
      BY <2>1, <2>7
    <3> QED
      BY <1>0, <2>3, <3>1 DEF LowerOK, LowerNames
  <2> QED
    BY <2>5, <2>6, <2>7
<1>5. CASE Finish
  BY <1>0, <1>5 DEF Finish, reading, Del, LowerOK, LowerNames
<1>6. CASE Edit
  <2>1. PICK e \in Edits : Set(Entry(e), <<"edited">>) \/ SetFails(Entry(e)) \/ Unset(Entry(e))
    BY <1>6 DEF Edit
  <2> DEFINE k == Entry(e)
             v == <<"edited">>
  <2>2. k \in Names /\ IsLower(k) /\ v \in Values \cup {NULL}
    BY EntryIsName, LowerParts, IniFileAssumption
  <2> HIDE DEF k, v
  <2>3. Set(k, v) \/ SetFails(k) \/ Unset(k)
    BY <2>1 DEF k, v
  <2>4. LowerNames'
    BY <1>0, <2>2, <2>3, LowerKept
  <2> QED
    BY <1>0, <1>6, <2>4 DEF Edit, reading, LowerOK
<1>7. CASE Free
  BY <1>0, <1>7 DEF Free, reading, Del, LowerOK, LowerNames
<1>8. CASE UNCHANGED fileVars
  BY <1>0, <1>8 DEF fileVars, LowerOK, LowerNames
<1> QED
  BY <1>1, <1>2, <1>3, <1>4, <1>5, <1>6, <1>7, <1>8 DEF FileNext

LEMMA LowerHolds == FileSpec => [](FileInv /\ LowerOK)
<1>1. FileInit => LowerOK
  BY LowerParts DEF FileInit, Init, LowerOK, LowerNames
<1>2. FileInv /\ LowerOK /\ [FileNext]_fileVars => LowerOK'
  BY LowerOKStep DEF FileInv
<1> QED
  BY <1>1, <1>2, FileInvHolds, PTL DEF FileSpec

\* iniparser_load takes what iniparser_dump_ini writes and reads the dictionary it was
\* written from, entry for entry, after loading and after any edits, for the names and
\* values CanBeSaved names, when no line is too long as it is saved.
THEOREM SavedFileReadsBack == FileSpec => []SavedReadsBack
<1>1. FileInv /\ LowerOK => SavedReadsBack
  <2> SUFFICES ASSUME FileInv, LowerOK, load = "done", CanBeSaved(dict), SavedFits
               PROVE  /\ ~Refused(DumpIni(dict))
                      /\ Meaning(DumpIni(dict), Len(DumpIni(dict)), {}) = Contents
    BY DEF SavedReadsBack
  <2>1. dict # None /\ Consistent(dict)
    BY DEF FileInv, LoaderOK, DictionaryOK
  <2>2. Savable
    BY <2>1 DEF Savable, LowerOK
  <2> QED
    BY <2>2, SavedMeansContents, SavedIsAccepted
<1> QED
  BY <1>1, LowerHolds, PTL
=============================================================================
