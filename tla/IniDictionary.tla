--------------------------- MODULE IniDictionary ---------------------------
(***************************************************************************)
(* The dictionary the INI parser keeps its entries in: parallel arrays of  *)
(* keys, values and hash values, with free slots between the used ones.    *)
(* The arrays double when all slots are used.  A new entry goes to the     *)
(* first free slot from slot n on, around the end.  Allocations may fail:  *)
(* the arrays then keep their size, or the copy of a key or of a value is  *)
(* NULL, which nothing looks at.                                           *)
(***************************************************************************)
EXTENDS Naturals, FiniteSets

CONSTANTS
  Names,       \* keys of entries: <<section>> or <<section, key>>
  Values,      \* values of entries
  NULL,        \* the null pointer
  DICTMINSZ,   \* slots a new dictionary has at least
  Hash(_)      \* hash value of a key

ASSUME DictionaryAssumption ==
  /\ DICTMINSZ \in Nat \ {0}
  /\ NULL \notin Names \cup Values

VARIABLES
  dict,        \* the dictionary, None when there is none
  outOfMemory  \* may malloc and calloc fail?

\* The null pointer to a dictionary, a value that no dictionary has.
None == [size |-> 0]

-----------------------------------------------------------------------------
Slots(d) == 0 .. d.size - 1
Used(d)  == {i \in Slots(d) : d.key[i] # NULL}

First(slots) == CHOOSE i \in slots : \A j \in slots : i <= j

dictionary_new(size) ==
  LET s == IF size < DICTMINSZ THEN DICTMINSZ ELSE size
  IN  [size |-> s, n |-> 0,
       key  |-> [i \in 0 .. s - 1 |-> NULL],
       val  |-> [i \in 0 .. s - 1 |-> NULL],
       hash |-> [i \in 0 .. s - 1 |-> 0]]

\* The slots a search for k stops at: the hash is compared before the key.
SlotsOf(d, k) == {i \in Used(d) : d.hash[i] = Hash(k) /\ d.key[i] = k}

dictionary_get(d, k, def) ==
  IF SlotsOf(d, k) = {} THEN def ELSE d.val[First(SlotsOf(d, k))]

Longer(f, size, filler) ==
  [i \in 0 .. 2 * size - 1 |-> IF i < size THEN f[i] ELSE filler]

dictionary_grow(d) ==
  [size |-> 2 * d.size, n |-> d.n,
   key  |-> Longer(d.key, d.size, NULL),
   val  |-> Longer(d.val, d.size, NULL),
   hash |-> Longer(d.hash, d.size, 0)]

IsFull(d) == d.n = d.size

\* Fault: the search for a free slot is taken to be the count.
FreeSlot_Count(d) == IF IsFull(d) THEN 0 ELSE d.n

\* The first free slot from slot n on, around the end of the arrays.
FreeSlot(d) ==
  LET free  == Slots(d) \ Used(d)
      after == {i \in free : d.n <= i}
  IN  IF after # {} THEN First(after) ELSE First(free)

Found(d, k) == d.n > 0 /\ SlotsOf(d, k) # {}

\* The dictionary with slot i rewritten.
Stored(d, i, k, v, h, n) ==
  [size |-> d.size, n |-> n,
   key  |-> [d.key  EXCEPT ![i] = k],
   val  |-> [d.val  EXCEPT ![i] = v],
   hash |-> [d.hash EXCEPT ![i] = h]]

Replaced(d, k, v) ==
  LET i == First(SlotsOf(d, k)) IN Stored(d, i, d.key[i], v, d.hash[i], d.n)

Added(d, k, copy, v) == Stored(d, FreeSlot(d), copy, v, Hash(k), d.n + 1)

Copies(s) == IF outOfMemory THEN {s, NULL} ELSE {s}

\* The dictionaries dictionary_set may leave when it answers 0 ...
SetResults(d, k, v) ==
  IF Found(d, k)
    THEN {Replaced(d, k, w) : w \in Copies(v)}
    ELSE LET room == IF IsFull(d) THEN dictionary_grow(d) ELSE d
         IN  {Added(room, k, copy, w) : copy \in Copies(k), w \in Copies(v)}

\* ... and when it may answer -1, which leaves the dictionary as it is.
MayNotGrow(d, k) == outOfMemory /\ ~Found(d, k) /\ IsFull(d)

\* Fault: the hash stays behind and the count is lowered for a key that is not there.
dictionary_unset_Counts(d, k) ==
  IF SlotsOf(d, k) = {}
    THEN IF d.n = 0 THEN d ELSE [d EXCEPT !.n = @ - 1]
    ELSE LET i == First(SlotsOf(d, k)) IN Stored(d, i, NULL, NULL, d.hash[i], d.n - 1)

dictionary_unset(d, k) ==
  IF SlotsOf(d, k) = {}
    THEN d
    ELSE Stored(d, First(SlotsOf(d, k)), NULL, NULL, 0, d.n - 1)

-----------------------------------------------------------------------------
Init == dict = None /\ outOfMemory \in BOOLEAN

New ==
  /\ dict = None
  /\ dict' = dictionary_new(0)
  /\ UNCHANGED outOfMemory

Set(k, v) ==
  /\ dict # None
  /\ dict' \in SetResults(dict, k, v)
  /\ UNCHANGED outOfMemory

SetFails(k) ==
  /\ dict # None
  /\ MayNotGrow(dict, k)
  /\ UNCHANGED <<dict, outOfMemory>>

Unset(k) ==
  /\ dict # None
  /\ dict' = dictionary_unset(dict, k)
  /\ UNCHANGED outOfMemory

Del ==
  /\ dict # None
  /\ dict' = None
  /\ UNCHANGED outOfMemory

Next ==
  \/ New
  \/ \E k \in Names, v \in Values \cup {NULL} : Set(k, v)
  \/ \E k \in Names : SetFails(k) \/ Unset(k)
  \/ Del

dictVars == <<dict, outOfMemory>>

Spec == Init /\ [][Next]_dictVars

-----------------------------------------------------------------------------
TypeOK ==
  /\ outOfMemory \in BOOLEAN
  /\ dict # None =>
       /\ dict = [size |-> dict.size, n |-> dict.n, key |-> dict.key,
                  val |-> dict.val, hash |-> dict.hash]
       /\ dict.size \in Nat \ {0}
       /\ dict.n \in 0 .. dict.size
       /\ dict.key \in [Slots(dict) -> Names \cup {NULL}]
       /\ dict.val \in [Slots(dict) -> Values \cup {NULL}]
       /\ DOMAIN dict.hash = Slots(dict)

(* No key is in two slots: dictionary_set replaces the value of a key that *)
(* is there, growing and wrapping around included, so a search that stops  *)
(* at the first slot sees the latest value.                                *)
NoDuplicates ==
  dict # None => \A i, j \in Used(dict) : dict.key[i] = dict.key[j] => i = j

(* The hash beside a key is the hash of that key; a search that compares   *)
(* hashes first misses no entry.                                           *)
HashesMatch ==
  dict # None => \A i \in Used(dict) : dict.hash[i] = Hash(dict.key[i])

(* "Because d->n < d->size this will necessarily terminate": the search    *)
(* for a free slot ends because n never falls below the number of used     *)
(* slots, even when the copy of a key is NULL and its slot remains free;   *)
(* with enough memory n is that number.                                    *)
CountCoversUsed ==
  dict # None => /\ Cardinality(Used(dict)) <= dict.n
                 /\ ~outOfMemory => Cardinality(Used(dict)) = dict.n

ArraysConsistent == NoDuplicates /\ HashesMatch /\ CountCoversUsed

-----------------------------------------------------------------------------
ContentsOf(d) == [k \in {d.key[i] : i \in Used(d)} |-> dictionary_get(d, k, NULL)]

Contents == IF dict = None THEN [k \in {} |-> NULL] ELSE ContentsOf(dict)

Map == INSTANCE KeyValueMap WITH map <- Contents

(* The arrays are the map they stand for: setting an entry changes that    *)
(* entry only, wherever it is put, and growing changes none.               *)
ImplementsMap == Map!Spec
=============================================================================
