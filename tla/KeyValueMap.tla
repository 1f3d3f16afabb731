---------------------------- MODULE KeyValueMap ----------------------------
(***************************************************************************)
(* What the dictionary of the INI parser promises: a map from entry names  *)
(* to values, where NULL is the value of an entry that has none.  When an  *)
(* allocation fails, the entry may stay as it was or lose its value; no    *)
(* other entry is ever touched.                                            *)
(***************************************************************************)
CONSTANT NULL   \* no value

VARIABLES
  map,         \* a function from the names that have an entry
  outOfMemory  \* may allocations fail?

vars == <<map, outOfMemory>>

Empty == [k \in {} |-> NULL]

Init == map = Empty /\ outOfMemory \in BOOLEAN

With(k, v) == [x \in DOMAIN map \cup {k} |-> IF x = k THEN v ELSE map[x]]

Put(k, v)          == map' = With(k, v)
PutOutOfMemory(k)  == outOfMemory /\ map' = With(k, NULL)
Erase(k)           == map' = [x \in DOMAIN map \ {k} |-> map[x]]
Clear              == map' = Empty

Next ==
  /\ \/ \E k \in DOMAIN map' : Put(k, map'[k]) \/ PutOutOfMemory(k)
     \/ \E k \in DOMAIN map : Erase(k)
     \/ Clear
  /\ UNCHANGED outOfMemory

Spec == Init /\ [][Next]_vars
=============================================================================
