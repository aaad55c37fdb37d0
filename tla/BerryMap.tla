------------------------------- MODULE BerryMap -------------------------------
(***************************************************************************)
(* A Berry map and the scripts that use it: the map operations of be_api.c *)
(* and be_maplib.c over the hash table.  An iterator is a position in the  *)
(* slots.                                                                  *)
(***************************************************************************)
EXTENDS BerryTable

CONSTANTS Keys, Values

VARIABLES
  map,      \* bmap: [slots, last, count], last being lastfree
  dict,     \* what a script was promised: the value of each key it stored
  iter,     \* the iterator of a `for' over the map: last slot it returned, or NoSlot
  seen,     \* the keys that iterator has returned, in order
  running   \* a `for' over the map is under way

vars == <<map, dict, iter, seen, running>>

-----------------------------------------------------------------------------
\* The calls of a script.  While a `for' over the map runs its body only
\* assigns to the keys there are, as any program that means to see them all.

Init == map = MapNew /\ dict = <<>> /\ iter = NoSlot /\ seen = <<>> /\ running = FALSE

\* m_setitem: m[k] = v.
SetItem(k, v) ==
  /\ running => k \in DOMAIN dict
  /\ map' = MapInsert(map, k, v)
  /\ dict' = [x \in DOMAIN dict \union {k} |-> IF x = k THEN v ELSE dict[x]]
  /\ UNCHANGED <<iter, seen, running>>

\* m_insert: only a key that is not there.
InsertNew(k, v) ==
  /\ ~running
  /\ IF Find(map, k) = NoSlot
     THEN /\ map' = MapInsert(map, k, v)
          /\ dict' = [x \in DOMAIN dict \union {k} |-> IF x = k THEN v ELSE dict[x]]
     ELSE UNCHANGED <<map, dict>>
  /\ UNCHANGED <<iter, seen, running>>

\* m_remove.
RemoveKey(k) ==
  /\ ~running
  /\ map' = MapRemove(map, k)
  /\ dict' = [x \in DOMAIN dict \ {k} |-> dict[x]]
  /\ UNCHANGED <<iter, seen, running>>

\* be_map_compact, which be_class_compress and be_module call.
Compact ==
  /\ ~running
  /\ map' = Resize(map, IF map.count > 0 THEN map.count ELSE 1)
  /\ UNCHANGED <<dict, iter, seen, running>>

\* m_keys, and the iterator it returns: keys_iter_closure, until stop_iteration.
ForBegin ==
  /\ ~running /\ dict # <<>>
  /\ iter' = NoSlot /\ seen' = <<>> /\ running' = TRUE
  /\ UNCHANGED <<map, dict>>

ForNext ==
  LET next == MapNext(map, iter)
  IN  /\ running /\ next # NoSlot
      /\ iter' = next /\ seen' = Append(seen, Slot(map, next).key)
      /\ UNCHANGED <<map, dict, running>>

ForEnd ==
  /\ running /\ MapNext(map, iter) = NoSlot
  /\ iter' = NoSlot /\ seen' = <<>> /\ running' = FALSE
  /\ UNCHANGED <<map, dict>>

Next ==
  \/ \E k \in Keys, v \in Values : SetItem(k, v) \/ InsertNew(k, v)
  \/ \E k \in Keys : RemoveKey(k)
  \/ Compact \/ ForBegin \/ ForNext \/ ForEnd

Spec == Init /\ [][Next]_vars

-----------------------------------------------------------------------------
\* Every lookup answers what the script stored last, and the count (which decides
\* when to grow) is the number of keys: whatever was moved, removed or rehashed.
KeepsItsPromise ==
  /\ \A k \in Keys : MapFind(map, k) = IF k \in DOMAIN dict THEN dict[k] ELSE NoKey
  /\ map.count = Cardinality(DOMAIN dict)

\* Below the size that makes it grow, the search for a free slot never runs off
\* the table: nextfree returns NULL to an insert that does not check it.
RoomLeft == map.count < Size(map) => NextFree(map) # NoSlot

\* A `for' over keys() returns every key once, while its body only assigns to
\* keys that are there.
ForSeesAll ==
  [][ForEnd => ToSet(seen) = DOMAIN dict /\ Len(seen) = Cardinality(DOMAIN dict)]_vars

=============================================================================
