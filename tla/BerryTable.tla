----------------------------- MODULE BerryTable -----------------------------
(***************************************************************************)
(* The hash table behind every Berry map (be_map.c): slots chained by      *)
(* position, a colliding key goes to the highest free slot, and a key that *)
(* sits in a slot that is not its own gives way.                           *)
(***************************************************************************)
EXTENDS Integers, Sequences, FiniteSets, SequencesExt

CONSTANTS
  Hash(_),    \* the hash code of a key
  NoKey       \* the nil key of a free slot

NoSlot == -1                        \* LASTNODE, and the null node

\* Slots are numbered from 0; Slot(m, i) is slots[i].
Slot(m, i) == m.slots[i + 1]
Size(m) == Len(m.slots)
Free(m, i) == Slot(m, i).key = NoKey
Main(m, k) == Hash(k) % Size(m)     \* hash2slot
Empty == [key |-> NoKey, val |-> NoKey, next |-> NoSlot]

RECURSIVE FindFrom(_, _, _), FindPrev(_, _, _)
FindFrom(m, i, k) ==
  IF i = NoSlot \/ Slot(m, i).key = k THEN i ELSE FindFrom(m, Slot(m, i).next, k)

\* find: follow the chain from the key's own slot.
Find(m, k) == IF Free(m, Main(m, k)) THEN NoSlot ELSE FindFrom(m, Main(m, k), k)

\* findprev: the slot of the chain from i whose next is slot n.
FindPrev(m, i, n) ==
  IF Slot(m, i).next = n \/ Slot(m, i).next = NoSlot THEN i ELSE FindPrev(m, Slot(m, i).next, n)

\* nextfree: downwards from lastfree; NoSlot when it runs off the slots.
NextFree(m) ==
  LET free == {i \in 0 .. m.last : Free(m, i)}
  IN  IF free = {} THEN NoSlot ELSE CHOOSE i \in free : \A j \in free : j <= i

\* Mutant: the key of the slot stays the head of a chain that is not its own.
AddStays(m, k) ==
  LET at == Main(m, k)
      new == NextFree(m)
  IN  IF Free(m, at)
      THEN [map |-> [m EXCEPT !.slots[at + 1] = [@ EXCEPT !.key = k, !.next = NoSlot]], at |-> at]
      ELSE [map |-> [m EXCEPT !.last = new,
                              !.slots[new + 1] = [@ EXCEPT !.key = k, !.next = Slot(m, at).next],
                              !.slots[at + 1].next = new],
            at |-> new]

\* insert: [map, at] with the new key in slot `at', its value still unset.
Add(m, k) ==
  LET at == Main(m, k)
      home == Main(m, Slot(m, at).key)
      new == NextFree(m)
      prev == FindPrev(m, home, at)
  IN  CASE Free(m, at) ->
             [map |-> [m EXCEPT !.slots[at + 1] = [@ EXCEPT !.key = k, !.next = NoSlot]], at |-> at]
        [] ~Free(m, at) /\ home = at ->      \* its own slot: the new key goes second
             [map |-> [m EXCEPT !.last = new,
                                !.slots[new + 1] = [@ EXCEPT !.key = k, !.next = Slot(m, at).next],
                                !.slots[at + 1].next = new],
              at |-> new]
        [] OTHER ->                          \* a guest gives way
             [map |-> [m EXCEPT !.last = new,
                                !.slots[prev + 1].next = new,
                                !.slots[new + 1] = Slot(m, at),
                                !.slots[at + 1] = [@ EXCEPT !.key = k, !.next = NoSlot]],
              at |-> at]

\* be_nextsize up to 16, and resize with its rehash.
NextSize(n) == CHOOSE t \in {2, 4, 6, 8, 10, 12, 14, 16} : t > n /\ \A u \in {2, 4, 6, 8, 10, 12, 14, 16} : u > n => t <= u

Resize(m, size) ==
  LET empty == [slots |-> [i \in 1 .. size |-> Empty], last |-> size - 1, count |-> m.count]
      Rehash(acc, s) == IF s.key = NoKey THEN acc
                        ELSE LET a == Add(acc, s.key) IN [a.map EXCEPT !.slots[a.at + 1].val = s.val]
  IN  IF size < m.count THEN m ELSE FoldLeft(Rehash, empty, m.slots)

MapNew == [slots |-> <<Empty, Empty>>, last |-> 1, count |-> 0]

\* be_map_insert.
Room(m) == IF m.count >= Size(m) THEN Resize(m, NextSize(Size(m))) ELSE m
MapInsert(m, k, v) ==
  LET at == Find(m, k)
      New(a) == [a.map EXCEPT !.count = @ + 1, !.slots[a.at + 1].val = v]
  IN  IF at # NoSlot THEN [m EXCEPT !.slots[at + 1].val = v] ELSE New(Add(Room(m), k))

\* be_map_find on a key that may be missing: the value, or NoKey.
MapFind(m, k) == IF Find(m, k) = NoSlot THEN NoKey ELSE Slot(m, Find(m, k)).val

\* Mutant: the slot of a removed key is not offered again.
MapRemoveKeepsLast(m, k) ==
  LET at == Find(m, k)
      next == Slot(m, at).next
      prev == FindPrev(m, Main(m, k), at)
  IN  IF at = NoSlot THEN m
      ELSE IF at = Main(m, k) /\ next # NoSlot
      THEN [m EXCEPT !.slots[at + 1] = Slot(m, next), !.slots[next + 1].key = NoKey, !.count = @ - 1]
      ELSE IF at = Main(m, k) THEN [m EXCEPT !.slots[at + 1].key = NoKey, !.count = @ - 1]
      ELSE [m EXCEPT !.slots[prev + 1].next = next, !.slots[at + 1].key = NoKey, !.count = @ - 1]

\* be_map_remove: the second of the chain moves into the first's slot.
MapRemove(m, k) ==
  LET at == Find(m, k)
      head == at = Main(m, k)
      next == Slot(m, at).next
      gone == IF head /\ next # NoSlot THEN next ELSE at
      m1 == CASE head /\ next # NoSlot -> [m EXCEPT !.slots[at + 1] = Slot(m, next)]
              [] head /\ next = NoSlot -> m
              [] OTHER -> [m EXCEPT !.slots[FindPrev(m, Main(m, k), at) + 1].next = next]
  IN  IF at = NoSlot THEN m
      ELSE [m1 EXCEPT !.slots[gone + 1].key = NoKey, !.last = IF @ < gone THEN gone ELSE @, !.count = @ - 1]

\* Mutant: the last slot is not looked at.
MapNextShort(m, i) ==
  LET rest == {j \in i + 1 .. Size(m) - 2 : ~Free(m, j)}
  IN  IF rest = {} THEN NoSlot ELSE CHOOSE j \in rest : \A l \in rest : j <= l

\* be_map_next: the next occupied slot after i, or NoSlot.
MapNext(m, i) ==
  LET rest == {j \in i + 1 .. Size(m) - 1 : ~Free(m, j)}
  IN  IF rest = {} THEN NoSlot ELSE CHOOSE j \in rest : \A l \in rest : j <= l

=============================================================================
