------------------------------ MODULE MCBerryMap ------------------------------
(* Keys that share a slot in tables of two, four and six slots, and one that does not. *)
EXTENDS BerryMap, TLC
KeyHash == ("a" :> 0) @@ ("b" :> 2) @@ ("c" :> 4) @@ ("d" :> 1) @@ ("e" :> 12) @@ ("f" :> 3)
HashOf(k) == KeyHash[k]
MapKeys == DOMAIN KeyHash
ValueSymmetry == Permutations(Values)
=============================================================================
