----------------------------- MODULE LinkedList -----------------------------
(***************************************************************************)
(* What it means that a set S of slots is linked in one list of k members  *)
(* that starts at head and follows next (mgmt.child and ctnt.siblings of   *)
(* hot_cache/include/sc_resource.h).                                       *)
(***************************************************************************)
EXTENDS Integers

NULL == -1

(* l names the members from the end of the list, l[1], to its head, l[k]. *)
IsList(k, head, next, S, l) ==
    /\ \A i, j \in 1 .. k : l[i] = l[j] => i = j
    /\ \A x \in S : \E i \in 1 .. k : l[i] = x
    /\ head = IF k = 0 THEN NULL ELSE l[k]
    /\ \A i \in 1 .. k : next[l[i]] = IF i = 1 THEN NULL ELSE l[i - 1]

ListSound(k, head, next, S) == \E l \in [1 .. k -> S] : IsList(k, head, next, S, l)
=============================================================================
