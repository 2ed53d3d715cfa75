------------------------------ MODULE SlotPool ------------------------------
(***************************************************************************)
(* The free list of sc_res_list_t (hot_cache/include/sc_resource.h and     *)
(* hot_cache/snooping_client/sc_resource.c).  The list holds two arrays,   *)
(* mgmt[] and ctnt[], each with its own free list and use count, and the   *)
(* same code twice; a pool is a record here and n is the array's length.   *)
(*                                                                         *)
(* The field common.id is overloaded by the code: in a slot that is in use *)
(* it is the slot's own index, in a free slot it is the ADDRESS of the     *)
(* next free slot, or INVALID_PTR at the end.  An address is always larger *)
(* than any index, which is how sc_res_list_process_mgmt tells the two     *)
(* apart.  Slot s has address n + s here and INVALID_PTR is 2 * n.         *)
(***************************************************************************)
EXTENDS Integers

Slots(n) == 0 .. n - 1

Addr(n, s) == n + s

INVALID_PTR(n) == 2 * n

SlotAt(n, a) == a - n

(* What the field id, and the head of the free list, can hold. *)
Word(n) == 0 .. 2 * n

Pool(n) == [id : [Slots(n) -> Word(n)], free : Word(n), cnt : 0 .. n]

(* sc_res_list_alloc_and_init: slot 0 ends the list, its head is slot n-1. *)
PoolInit(n) ==
    [id   |-> [s \in Slots(n) |-> IF s = 0 THEN INVALID_PTR(n) ELSE Addr(n, s - 1)],
     free |-> Addr(n, n - 1),
     cnt  |-> 0]

(* "resource info totally ran out" *)
RanOut(p, n) == p.free = INVALID_PTR(n)

FreeHead(p, n) == SlotAt(n, p.free)

(* sc_res_info_get_mgmt and sc_res_info_get_ctnt, when not RanOut. *)
PoolGet(p, n) ==
    LET s == FreeHead(p, n)
    IN  [id |-> [p.id EXCEPT ![s] = s], free |-> p.id[s], cnt |-> p.cnt + 1]

(* A faulty put: the use count is not taken down. *)
PoolPutUncounted(p, n, s) ==
    IF p.cnt = 0
    THEN p
    ELSE [p EXCEPT !.id[s] = p.free, !.free = Addr(n, s)]

(* sc_res_info_put; a count of zero is refused. *)
PoolPut(p, n, s) ==
    IF p.cnt = 0
    THEN p
    ELSE [id |-> [p.id EXCEPT ![s] = p.free], free |-> Addr(n, s), cnt |-> p.cnt - 1]

(* The test of sc_res_list_process_mgmt for a slot that is not free. *)
InUse(p, n, s) == p.id[s] < n

UsedSlots(p, n) == {s \in Slots(n) : InUse(p, n, s)}

-----------------------------------------------------------------------------
(* l lists the free slots from the end of the free list to its head. *)
IsFreeList(p, n, l) ==
    LET k == n - p.cnt
    IN  /\ \A i, j \in 1 .. k : l[i] = l[j] => i = j
        /\ \A s \in Slots(n) : IF \E i \in 1 .. k : l[i] = s
                               THEN ~InUse(p, n, s)
                               ELSE p.id[s] = s
        /\ p.free = IF k = 0 THEN INVALID_PTR(n) ELSE Addr(n, l[k])
        /\ \A i \in 1 .. k : p.id[l[i]] = IF i = 1 THEN INVALID_PTR(n)
                                          ELSE Addr(n, l[i - 1])

(* The pool is sound: the slots that are not in use are exactly those on   *)
(* the free list, each once, n - cnt of them.                              *)
PoolSound(p, n) == \E l \in [1 .. n - p.cnt -> Slots(n)] : IsFreeList(p, n, l)
=============================================================================
