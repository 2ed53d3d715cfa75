----------------------------- MODULE AtomicList ----------------------------
(***************************************************************************)
(* What the callers of the resource list rely on: a content slot is given  *)
(* to one owner at a time, is refused only when all are in use, and a flag *)
(* that is set stays set until the slot is put back, but for the two flags *)
(* of a failure, which are also unset.  Every call is one step, as ResList *)
(* and HotCache take it.                                                   *)
(***************************************************************************)
EXTENDS Integers

CONSTANTS
    Slot,       \* the content slots
    SetFlags,   \* the flags that are set
    UnsetFlags  \* the ones that are also unset: D_FAIL and I_FAIL

VARIABLES
    owners,  \* how many owners a slot has
    flags,   \* the flags of a slot in use
    ret      \* what the last get returned

avars == <<owners, flags, ret>>

AInit == /\ owners = [s \in Slot |-> 0]
         /\ flags = [s \in Slot |-> {}]
         /\ ret = "none"

AGet == \E s \in Slot :
           /\ owners[s] = 0
           /\ owners' = [owners EXCEPT ![s] = 1]
           /\ flags' = [flags EXCEPT ![s] = {}]
           /\ ret' = "slot"

ARanOut == /\ \A s \in Slot : owners[s] # 0
           /\ ret' = "NULL"
           /\ UNCHANGED <<owners, flags>>

APut(s) == /\ owners[s] = 1
           /\ owners' = [owners EXCEPT ![s] = 0]
           /\ flags' = [flags EXCEPT ![s] = {}]
           /\ UNCHANGED ret

ASet(s, fl) == /\ owners[s] = 1
               /\ flags' = [flags EXCEPT ![s] = @ \cup {fl}]
               /\ UNCHANGED <<owners, ret>>

AUnset(s, fl) == /\ owners[s] = 1
                 /\ flags' = [flags EXCEPT ![s] = @ \ {fl}]
                 /\ UNCHANGED <<owners, ret>>

ANext == \/ AGet \/ ARanOut
         \/ \E s \in Slot : \/ APut(s)
                           \/ (\E fl \in SetFlags : ASet(s, fl))
                           \/ (\E fl \in UnsetFlags : AUnset(s, fl))

ASpec == AInit /\ [][ANext]_avars
=============================================================================
