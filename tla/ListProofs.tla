----------------------------- MODULE ListProofs -----------------------------
(***************************************************************************)
(* What the operations of the lists do, for lists of any length: get and   *)
(* put on a sound free list, a push at the head of a sound child list and  *)
(* the unlinking of any member of it.  The witness is always the list of   *)
(* the members itself, with one element appended or cut out, so no         *)
(* induction is needed.                                                    *)
(***************************************************************************)
EXTENDS SlotPool, LinkedList, FiniteSetTheorems, WellFoundedInduction, TLAPS

(* alloc_and_init leaves a sound free list of every slot. *)
LEMMA PoolInitSound ==
    ASSUME NEW n \in Nat \ {0}
    PROVE  /\ PoolInit(n) \in Pool(n)
           /\ PoolSound(PoolInit(n), n)
           /\ UsedSlots(PoolInit(n), n) = {}
<1> DEFINE p == PoolInit(n)
           l == [i \in 1 .. n |-> i - 1]
<1>1. p \in Pool(n)
  BY DEF PoolInit, Pool, Word, Slots, INVALID_PTR, Addr
<1>2. /\ p.cnt = 0
      /\ p.free = Addr(n, n - 1)
      /\ \A s \in Slots(n) : p.id[s] = IF s = 0 THEN INVALID_PTR(n) ELSE Addr(n, s - 1)
  BY DEF PoolInit
<1>3. UsedSlots(p, n) = {}
  BY <1>2 DEF UsedSlots, InUse, Slots, INVALID_PTR, Addr
<1>4. l \in [1 .. n - p.cnt -> Slots(n)]
  BY <1>2 DEF Slots
<1> HIDE DEF p
<1>5. IsFreeList(p, n, l)
  <2>1. \A i, j \in 1 .. n : l[i] = l[j] => i = j
    OBVIOUS
  <2>2. \A s \in Slots(n) : (\E i \in 1 .. n : l[i] = s) /\ ~InUse(p, n, s)
    <3> TAKE s \in Slots(n)
    <3>1. s + 1 \in 1 .. n /\ l[s + 1] = s
      BY DEF Slots
    <3> QED
      BY <1>3, <3>1 DEF UsedSlots
  <2>3. \A i \in 1 .. n : p.id[l[i]] = IF i = 1 THEN INVALID_PTR(n) ELSE Addr(n, l[i - 1])
    <3> TAKE i \in 1 .. n
    <3>1. l[i] = i - 1 /\ i - 1 \in Slots(n) /\ (i # 1 => l[i - 1] = (i - 1) - 1)
      BY DEF Slots
    <3> QED
      BY <1>2, <3>1
  <2>4. n - p.cnt = n /\ p.free = Addr(n, l[n])
    BY <1>2
  <2> HIDE DEF l
  <2> QED
    BY <2>1, <2>2, <2>3, <2>4 DEF IsFreeList
<1> QED
  BY <1>1, <1>3, <1>4, <1>5 DEF PoolSound, p

(* An allocation fails only when every slot is in use. *)
LEMMA RanOutMeansFull ==
    ASSUME NEW n \in Nat \ {0}, NEW p \in Pool(n), PoolSound(p, n), RanOut(p, n)
    PROVE  UsedSlots(p, n) = Slots(n)
<1>1. p.cnt \in 0 .. n
  BY DEF Pool
<1>2. PICK l \in [1 .. n - p.cnt -> Slots(n)] : IsFreeList(p, n, l)
  BY DEF PoolSound
<1>3. n - p.cnt = 0
  BY <1>1, <1>2 DEF IsFreeList, RanOut, Addr, INVALID_PTR, Slots
<1>4. \A s \in Slots(n) : p.id[s] = s
  <2>1. \A s \in Slots(n) : IF \E i \in 1 .. n - p.cnt : l[i] = s
                             THEN ~InUse(p, n, s) ELSE p.id[s] = s
    BY <1>2 DEF IsFreeList
  <2>2. 1 .. n - p.cnt = {}
    BY <1>3
  <2> QED
    BY <2>1, <2>2
<1> QED
  BY <1>4 DEF UsedSlots, InUse, Slots

(* get returns a slot that was free, marks it as used, and keeps the list. *)
LEMMA PoolGetSound ==
    ASSUME NEW n \in Nat \ {0}, NEW p \in Pool(n), PoolSound(p, n), ~RanOut(p, n)
    PROVE  /\ FreeHead(p, n) \in Slots(n) \ UsedSlots(p, n)
           /\ PoolGet(p, n) \in Pool(n)
           /\ PoolSound(PoolGet(p, n), n)
           /\ UsedSlots(PoolGet(p, n), n) = UsedSlots(p, n) \cup {FreeHead(p, n)}
<1> DEFINE k == n - p.cnt
           h == FreeHead(p, n)
           q == PoolGet(p, n)
<1>1. /\ p.cnt \in 0 .. n /\ p.free \in Word(n)
      /\ p.id \in [Slots(n) -> Word(n)]
  BY DEF Pool
<1>2. PICK l \in [1 .. k -> Slots(n)] : IsFreeList(p, n, l)
  BY DEF PoolSound
<1>3. k \in 1 .. n
  BY <1>1, <1>2 DEF IsFreeList, RanOut
<1>4. h = l[k] /\ h \in Slots(n) /\ ~InUse(p, n, h)
  BY <1>2, <1>3 DEF IsFreeList, FreeHead, SlotAt, Addr, Slots
<1>5. /\ q.cnt = p.cnt + 1 /\ q.free = p.id[h]
      /\ q.id \in [Slots(n) -> Word(n)]
      /\ q.id[h] = h
      /\ \A s \in Slots(n) : s # h => q.id[s] = p.id[s]
  BY <1>1, <1>4 DEF PoolGet, Word, Slots
<1>6. q \in Pool(n)
  <2>1. q = [id |-> q.id, free |-> q.free, cnt |-> q.cnt]
    BY DEF PoolGet
  <2>2. q.free \in Word(n) /\ q.cnt \in 0 .. n
    BY <1>1, <1>3, <1>4, <1>5
  <2> QED
    BY <1>5, <2>1, <2>2 DEF Pool
<1>7. UsedSlots(q, n) = UsedSlots(p, n) \cup {h}
  BY <1>4, <1>5 DEF UsedSlots, InUse, Slots
<1> DEFINE m == [i \in 1 .. k - 1 |-> l[i]]
<1>8. m \in [1 .. n - q.cnt -> Slots(n)]
  BY <1>1, <1>3, <1>5
<1> HIDE DEF q, h
<1>9. IsFreeList(q, n, m)
  <2>0. n - q.cnt = k - 1
    BY <1>1, <1>5
  <2>1. \A i, j \in 1 .. k - 1 : m[i] = m[j] => i = j
    BY <1>2, <1>3 DEF IsFreeList
  <2>2. ASSUME NEW s \in Slots(n)
        PROVE  IF \E i \in 1 .. k - 1 : m[i] = s THEN ~InUse(q, n, s) ELSE q.id[s] = s
    <3>1. CASE s = h
      <4>1. \A i \in 1 .. k - 1 : m[i] # s
        BY <1>2, <1>3, <1>4, <3>1 DEF IsFreeList
      <4> QED
        BY <1>5, <3>1, <4>1
    <3>2. CASE s # h
      <4>1. (\E i \in 1 .. k - 1 : m[i] = s) <=> (\E i \in 1 .. k : l[i] = s)
        <5>1. \A i \in 1 .. k : i \in 1 .. k - 1 \/ i = k
          BY <1>3
        <5>2. \A i \in 1 .. k - 1 : i \in 1 .. k /\ m[i] = l[i]
          BY <1>3
        <5> HIDE DEF m
        <5> QED
          BY <1>4, <3>2, <5>1, <5>2
      <4> QED
        BY <1>2, <1>5, <3>2, <4>1 DEF IsFreeList, InUse
    <3> QED
      BY <3>1, <3>2
  <2>3. q.free = IF k - 1 = 0 THEN INVALID_PTR(n) ELSE Addr(n, m[k - 1])
    BY <1>2, <1>3, <1>4, <1>5 DEF IsFreeList
  <2>4. ASSUME NEW i \in 1 .. k - 1
        PROVE  q.id[m[i]] = IF i = 1 THEN INVALID_PTR(n) ELSE Addr(n, m[i - 1])
    <3>1. i \in 1 .. k /\ m[i] = l[i] /\ l[i] # h
      BY <1>2, <1>3, <1>4 DEF IsFreeList
    <3>2. i # 1 => m[i - 1] = l[i - 1]
      BY <1>3
    <3>3. p.id[l[i]] = IF i = 1 THEN INVALID_PTR(n) ELSE Addr(n, l[i - 1])
      BY <1>2, <3>1 DEF IsFreeList
    <3>4. q.id[m[i]] = p.id[l[i]]
      BY <1>2, <1>5, <3>1
    <3> QED
      BY <3>2, <3>3, <3>4
  <2> QED
    BY <2>0, <2>1, <2>2, <2>3, <2>4 DEF IsFreeList
<1> QED
  BY <1>4, <1>6, <1>7, <1>8, <1>9 DEF PoolSound, UsedSlots, q, h

(* A pool with a slot in use has a count above zero: otherwise its free    *)
(* list would hold n different slots and miss one.                         *)
LEMMA UsedMeansCounted ==
    ASSUME NEW n \in Nat \ {0}, NEW p \in Pool(n), PoolSound(p, n),
           NEW s \in UsedSlots(p, n)
    PROVE  p.cnt # 0
<1> SUFFICES ASSUME p.cnt = 0 PROVE FALSE
  OBVIOUS
<1>1. PICK l \in [1 .. n - p.cnt -> Slots(n)] : IsFreeList(p, n, l)
  BY DEF PoolSound
<1>2. /\ l \in [1 .. n -> Slots(n)]
      /\ \A i, j \in 1 .. n : l[i] = l[j] => i = j
      /\ \A i \in 1 .. n : l[i] # s
  BY <1>1 DEF IsFreeList, UsedSlots
<1>3. s \in Slots(n)
  BY DEF UsedSlots
<1>4. IsFiniteSet(Slots(n)) /\ Cardinality(Slots(n)) = n
  BY FS_Interval DEF Slots
<1>5. IsFiniteSet(1 .. n) /\ Cardinality(1 .. n) = n
  BY FS_Interval
<1>6. IsFiniteSet(Slots(n) \ {s}) /\ Cardinality(Slots(n) \ {s}) = n - 1
  BY <1>3, <1>4, FS_RemoveElement
<1>7. l \in [1 .. n -> Slots(n) \ {s}]
  BY <1>2
<1>8. \E i, j \in 1 .. n : i # j /\ l[i] = l[j]
  <2>1. Cardinality(Slots(n) \ {s}) < Cardinality(1 .. n)
    BY <1>5, <1>6
  <2> QED
    BY <1>5, <1>6, <1>7, <2>1, FS_PigeonHole
<1> QED
  BY <1>2, <1>8

(* put of a slot in use frees it, and nothing else, and keeps the list. *)
LEMMA PoolPutSound ==
    ASSUME NEW n \in Nat \ {0}, NEW p \in Pool(n), PoolSound(p, n),
           NEW s \in UsedSlots(p, n)
    PROVE  /\ PoolPut(p, n, s) \in Pool(n)
           /\ PoolSound(PoolPut(p, n, s), n)
           /\ UsedSlots(PoolPut(p, n, s), n) = UsedSlots(p, n) \ {s}
<1> DEFINE k == n - p.cnt
           q == PoolPut(p, n, s)
<1>1. /\ p.cnt \in 1 .. n /\ p.free \in Word(n)
      /\ p.id \in [Slots(n) -> Word(n)]
      /\ s \in Slots(n) /\ InUse(p, n, s)
  BY UsedMeansCounted DEF Pool, UsedSlots
<1>2. PICK l \in [1 .. k -> Slots(n)] : IsFreeList(p, n, l)
  BY DEF PoolSound
<1>3. k \in 0 .. n - 1
  BY <1>1
<1>4. \A i \in 1 .. k : l[i] # s
  BY <1>1, <1>2 DEF IsFreeList
<1>5. /\ q = [id |-> q.id, free |-> q.free, cnt |-> q.cnt]
      /\ q.cnt = p.cnt - 1 /\ q.free = Addr(n, s)
      /\ q.id \in [Slots(n) -> Word(n)]
      /\ q.id[s] = p.free
      /\ \A x \in Slots(n) : x # s => q.id[x] = p.id[x]
  BY <1>1 DEF PoolPut
<1>6. q.free \in Word(n) /\ q.cnt \in 0 .. n
  BY <1>1, <1>5 DEF Word, Addr, Slots
<1>7. q \in Pool(n)
  BY <1>5, <1>6 DEF Pool
<1>8. p.free = (IF k = 0 THEN INVALID_PTR(n) ELSE Addr(n, l[k])) /\ ~(p.free < n)
  <2>1. p.free = IF k = 0 THEN INVALID_PTR(n) ELSE Addr(n, l[k])
    BY <1>2 DEF IsFreeList
  <2>2. k # 0 => l[k] \in Slots(n)
    BY <1>2, <1>3
  <2> QED
    BY <2>1, <2>2 DEF INVALID_PTR, Addr, Slots
<1> HIDE DEF q
<1>9. UsedSlots(q, n) = UsedSlots(p, n) \ {s}
  BY <1>1, <1>5, <1>8 DEF UsedSlots, InUse
<1> DEFINE m == [i \in 1 .. k + 1 |-> IF i = k + 1 THEN s ELSE l[i]]
<1>10. m \in [1 .. n - q.cnt -> Slots(n)]
  <2>1. n - q.cnt = k + 1
    BY <1>1, <1>5
  <2>2. \A i \in 1 .. k + 1 : i = k + 1 \/ i \in 1 .. k
    BY <1>3
  <2>3. \A i \in 1 .. k + 1 : (IF i = k + 1 THEN s ELSE l[i]) \in Slots(n)
    BY <1>1, <1>2, <2>2
  <2> QED
    BY <2>1, <2>3
<1>11. /\ \A i \in 1 .. k : m[i] = l[i]
       /\ m[k + 1] = s
  BY <1>3
<1> HIDE DEF m
<1>12. IsFreeList(q, n, m)
  <2>0. n - q.cnt = k + 1 /\ k + 1 # 0
    BY <1>1, <1>3, <1>5
  <2>1. ASSUME NEW i \in 1 .. k + 1, NEW j \in 1 .. k + 1, m[i] = m[j]
        PROVE  i = j
    <3>1. (i \in 1 .. k \/ i = k + 1) /\ (j \in 1 .. k \/ j = k + 1)
      BY <1>3
    <3> QED
      BY <1>2, <1>4, <1>11, <2>1, <3>1 DEF IsFreeList
  <2>2. ASSUME NEW x \in Slots(n)
        PROVE  IF \E i \in 1 .. k + 1 : m[i] = x THEN ~InUse(q, n, x) ELSE q.id[x] = x
    <3>1. CASE x = s
      <4>1. k + 1 \in 1 .. k + 1
        BY <1>3
      <4> QED
        BY <1>5, <1>8, <1>11, <3>1, <4>1 DEF InUse
    <3>2. CASE x # s
      <4>1. (\E i \in 1 .. k + 1 : m[i] = x) <=> (\E i \in 1 .. k : l[i] = x)
        BY <1>3, <1>11, <3>2
      <4> QED
        BY <1>2, <1>5, <3>2, <4>1 DEF IsFreeList, InUse
    <3> QED
      BY <3>1, <3>2
  <2>3. q.free = Addr(n, m[k + 1])
    BY <1>5, <1>11
  <2>4. ASSUME NEW i \in 1 .. k + 1
        PROVE  q.id[m[i]] = IF i = 1 THEN INVALID_PTR(n) ELSE Addr(n, m[i - 1])
    <3>1. CASE i = k + 1
      <4>1. q.id[m[i]] = p.free
        BY <1>5, <1>11, <3>1
      <4>2. i # 1 => m[i - 1] = l[k]
        BY <1>3, <1>11, <3>1
      <4> QED
        BY <1>3, <1>8, <3>1, <4>1, <4>2
    <3>2. CASE i # k + 1
      <4>1. i \in 1 .. k /\ m[i] = l[i] /\ (i # 1 => m[i - 1] = l[i - 1])
        BY <1>3, <1>11, <3>2
      <4>2. q.id[l[i]] = p.id[l[i]]
        BY <1>2, <1>4, <1>5, <4>1
      <4> QED
        BY <1>2, <4>1, <4>2 DEF IsFreeList
    <3> QED
      BY <3>1, <3>2
  <2> QED
    BY <2>0, <2>1, <2>2, <2>3, <2>4 DEF IsFreeList
<1> QED
  BY <1>7, <1>9, <1>10, <1>12 DEF PoolSound, q

-----------------------------------------------------------------------------
(* A set of numbers that is not empty has a least element. *)
LEMMA LeastNat ==
    ASSUME NEW T \in SUBSET Nat, T # {}
    PROVE  \E k \in T : \A j \in T : k <= j
<1>1. PICK k \in T : \A y \in T : ~(<<y, k>> \in OpToRel(<, Nat))
  BY NatLessThanWellFounded, WFMin, Zenon
<1>2. ASSUME NEW j \in T
      PROVE  k <= j
  <2>1. j \in Nat /\ k \in Nat
    OBVIOUS
  <2>2. CASE j < k
    <3>1. <<j, k>> \in OpToRel(<, Nat)
      BY <2>1, <2>2 DEF OpToRel
    <3> QED
      BY <1>1, <3>1
  <2> QED
    BY <2>1, <2>2
<1> QED
  BY <1>2

(* head and every link lead to members or to NULL. *)
LEMMA ListMembers ==
    ASSUME NEW S \in SUBSET Nat, NEW k \in Nat, NEW head, NEW next,
           ListSound(k, head, next, S)
    PROVE  /\ head \in S \cup {NULL}
           /\ k = 0 <=> head = NULL
           /\ k = 0 <=> S = {}
           /\ \A x \in S : next[x] \in S \cup {NULL} /\ next[x] # x
<1>1. PICK l \in [1 .. k -> S] : IsList(k, head, next, S, l)
  BY DEF ListSound
<1>2. k # 0 => k \in 1 .. k /\ l[k] \in S /\ l[k] # NULL
  BY DEF NULL
<1>3. head = IF k = 0 THEN NULL ELSE l[k]
  BY <1>1 DEF IsList
<1>4. k = 0 <=> S = {}
  <2>1. ASSUME k = 0 PROVE S = {}
    <3>1. 1 .. k = {}
      BY <2>1
    <3> QED
      BY <1>1, <3>1 DEF IsList
  <2> QED
    BY <1>2, <2>1
<1>5. ASSUME NEW x \in S PROVE next[x] \in S \cup {NULL} /\ next[x] # x
  <2>1. PICK i \in 1 .. k : l[i] = x
    BY <1>1 DEF IsList
  <2>2. next[x] = IF i = 1 THEN NULL ELSE l[i - 1]
    BY <1>1, <2>1 DEF IsList
  <2>3. i # 1 => i - 1 \in 1 .. k /\ i - 1 # i
    OBVIOUS
  <2>4. i # 1 => l[i - 1] \in S /\ l[i - 1] # x
    BY <1>1, <2>1, <2>3 DEF IsList
  <2>5. x # NULL
    BY DEF NULL
  <2> QED
    BY <2>2, <2>4, <2>5
<1> QED
  BY <1>2, <1>3, <1>4, <1>5

(* A controller starts with the empty list. *)
LEMMA ListEmpty ==
    ASSUME NEW next
    PROVE  ListSound(0, NULL, next, {})
<1> DEFINE l == [i \in 1 .. 0 |-> 0]
<1>1. 1 .. 0 = {}
  OBVIOUS
<1>2. l \in [1 .. 0 -> {}]
  BY <1>1
<1>3. IsList(0, NULL, next, {}, l)
  BY <1>1 DEF IsList
<1> QED
  BY <1>2, <1>3 DEF ListSound

(* The number of members is bounded by the number of slots. *)
LEMMA ListBound ==
    ASSUME NEW n \in Nat, NEW S \in SUBSET (0 .. n - 1), NEW k \in Nat,
           NEW head, NEW next, ListSound(k, head, next, S)
    PROVE  k <= n
<1> SUFFICES ASSUME k > n PROVE FALSE
  OBVIOUS
<1>1. PICK l \in [1 .. k -> S] : IsList(k, head, next, S, l)
  BY DEF ListSound
<1>2. IsFiniteSet(1 .. k) /\ Cardinality(1 .. k) = k
  BY FS_Interval
<1>3. IsFiniteSet(0 .. n - 1) /\ Cardinality(0 .. n - 1) = n
  <2>1. 0 \in Int /\ n - 1 \in Int
    OBVIOUS
  <2>2. /\ IsFiniteSet(0 .. n - 1)
        /\ Cardinality(0 .. n - 1) = IF 0 > n - 1 THEN 0 ELSE (n - 1) - 0 + 1
    BY <2>1, FS_Interval, Zenon
  <2> QED
    BY <2>2
<1>4. l \in [1 .. k -> 0 .. n - 1]
  OBVIOUS
<1>5. Cardinality(0 .. n - 1) < Cardinality(1 .. k)
  BY <1>2, <1>3
<1>6. \E i, j \in 1 .. k : i # j /\ l[i] = l[j]
  BY <1>2, <1>3, <1>4, <1>5, FS_PigeonHole
<1> QED
  BY <1>1, <1>6 DEF IsList

(* Links outside the list do not matter. *)
LEMMA ListFrame ==
    ASSUME NEW S, NEW k \in Nat, NEW head, NEW next, NEW next2,
           ListSound(k, head, next, S), \A x \in S : next2[x] = next[x]
    PROVE  ListSound(k, head, next2, S)
<1>1. PICK l \in [1 .. k -> S] : IsList(k, head, next, S, l)
  BY DEF ListSound
<1>2. \A i \in 1 .. k : next2[l[i]] = next[l[i]]
  OBVIOUS
<1>3. IsList(k, head, next2, S, l)
  BY <1>1, <1>2 DEF IsList
<1> QED
  BY <1>3 DEF ListSound

(* sc_res_info_add_ctnt: push a new slot at the head. *)
LEMMA ListPush ==
    ASSUME NEW S \in SUBSET Nat, NEW k \in Nat, NEW head, NEW next, NEW next2,
           NEW c \in Nat \ S,
           ListSound(k, head, next, S),
           next2[c] = head,
           \A x \in S : next2[x] = next[x]
    PROVE  ListSound(k + 1, c, next2, S \cup {c})
<1>1. PICK l \in [1 .. k -> S] : IsList(k, head, next, S, l)
  BY DEF ListSound
<1> DEFINE m == [i \in 1 .. k + 1 |-> IF i = k + 1 THEN c ELSE l[i]]
<1>2. \A i \in 1 .. k + 1 : i = k + 1 \/ i \in 1 .. k
  OBVIOUS
<1>3. /\ \A i \in 1 .. k : m[i] = l[i]
      /\ m[k + 1] = c
      /\ k + 1 \in 1 .. k + 1
      /\ \A i \in 1 .. k : i \in 1 .. k + 1 /\ i # k + 1
  OBVIOUS
<1>4. m \in [1 .. k + 1 -> S \cup {c}]
  <2>1. \A i \in 1 .. k + 1 : (IF i = k + 1 THEN c ELSE l[i]) \in S \cup {c}
    BY <1>2
  <2> QED
    BY <2>1
<1> HIDE DEF m
<1>5. IsList(k + 1, c, next2, S \cup {c}, m)
  <2>1. \A i, j \in 1 .. k + 1 : m[i] = m[j] => i = j
    <3> TAKE i, j \in 1 .. k + 1
    <3>1. CASE i \in 1 .. k /\ j \in 1 .. k
      BY <1>1, <1>3, <3>1 DEF IsList
    <3>2. CASE i = k + 1 /\ j \in 1 .. k
      BY <1>3, <3>2
    <3>3. CASE i \in 1 .. k /\ j = k + 1
      BY <1>3, <3>3
    <3> QED
      BY <1>2, <3>1, <3>2, <3>3
  <2>2. \A x \in S \cup {c} : \E i \in 1 .. k + 1 : m[i] = x
    BY <1>1, <1>3 DEF IsList
  <2>3. c = IF k + 1 = 0 THEN NULL ELSE m[k + 1]
    BY <1>3
  <2>4. ASSUME NEW i \in 1 .. k + 1
        PROVE  next2[m[i]] = IF i = 1 THEN NULL ELSE m[i - 1]
    <3>1. CASE i = k + 1
      <4>1. next2[m[i]] = IF k = 0 THEN NULL ELSE l[k]
        BY <1>1, <1>3, <3>1 DEF IsList
      <4>2. (i = 1 <=> k = 0) /\ (k # 0 => i - 1 = k /\ k \in 1 .. k)
        BY <3>1
      <4> QED
        BY <1>3, <4>1, <4>2
    <3>2. CASE i \in 1 .. k
      <4>0. next[l[i]] = IF i = 1 THEN NULL ELSE l[i - 1]
        BY <1>1, <3>2 DEF IsList
      <4>1. next2[m[i]] = IF i = 1 THEN NULL ELSE l[i - 1]
        BY <1>3, <3>2, <4>0
      <4>2. i # 1 => i - 1 \in 1 .. k
        BY <3>2
      <4> QED
        BY <1>3, <4>1, <4>2
    <3> QED
      BY <1>2, <3>1, <3>2
  <2> QED
    BY <2>1, <2>2, <2>3, <2>4 DEF IsList
<1> QED
  BY <1>4, <1>5 DEF ListSound

(* sc_res_info_remove_loaded: unlink ld, whose predecessor is pre, or that *)
(* is the head when pre is NULL.                                           *)
LEMMA ListRemove ==
    ASSUME NEW S \in SUBSET Nat, NEW k \in Nat, NEW head, NEW next,
           NEW head2, NEW next2, NEW pre, NEW ld \in S,
           ListSound(k, head, next, S),
           \/ pre = NULL /\ head = ld /\ head2 = next[ld]
           \/ /\ pre \in S /\ next[pre] = ld
              /\ head2 = head /\ next2[pre] = next[ld],
           \A x \in S \ {pre, ld} : next2[x] = next[x]
    PROVE  /\ k >= 1
           /\ pre # NULL => k >= 2
           /\ ListSound(k - 1, head2, next2, S \ {ld})
<1>1. PICK l \in [1 .. k -> S] : IsList(k, head, next, S, l)
  BY DEF ListSound
<1>2. PICK a \in 1 .. k : l[a] = ld
  BY <1>1 DEF IsList
<1>3. k >= 1 /\ k \in 1 .. k
  BY <1>2
<1>4. pre = NULL => a = k /\ head2 = next[ld]
  <2>1. S \cap {NULL} = {}
    BY DEF NULL
  <2> QED
    BY <1>1, <1>2, <1>3, <2>1 DEF IsList
<1>5. pre # NULL => /\ a + 1 \in 1 .. k /\ l[a + 1] = pre
                    /\ head2 = head /\ next2[pre] = next[ld]
  <2> SUFFICES ASSUME pre # NULL
               PROVE  a + 1 \in 1 .. k /\ l[a + 1] = pre
    OBVIOUS
  <2>1. PICK b \in 1 .. k : l[b] = pre
    BY <1>1 DEF IsList
  <2>2. ld = IF b = 1 THEN NULL ELSE l[b - 1]
    BY <1>1, <2>1 DEF IsList
  <2>3. b # 1 /\ b - 1 \in 1 .. k
    <3>1. ld # NULL
      BY DEF NULL
    <3> QED
      BY <2>2, <3>1
  <2>4. b - 1 = a
    BY <1>1, <1>2, <2>2, <2>3 DEF IsList
  <2> QED
    BY <2>1, <2>4
<1> DEFINE m == [i \in 1 .. k - 1 |-> IF i < a THEN l[i] ELSE l[i + 1]]
<1>6. \A i \in 1 .. k - 1 : /\ i \in 1 .. k /\ i + 1 \in 1 .. k
                            /\ i < a => m[i] = l[i]
                            /\ ~(i < a) => m[i] = l[i + 1]
  BY <1>3
<1>7. m \in [1 .. k - 1 -> S \ {ld}]
  <2>1. ASSUME NEW i \in 1 .. k - 1
        PROVE  (IF i < a THEN l[i] ELSE l[i + 1]) \in S \ {ld}
    <3>1. i < a => l[i] \in S /\ l[i] # ld
      BY <1>1, <1>2, <1>6 DEF IsList
    <3>2. ~(i < a) => l[i + 1] \in S /\ l[i + 1] # ld
      <4>1. ~(i < a) => i + 1 # a
        OBVIOUS
      <4> QED
        BY <1>1, <1>2, <1>6, <4>1 DEF IsList
    <3> QED
      BY <3>1, <3>2
  <2> QED
    BY <2>1
<1> HIDE DEF m
<1>8. IsList(k - 1, head2, next2, S \ {ld}, m)
  <2>1. ASSUME NEW i \in 1 .. k - 1, NEW j \in 1 .. k - 1, m[i] = m[j]
        PROVE  i = j
    <3>1. CASE i < a /\ j < a
      BY <1>1, <1>6, <2>1, <3>1 DEF IsList
    <3>2. CASE i < a /\ ~(j < a)
      <4>1. i = j + 1
        BY <1>1, <1>6, <2>1, <3>2 DEF IsList
      <4> QED
        BY <3>2, <4>1
    <3>3. CASE ~(i < a) /\ j < a
      <4>1. i + 1 = j
        BY <1>1, <1>6, <2>1, <3>3 DEF IsList
      <4> QED
        BY <3>3, <4>1
    <3>4. CASE ~(i < a) /\ ~(j < a)
      <4>1. i + 1 = j + 1
        BY <1>1, <1>6, <2>1, <3>4 DEF IsList
      <4> QED
        BY <4>1
    <3> QED
      BY <3>1, <3>2, <3>3, <3>4
  <2>2. ASSUME NEW x \in S \ {ld}
        PROVE  \E i \in 1 .. k - 1 : m[i] = x
    <3>1. PICK b \in 1 .. k : l[b] = x
      BY <1>1 DEF IsList
    <3>2. b # a
      BY <1>2, <3>1
    <3>3. CASE b < a
      <4>1. b \in 1 .. k - 1
        BY <3>3
      <4> QED
        BY <1>6, <3>1, <3>3, <4>1
    <3>4. CASE b > a
      <4>1. b - 1 \in 1 .. k - 1 /\ ~(b - 1 < a) /\ (b - 1) + 1 = b
        BY <3>4
      <4> QED
        BY <1>6, <3>1, <4>1
    <3> QED
      BY <3>2, <3>3, <3>4
  <2>3. head2 = IF k - 1 = 0 THEN NULL ELSE m[k - 1]
    <3>1. next[ld] = IF a = 1 THEN NULL ELSE l[a - 1]
      BY <1>1, <1>2 DEF IsList
    <3>2. CASE pre = NULL
      <4>1. head2 = IF k = 1 THEN NULL ELSE l[k - 1]
        BY <1>4, <3>1, <3>2
      <4>2. k # 1 => k - 1 \in 1 .. k - 1 /\ k - 1 < a
        BY <1>3, <1>4, <3>2
      <4> QED
        BY <1>3, <1>6, <4>1, <4>2
    <3>3. CASE pre # NULL
      <4>1. k - 1 \in 1 .. k - 1 /\ ~(k - 1 < a) /\ (k - 1) + 1 = k
        BY <1>3, <1>5, <3>3
      <4>2. head2 = l[k]
        BY <1>1, <1>3, <1>5, <3>3 DEF IsList
      <4> QED
        BY <1>6, <4>1, <4>2
    <3> QED
      BY <3>2, <3>3
  <2>4. ASSUME NEW i \in 1 .. k - 1
        PROVE  next2[m[i]] = IF i = 1 THEN NULL ELSE m[i - 1]
    <3>0. i # 1 => i - 1 \in 1 .. k - 1
      OBVIOUS
    <3>1. CASE i < a
      <4>1. m[i] = l[i] /\ i \in 1 .. k
        BY <1>6, <3>1
      <4>2. l[i] # ld /\ l[i] # pre
        BY <1>1, <1>2, <1>5, <3>1, <4>1 DEF IsList, NULL
      <4>3. next2[m[i]] = IF i = 1 THEN NULL ELSE l[i - 1]
        <5>1. next[l[i]] = IF i = 1 THEN NULL ELSE l[i - 1]
          BY <1>1, <4>1 DEF IsList
        <5> QED
          BY <4>1, <4>2, <5>1
      <4>4. i # 1 => m[i - 1] = l[i - 1]
        BY <1>6, <3>0, <3>1
      <4> QED
        BY <4>3, <4>4
    <3>2. CASE i = a
      <4>1. a + 1 \in 1 .. k /\ m[i] = l[a + 1] /\ a # k
        BY <1>6, <3>2
      <4>2. m[i] = pre /\ next2[m[i]] = next[ld]
        BY <1>4, <1>5, <4>1
      <4>3. next[ld] = IF a = 1 THEN NULL ELSE l[a - 1]
        BY <1>1, <1>2 DEF IsList
      <4>4. i # 1 => m[i - 1] = l[a - 1]
        <5>1. i # 1 => i - 1 < a
          BY <3>2
        <5> QED
          BY <1>6, <3>0, <3>2, <5>1
      <4> QED
        BY <3>2, <4>2, <4>3, <4>4
    <3>3. CASE i > a
      <4>1. m[i] = l[i + 1] /\ i + 1 \in 1 .. k /\ i + 1 # a /\ i + 1 # a + 1 /\ i + 1 # 1
        BY <1>6, <3>3
      <4>2. l[i + 1] # ld /\ l[i + 1] # pre
        <5>1. pre # NULL => l[i + 1] # pre
          BY <1>1, <1>5, <4>1 DEF IsList
        <5>2. l[i + 1] # NULL
          BY <4>1 DEF NULL
        <5> QED
          BY <1>1, <1>2, <4>1, <5>1, <5>2 DEF IsList
      <4>3. next2[m[i]] = l[(i + 1) - 1]
        <5>1. next[l[i + 1]] = l[(i + 1) - 1]
          BY <1>1, <4>1 DEF IsList
        <5> QED
          BY <4>1, <4>2, <5>1
      <4>4. i # 1 /\ ~(i - 1 < a) /\ (i - 1) + 1 = i /\ (i + 1) - 1 = i
        BY <3>3
      <4>5. m[i - 1] = l[i]
        BY <1>6, <3>0, <4>4
      <4> QED
        BY <4>3, <4>4, <4>5
    <3> QED
      BY <3>1, <3>2, <3>3
  <2> QED
    BY <2>1, <2>2, <2>3, <2>4 DEF IsList
<1>9. pre # NULL => k >= 2
  BY <1>5
<1> QED
  BY <1>3, <1>7, <1>8, <1>9 DEF ListSound

(* A loop follows next from the head for n members, none of them NULL. *)
Walks(n, w, head, next) ==
    /\ w[1] = head
    /\ \A j \in 2 .. n : w[j] = next[w[j - 1]]
    /\ \A j \in 1 .. n : w[j] # NULL

(* Such a loop is on the list all the way. *)
LEMMA ListWalk ==
    ASSUME NEW S \in SUBSET Nat, NEW k \in Nat, NEW head, NEW next, ListSound(k, head, next, S),
           NEW n \in Nat, NEW w, Walks(n, w, head, next)
    PROVE  \A j \in 1 .. n : w[j] \in S
<1> DEFINE Off == {j \in 1 .. n : w[j] \notin S}
<1> SUFFICES ASSUME Off # {} PROVE FALSE
  OBVIOUS
<1>1. PICK j \in Off : \A i \in Off : j <= i
  <2>1. Off \in SUBSET Nat
    OBVIOUS
  <2> HIDE DEF Off
  <2> QED
    BY <2>1, LeastNat
<1>2. head \in S \cup {NULL} /\ \A x \in S : next[x] \in S \cup {NULL}
  BY ListMembers
<1>3. CASE j = 1
  BY <1>1, <1>2, <1>3 DEF Walks
<1>4. CASE j # 1
  <2>1. j \in 2 .. n /\ j - 1 \in 1 .. n /\ j - 1 \notin Off
    BY <1>1, <1>4
  <2>2. w[j - 1] \in S
    BY <2>1
  <2> QED
    BY <1>1, <1>2, <2>1, <2>2 DEF Walks
<1> QED
  BY <1>3, <1>4
=============================================================================
