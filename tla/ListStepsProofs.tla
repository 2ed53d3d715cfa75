-------------------------- MODULE ListStepsProofs --------------------------
(***************************************************************************)
(* What holds of the unlocked calls of ListSteps on the content slots, for *)
(* any length of ctnt[] and any number of Nginx workers: every access      *)
(* keeps its type whatever overlaps, and the free list is sound until two  *)
(* gets or puts have met, with flags read and written at any time.         *)
(***************************************************************************)
EXTENDS ListSteps, ListProofs

Own == {s \in Slots(N) : owned[s] = 1}

(* p is a sound pool whose slots in use are those of U. *)
Good(p, U) == p \in Pool(N) /\ PoolSound(p, N) /\ UsedSlots(p, N) = U

(* Past zeroing its slot a put has begun to change the pool; a get changes *)
(* it from its first step on.                                              *)
PastZero == {"put_id", "put_head", "put_count", "put_counted"}
Moving(a) == pc[a] \in Getting \cup PastZero
PC == Getting \cup PuttingBack \cup {"idle", "download", "flag_read", "flag_write"}

(* Where a get of actor a is that began with pool b. *)
MidGet(a, b) ==
    LET s == slot[a]
    IN  /\ ~RanOut(b, N) /\ s = FreeHead(b, N)
        /\ pool.id = IF pc[a] = "get_id" THEN [b.id EXCEPT ![s] = 0] ELSE b.id
        /\ pool.free = IF pc[a] = "get_next" THEN b.free ELSE b.id[s]
        /\ pool.cnt = IF pc[a] \in {"get_zero", "get_id"} THEN b.cnt + 1 ELSE b.cnt
        /\ pc[a] = "get_counted" => reg[a].cnt = b.cnt

(* Where a put of actor a is that began with pool b, once its slot has no  *)
(* owner any more.                                                         *)
MidPut(a, b) ==
    LET s == slot[a]
    IN  /\ owned[s] = 0
        /\ pool.id = [b.id EXCEPT ![s] = IF pc[a] = "put_id" THEN 0 ELSE b.free]
        /\ pool.free = IF pc[a] \in {"put_id", "put_head"} THEN b.free ELSE Addr(N, s)
        /\ pool.cnt = b.cnt
        /\ pc[a] = "put_counted" => reg[a].cnt = b.cnt

Reg == [cnt : Int, flag : SUBSET FlagBit, add : SUBSET FlagBit, del : SUBSET FlagBit]
Memory == [id : [Slots(N) -> Word(N)], free : Word(N), cnt : Int]

(* The types, which hold however calls overlap. *)
StepsTyped ==
    /\ pool \in Memory
    /\ word \in [Slots(N) -> SUBSET FlagBit]
    /\ pc \in [Actor -> PC]
    /\ slot \in [Actor -> Slots(N)] /\ asked \subseteq Slots(N)
    /\ reg \in [Actor -> Reg]
    /\ owned \in [Slots(N) -> Int] /\ met \in BOOLEAN

(* As long as no two calls have met there is one at a time, and it has     *)
(* taken the pool from a sound one to where it is now.                     *)
Shape == pool \in Pool(N) /\ owned \in [Slots(N) -> 0 .. 1]

OneCall == \A a, b \in Actor : InCall(a) /\ InCall(b) => a = b

QuietPool == (\A a \in Actor : ~Moving(a)) => Good(pool, Own)

CallOf(a) ==
    /\ pc[a] \in Getting => \E b \in Pool(N) : Good(b, Own) /\ MidGet(a, b)
    /\ pc[a] = "put_zero" => owned[slot[a]] = 1
    /\ pc[a] \in PastZero =>
          \E b \in Pool(N) : Good(b, Own \cup {slot[a]}) /\ MidPut(a, b)

CallsSound == Shape /\ OneCall /\ QuietPool /\ \A a \in Actor : CallOf(a)

StepsInv == StepsTyped /\ (~met => CallsSound)

OnlyOne(a) == \A c \in Actor : c # a => ~InCall(c)

-----------------------------------------------------------------------------
(* The pool after one store to it. *)
LEMMA PoolStores ==
    ASSUME NEW p \in Pool(N), NEW w \in Word(N), NEW s \in Slots(N), NEW c \in 0 .. N
    PROVE  /\ [p EXCEPT !.free = w] \in Pool(N)
           /\ [p EXCEPT !.cnt = c] \in Pool(N)
           /\ [p EXCEPT !.id[s] = w] \in Pool(N)
BY DEF Pool

LEMMA PoolFields ==
    ASSUME NEW p \in Pool(N), NEW w, NEW s \in Slots(N)
    PROVE  /\ [p EXCEPT !.free = w].id = p.id /\ [p EXCEPT !.free = w].free = w
           /\ [p EXCEPT !.free = w].cnt = p.cnt
           /\ [p EXCEPT !.cnt = w].id = p.id /\ [p EXCEPT !.cnt = w].free = p.free
           /\ [p EXCEPT !.cnt = w].cnt = w
           /\ [p EXCEPT !.id[s] = w].id = [p.id EXCEPT ![s] = w]
           /\ [p EXCEPT !.id[s] = w].free = p.free /\ [p EXCEPT !.id[s] = w].cnt = p.cnt
BY DEF Pool

(* A pool is its three fields. *)
LEMMA PoolIs ==
    ASSUME NEW p \in Pool(N), NEW q \in Pool(N), p.id = q.id, p.free = q.free, p.cnt = q.cnt
    PROVE  p = q
BY DEF Pool

(* The words that the code stores into a pool. *)
LEMMA Words ==
    ASSUME NEW s \in Slots(N)
    PROVE  /\ s \in Word(N) /\ 0 \in Word(N) /\ Addr(N, s) \in Word(N)
           /\ \A p \in Pool(N) : /\ p.free \in Word(N) /\ p.id[s] \in Word(N)
                                 /\ p.cnt \in 0 .. N /\ p.id \in [Slots(N) -> Word(N)]
BY StepsAssumption DEF Slots, Word, Addr, Pool

(* No other call is under way while actor a makes one, and it goes on at   *)
(* l: what has to be shown is only about a.                                *)
LEMMA Alone ==
    ASSUME StepsTyped, NEW a \in Actor, NEW l \in PC, Goto(a, l), OnlyOne(a)
    PROVE  /\ pc' \in [Actor -> PC] /\ pc'[a] = l
           /\ \A c \in Actor : c # a => ~InCall(c) /\ ~InCall(c)'
BY DEF StepsTyped, Goto, OnlyOne, InCall

LEMMA Assemble ==
    ASSUME NEW a \in Actor, Shape', \A c \in Actor : c # a => ~InCall(c)',
           CallOf(a)', (~Moving(a) => Good(pool, Own))'
    PROVE  CallsSound'
<1>1. \A c \in Actor : c # a => CallOf(c)'
  BY DEF CallOf, Getting, PuttingBack, PastZero, InCall
<1>2. QuietPool'
  BY DEF QuietPool
<1>3. OneCall'
  BY DEF OneCall
<1> QED
  BY <1>1, <1>2, <1>3 DEF CallsSound

-----------------------------------------------------------------------------
(* GETTING A SLOT *)

(* The pool a get began with, and what the whole call makes of it. *)
LEMMA GetFrom ==
    ASSUME StepsTyped, CallsSound, NEW a \in Actor, pc[a] \in Getting
    PROVE  \E b \in Pool(N) :
              /\ Good(b, Own) /\ MidGet(a, b) /\ b.cnt + 1 \in 0 .. N
              /\ slot[a] \in Slots(N) \ Own /\ Good(PoolGet(b, N), Own \cup {slot[a]})
<1>1. PICK b \in Pool(N) : Good(b, Own) /\ MidGet(a, b)
  BY DEF CallsSound, CallOf
<1>2. ~RanOut(b, N) /\ slot[a] = FreeHead(b, N)
  BY <1>1 DEF MidGet
<1>3. /\ FreeHead(b, N) \in Slots(N) \ Own /\ PoolGet(b, N) \in Pool(N)
      /\ PoolSound(PoolGet(b, N), N) /\ UsedSlots(PoolGet(b, N), N) = Own \cup {FreeHead(b, N)}
  BY <1>1, <1>2, PoolGetSound, StepsAssumption DEF Good
<1>4. b.cnt + 1 \in 0 .. N
  BY <1>3, Words DEF PoolGet
<1> QED
  BY <1>1, <1>2, <1>3, <1>4 DEF Good

LEMMA IGetHead ==
    ASSUME StepsTyped, CallsSound, NEW a \in Actor, GetHead(a), OnlyOne(a)
    PROVE  CallsSound'
<1>1. /\ pc' \in [Actor -> PC] /\ pc'[a] = "get_next"
      /\ \A c \in Actor : c # a => ~InCall(c) /\ ~InCall(c)'
  BY Alone DEF GetHead, PC, Getting
<1>2. Good(pool, Own) /\ pool \in Pool(N)
  BY <1>1 DEF CallsSound, QuietPool, GetHead, Begin, Moving, InCall, Getting, PuttingBack, PastZero, Good
<1>3. /\ slot' \in [Actor -> Slots(N)] /\ slot'[a] = FreeHead(pool, N)
      /\ UNCHANGED <<pool, word, reg, owned, got>>
  BY DEF GetHead, CallsSound, Shape, StepsTyped
<1>4. ~RanOut(pool, N)
  BY <1>3, StepsAssumption DEF RanOut, FreeHead, SlotAt, INVALID_PTR, Slots, GetHead
<1>5. MidGet(a, pool)'
  BY <1>1, <1>3, <1>4 DEF MidGet
<1>6. Good(pool, Own)'
  BY <1>2, <1>3 DEF Good, Own
<1>7. CallOf(a)'
  BY <1>1, <1>2, <1>3, <1>5, <1>6 DEF CallOf, Getting, PastZero, Good
<1>8. Shape'
  BY <1>1, <1>3 DEF CallsSound, Shape
<1> QED
  BY <1>1, <1>6, <1>7, <1>8, Assemble

LEMMA IGetNext ==
    ASSUME StepsTyped, CallsSound, NEW a \in Actor, GetNext(a), OnlyOne(a)
    PROVE  CallsSound'
<1>1. /\ pc' \in [Actor -> PC] /\ pc'[a] = "get_count"
      /\ \A c \in Actor : c # a => ~InCall(c) /\ ~InCall(c)'
  BY Alone DEF GetNext, PC, Getting
<1>2. PICK b \in Pool(N) : Good(b, Own) /\ MidGet(a, b) /\ slot[a] \in Slots(N) \ Own
  BY GetFrom DEF GetNext, Getting
<1>3. /\ pool' = [pool EXCEPT !.free = pool.id[slot[a]]] /\ pool \in Pool(N)
      /\ UNCHANGED <<word, slot, reg, owned, got>> /\ pc[a] = "get_next"
  BY DEF GetNext, CallsSound, Shape, StepsTyped
<1>4. pool' \in Pool(N)
  BY <1>2, <1>3, Words, PoolStores
<1>5. pool'.id = pool.id /\ pool'.free = pool.id[slot[a]] /\ pool'.cnt = pool.cnt
  BY <1>2, <1>3, PoolFields
<1>6. MidGet(a, b)'
  BY <1>1, <1>2, <1>3, <1>5 DEF MidGet
<1>7. Good(b, Own)'
  BY <1>2, <1>3 DEF Good, Own
<1>8. CallOf(a)'
  BY <1>1, <1>6, <1>7 DEF CallOf, Getting, PastZero
<1>9. Shape'
  BY <1>1, <1>3, <1>4 DEF CallsSound, Shape
<1> QED
  BY <1>1, <1>8, <1>9, Assemble DEF Moving, Getting, PastZero

LEMMA IGetCount ==
    ASSUME StepsTyped, CallsSound, NEW a \in Actor, GetCount(a), OnlyOne(a)
    PROVE  CallsSound'
<1>1. /\ pc' \in [Actor -> PC] /\ pc'[a] = "get_counted"
      /\ \A c \in Actor : c # a => ~InCall(c) /\ ~InCall(c)'
  BY Alone DEF GetCount, PC, Getting
<1>2. PICK b \in Pool(N) : Good(b, Own) /\ MidGet(a, b) /\ slot[a] \in Slots(N) \ Own
  BY GetFrom DEF GetCount, Getting
<1>3. /\ reg' = [reg EXCEPT ![a].cnt = pool.cnt] /\ pool \in Pool(N)
      /\ UNCHANGED <<pool, word, slot, owned, got>> /\ pc[a] = "get_count"
  BY DEF GetCount, CallsSound, Shape, StepsTyped
<1>4. reg'[a].cnt = pool.cnt
  BY <1>3 DEF StepsTyped, Reg
<1>6. MidGet(a, b)'
  BY <1>1, <1>2, <1>3, <1>4 DEF MidGet
<1>7. Good(b, Own)'
  BY <1>2, <1>3 DEF Good, Own
<1>8. CallOf(a)'
  BY <1>1, <1>6, <1>7 DEF CallOf, Getting, PastZero
<1>9. Shape'
  BY <1>1, <1>3, <1>4 DEF CallsSound, Shape
<1> QED
  BY <1>1, <1>8, <1>9, Assemble DEF Moving, Getting, PastZero

LEMMA IGetCounted ==
    ASSUME StepsTyped, CallsSound, NEW a \in Actor, GetCounted(a), OnlyOne(a)
    PROVE  CallsSound'
<1>1. /\ pc' \in [Actor -> PC] /\ pc'[a] = "get_zero"
      /\ \A c \in Actor : c # a => ~InCall(c) /\ ~InCall(c)'
  BY Alone DEF GetCounted, PC, Getting
<1>2. PICK b \in Pool(N) : Good(b, Own) /\ MidGet(a, b) /\ slot[a] \in Slots(N) \ Own
                           /\ b.cnt + 1 \in 0 .. N
  BY GetFrom DEF GetCounted, Getting
<1>3. /\ pool' = [pool EXCEPT !.cnt = reg[a].cnt + 1] /\ pool \in Pool(N)
      /\ UNCHANGED <<word, slot, reg, owned, got>> /\ pc[a] = "get_counted"
  BY DEF GetCounted, CallsSound, Shape, StepsTyped
<1>4. reg[a].cnt = b.cnt
  BY <1>2, <1>3 DEF MidGet
<1>5. pool' \in Pool(N)
  BY <1>2, <1>3, <1>4, Words, PoolStores
<1>6. pool'.id = pool.id /\ pool'.free = pool.free /\ pool'.cnt = b.cnt + 1
  BY <1>2, <1>3, <1>4, PoolFields
<1>7. MidGet(a, b)'
  BY <1>1, <1>2, <1>3, <1>6 DEF MidGet
<1>8. Good(b, Own)'
  BY <1>2, <1>3 DEF Good, Own
<1>9. CallOf(a)'
  BY <1>1, <1>7, <1>8 DEF CallOf, Getting, PastZero
<1>10. Shape'
  BY <1>1, <1>3, <1>5 DEF CallsSound, Shape
<1> QED
  BY <1>1, <1>9, <1>10, Assemble DEF Moving, Getting, PastZero

LEMMA IGetZero ==
    ASSUME StepsTyped, CallsSound, NEW a \in Actor, GetZero(a), OnlyOne(a)
    PROVE  CallsSound'
<1>1. /\ pc' \in [Actor -> PC] /\ pc'[a] = "get_id"
      /\ \A c \in Actor : c # a => ~InCall(c) /\ ~InCall(c)'
  BY Alone DEF GetZero, PC, Getting
<1>2. PICK b \in Pool(N) : Good(b, Own) /\ MidGet(a, b) /\ slot[a] \in Slots(N) \ Own
  BY GetFrom DEF GetZero, Getting
<1>3. /\ pool' = [pool EXCEPT !.id[slot[a]] = 0] /\ pool \in Pool(N)
      /\ word' = [word EXCEPT ![slot[a]] = {}]
      /\ UNCHANGED <<slot, reg, owned, got>> /\ pc[a] = "get_zero"
  BY DEF GetZero, CallsSound, Shape, StepsTyped
<1>4. pool' \in Pool(N)
  BY <1>2, <1>3, Words, PoolStores
<1>5. pool'.id = [pool.id EXCEPT ![slot[a]] = 0] /\ pool'.free = pool.free /\ pool'.cnt = pool.cnt
  BY <1>2, <1>3, PoolFields
<1>6. word' \in [Slots(N) -> SUBSET FlagBit] /\ word'[slot[a]] = {}
  BY <1>2, <1>3 DEF CallsSound, Shape, StepsTyped
<1>7. MidGet(a, b)'
  BY <1>1, <1>2, <1>3, <1>5, <1>6 DEF MidGet
<1>8. Good(b, Own)'
  BY <1>2, <1>3 DEF Good, Own
<1>9. CallOf(a)'
  BY <1>1, <1>7, <1>8 DEF CallOf, Getting, PastZero
<1>10. Shape'
  BY <1>1, <1>3, <1>4, <1>6 DEF CallsSound, Shape
<1> QED
  BY <1>1, <1>9, <1>10, Assemble DEF Moving, Getting, PastZero

(* The last access of a get: the pool is what PoolGet says. *)
LEMMA IGetId ==
    ASSUME StepsTyped, CallsSound, NEW a \in Actor, GetId(a), OnlyOne(a)
    PROVE  CallsSound'
<1>1. /\ pc' \in [Actor -> PC] /\ pc'[a] = "download"
      /\ \A c \in Actor : c # a => ~InCall(c) /\ ~InCall(c)'
  BY Alone DEF GetId, PC, Moving, InCall, Getting, PuttingBack, PastZero
<1>2. PICK b \in Pool(N) : Good(b, Own) /\ MidGet(a, b) /\ slot[a] \in Slots(N) \ Own
                           /\ Good(PoolGet(b, N), Own \cup {slot[a]})
  BY GetFrom DEF GetId, Getting
<1>3. /\ pool' = [pool EXCEPT !.id[slot[a]] = slot[a]] /\ pool \in Pool(N)
      /\ owned' = [owned EXCEPT ![slot[a]] = @ + 1]
      /\ UNCHANGED <<word, slot>> /\ pc[a] = "get_id"
  BY DEF GetId, CallsSound, Shape, StepsTyped
<1>4. pool' \in Pool(N)
  BY <1>2, <1>3, Words, PoolStores
<1>5. /\ pool'.id = [pool.id EXCEPT ![slot[a]] = slot[a]] /\ pool'.free = pool.free
      /\ pool'.cnt = pool.cnt
  BY <1>2, <1>3, PoolFields
<1>6. pool' = PoolGet(b, N)
  <2>1. pool.id = [b.id EXCEPT ![slot[a]] = 0] /\ pool.free = b.id[slot[a]] /\ pool.cnt = b.cnt + 1
        /\ slot[a] = FreeHead(b, N)
    BY <1>2, <1>3 DEF MidGet
  <2>2. pool'.id = [b.id EXCEPT ![slot[a]] = slot[a]]
    BY <1>2, <1>5, <2>1, Words
  <2>3. PoolGet(b, N).id = pool'.id /\ PoolGet(b, N).free = pool'.free /\ PoolGet(b, N).cnt = pool'.cnt
    BY <1>5, <2>1, <2>2 DEF PoolGet
  <2> QED
    BY <1>2, <1>4, <2>3, PoolIs DEF Good
<1>7. owned' \in [Slots(N) -> 0 .. 1] /\ Own' = Own \cup {slot[a]}
  <2>1. owned \in [Slots(N) -> 0 .. 1] /\ owned[slot[a]] = 0
    BY <1>2 DEF CallsSound, Shape, StepsTyped, Own
  <2>2. owned' = [owned EXCEPT ![slot[a]] = 1]
    BY <1>3, <2>1
  <2> QED
    BY <1>2, <2>1, <2>2 DEF Own
<1>9. Shape'
  BY <1>1, <1>3, <1>4, <1>7 DEF CallsSound, Shape
<1>10. Good(pool, Own)'
  BY <1>2, <1>6, <1>7 DEF Good
<1>11. CallOf(a)'
  BY <1>1 DEF CallOf, Getting, PuttingBack, PastZero
<1> QED
  BY <1>1, <1>9, <1>10, <1>11, Assemble

-----------------------------------------------------------------------------
(* PUTTING A SLOT BACK *)

(* The pool a put began with, and what the whole call makes of it. *)
LEMMA PutTo ==
    ASSUME NEW b \in Pool(N), NEW U \in SUBSET Slots(N), NEW s \in U, Good(b, U)
    PROVE  /\ b.cnt # 0 /\ b.cnt - 1 \in 0 .. N
           /\ PoolPut(b, N, s) = [id |-> [b.id EXCEPT ![s] = b.free], free |-> Addr(N, s),
                                  cnt |-> b.cnt - 1]
           /\ Good(PoolPut(b, N, s), U \ {s})
<1>1. s \in UsedSlots(b, N) /\ PoolSound(b, N)
  BY DEF Good
<1>2. b.cnt # 0
  BY <1>1, UsedMeansCounted, StepsAssumption
<1>3. b.cnt - 1 \in 0 .. N
  BY <1>2, StepsAssumption DEF Pool
<1>4. Good(PoolPut(b, N, s), U \ {s})
  BY <1>1, PoolPutSound, StepsAssumption DEF Good
<1> QED
  BY <1>2, <1>3, <1>4 DEF PoolPut

LEMMA PutFrom ==
    ASSUME StepsTyped, CallsSound, NEW a \in Actor, pc[a] \in PastZero
    PROVE  \E b \in Pool(N) :
              /\ Good(b, Own \cup {slot[a]}) /\ MidPut(a, b) /\ slot[a] \in Slots(N) \ Own
              /\ b.cnt - 1 \in 0 .. N
              /\ PoolPut(b, N, slot[a]) = [id |-> [b.id EXCEPT ![slot[a]] = b.free],
                                           free |-> Addr(N, slot[a]), cnt |-> b.cnt - 1]
              /\ Good(PoolPut(b, N, slot[a]), Own)
<1>1. PICK b \in Pool(N) : Good(b, Own \cup {slot[a]}) /\ MidPut(a, b)
  BY DEF CallsSound, CallOf
<1>2. slot[a] \in Slots(N) /\ owned[slot[a]] = 0
  BY <1>1 DEF MidPut, CallsSound, Shape, StepsTyped
<1>3. slot[a] \in Slots(N) \ Own /\ (Own \cup {slot[a]}) \ {slot[a]} = Own
      /\ Own \cup {slot[a]} \in SUBSET Slots(N)
  BY <1>2 DEF Own
<1>4. PICK U \in SUBSET Slots(N) : U = Own \cup {slot[a]}
  BY <1>3
<1>5. /\ b.cnt - 1 \in 0 .. N
      /\ PoolPut(b, N, slot[a]) = [id |-> [b.id EXCEPT ![slot[a]] = b.free],
                                   free |-> Addr(N, slot[a]), cnt |-> b.cnt - 1]
      /\ Good(PoolPut(b, N, slot[a]), U \ {slot[a]})
  <2>1. slot[a] \in U /\ Good(b, U)
    BY <1>1, <1>4
  <2> QED
    BY <2>1, PutTo
<1>6. U \ {slot[a]} = Own
  BY <1>3, <1>4
<1> QED
  BY <1>1, <1>3, <1>5, <1>6

LEMMA IPutBegin ==
    ASSUME StepsTyped, CallsSound, NEW a \in Actor, PutBegin(a), OnlyOne(a)
    PROVE  CallsSound'
<1>1. /\ pc' \in [Actor -> PC] /\ pc'[a] = "put_zero"
      /\ \A c \in Actor : c # a => ~InCall(c) /\ ~InCall(c)'
  BY Alone DEF PutBegin, PC, Moving, InCall, Getting, PuttingBack, PastZero
<1>2. Good(pool, Own)
  BY <1>1 DEF CallsSound, QuietPool, PutBegin, Begin, Moving, InCall, Getting, PuttingBack, PastZero
<1>3. PICK s \in Slots(N) : owned[s] > 0 /\ slot' = [slot EXCEPT ![a] = s]
  BY DEF PutBegin
<1>4. /\ slot' \in [Actor -> Slots(N)] /\ slot'[a] = s /\ owned[s] = 1
      /\ UNCHANGED <<pool, word, reg, owned, got>>
  BY <1>3 DEF PutBegin, CallsSound, Shape, StepsTyped
<1>5. Good(pool, Own)'
  BY <1>2, <1>4 DEF Good, Own
<1>6. CallOf(a)'
  BY <1>1, <1>4 DEF CallOf, Getting, PuttingBack, PastZero
<1>7. Shape'
  BY <1>1, <1>4 DEF CallsSound, Shape
<1> QED
  BY <1>1, <1>5, <1>6, <1>7, Assemble

LEMMA IPutZero ==
    ASSUME StepsTyped, CallsSound, NEW a \in Actor, PutZero(a), OnlyOne(a)
    PROVE  CallsSound'
<1>1. /\ pc' \in [Actor -> PC] /\ pc'[a] = "put_id"
      /\ \A c \in Actor : c # a => ~InCall(c) /\ ~InCall(c)'
  BY Alone DEF PutZero, PC, PuttingBack
<1>2. Good(pool, Own) /\ owned[slot[a]] = 1 /\ slot[a] \in Own /\ slot[a] \in Slots(N)
  BY <1>1 DEF CallsSound, Shape, StepsTyped, QuietPool, CallOf, PutZero, Moving, InCall, Getting, PuttingBack, PastZero, Own
<1>3. /\ pool' = [pool EXCEPT !.id[slot[a]] = 0] /\ pool \in Pool(N)
      /\ word' = [word EXCEPT ![slot[a]] = {}] /\ owned' = [owned EXCEPT ![slot[a]] = @ - 1]
      /\ UNCHANGED <<slot, reg, got>>
  BY DEF PutZero, CallsSound, Shape, StepsTyped
<1>4. pool' \in Pool(N)
  BY <1>2, <1>3, Words, PoolStores
<1>5. pool'.id = [pool.id EXCEPT ![slot[a]] = 0] /\ pool'.free = pool.free /\ pool'.cnt = pool.cnt
  BY <1>2, <1>3, PoolFields
<1>6. word' \in [Slots(N) -> SUBSET FlagBit]
  BY <1>2, <1>3 DEF CallsSound, Shape, StepsTyped
<1>7. owned' \in [Slots(N) -> 0 .. 1] /\ Own' = Own \ {slot[a]} /\ owned'[slot[a]] = 0
  <2>1. owned \in [Slots(N) -> 0 .. 1]
    BY DEF CallsSound, Shape, StepsTyped
  <2>2. owned' = [owned EXCEPT ![slot[a]] = 0]
    BY <1>2, <1>3, <2>1
  <2> QED
    BY <1>2, <2>1, <2>2 DEF Own
<1>8. \E b \in Pool(N) : Good(b, Own' \cup {slot'[a]}) /\ MidPut(a, b)'
  <2>1. PICK b \in Pool(N) : b = pool
    BY <1>3
  <2>2. Good(b, Own' \cup {slot'[a]})
    <3>1. Own' \cup {slot'[a]} = Own
      BY <1>2, <1>3, <1>7
    <3> QED
      BY <1>2, <2>1, <3>1
  <2>3. MidPut(a, b)'
    BY <1>1, <1>3, <1>5, <1>7, <2>1 DEF MidPut
  <2> QED
    BY <2>2, <2>3
<1>9. CallOf(a)'
  BY <1>1, <1>8 DEF CallOf, Getting, Good
<1>10. Shape'
  BY <1>1, <1>3, <1>4, <1>6, <1>7 DEF CallsSound, Shape
<1> QED
  BY <1>1, <1>9, <1>10, Assemble DEF Moving, Getting, PastZero

LEMMA IPutId ==
    ASSUME StepsTyped, CallsSound, NEW a \in Actor, PutId(a), OnlyOne(a)
    PROVE  CallsSound'
<1>1. /\ pc' \in [Actor -> PC] /\ pc'[a] = "put_head"
      /\ \A c \in Actor : c # a => ~InCall(c) /\ ~InCall(c)'
  BY Alone DEF PutId, PC, PuttingBack
<1>2. PICK b \in Pool(N) : /\ Good(b, Own \cup {slot[a]}) /\ MidPut(a, b)
                           /\ slot[a] \in Slots(N) \ Own
  BY PutFrom DEF PutId, PastZero
<1>3. /\ pool' = [pool EXCEPT !.id[slot[a]] = pool.free] /\ pool \in Pool(N)
      /\ UNCHANGED <<word, slot, reg, owned, got>> /\ pc[a] = "put_id"
  BY DEF PutId, CallsSound, Shape, StepsTyped
<1>4. pool' \in Pool(N)
  BY <1>2, <1>3, Words, PoolStores
<1>5. /\ pool'.id = [pool.id EXCEPT ![slot[a]] = pool.free] /\ pool'.free = pool.free
      /\ pool'.cnt = pool.cnt
  BY <1>2, <1>3, PoolFields
<1>6. pool'.id = [b.id EXCEPT ![slot[a]] = b.free]
  BY <1>2, <1>3, <1>5, Words DEF MidPut
<1>7. MidPut(a, b)'
  BY <1>1, <1>2, <1>3, <1>5, <1>6 DEF MidPut
<1>8. Good(b, Own \cup {slot[a]})'
  BY <1>2, <1>3 DEF Good, Own
<1>9. CallOf(a)'
  BY <1>1, <1>7, <1>8 DEF CallOf, Getting
<1>10. Shape'
  BY <1>1, <1>3, <1>4 DEF CallsSound, Shape
<1> QED
  BY <1>1, <1>9, <1>10, Assemble DEF Moving, Getting, PastZero

LEMMA IPutHead ==
    ASSUME StepsTyped, CallsSound, NEW a \in Actor, PutHead(a), OnlyOne(a)
    PROVE  CallsSound'
<1>1. /\ pc' \in [Actor -> PC] /\ pc'[a] = "put_count"
      /\ \A c \in Actor : c # a => ~InCall(c) /\ ~InCall(c)'
  BY Alone DEF PutHead, PC, PuttingBack
<1>2. PICK b \in Pool(N) : /\ Good(b, Own \cup {slot[a]}) /\ MidPut(a, b)
                           /\ slot[a] \in Slots(N) \ Own
  BY PutFrom DEF PutHead, PastZero
<1>3. /\ pool' = [pool EXCEPT !.free = Addr(N, slot[a])] /\ pool \in Pool(N)
      /\ UNCHANGED <<word, slot, reg, owned, got>> /\ pc[a] = "put_head"
  BY DEF PutHead, CallsSound, Shape, StepsTyped
<1>4. pool' \in Pool(N)
  BY <1>2, <1>3, Words, PoolStores
<1>5. pool'.id = pool.id /\ pool'.free = Addr(N, slot[a]) /\ pool'.cnt = pool.cnt
  BY <1>2, <1>3, PoolFields
<1>7. MidPut(a, b)'
  BY <1>1, <1>2, <1>3, <1>5 DEF MidPut
<1>8. Good(b, Own \cup {slot[a]})'
  BY <1>2, <1>3 DEF Good, Own
<1>9. CallOf(a)'
  BY <1>1, <1>7, <1>8 DEF CallOf, Getting
<1>10. Shape'
  BY <1>1, <1>3, <1>4 DEF CallsSound, Shape
<1> QED
  BY <1>1, <1>9, <1>10, Assemble DEF Moving, Getting, PastZero

LEMMA IPutCount ==
    ASSUME StepsTyped, CallsSound, NEW a \in Actor, PutCount(a), OnlyOne(a)
    PROVE  CallsSound'
<1>1. /\ pc' \in [Actor -> PC] /\ pc'[a] = "put_counted"
      /\ \A c \in Actor : c # a => ~InCall(c) /\ ~InCall(c)'
  BY Alone DEF PutCount, PC, PuttingBack
<1>2. PICK b \in Pool(N) : /\ Good(b, Own \cup {slot[a]}) /\ MidPut(a, b)
                           /\ slot[a] \in Slots(N) \ Own
  BY PutFrom DEF PutCount, PastZero
<1>3. /\ reg' = [reg EXCEPT ![a].cnt = pool.cnt] /\ pool \in Pool(N)
      /\ UNCHANGED <<pool, word, slot, owned, got>> /\ pc[a] = "put_count"
  BY DEF PutCount, CallsSound, Shape, StepsTyped
<1>4. reg'[a].cnt = pool.cnt
  BY <1>3 DEF StepsTyped, Reg
<1>7. MidPut(a, b)'
  BY <1>1, <1>2, <1>3, <1>4 DEF MidPut
<1>8. Good(b, Own \cup {slot[a]})'
  BY <1>2, <1>3 DEF Good, Own
<1>9. CallOf(a)'
  BY <1>1, <1>7, <1>8 DEF CallOf, Getting
<1>10. Shape'
  BY <1>1, <1>3, <1>4 DEF CallsSound, Shape
<1> QED
  BY <1>1, <1>9, <1>10, Assemble DEF Moving, Getting, PastZero

(* The last access of a put: the pool is what PoolPut says. *)
LEMMA IPutCounted ==
    ASSUME StepsTyped, CallsSound, NEW a \in Actor, PutCounted(a), OnlyOne(a)
    PROVE  CallsSound'
<1>1. /\ pc' \in [Actor -> PC] /\ pc'[a] = "idle"
      /\ \A c \in Actor : c # a => ~InCall(c) /\ ~InCall(c)'
  BY Alone DEF PutCounted, PC, Moving, InCall, Getting, PuttingBack, PastZero
<1>2. PICK b \in Pool(N) :
         /\ Good(b, Own \cup {slot[a]}) /\ MidPut(a, b) /\ slot[a] \in Slots(N) \ Own
         /\ b.cnt - 1 \in 0 .. N
         /\ PoolPut(b, N, slot[a]) = [id |-> [b.id EXCEPT ![slot[a]] = b.free],
                                      free |-> Addr(N, slot[a]), cnt |-> b.cnt - 1]
         /\ Good(PoolPut(b, N, slot[a]), Own)
  BY PutFrom DEF PutCounted, PastZero
<1>3. /\ pool' = [pool EXCEPT !.cnt = reg[a].cnt - 1] /\ pool \in Pool(N)
      /\ UNCHANGED <<word, owned, got>> /\ pc[a] = "put_counted"
  BY DEF PutCounted, CallsSound, Shape, StepsTyped
<1>4. reg[a].cnt = b.cnt
  BY <1>2, <1>3 DEF MidPut
<1>5. pool' \in Pool(N)
  BY <1>2, <1>3, <1>4, Words, PoolStores
<1>6. pool'.id = pool.id /\ pool'.free = pool.free /\ pool'.cnt = b.cnt - 1
  BY <1>2, <1>3, <1>4, PoolFields
<1>7. pool' = PoolPut(b, N, slot[a])
  <2>1. pool.id = [b.id EXCEPT ![slot[a]] = b.free] /\ pool.free = Addr(N, slot[a])
    BY <1>2, <1>3 DEF MidPut
  <2> DEFINE q == PoolPut(b, N, slot[a])
  <2>2. q.id = pool'.id /\ q.free = pool'.free /\ q.cnt = pool'.cnt /\ q \in Pool(N)
    BY <1>2, <1>6, <2>1 DEF Good
  <2> HIDE DEF q
  <2>3. pool' = q
    BY <1>5, <2>2, PoolIs
  <2> QED
    BY <2>3 DEF q
<1>9. Shape'
  BY <1>1, <1>3, <1>5 DEF CallsSound, Shape
<1>10. Good(pool, Own)'
  BY <1>2, <1>3, <1>7 DEF Good, Own
<1>11. CallOf(a)'
  BY <1>1 DEF CallOf, Getting, PuttingBack, PastZero
<1> QED
  BY <1>1, <1>9, <1>10, <1>11, Assemble

-----------------------------------------------------------------------------
(* EVERYTHING ELSE *)

(* A step of an actor outside any call, which leaves the pool and the      *)
(* owners be: flags are read and written, a download is asked for.         *)
LEMMA Beside ==
    ASSUME StepsTyped, StepsTyped', CallsSound, NEW a \in Actor, ~InCall(a), ~InCall(a)',
           \A c \in Actor : c # a => pc'[c] = pc[c] /\ slot'[c] = slot[c] /\ reg'[c] = reg[c],
           UNCHANGED <<pool, owned>>
    PROVE  CallsSound'
<1>1. Own' = Own /\ Shape'
  BY DEF Own, CallsSound, Shape
<1>2. \A c \in Actor : /\ InCall(c)' => InCall(c) /\ c # a
                       /\ Moving(c) => Moving(c)' /\ c # a
  BY DEF InCall, Moving, Getting, PuttingBack, PastZero
<1>3. OneCall'
  BY <1>2 DEF CallsSound, OneCall
<1>4. QuietPool'
  BY <1>1, <1>2 DEF CallsSound, QuietPool, Good
<1>5. ASSUME NEW c \in Actor
      PROVE  CallOf(c)'
  <2>1. CASE c = a
    BY <2>1 DEF CallOf, InCall, Getting, PuttingBack, PastZero
  <2>2. CASE c # a
    <3>1. pc'[c] = pc[c] /\ slot'[c] = slot[c] /\ reg'[c] = reg[c]
      BY <2>2
    <3>2. \A b : MidGet(c, b) => MidGet(c, b)'
      BY <3>1 DEF MidGet
    <3>3. \A b : MidPut(c, b) => MidPut(c, b)'
      BY <3>1 DEF MidPut
    <3>4. \A b, U : Good(b, U) <=> Good(b, U)'
      BY DEF Good
    <3> QED
      BY <1>1, <3>1, <3>2, <3>3, <3>4 DEF CallsSound, CallOf
  <2> QED
    BY <2>1, <2>2
<1> QED
  BY <1>1, <1>3, <1>4, <1>5 DEF CallsSound

-----------------------------------------------------------------------------
(* THE TYPES *)

(* Where the actor goes and what it keeps in its registers. *)
LEMMA TypedLocals ==
    ASSUME StepsTyped, NEW a \in Actor, NEW l \in PC, NEW s \in Slots(N), NEW r \in Reg
    PROVE  /\ [pc EXCEPT ![a] = l] \in [Actor -> PC]
           /\ [slot EXCEPT ![a] = s] \in [Actor -> Slots(N)]
           /\ [reg EXCEPT ![a] = r] \in [Actor -> Reg]
BY DEF StepsTyped

LEMMA RegsEmpty == NoReg \in Reg
BY DEF NoReg, Plan, Reg

LEMMA Regs ==
    ASSUME NEW X \in SUBSET FlagBit, NEW Y \in SUBSET FlagBit
    PROVE  Plan(X, Y) \in Reg
BY DEF Plan, Reg

LEMMA RegFields ==
    ASSUME NEW r \in Reg
    PROVE  /\ r.add \in SUBSET FlagBit /\ r.del \in SUBSET FlagBit
           /\ r.flag \in SUBSET FlagBit /\ r.cnt \in Int
BY DEF Reg

(* One store to the pool, whatever it holds. *)
LEMMA MemoryStores ==
    ASSUME NEW p \in Memory, NEW w \in Word(N), NEW s \in Slots(N), NEW c \in Int
    PROVE  /\ [p EXCEPT !.free = w] \in Memory
           /\ [p EXCEPT !.cnt = c] \in Memory
           /\ [p EXCEPT !.id[s] = w] \in Memory
           /\ p.free \in Word(N) /\ p.id[s] \in Word(N) /\ p.cnt \in Int
BY DEF Memory

LEMMA TypedGet ==
    ASSUME StepsTyped, NEW a \in Actor, Get(a)
    PROVE  StepsTyped'
<1>1. /\ slot[a] \in Slots(N) /\ slot[a] \in Word(N) /\ 0 \in Word(N) /\ reg[a].cnt \in Int
      /\ pool \in Memory /\ pool.cnt \in Int /\ pool.id[slot[a]] \in Word(N)
  BY Words, StepsAssumption DEF StepsTyped, Reg, Memory
<1>2. CASE GetRanOut(a)
  BY <1>2 DEF StepsTyped, GetRanOut, Begin
<1>3. CASE GetHead(a)
  BY <1>3, TypedLocals DEF StepsTyped, GetHead, Begin, Goto, PC, Getting
<1>4. CASE GetNext(a)
  BY <1>1, <1>4, MemoryStores DEF StepsTyped, GetNext, Goto, PC, Getting
<1>5. CASE GetCount(a)
  BY <1>1, <1>5 DEF StepsTyped, GetCount, Goto, PC, Getting, Reg
<1>6. CASE GetCounted(a)
  <2>1. reg[a].cnt + 1 \in Int
    BY <1>1
  <2> QED
    BY <1>1, <1>6, <2>1, MemoryStores DEF StepsTyped, GetCounted, Goto, PC, Getting
<1>7. CASE GetZero(a)
  BY <1>1, <1>7, MemoryStores DEF StepsTyped, GetZero, Goto, PC, Getting
<1>8. CASE GetId(a)
  <2>1. pool' \in Memory /\ reg' \in [Actor -> Reg]
    BY <1>1, <1>8, MemoryStores, TypedLocals, RegsEmpty DEF GetId, PC
  <2>2. owned' \in [Slots(N) -> Int]
    BY <1>8 DEF StepsTyped, GetId
  <2> QED
    BY <1>8, <2>1, <2>2 DEF StepsTyped, GetId, Goto, PC
<1> QED
  BY <1>2, <1>3, <1>4, <1>5, <1>6, <1>7, <1>8 DEF Get

LEMMA TypedPut ==
    ASSUME StepsTyped, NEW a \in Actor, Put(a)
    PROVE  StepsTyped'
<1>1. /\ slot[a] \in Slots(N) /\ Addr(N, slot[a]) \in Word(N) /\ 0 \in Word(N)
      /\ reg[a].cnt \in Int /\ 0 \in Slots(N)
      /\ pool \in Memory /\ pool.cnt \in Int /\ pool.free \in Word(N)
  BY Words, StepsAssumption DEF StepsTyped, Reg, Memory, Slots
<1>3. CASE PutBegin(a)
  <2>1. PICK s \in Slots(N) : slot' = [slot EXCEPT ![a] = s]
    BY <1>3 DEF PutBegin
  <2> QED
    BY <1>3, <2>1 DEF StepsTyped, PutBegin, Begin, Goto, PC, PuttingBack
<1>4. CASE PutZero(a)
  <2>1. owned' \in [Slots(N) -> Int]
    BY <1>4 DEF StepsTyped, PutZero
  <2> QED
    BY <1>1, <1>4, <2>1, MemoryStores DEF StepsTyped, PutZero, Goto, PC, PuttingBack
<1>5. CASE PutId(a)
  BY <1>1, <1>5, MemoryStores DEF StepsTyped, PutId, Goto, PC, PuttingBack
<1>6. CASE PutHead(a)
  BY <1>1, <1>6, MemoryStores DEF StepsTyped, PutHead, Goto, PC, PuttingBack
<1>7. CASE PutCount(a)
  BY <1>1, <1>7 DEF StepsTyped, PutCount, Goto, PC, PuttingBack, Reg
<1>8. CASE PutCounted(a)
  <2>1. reg[a].cnt - 1 \in Int
    BY <1>1
  <2>2. reg' \in [Actor -> Reg] /\ slot' \in [Actor -> Slots(N)]
    BY <1>1, <1>8, TypedLocals, RegsEmpty DEF PutCounted, PC
  <2> QED
    BY <1>1, <1>8, <2>1, <2>2, MemoryStores DEF StepsTyped, PutCounted, Goto, PC
<1> QED
  BY <1>3, <1>4, <1>5, <1>6, <1>7, <1>8 DEF Put

(* A step that changes only what actor a keeps for itself, the flags and   *)
(* what Nginx was asked for: its types, and no call is entered or left.    *)
Aside(a) == /\ StepsTyped' /\ ~InCall(a) /\ ~InCall(a)'
            /\ \A c \in Actor : c # a => pc'[c] = pc[c] /\ slot'[c] = slot[c] /\ reg'[c] = reg[c]
            /\ UNCHANGED <<pool, owned, met>>

LEMMA AsideStep ==
    ASSUME StepsTyped, NEW a \in Actor, ~InCall(a),
           NEW l \in PC \ (Getting \cup PuttingBack), pc' = [pc EXCEPT ![a] = l],
           NEW s \in Slots(N), slot' = [slot EXCEPT ![a] = s],
           NEW r \in Reg, reg' = [reg EXCEPT ![a] = r],
           asked' \subseteq Slots(N), word' \in [Slots(N) -> SUBSET FlagBit],
           UNCHANGED <<pool, owned, met>>
    PROVE  Aside(a)
<1>1. StepsTyped'
  BY DEF StepsTyped
<1>2. pc'[a] = l
  BY DEF StepsTyped
<1> QED
  BY <1>1, <1>2 DEF Aside, InCall, StepsTyped

(* The flags a thread or a worker changes are flags, and the actor has not *)
(* entered a call.                                                         *)
LEMMA AsideChange ==
    ASSUME StepsTyped, NEW a \in Actor, ~InCall(a), NEW s \in Slots(N),
           slot' = [slot EXCEPT ![a] = s], NEW X \in SUBSET FlagBit, NEW Y \in SUBSET FlagBit,
           Change(a, X, Y), asked' \subseteq Slots(N)
    PROVE  Aside(a)
<1>1. PICK r \in Reg : r = Plan(X, Y)
  BY Regs
<1>2. PICK l \in PC \ (Getting \cup PuttingBack) : l = "flag_read"
  BY DEF PC, Getting, PuttingBack
<1>3. word' \in [Slots(N) -> SUBSET FlagBit]
  BY DEF StepsTyped, Change
<1>4. reg' = [reg EXCEPT ![a] = r] /\ pc' = [pc EXCEPT ![a] = l] /\ UNCHANGED <<pool, owned, met>>
  BY <1>1, <1>2 DEF Change, Goto
<1> QED
  BY <1>3, <1>4, AsideStep

LEMMA SlotStays ==
    ASSUME StepsTyped, NEW a \in Actor
    PROVE  slot[a] \in Slots(N) /\ slot = [slot EXCEPT ![a] = slot[a]] /\ 0 \in Slots(N)
           /\ reg[a] \in Reg /\ asked \subseteq Slots(N)
BY StepsAssumption DEF StepsTyped, Slots

LEMMA Bits ==
    /\ {} \in SUBSET FlagBit /\ {"I_FAIL"} \in SUBSET FlagBit /\ {"D_FAIL"} \in SUBSET FlagBit
    /\ {"STORED"} \in SUBSET FlagBit /\ {"NOTIFY"} \in SUBSET FlagBit
BY DEF FlagBit, FailFlag

LEMMA AsideNgxTest ==
    ASSUME StepsTyped, NEW a \in Actor, NgxTest(a)
    PROVE  Aside(a)
<1>1. PICK s \in Slots(N), fl \in {"STORED", "D_FAIL"} :
         asked' = asked \ {s} /\ slot' = [slot EXCEPT ![a] = s] /\ Change(a, {fl}, {})
  BY DEF NgxTest
<1>2. ~InCall(a) /\ asked' \subseteq Slots(N)
  BY <1>1 DEF NgxTest, InCall, Getting, PuttingBack, StepsTyped
<1>3. PICK X \in SUBSET FlagBit : X = {fl}
  BY <1>1, Bits
<1> QED
  BY <1>1, <1>2, <1>3, Bits, AsideChange

LEMMA AsideProcTest ==
    ASSUME StepsTyped, NEW a \in Actor, ProcTest(a)
    PROVE  Aside(a)
<1>1. PICK s \in Slots(N) : /\ slot' = [slot EXCEPT ![a] = s]
                            /\ Told(a, s) \/ Again(a, s) \/ TakenOver(a, s)
  BY DEF ProcTest
<1>2. ~InCall(a) /\ asked' = asked /\ asked \subseteq Slots(N)
  BY DEF ProcTest, InCall, Getting, PuttingBack, StepsTyped
<1>3. CASE Told(a, s)
  BY <1>1, <1>2, <1>3, Bits, AsideChange DEF Told
<1>4. CASE TakenOver(a, s)
  BY <1>1, <1>2, <1>4, Bits, AsideChange DEF TakenOver
<1>5. CASE Again(a, s)
  <2>1. PICK l \in PC \ (Getting \cup PuttingBack) : l = "download"
    BY DEF PC, Getting, PuttingBack
  <2>2. PICK r \in Reg : r = [reg[a] EXCEPT !.del = {"I_FAIL"}]
    BY SlotStays, Bits DEF Reg
  <2>3. reg' = [reg EXCEPT ![a] = r] /\ pc' = [pc EXCEPT ![a] = l]
    BY <1>5, <2>1, <2>2 DEF Again, Goto, StepsTyped
  <2>4. word' \in [Slots(N) -> SUBSET FlagBit] /\ UNCHANGED <<pool, owned, met>>
    BY <1>5 DEF Again, StepsTyped
  <2> QED
    BY <1>1, <1>2, <2>3, <2>4, AsideStep
<1> QED
  BY <1>1, <1>3, <1>4, <1>5

LEMMA AsideDownload ==
    ASSUME StepsTyped, NEW a \in Actor, Download(a)
    PROVE  Aside(a)
<1>1. ~InCall(a)
  BY DEF Download, InCall, Getting, PuttingBack
<1>2. asked' \subseteq Slots(N)
  BY SlotStays DEF Download, Accepted, Refused, Cached, Left, Ask
<1>3. CASE Accepted(a)
  BY <1>1, <1>2, <1>3, SlotStays, RegFields, Bits, AsideChange DEF Accepted
<1>4. CASE Refused(a)
  BY <1>1, <1>2, <1>4, SlotStays, Bits, AsideChange DEF Refused
<1>5. CASE Cached(a)
  <2>1. PICK fl \in {"STORED", "NOTIFY"} : Change(a, {fl}, {}) /\ UNCHANGED slot
    BY <1>5 DEF Cached
  <2>2. PICK X \in SUBSET FlagBit : X = {fl}
    BY <2>1, Bits
  <2> QED
    BY <1>1, <1>2, <2>1, <2>2, SlotStays, Bits, AsideChange
<1>6. CASE Left(a)
  <2>1. PICK l \in PC \ (Getting \cup PuttingBack) : l = "idle"
    BY DEF PC, Getting, PuttingBack
  <2>2. word' \in [Slots(N) -> SUBSET FlagBit] /\ UNCHANGED <<pool, owned, met>>
    BY <1>6 DEF Left, StepsTyped
  <2>3. /\ reg' = [reg EXCEPT ![a] = NoReg] /\ slot' = [slot EXCEPT ![a] = 0]
        /\ pc' = [pc EXCEPT ![a] = l]
    BY <1>6, <2>1 DEF Left, Done, Goto
  <2> QED
    BY <1>1, <1>2, <2>2, <2>3, SlotStays, RegsEmpty, AsideStep
<1> QED
  BY <1>3, <1>4, <1>5, <1>6 DEF Download

LEMMA AsideFlagRead ==
    ASSUME StepsTyped, NEW a \in Actor, FlagRead(a)
    PROVE  Aside(a)
<1>1. PICK w \in SUBSET FlagBit : w = (word[slot[a]] \ reg[a].del) \cup reg[a].add
  BY SlotStays, RegFields DEF StepsTyped
<1>2. PICK r \in Reg : r = [reg[a] EXCEPT !.flag = w]
  BY SlotStays DEF Reg
<1>3. PICK l \in PC \ (Getting \cup PuttingBack) : l = "flag_write"
  BY DEF PC, Getting, PuttingBack
<1>4. reg' = [reg EXCEPT ![a] = r] /\ pc' = [pc EXCEPT ![a] = l]
  BY <1>1, <1>2, <1>3 DEF FlagRead, Goto, StepsTyped
<1>5. /\ word' \in [Slots(N) -> SUBSET FlagBit] /\ UNCHANGED <<pool, owned, met, slot>>
      /\ asked' \subseteq Slots(N) /\ ~InCall(a)
  BY DEF FlagRead, StepsTyped, InCall, Getting, PuttingBack
<1> QED
  BY <1>4, <1>5, SlotStays, AsideStep

LEMMA AsideFlagWrite ==
    ASSUME StepsTyped, NEW a \in Actor, FlagWrite(a)
    PROVE  Aside(a)
<1>1. word' \in [Slots(N) -> SUBSET FlagBit]
  BY SlotStays, RegFields DEF FlagWrite, StepsTyped
<1>2. UNCHANGED <<pool, owned, met>> /\ asked' \subseteq Slots(N) /\ ~InCall(a)
  BY DEF FlagWrite, StepsTyped, InCall, Getting, PuttingBack
<1>3. PICK l \in PC \ (Getting \cup PuttingBack), s \in Slots(N) :
         pc' = [pc EXCEPT ![a] = l] /\ slot' = [slot EXCEPT ![a] = s]
         /\ reg' = [reg EXCEPT ![a] = NoReg]
  <2>1. CASE reg[a].del = {"D_FAIL"}
    <3>1. PICK l \in PC \ (Getting \cup PuttingBack) : l = "download"
      BY DEF PC, Getting, PuttingBack
    <3> QED
      BY <2>1, <3>1, SlotStays DEF FlagWrite, Goto
  <2>2. CASE reg[a].del # {"D_FAIL"}
    <3>1. PICK l \in PC \ (Getting \cup PuttingBack) : l = "idle"
      BY DEF PC, Getting, PuttingBack
    <3> QED
      BY <2>2, <3>1, SlotStays DEF FlagWrite, Done, Goto
  <2> QED
    BY <2>1, <2>2
<1> QED
  BY <1>1, <1>2, <1>3, RegsEmpty, AsideStep

-----------------------------------------------------------------------------
(* THE WHOLE *)

LEMMA StepsInitial == LSInit => StepsInv
<1> SUFFICES ASSUME LSInit PROVE StepsInv
  OBVIOUS
<1>1. PoolInit(N) \in Pool(N) /\ PoolSound(PoolInit(N), N) /\ UsedSlots(PoolInit(N), N) = {}
  BY PoolInitSound, StepsAssumption
<1>2. Own = {} /\ owned \in [Slots(N) -> 0 .. 1] /\ 0 \in Slots(N)
  BY StepsAssumption DEF LSInit, Own, Slots
<1>3. pool \in Memory
  BY <1>1, StepsAssumption DEF LSInit, Pool, Memory
<1>4. StepsTyped
  <2>1. word \in [Slots(N) -> SUBSET FlagBit] /\ asked \subseteq Slots(N)
    BY DEF LSInit
  <2>2. pc \in [Actor -> PC] /\ slot \in [Actor -> Slots(N)]
    BY <1>2 DEF LSInit, PC
  <2>3. reg \in [Actor -> Reg]
    BY RegsEmpty DEF LSInit
  <2>4. owned \in [Slots(N) -> Int]
    BY DEF LSInit
  <2>5. met \in BOOLEAN
    BY DEF LSInit
  <2> QED
    BY <1>3, <2>1, <2>2, <2>3, <2>4, <2>5 DEF StepsTyped
<1>5. QuietPool /\ Shape
  BY <1>1, <1>2 DEF LSInit, QuietPool, Good, Shape
<1>6. OneCall /\ \A a \in Actor : CallOf(a)
  BY DEF LSInit, OneCall, CallOf, InCall, Getting, PuttingBack, PastZero
<1> QED
  BY <1>4, <1>5, <1>6 DEF StepsInv, CallsSound

(* A get that finds nothing leaves everything but the history as it is. *)
LEMMA IRanOut ==
    ASSUME StepsTyped, CallsSound, NEW a \in Actor, GetRanOut(a)
    PROVE  CallsSound'
<1>1. StepsTyped'
  BY TypedGet DEF Get
<1>2. ~InCall(a) /\ ~InCall(a)' /\ UNCHANGED <<pool, owned>>
      /\ \A c \in Actor : c # a => pc'[c] = pc[c] /\ slot'[c] = slot[c] /\ reg'[c] = reg[c]
  BY DEF GetRanOut, Begin, InCall, Getting, PuttingBack
<1> QED
  BY <1>1, <1>2, Beside

(* A get or put step: when no two calls have met after it, none had before *)
(* and no other call is under way.                                         *)
LEMMA CallAlone ==
    ASSUME StepsInv, NEW a \in Actor, Get(a) \/ Put(a), ~met'
    PROVE  CallsSound /\ (GetRanOut(a) \/ OnlyOne(a))
<1>1. CASE Begin(a)
  <2>1. ~met /\ \A b \in Actor : ~InCall(b)
    BY <1>1 DEF Begin, StepsInv, StepsTyped
  <2> QED
    BY <2>1 DEF StepsInv, OnlyOne
<1>2. CASE ~Begin(a)
  <2>1. /\ InCall(a) /\ met' = met
    BY <1>2 DEF Get, Put, GetRanOut, GetHead, GetNext, GetCount, GetCounted, GetZero, GetId,
                PutBegin, PutZero, PutId, PutHead, PutCount, PutCounted, InCall, Getting, PuttingBack
  <2>2. CallsSound
    BY <2>1 DEF StepsInv
  <2> QED
    BY <2>1, <2>2 DEF CallsSound, OneCall, OnlyOne
<1> QED
  BY <1>1, <1>2

LEMMA StepsStep ==
    ASSUME StepsInv, [LSNext]_lsvars
    PROVE  StepsInv'
<1>0. StepsTyped
  BY DEF StepsInv
<1>1. ASSUME NEW a \in Actor, Get(a)
      PROVE  StepsInv'
  <2>1. StepsTyped'
    BY <1>0, <1>1, TypedGet
  <2>2. ASSUME ~met' PROVE CallsSound'
    BY <1>0, <1>1, <2>2, CallAlone, IRanOut, IGetHead, IGetNext, IGetCount, IGetCounted,
       IGetZero, IGetId DEF Get
  <2> QED
    BY <2>1, <2>2 DEF StepsInv
<1>2. ASSUME NEW a \in Actor, Put(a)
      PROVE  StepsInv'
  <2>1. StepsTyped'
    BY <1>0, <1>2, TypedPut
  <2>2. ASSUME ~met' PROVE CallsSound'
    <3>1. CallsSound /\ OnlyOne(a)
      <4>1. ~GetRanOut(a) \/ Begin(a)
        BY DEF GetRanOut
      <4>2. Begin(a) => OnlyOne(a)
        BY <2>2 DEF Begin, OnlyOne
      <4> QED
        BY <1>2, <2>2, <4>1, <4>2, CallAlone
    <3> QED
      BY <1>0, <1>2, <3>1, IPutBegin, IPutZero, IPutId, IPutHead, IPutCount, IPutCounted DEF Put
  <2> QED
    BY <2>1, <2>2 DEF StepsInv
<1>3. ASSUME NEW a \in Actor, Aside(a)
      PROVE  StepsInv'
  <2>1. StepsTyped' /\ met' = met
    BY <1>3 DEF Aside
  <2>2. ASSUME ~met PROVE CallsSound'
    BY <1>0, <1>3, <2>1, <2>2, Beside DEF Aside, StepsInv
  <2> QED
    BY <2>1, <2>2 DEF StepsInv
<1>4. CASE UNCHANGED lsvars
  <2>1. StepsTyped'
    BY <1>0, <1>4 DEF lsvars, StepsTyped
  <2>2. CallsSound => CallsSound'
    <3>1. \A c, b : (MidGet(c, b) => MidGet(c, b)') /\ (MidPut(c, b) => MidPut(c, b)')
      BY <1>4 DEF lsvars, MidGet, MidPut
    <3>2. \A b, U : Good(b, U) <=> Good(b, U)'
      BY DEF Good
    <3>3. Own' = Own /\ UNCHANGED <<pool, owned, pc, slot>>
      BY <1>4 DEF lsvars, Own
    <3>4. (\A a \in Actor : CallOf(a)) => (\A a \in Actor : CallOf(a)')
      BY <3>1, <3>2, <3>3 DEF CallOf
    <3> QED
      BY <3>3, <3>4 DEF CallsSound, Shape, OneCall, QuietPool, Good, InCall, Moving
  <2> QED
    BY <1>4, <2>1, <2>2 DEF StepsInv, lsvars
<1>5. ASSUME LSNext PROVE StepsInv'
  <2>1. "main" \in Actor /\ "proc" \in Actor /\ Thread \subseteq Actor /\ Worker \subseteq Actor
    BY DEF Actor, Thread
  <2> QED
    BY <1>0, <1>1, <1>2, <1>3, <1>5, <2>1, AsideNgxTest, AsideProcTest, AsideDownload,
       AsideFlagRead, AsideFlagWrite DEF LSNext
<1> QED
  BY <1>4, <1>5

LEMMA StepsInvariant == LSSpec => []StepsInv
<1>1. StepsInv /\ [LSNext]_lsvars => StepsInv'
  BY StepsStep
<1> QED
  BY <1>1, StepsInitial, PTL DEF LSSpec

-----------------------------------------------------------------------------
(* However the accesses of sc_res_info_get_ctnt, sc_res_info_put and the   *)
(* flag macros interleave, with no lock, every id and the head of the free *)
(* list are an index or an address of ctnt[], and the flag words hold the  *)
(* flags of sc_resource.h and nothing else.                                *)
THEOREM StepsTypes == LSSpec => []LSTypeOK
<1>1. StepsInv => LSTypeOK
  BY DEF StepsInv, StepsTyped, LSTypeOK, Memory
<1> QED
  BY <1>1, StepsInvariant, PTL

(* As long as no get or put began while another was under way, no slot of  *)
(* ctnt[] has two owners, and between calls the free list of sc_resource.c *)
(* holds exactly the slots without one: each call, access by access, adds  *)
(* up to PoolGet or PoolPut, with the flags of any slot read and written   *)
(* by the threads and any number of Nginx workers between its accesses.    *)
(* So only the free list needs the lock for its own soundness.             *)
THEOREM QuietIsSound == LSSpec => []QuietSound
<1>1. StepsInv => QuietSound
  <2> SUFFICES ASSUME StepsInv, ~met
               PROVE  /\ \A s \in Slots(N) : owned[s] \in 0 .. 1
                      /\ (\A a \in Actor : ~InCall(a)) =>
                           /\ PoolSound(pool, N)
                           /\ \A s \in Slots(N) : InUse(pool, N, s) <=> owned[s] = 1
    BY DEF QuietSound
  <2>1. owned \in [Slots(N) -> 0 .. 1] /\ QuietPool
    BY DEF StepsInv, CallsSound, Shape
  <2>2. ASSUME \A a \in Actor : ~InCall(a)
        PROVE  Good(pool, Own)
    BY <2>1, <2>2 DEF QuietPool, Moving, InCall, PuttingBack, PastZero
  <2> QED
    BY <2>1, <2>2 DEF Good, Own, UsedSlots
<1> QED
  BY <1>1, StepsInvariant, PTL
=============================================================================
