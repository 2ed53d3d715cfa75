----------------------------- MODULE ListSteps -----------------------------
(***************************************************************************)
(* The calls on the content slots of the resource list, one access to the  *)
(* shared memory a step: sc_res_info_get_ctnt, sc_res_info_put and the     *)
(* flag macros of sc_resource.h.  No lock is taken.  Only the main thread  *)
(* takes slots (sc_res_info_add_ctnt), both threads put them back, and the *)
(* threads and the Nginx workers set and unset flags, each the ones its    *)
(* code sets.  Accesses are sequentially consistent; a register is what    *)
(* the code holds in a local variable between two of them.                 *)
(***************************************************************************)
EXTENDS SlotPool

CONSTANTS
    N,         \* the length of ctnt[]
    Worker,    \* the Nginx workers
    MaxCalls,  \* bound: the gets and puts that are begun
    MaxRetries \* bound: the downloads that are tried again

ASSUME StepsAssumption == N \in Nat \ {0} /\ {"main", "proc"} \cap Worker = {}

(* The thread of sc_snooping_serve and sc_res_list_process_thread. *)
Thread == {"main", "proc"}
Actor == Thread \cup Worker

FailFlag == {"I_FAIL", "D_FAIL"}
FlagBit == {"STORED", "NOTIFY"} \cup FailFlag

VARIABLES
    pool,    \* common.id of ctnt[], ctnt_free and ctnt_cnt
    word,    \* common.flag of every slot
    pc,      \* the next access of each actor
    slot,    \* its slot
    asked,   \* the slots whose download Nginx has been asked for
    reg,     \* what it has read: a count or flags, and the flags it changes
    owned,   \* history: the owners of every slot
    got,     \* history: what the last get returned
    met,     \* history: a get or put began while another was under way
    calls,   \* the gets and puts begun
    tries    \* the downloads tried again

lsvars == <<pool, word, pc, slot, asked, reg, owned, got, met, calls, tries>>

Plan(add, del) == [cnt |-> 0, flag |-> {}, add |-> add, del |-> del]
NoReg == Plan({}, {})

LSInit == /\ pool = PoolInit(N)
          /\ word = [s \in Slots(N) |-> {}]
          /\ pc = [a \in Actor |-> "idle"]
          /\ slot = [a \in Actor |-> 0]
          /\ asked = {}
          /\ reg = [a \in Actor |-> NoReg]
          /\ owned = [s \in Slots(N) |-> 0]
          /\ got = "none"
          /\ met = FALSE /\ calls = 0 /\ tries = 0

(* The actor is inside a get, or inside a put. *)
Getting == {"get_next", "get_count", "get_counted", "get_zero", "get_id"}
PuttingBack == {"put_zero", "put_id", "put_head", "put_count", "put_counted"}
InCall(a) == pc[a] \in Getting \cup PuttingBack

Begin(a) == /\ pc[a] = "idle" /\ calls < MaxCalls /\ calls' = calls + 1
            /\ met' = (met \/ \E b \in Actor : InCall(b))

Goto(a, l) == pc' = [pc EXCEPT ![a] = l]

-----------------------------------------------------------------------------
(* sc_res_info_get_ctnt: the head is tested and read (one that is not an   *)
(* address any more ends the program), ...                                 *)
GetRanOut(a) == /\ Begin(a) /\ RanOut(pool, N)
                /\ got' = "NULL"
                /\ UNCHANGED <<tries, asked, pool, word, pc, slot, reg, owned>>

GetHead(a) == /\ Begin(a) /\ FreeHead(pool, N) \in Slots(N)
              /\ slot' = [slot EXCEPT ![a] = FreeHead(pool, N)]
              /\ Goto(a, "get_next")
              /\ UNCHANGED <<tries, asked, pool, word, reg, owned, got>>

(* A faulty get: the head of the free list does not move on. *)
GetNextStays(a) == /\ pc[a] = "get_next" /\ Goto(a, "get_count")
                   /\ UNCHANGED <<pool, word, slot, asked, reg, owned, got, met, calls, tries>>

(* ... the free list goes on at its id, ... *)
GetNext(a) == /\ pc[a] = "get_next" /\ Goto(a, "get_count")
              /\ pool' = [pool EXCEPT !.free = pool.id[slot[a]]]
              /\ UNCHANGED <<word, slot, asked, reg, owned, got, met, calls, tries>>

(* ... ctnt_cnt++ is a read and a write, ... *)
GetCount(a) == /\ pc[a] = "get_count" /\ Goto(a, "get_counted")
               /\ reg' = [reg EXCEPT ![a].cnt = pool.cnt]
               /\ UNCHANGED <<asked, pool, word, slot, owned, got, met, calls, tries>>

GetCounted(a) == /\ pc[a] = "get_counted" /\ Goto(a, "get_zero")
                 /\ pool' = [pool EXCEPT !.cnt = reg[a].cnt + 1]
                 /\ UNCHANGED <<word, slot, asked, reg, owned, got, met, calls, tries>>

(* ... the slot is zeroed, and gets its own index; the thread that added   *)
(* the content goes on to have it downloaded.                              *)
GetZero(a) == /\ pc[a] = "get_zero" /\ Goto(a, "get_id")
              /\ pool' = [pool EXCEPT !.id[slot[a]] = 0]
              /\ word' = [word EXCEPT ![slot[a]] = {}]
              /\ UNCHANGED <<slot, asked, reg, owned, got, met, calls, tries>>

(* A faulty get: the offset of the slot is not divided by its size. *)
GetIdBytes(a) == /\ pc[a] = "get_id" /\ Goto(a, "download")
                 /\ pool' = [pool EXCEPT !.id[slot[a]] = 8 * slot[a]]
                 /\ owned' = [owned EXCEPT ![slot[a]] = @ + 1]
                 /\ got' = "slot"
                 /\ reg' = [reg EXCEPT ![a] = NoReg]
                 /\ UNCHANGED <<asked, word, slot, met, calls, tries>>

GetId(a) == /\ pc[a] = "get_id" /\ Goto(a, "download")
            /\ pool' = [pool EXCEPT !.id[slot[a]] = slot[a]]
            /\ owned' = [owned EXCEPT ![slot[a]] = @ + 1]
            /\ got' = "slot"
            /\ reg' = [reg EXCEPT ![a] = NoReg]
            /\ UNCHANGED <<asked, word, slot, met, calls, tries>>

-----------------------------------------------------------------------------
(* sc_res_info_put of a slot in use, which the other thread is not putting *)
(* back: a thread removes the loaded content of its own parsed one.        *)
(* Nothing is put when the count is zero.                                  *)
Putting(s) == \E b \in Actor : slot[b] = s /\ pc[b] \in {"put_zero", "put_id"}

PutBegin(a) == /\ Begin(a) /\ pool.cnt # 0
               /\ \E s \in Slots(N) : /\ owned[s] > 0 /\ ~Putting(s)
                                      /\ slot' = [slot EXCEPT ![a] = s]
               /\ Goto(a, "put_zero")
               /\ UNCHANGED <<tries, asked, pool, word, reg, owned, got>>

(* The slot is zeroed, and its path matches no download any more, ... *)
PutZero(a) == /\ pc[a] = "put_zero" /\ Goto(a, "put_id")
              /\ pool' = [pool EXCEPT !.id[slot[a]] = 0]
              /\ word' = [word EXCEPT ![slot[a]] = {}]
              /\ owned' = [owned EXCEPT ![slot[a]] = @ - 1]
              /\ asked' = asked \ {slot[a]}
              /\ UNCHANGED <<slot, reg, got, met, calls, tries>>

(* A faulty put: the head is moved before the id is taken from it. *)
PutIdSwapped(a) == /\ pc[a] = "put_id" /\ Goto(a, "put_head")
                   /\ pool' = [pool EXCEPT !.id[slot[a]] = Addr(N, slot[a])]
                   /\ UNCHANGED <<word, slot, asked, reg, owned, got, met, calls, tries>>

PutId(a) == /\ pc[a] = "put_id" /\ Goto(a, "put_head")
            /\ pool' = [pool EXCEPT !.id[slot[a]] = pool.free]
            /\ UNCHANGED <<word, slot, asked, reg, owned, got, met, calls, tries>>

PutHead(a) == /\ pc[a] = "put_head" /\ Goto(a, "put_count")
              /\ pool' = [pool EXCEPT !.free = Addr(N, slot[a])]
              /\ UNCHANGED <<word, slot, asked, reg, owned, got, met, calls, tries>>

(* ... and ctnt_cnt-- is a read and a write. *)
PutCount(a) == /\ pc[a] = "put_count" /\ Goto(a, "put_counted")
               /\ reg' = [reg EXCEPT ![a].cnt = pool.cnt]
               /\ UNCHANGED <<asked, pool, word, slot, owned, got, met, calls, tries>>

PutCounted(a) == /\ pc[a] = "put_counted" /\ Goto(a, "idle")
                 /\ pool' = [pool EXCEPT !.cnt = reg[a].cnt - 1]
                 /\ reg' = [reg EXCEPT ![a] = NoReg] /\ slot' = [slot EXCEPT ![a] = 0]
                 /\ UNCHANGED <<asked, word, owned, got, met, calls, tries>>

-----------------------------------------------------------------------------
(* FLAGS.  The word is tested, and later flag |= bit or flag &= ~bit is a  *)
(* read and a write.                                                       *)
Change(a, add, del) == /\ Goto(a, "flag_read")
                       /\ reg' = [reg EXCEPT ![a] = Plan(add, del)]
                       /\ UNCHANGED <<pool, word, owned, got, met, calls>>

(* A worker ends a download it was asked for, of a content that is not     *)
(* stored yet.                                                             *)
NgxTest(a) == /\ pc[a] = "idle"
              /\ \E s \in Slots(N), fl \in {"STORED", "D_FAIL"} :
                   /\ s \in asked /\ asked' = asked \ {s}
                   /\ owned[s] > 0 /\ "STORED" \notin word[s]
                   /\ slot' = [slot EXCEPT ![a] = s]
                   /\ Change(a, {fl}, {})
              /\ UNCHANGED tries

(* sc_res_list_process_ctnt at a content: a stored one is told and gets    *)
(* NOTIFY, one with I_FAIL is downloaded again, and so is one with D_FAIL, *)
(* which is unset first.                                                   *)
Told(a, s) == /\ "STORED" \in word[s] /\ "NOTIFY" \notin word[s]
              /\ Change(a, {"NOTIFY"}, {}) /\ UNCHANGED tries

Retry == tries < MaxRetries /\ tries' = tries + 1

Again(a, s) == /\ Retry /\ "STORED" \notin word[s] /\ "I_FAIL" \in word[s]
               /\ Goto(a, "download") /\ reg' = [reg EXCEPT ![a].del = {"I_FAIL"}]
               /\ UNCHANGED <<pool, word, owned, got, met, calls>>

TakenOver(a, s) == /\ Retry /\ word[s] \cap {"STORED", "I_FAIL", "D_FAIL"} = {"D_FAIL"}
                   /\ Change(a, {}, {"D_FAIL"})

ProcTest(a) == /\ pc[a] = "idle"
               /\ \E s \in Slots(N) : /\ owned[s] > 0 /\ slot' = [slot EXCEPT ![a] = s]
                                      /\ Told(a, s) \/ Again(a, s) \/ TakenOver(a, s)
               /\ UNCHANGED asked

(* A thread asks Nginx for the download of its slot.  Nginx takes it, and  *)
(* I_FAIL of a retried content is unset; or the call fails, and I_FAIL is  *)
(* set or, on an early return, not; or the file is there, and STORED and   *)
(* NOTIFY are copied from its loaded content (sc_res_info_dup_ctnt), which *)
(* is put back.                                                            *)
Ask(a) == asked' = asked \cup {slot[a]}

Accepted(a) == Ask(a) /\ UNCHANGED slot /\ reg[a].del # {} /\ Change(a, {}, reg[a].del)

Refused(a) == UNCHANGED <<asked, slot>> /\ Change(a, {"I_FAIL"}, {})

Cached(a) == /\ \E f \in Slots(N) \ {slot[a]}, fl \in {"STORED", "NOTIFY"} :
                  owned[f] > 0 /\ fl \in word[f] /\ Change(a, {fl}, {})
             /\ UNCHANGED <<asked, slot>>

Done(a) == /\ Goto(a, "idle")
           /\ reg' = [reg EXCEPT ![a] = NoReg] /\ slot' = [slot EXCEPT ![a] = 0]

Left(a) == /\ Done(a) /\ (UNCHANGED asked \/ (reg[a].del = {} /\ Ask(a)))
           /\ UNCHANGED <<pool, word, owned, got, met, calls>>

Download(a) == /\ pc[a] = "download"
               /\ Accepted(a) \/ Refused(a) \/ Cached(a) \/ Left(a)
               /\ UNCHANGED tries

FlagRead(a) == /\ pc[a] = "flag_read" /\ Goto(a, "flag_write")
               /\ reg' = [reg EXCEPT ![a].flag = (word[slot[a]] \ reg[a].del) \cup reg[a].add]
               /\ UNCHANGED <<pool, word, slot, asked, owned, got, met, calls, tries>>

(* D_FAIL is unset before the download is asked for again. *)
FlagWrite(a) == /\ pc[a] = "flag_write"
                /\ word' = [word EXCEPT ![slot[a]] = reg[a].flag]
                /\ IF reg[a].del = {"D_FAIL"}
                   THEN Goto(a, "download") /\ reg' = [reg EXCEPT ![a] = NoReg] /\ UNCHANGED slot
                   ELSE Done(a)
                /\ UNCHANGED <<pool, asked, owned, got, met, calls, tries>>

-----------------------------------------------------------------------------
Get(a) == \/ GetRanOut(a) \/ GetHead(a) \/ GetNext(a) \/ GetCount(a) \/ GetCounted(a)
          \/ GetZero(a) \/ GetId(a)
Put(a) == PutBegin(a) \/ PutZero(a) \/ PutId(a) \/ PutHead(a) \/ PutCount(a) \/ PutCounted(a)

LSNext == \/ Get("main") \/ ProcTest("proc")
          \/ \E a \in Thread : Put(a) \/ Download(a)
          \/ \E a \in Worker : NgxTest(a)
          \/ \E a \in Actor : FlagRead(a) \/ FlagWrite(a)

LSSpec == LSInit /\ [][LSNext]_lsvars

-----------------------------------------------------------------------------
(* One type invariant of the pool, its registers and the history: whatever *)
(* calls overlap, ids and the head hold an index or an address of ctnt[].  *)
LSTypeOK ==
    /\ pool.id \in [Slots(N) -> Word(N)] /\ pool.free \in Word(N) /\ pool.cnt \in Int
    /\ word \in [Slots(N) -> SUBSET FlagBit]
    /\ slot \in [Actor -> Slots(N)] /\ asked \subseteq Slots(N)
    /\ owned \in [Slots(N) -> Int] /\ met \in BOOLEAN

(* As long as no get or put has begun while another one was under way, no  *)
(* slot has two owners, and between the calls the free list holds exactly  *)
(* the slots without an owner and the count is right, whatever flags the   *)
(* threads and the workers read and write meanwhile (sc_res_info_get_ctnt, *)
(* sc_res_info_put, the flag macros).                                      *)
QuietSound ==
    ~met => /\ \A s \in Slots(N) : owned[s] \in 0 .. 1
            /\ (\A a \in Actor : ~InCall(a)) =>
                  PoolSound(pool, N) /\ \A s \in Slots(N) : InUse(pool, N, s) <=> owned[s] = 1

(* What the callers take for granted, each call as one step: AtomicList.   *)
(* A call takes effect when a slot gets its index, when it is zeroed on    *)
(* its way back, or when a flag word is written.                           *)
Atomic == INSTANCE AtomicList WITH
    Slot <- Slots(N), SetFlags <- FlagBit, UnsetFlags <- FailFlag,
    owners <- owned, ret <- got,
    flags <- [s \in Slots(N) |-> IF owned[s] = 0 THEN {} ELSE word[s]]

CallsAreAtomic == Atomic!ASpec
=============================================================================
