---------------------------- MODULE ResListProofs ----------------------------
(***************************************************************************)
(* The invariants of ResList for arrays of every size.  TypeOK,            *)
(* FreeListsOK and FamilyOK are inductive only together: a put is right    *)
(* only for a slot in use, which FamilyOK gives for what the search of     *)
(* handle_cached found; child_cnt stays in range only because the lists    *)
(* have no repetitions; a new mgmt has no children only because every      *)
(* parent is in use.                                                       *)
(***************************************************************************)
EXTENDS ResList, ListProofs

(* The inductive invariant. *)
Inv == TypeOK /\ FreeListsOK /\ FamilyOK

(* The slot numbers are naturals, NULL is none of them (sc_resource.h). *)
LEMMA SlotFacts ==
    /\ NMgmt \in Nat \ {0} /\ NCtnt \in Nat \ {0}
    /\ MSlot \subseteq Nat /\ CSlot \subseteq Nat
    /\ NULL \notin MSlot /\ NULL \notin CSlot
    /\ UsedMgmt \subseteq MSlot /\ UsedCtnt \subseteq CSlot
BY SizeAssumption DEF MSlot, CSlot, Slots, NULL, UsedMgmt, UsedCtnt, UsedSlots

(* A slot after memset is a value of its type (sc_res_info_put). *)
LEMMA ZeroFacts == ZeroMgmt \in MgmtRec /\ ZeroCtnt \in CtntRec
BY SlotFacts DEF ZeroMgmt, ZeroCtnt, MgmtRec, CtntRec, Site, Flag

(* alloc_and_init leaves both arrays free and every list empty. *)
LEMMA InitInv == Init => Inv
<1> SUFFICES ASSUME Init PROVE Inv
  OBVIOUS
<1>1. TypeOK
  BY ZeroFacts, SlotFacts, PoolInitSound DEF Init, TypeOK
<1>2. FreeListsOK
  BY SlotFacts, PoolInitSound DEF Init, FreeListsOK
<1>3. FamilyOK
  BY SlotFacts, PoolInitSound DEF Init, FamilyOK, UsedMgmt, UsedCtnt
<1> QED
  BY <1>1, <1>2, <1>3 DEF Inv

(* So does the start on a segment of an earlier run. *)
LEMMA ReinitInv == Reinit => Inv'
<1> SUFFICES ASSUME Reinit PROVE Inv'
  OBVIOUS
<1>1. TypeOK'
  BY ZeroFacts, SlotFacts, PoolInitSound DEF Reinit, TypeOK
<1>2. FreeListsOK'
  BY SlotFacts, PoolInitSound DEF Reinit, FreeListsOK
<1>3. FamilyOK'
  BY SlotFacts, PoolInitSound DEF Reinit, FamilyOK, UsedMgmt, UsedCtnt
<1> QED
  BY <1>1, <1>2, <1>3 DEF Inv

(* add_origin, add_normal, add_ctrl_ld *)
LEMMA AddMgmtInv ==
    ASSUME Inv, NEW gen \in MgmtGen, NEW u \in Url, NEW m \in MSlot, AddMgmt(gen, u, m)
    PROVE  Inv'
<1> USE SlotFacts
<1>1. /\ m \in MSlot \ UsedMgmt
      /\ mpool' \in Pool(NMgmt) /\ PoolSound(mpool', NMgmt)
      /\ UsedMgmt' = UsedMgmt \cup {m}
  BY PoolGetSound DEF AddMgmt, Inv, TypeOK, FreeListsOK, UsedMgmt, MSlot
<1>2. mgmt' \in [MSlot -> MgmtRec]
  <2>1. NewMgmt(gen, u) \in MgmtRec
    BY DEF NewMgmt, MgmtRec, MarkSite, Site
  <2> QED
    BY <2>1 DEF AddMgmt, Inv, TypeOK
<1>3. UNCHANGED <<ctnt, cpool>> /\ UNCHANGED <<UsedCtnt, Siblings>>
  BY DEF AddMgmt, UsedCtnt, Siblings
<1>4. \A c \in UsedCtnt' : ctnt'[c].parent \in UsedMgmt'
  BY <1>1, <1>3 DEF Inv, FamilyOK
<1>5. ASSUME NEW x \in UsedMgmt'
      PROVE  ListSound(mgmt'[x].child_cnt, mgmt'[x].child, Siblings', Children(x)')
  <2>1. Children(x)' = Children(x)
    BY <1>3 DEF Children
  <2>2. CASE x = m
    <3>1. mgmt'[m].child_cnt = 0 /\ mgmt'[m].child = NULL
      BY DEF AddMgmt, Inv, TypeOK, NewMgmt
    <3>2. Children(m) = {}
      BY <1>1 DEF Children, Inv, FamilyOK
    <3> QED
      BY <2>1, <2>2, <3>1, <3>2, ListEmpty
  <2>3. CASE x # m
    <3>1. x \in UsedMgmt /\ mgmt'[x] = mgmt[x]
      BY <1>1, <2>3 DEF AddMgmt, Inv, TypeOK
    <3> QED
      BY <1>3, <2>1, <3>1 DEF Inv, FamilyOK
  <2> QED
    BY <2>2, <2>3
<1> QED
  BY <1>1, <1>2, <1>3, <1>4, <1>5 DEF Inv, TypeOK, FreeListsOK, FamilyOK

(* A slot taken and put back, on an error path. *)
LEMMA GetPutSound ==
    ASSUME NEW n \in Nat \ {0}, NEW p \in Pool(n), PoolSound(p, n), ~RanOut(p, n)
    PROVE  LET q == PoolPut(PoolGet(p, n), n, FreeHead(p, n))
           IN  q \in Pool(n) /\ PoolSound(q, n) /\ UsedSlots(q, n) = UsedSlots(p, n)
<1> DEFINE g == PoolGet(p, n)
           h == FreeHead(p, n)
<1>1. /\ h \in Slots(n) \ UsedSlots(p, n) /\ g \in Pool(n) /\ PoolSound(g, n)
      /\ UsedSlots(g, n) = UsedSlots(p, n) \cup {h}
  BY PoolGetSound
<1> HIDE DEF g, h
<1>2. h \in UsedSlots(g, n)
  BY <1>1
<1>3. /\ PoolPut(g, n, h) \in Pool(n) /\ PoolSound(PoolPut(g, n, h), n)
      /\ UsedSlots(PoolPut(g, n, h), n) = UsedSlots(g, n) \ {h}
  BY <1>1, <1>2, PoolPutSound
<1>4. UsedSlots(g, n) \ {h} = UsedSlots(p, n)
  BY <1>1
<1> QED
  BY <1>3, <1>4 DEF g, h

(* Zeroing a mgmt that is not in use, or a content that is not in use,     *)
(* does not disturb the families: first the error paths of the mgmt adds.  *)
LEMMA AddMgmtErrorInv ==
    ASSUME Inv, NEW u \in Url, AddMgmtError(u)
    PROVE  Inv'
<1> USE SlotFacts
<1>1. CASE UNCHANGED rlvars
  BY <1>1 DEF rlvars, Inv, TypeOK, FreeListsOK, FamilyOK, UsedMgmt, UsedCtnt, Siblings, Children
<1>2. CASE ~UNCHANGED rlvars
  <2> DEFINE m == FreeHead(mpool, NMgmt)
  <2>1. /\ ~RanOut(mpool, NMgmt)
        /\ mpool' = PoolPut(PoolGet(mpool, NMgmt), NMgmt, m)
        /\ mgmt' = [mgmt EXCEPT ![m] = ZeroMgmt]
        /\ UNCHANGED <<ctnt, cpool>>
    BY <1>2 DEF AddMgmtError
  <2>2. mpool \in Pool(NMgmt) /\ PoolSound(mpool, NMgmt)
    BY DEF Inv, TypeOK, FreeListsOK
  <2>3. m \in MSlot \ UsedMgmt
    BY <2>1, <2>2, PoolGetSound DEF UsedMgmt, MSlot
  <2> HIDE DEF m
  <2>4. mpool' \in Pool(NMgmt) /\ PoolSound(mpool', NMgmt) /\ UsedMgmt' = UsedMgmt
    BY <2>1, <2>2, GetPutSound DEF UsedMgmt, m
  <2>5. mgmt' \in [MSlot -> MgmtRec] /\ \A x \in UsedMgmt : mgmt'[x] = mgmt[x]
    BY <2>1, <2>3, ZeroFacts DEF Inv, TypeOK
  <2>6. /\ UNCHANGED <<UsedCtnt, Siblings>>
        /\ \A x : Children(x)' = Children(x)
    BY <2>1 DEF UsedCtnt, Siblings, Children
  <2> QED
    BY <2>1, <2>4, <2>5, <2>6 DEF Inv, TypeOK, FreeListsOK, FamilyOK
<1> QED
  BY <1>1, <1>2

(* The same for the error path of add_ctnt. *)
LEMMA AddCtntErrorInv ==
    ASSUME Inv, NEW m \in UsedMgmt, NEW u \in Url, AddCtntError(m, u)
    PROVE  Inv'
<1> USE SlotFacts
<1>1. CASE UNCHANGED rlvars
  BY <1>1 DEF rlvars, Inv, TypeOK, FreeListsOK, FamilyOK, UsedMgmt, UsedCtnt, Siblings, Children
<1>2. CASE ~UNCHANGED rlvars
  <2> DEFINE c == FreeHead(cpool, NCtnt)
  <2>1. /\ ~RanOut(cpool, NCtnt)
        /\ cpool' = PoolPut(PoolGet(cpool, NCtnt), NCtnt, c)
        /\ ctnt' = [ctnt EXCEPT ![c] = ZeroCtnt]
        /\ UNCHANGED <<mgmt, mpool>>
    BY <1>2 DEF AddCtntError
  <2>2. cpool \in Pool(NCtnt) /\ PoolSound(cpool, NCtnt)
    BY DEF Inv, TypeOK, FreeListsOK
  <2>3. c \in CSlot \ UsedCtnt
    BY <2>1, <2>2, PoolGetSound DEF UsedCtnt, CSlot
  <2> HIDE DEF c
  <2>4. cpool' \in Pool(NCtnt) /\ PoolSound(cpool', NCtnt) /\ UsedCtnt' = UsedCtnt
    BY <2>1, <2>2, GetPutSound DEF UsedCtnt, c
  <2>5. ctnt' \in [CSlot -> CtntRec] /\ \A x \in UsedCtnt : ctnt'[x] = ctnt[x]
    BY <2>1, <2>3, ZeroFacts DEF Inv, TypeOK
  <2>6. UsedMgmt' = UsedMgmt
    BY <2>1 DEF UsedMgmt
  <2>7. ASSUME NEW x \in UsedMgmt
        PROVE  ListSound(mgmt'[x].child_cnt, mgmt'[x].child, Siblings', Children(x)')
    <3>1. Children(x)' = Children(x)
      BY <2>4, <2>5 DEF Children
    <3>2. \A y \in Children(x) : Siblings'[y] = Siblings[y]
      BY <2>5 DEF Children, Siblings
    <3>3. mgmt[x].child_cnt \in Nat
      BY DEF Inv, TypeOK, MgmtRec
    <3>4. ListSound(mgmt[x].child_cnt, mgmt[x].child, Siblings, Children(x))
      BY DEF Inv, FamilyOK
    <3>5. ListSound(mgmt[x].child_cnt, mgmt[x].child, Siblings', Children(x))
      BY <3>2, <3>3, <3>4, ListFrame
    <3> QED
      BY <2>1, <3>1, <3>5
  <2>8. \A x \in UsedCtnt' : ctnt'[x].parent \in UsedMgmt'
    BY <2>4, <2>5, <2>6 DEF Inv, FamilyOK
  <2> QED
    BY <2>1, <2>4, <2>5, <2>6, <2>7, <2>8 DEF Inv, TypeOK, FreeListsOK, FamilyOK
<1> QED
  BY <1>1, <1>2

(* add_ctnt: the new slot becomes the head of its parent's list. *)
LEMMA AddCtntInv ==
    ASSUME Inv, NEW m \in UsedMgmt, NEW u \in Url, NEW c \in CSlot, AddCtnt(m, u, c)
    PROVE  Inv'
<1> USE SlotFacts
<1> DEFINE k == mgmt[m].child_cnt
<1>0. /\ mgmt \in [MSlot -> MgmtRec] /\ ctnt \in [CSlot -> CtntRec]
      /\ cpool \in Pool(NCtnt) /\ PoolSound(cpool, NCtnt)
      /\ k \in Nat /\ mgmt[m].site \in Site /\ m \in MSlot
      /\ mgmt[m] \in MgmtRec
  BY DEF Inv, TypeOK, FreeListsOK, MgmtRec
<1>1. /\ c \in CSlot \ UsedCtnt
      /\ cpool' \in Pool(NCtnt) /\ PoolSound(cpool', NCtnt)
      /\ UsedCtnt' = UsedCtnt \cup {c}
  BY <1>0, PoolGetSound DEF AddCtnt, UsedCtnt, CSlot
<1>2. /\ ListSound(k, mgmt[m].child, Siblings, Children(m))
      /\ Children(m) \in SUBSET Nat
      /\ k = 0 <=> mgmt[m].child = NULL
      /\ mgmt[m].child \in CSlot \cup {NULL}
  <2>1. ListSound(k, mgmt[m].child, Siblings, Children(m))
    BY DEF Inv, FamilyOK
  <2>2. Children(m) \in SUBSET Nat
    BY DEF Children
  <2>3. k = 0 <=> mgmt[m].child = NULL
    BY <1>0, <2>1, <2>2, ListMembers
  <2> QED
    BY <1>0, <2>1, <2>2, <2>3 DEF MgmtRec
<1>3. /\ NewCtnt(m, u) \in CtntRec
      /\ NewCtnt(m, u).parent = m
      /\ NewCtnt(m, u).siblings = mgmt[m].child
  <2>1. LocalPathOf[<<mgmt[m].site, u>>] \in Path \cup {NoPath}
    BY <1>0, UrlAssumption
  <2>2. (IF IsCtrlLd(m) THEN {"STORED"} ELSE {}) \in SUBSET Flag
    BY DEF Flag
  <2>3. (IF k = 0 THEN NULL ELSE mgmt[m].child) = mgmt[m].child
    BY <1>2
  <2> QED
    BY <1>0, <1>2, <2>1, <2>2, <2>3 DEF NewCtnt, CtntRec
<1>4. /\ ctnt' \in [CSlot -> CtntRec] /\ ctnt'[c] = NewCtnt(m, u)
      /\ \A x \in UsedCtnt : ctnt'[x] = ctnt[x]
  BY <1>0, <1>1, <1>3 DEF AddCtnt
<1>5. /\ mgmt'[m] = [mgmt[m] EXCEPT !.child = c, !.child_cnt = k + 1]
      /\ \A x \in MSlot : x # m => mgmt'[x] = mgmt[x]
      /\ DOMAIN mgmt' = MSlot /\ mgmt' = [x \in MSlot |-> mgmt'[x]]
  BY <1>0 DEF AddCtnt
<1>6. /\ Children(m)' = Children(m) \cup {c}
      /\ \A x \in UsedMgmt : x # m => Children(x)' = Children(x)
  BY <1>1, <1>3, <1>4 DEF Children
<1>7. /\ Siblings'[c] = mgmt[m].child
      /\ \A x \in UsedCtnt : Siblings'[x] = Siblings[x]
  BY <1>3, <1>4 DEF Siblings
<1>8. ListSound(k + 1, c, Siblings', Children(m)')
  <2>1. c \in Nat \ Children(m) /\ \A x \in Children(m) : Siblings'[x] = Siblings[x]
    BY <1>1, <1>7 DEF Children
  <2> QED
    BY <1>0, <1>2, <1>6, <1>7, <2>1, ListPush
<1>9. k + 1 \in 0 .. NCtnt
  <2>1. Children(m)' \in SUBSET (0 .. NCtnt - 1)
    BY <1>1, <1>6 DEF Children, CSlot, Slots
  <2> QED
    BY <1>0, <1>8, <2>1, ListBound
<1>10. mgmt' \in [MSlot -> MgmtRec]
  <2>1. mgmt'[m] \in MgmtRec
    BY <1>0, <1>1, <1>5, <1>9 DEF MgmtRec
  <2>2. \A x \in MSlot : mgmt'[x] \in MgmtRec
    BY <1>0, <1>5, <2>1
  <2> QED
    BY <1>5, <2>2
<1>11. UNCHANGED mpool /\ UNCHANGED UsedMgmt
  BY DEF AddCtnt, UsedMgmt
<1>12. ASSUME NEW x \in UsedMgmt
       PROVE  ListSound(mgmt'[x].child_cnt, mgmt'[x].child, Siblings', Children(x)')
  <2>1. CASE x = m
    <3>1. mgmt'[m].child_cnt = k + 1 /\ mgmt'[m].child = c
      BY <1>0, <1>5 DEF MgmtRec
    <3> QED
      BY <1>8, <2>1, <3>1
  <2>2. CASE x # m
    <3>1. mgmt'[x] = mgmt[x] /\ mgmt[x].child_cnt \in Nat
      BY <1>0, <1>5, <2>2 DEF MgmtRec
    <3>2. ListSound(mgmt[x].child_cnt, mgmt[x].child, Siblings, Children(x))
      BY DEF Inv, FamilyOK
    <3>3. \A y \in Children(x) : Siblings'[y] = Siblings[y]
      BY <1>7 DEF Children
    <3>4. ListSound(mgmt[x].child_cnt, mgmt[x].child, Siblings', Children(x))
      BY <3>1, <3>2, <3>3, ListFrame
    <3> QED
      BY <1>6, <2>2, <3>1, <3>4
  <2> QED
    BY <2>1, <2>2
<1>13. \A x \in UsedCtnt' : ctnt'[x].parent \in UsedMgmt'
  BY <1>1, <1>3, <1>4, <1>11 DEF Inv, FamilyOK
<1> QED
  BY <1>1, <1>4, <1>10, <1>11, <1>12, <1>13 DEF Inv, TypeOK, FreeListsOK, FamilyOK

(* A flag changes neither links nor use. *)
LEMMA FlagInv ==
    ASSUME Inv, NEW c \in CSlot, NEW f \in Flag, SetFlag(c, f) \/ UnsetFlag(c, f)
    PROVE  Inv'
<1> USE SlotFacts
<1>1. PICK g \in SUBSET Flag : ctnt' = [ctnt EXCEPT ![c].flag = g]
  <2>1. ctnt[c].flag \in SUBSET Flag
    BY DEF Inv, TypeOK, CtntRec
  <2>2. CASE SetFlag(c, f)
    <3>1. ctnt[c].flag \cup {f} \in SUBSET Flag
      BY <2>1
    <3> QED
      BY <2>2, <3>1 DEF SetFlag
  <2>3. CASE UnsetFlag(c, f)
    <3>1. ctnt[c].flag \ {f} \in SUBSET Flag
      BY <2>1
    <3> QED
      BY <2>3, <3>1 DEF UnsetFlag
  <2> QED
    BY <2>2, <2>3
<1>2. UNCHANGED <<mgmt, mpool, cpool>>
  BY DEF SetFlag, UnsetFlag
<1>3. /\ ctnt' \in [CSlot -> CtntRec]
      /\ \A x \in CSlot : /\ ctnt'[x].siblings = ctnt[x].siblings
                          /\ ctnt'[x].parent = ctnt[x].parent
  BY <1>1 DEF Inv, TypeOK, CtntRec
<1>4. UNCHANGED <<UsedMgmt, UsedCtnt, Siblings>>
  BY <1>2, <1>3 DEF UsedMgmt, UsedCtnt, Siblings
<1>5. \A x : Children(x)' = Children(x)
  BY <1>3, <1>4 DEF Children
<1> QED
  BY <1>2, <1>3, <1>4, <1>5 DEF Inv, TypeOK, FreeListsOK, FamilyOK

(* What the search of handle_cached finds is on the list of m, and         *)
(* sc_res_info_remove_loaded accepts it.                                   *)
LEMMA FoundIsRemovable ==
    ASSUME Inv, NEW m \in UsedMgmt, NEW ld \in CSlot, NEW pre \in CSlot \cup {NULL},
           Consecutive(m, pre, ld)
    PROVE  /\ ld \in Children(m) /\ pre # ld
           /\ pre = NULL \/ pre \in Children(m)
           /\ pre = NULL => mgmt[m].child = ld
           /\ pre # NULL => ctnt[pre].siblings = ld
           /\ CanRemoveLoaded(pre, ld)
<1> USE SlotFacts
<1> DEFINE k == mgmt[m].child_cnt
           h == mgmt[m].child
           S == Children(m)
<1>1. /\ ListSound(k, h, Siblings, S)
      /\ S \in SUBSET Nat /\ k \in Nat
  <2>1. ListSound(k, h, Siblings, S)
    BY DEF Inv, FamilyOK
  <2>2. S \in SUBSET Nat
    BY DEF Children
  <2>3. k \in Nat
    BY DEF Inv, TypeOK, MgmtRec
  <2> QED
    BY <2>1, <2>2, <2>3
<1> HIDE DEF k, h, S
<1>2. /\ h \in S \cup {NULL}
      /\ \A x \in S : Siblings[x] \in S \cup {NULL} /\ Siblings[x] # x
  BY <1>1, ListMembers
<1>3. \A x \in CSlot : Siblings[x] = ctnt[x].siblings
  BY DEF Siblings
<1>4. /\ pre = NULL \/ pre \in S
      /\ pre = NULL => h = ld
      /\ pre # NULL => Siblings[pre] = ld
  BY <1>3 DEF Consecutive, Children, h, S
<1>5. ld \in S /\ pre # ld
  BY <1>2, <1>4
<1>6. ctnt[ld].parent = m /\ m # NULL
  BY <1>5 DEF Children, S
<1>7. k >= 1 /\ (pre # NULL => k >= 2)
  <2>1. CASE pre = NULL
    BY <1>1, <1>4, <1>5, <2>1, ListRemove
  <2>2. CASE pre # NULL
    <3> DEFINE next2 == [Siblings EXCEPT ![pre] = Siblings[ld]]
    <3>1. pre \in DOMAIN Siblings
      BY <2>2 DEF Siblings
    <3>2. next2[pre] = Siblings[ld] /\ \A x \in S \ {pre, ld} : next2[x] = Siblings[x]
      BY <3>1 DEF S, Children, Siblings
    <3> HIDE DEF next2
    <3>3. \/ pre = NULL /\ h = ld /\ h = Siblings[ld]
          \/ /\ pre \in S /\ Siblings[pre] = ld
             /\ h = h /\ next2[pre] = Siblings[ld]
      BY <1>4, <2>2, <3>2
    <3>4. ld \in S /\ \A x \in S \ {pre, ld} : next2[x] = Siblings[x]
      BY <1>5, <3>2
    <3>5. /\ k >= 1
          /\ pre # NULL => k >= 2
          /\ ListSound(k - 1, h, next2, S \ {ld})
      BY <1>1, <3>3, <3>4, ListRemove, Zenon
    <3> QED
      BY <3>5
  <2> QED
    BY <2>1, <2>2
<1>8. CanRemoveLoaded(pre, ld)
  BY <1>4, <1>6, <1>7 DEF CanRemoveLoaded, h, k
<1> QED
  BY <1>3, <1>4, <1>5, <1>8 DEF h, S

(* handle_cached: ld leaves the list of its controller and its slot is     *)
(* free; parsed keeps its own place.                                       *)
LEMMA HandleCachedInv ==
    ASSUME Inv, NEW m \in UsedMgmt, NEW parsed \in UsedCtnt,
           NEW pre \in CSlot \cup {NULL}, NEW ld \in CSlot,
           IsCtrlLd(m), Parsed(parsed), Consecutive(m, pre, ld),
           HandleCached(parsed, pre, ld)
    PROVE  Inv'
<1> USE SlotFacts
<1> DEFINE k == mgmt[m].child_cnt
           h2 == IF pre = NULL THEN ctnt[ld].siblings ELSE mgmt[m].child
<1>0. /\ mgmt \in [MSlot -> MgmtRec] /\ ctnt \in [CSlot -> CtntRec]
      /\ cpool \in Pool(NCtnt) /\ PoolSound(cpool, NCtnt)
      /\ m \in MSlot /\ parsed \in CSlot /\ mgmt[m] \in MgmtRec /\ k \in 0 .. NCtnt
      /\ ctnt[ld] \in CtntRec /\ ctnt[parsed] \in CtntRec
  BY DEF Inv, TypeOK, FreeListsOK, MgmtRec
<1>1. /\ ld \in Children(m) /\ pre # ld
      /\ pre = NULL \/ pre \in Children(m)
      /\ pre = NULL => mgmt[m].child = ld
      /\ pre # NULL => ctnt[pre].siblings = ld
      /\ CanRemoveLoaded(pre, ld)
  BY FoundIsRemovable
<1>2. /\ ctnt[ld].parent = m /\ ld \in UsedCtnt
      /\ parsed # ld /\ parsed # pre /\ ctnt[parsed].parent # m
  BY <1>1 DEF Children, Parsed
<1>3. RemoveLoaded(parsed, pre, ld)
  BY <1>1 DEF HandleCached
<1>4. /\ cpool' \in Pool(NCtnt) /\ PoolSound(cpool', NCtnt)
      /\ UsedCtnt' = UsedCtnt \ {ld}
  BY <1>0, <1>2, <1>3, PoolPutSound DEF RemoveLoaded, UsedCtnt
<1>5. /\ mgmt' = [mgmt EXCEPT ![m].child_cnt = k - 1, ![m].child = h2]
      /\ UNCHANGED <<mpool, UsedMgmt>>
  BY <1>0, <1>2, <1>3 DEF RemoveLoaded, UsedMgmt
<1>6. DupCtnt(ld, parsed) \in CtntRec
      /\ DupCtnt(ld, parsed).parent = ctnt[parsed].parent
      /\ DupCtnt(ld, parsed).siblings = ctnt[parsed].siblings
  <2>1. ctnt[parsed].flag \cup (ctnt[ld].flag \cap {"STORED", "NOTIFY"}) \in SUBSET Flag
    BY <1>0 DEF CtntRec
  <2> QED
    BY <1>0, <2>1 DEF DupCtnt, CtntRec
<1>7. /\ ctnt' \in [CSlot -> CtntRec]
      /\ \A x \in CSlot \ {ld} : ctnt'[x].parent = ctnt[x].parent
      /\ \A x \in CSlot \ {ld, pre} : ctnt'[x].siblings = ctnt[x].siblings
      /\ pre # NULL => ctnt'[pre].siblings = ctnt[ld].siblings
  <2> DEFINE un == IF pre = NULL THEN ctnt
                   ELSE [ctnt EXCEPT ![pre].siblings = ctnt[ld].siblings]
  <2>1. /\ un \in [CSlot -> CtntRec]
        /\ \A x \in CSlot : un[x].parent = ctnt[x].parent
        /\ \A x \in CSlot \ {pre} : un[x].siblings = ctnt[x].siblings
        /\ pre # NULL => un[pre].siblings = ctnt[ld].siblings
    <3>1. CASE pre = NULL
      BY <1>0, <3>1
    <3>2. CASE pre # NULL
      BY <1>0, <3>2 DEF CtntRec
    <3> QED
      BY <3>1, <3>2
  <2>2. ctnt' = [un EXCEPT ![parsed] = DupCtnt(ld, parsed), ![ld] = ZeroCtnt]
    BY <1>3 DEF RemoveLoaded
  <2> HIDE DEF un
  <2>3. /\ ctnt' \in [CSlot -> CtntRec]
        /\ ctnt'[parsed] = DupCtnt(ld, parsed)
        /\ \A x \in CSlot \ {parsed, ld} : ctnt'[x] = un[x]
    BY <1>0, <1>2, <1>6, <2>1, <2>2, ZeroFacts
  <2> QED
    BY <1>0, <1>1, <1>2, <1>6, <2>1, <2>3
<1>8. /\ Children(m)' = Children(m) \ {ld}
      /\ \A x \in UsedMgmt : x # m => Children(x)' = Children(x)
  BY <1>2, <1>4, <1>7 DEF Children
<1>9. ListSound(k - 1, h2, Siblings', Children(m)')
  <2>1. ListSound(k, mgmt[m].child, Siblings, Children(m)) /\ Children(m) \in SUBSET Nat
    BY DEF Inv, FamilyOK, Children
  <2>2. \A x \in Children(m) \ {pre, ld} : Siblings'[x] = Siblings[x]
    BY <1>7 DEF Siblings, Children
  <2>3. \/ pre = NULL /\ mgmt[m].child = ld /\ h2 = Siblings[ld]
        \/ /\ pre \in Children(m) /\ Siblings[pre] = ld
           /\ h2 = mgmt[m].child /\ Siblings'[pre] = Siblings[ld]
    BY <1>1, <1>7 DEF Siblings, Children
  <2> HIDE DEF h2
  <2> QED
    BY <1>0, <1>1, <1>8, <2>1, <2>2, <2>3, ListRemove
<1>10. k - 1 \in 0 .. NCtnt
  BY <1>0, <1>1, <1>2 DEF CanRemoveLoaded
<1>11. /\ mgmt' \in [MSlot -> MgmtRec]
       /\ mgmt'[m].child_cnt = k - 1 /\ mgmt'[m].child = h2
       /\ \A x \in MSlot : x # m => mgmt'[x] = mgmt[x]
  <2>1. h2 \in CSlot \cup {NULL}
    BY <1>0 DEF CtntRec, MgmtRec
  <2> HIDE DEF h2
  <2> QED
    BY <1>0, <1>5, <1>10, <2>1 DEF MgmtRec
<1>12. ASSUME NEW x \in UsedMgmt
       PROVE  ListSound(mgmt'[x].child_cnt, mgmt'[x].child, Siblings', Children(x)')
  <2>1. CASE x = m
    BY <1>9, <1>11, <2>1
  <2>2. CASE x # m
    <3>1. mgmt'[x] = mgmt[x] /\ mgmt[x].child_cnt \in Nat
      BY <1>0, <1>11, <2>2 DEF MgmtRec
    <3>2. ListSound(mgmt[x].child_cnt, mgmt[x].child, Siblings, Children(x))
      BY DEF Inv, FamilyOK
    <3>3. \A y \in Children(x) : Siblings'[y] = Siblings[y]
      BY <1>1, <1>7, <2>2 DEF Children, Siblings
    <3>4. ListSound(mgmt[x].child_cnt, mgmt[x].child, Siblings', Children(x))
      BY <3>1, <3>2, <3>3, ListFrame
    <3> QED
      BY <1>8, <2>2, <3>1, <3>4
  <2> QED
    BY <2>1, <2>2
<1>13. \A x \in UsedCtnt' : ctnt'[x].parent \in UsedMgmt'
  BY <1>4, <1>5, <1>7 DEF Inv, FamilyOK
<1> QED
  BY <1>4, <1>5, <1>7, <1>11, <1>12, <1>13 DEF Inv, TypeOK, FreeListsOK, FamilyOK

-----------------------------------------------------------------------------
(* Every call of the resource list keeps the invariant. *)
LEMMA NextInv == Inv /\ [Next]_rlvars => Inv'
<1> SUFFICES ASSUME Inv, [Next]_rlvars PROVE Inv'
  OBVIOUS
<1>1. CASE NextAddMgmt
  BY <1>1, AddMgmtInv DEF NextAddMgmt
<1>2. CASE NextAddCtnt
  BY <1>2, AddCtntInv DEF NextAddCtnt
<1>3. CASE NextAddError
  BY <1>3, AddMgmtErrorInv, AddCtntErrorInv DEF NextAddError
<1>4. CASE NextFlag
  BY <1>4, FlagInv DEF NextFlag
<1>5. CASE NextHandleCached
  BY <1>5, HandleCachedInv DEF NextHandleCached
<1>6. CASE Reinit
  BY <1>6, ReinitInv
<1>7. CASE UNCHANGED rlvars
  BY <1>7 DEF rlvars, Inv, TypeOK, FreeListsOK, FamilyOK, UsedMgmt, UsedCtnt, Siblings, Children
<1> QED
  BY <1>1, <1>2, <1>3, <1>4, <1>5, <1>6, <1>7 DEF Next

(* The inductive invariant holds in every state of every sequence of calls *)
(* on the resource list.                                                   *)
THEOREM InvAlways == Spec => []Inv
  BY InitInv, NextInv, PTL DEF Spec

(* Every field of sc_res_list_t keeps its type (sc_resource.c). *)
THEOREM TypeCorrect == Spec => []TypeOK
<1>1. Inv => TypeOK
  BY DEF Inv
<1> QED
  BY <1>1, InvAlways, PTL

(* The free lists of sc_res_info_get_mgmt, get_ctnt and put hold exactly   *)
(* the slots that are not in use.                                          *)
THEOREM FreeListsCorrect == Spec => []FreeListsOK
<1>1. Inv => FreeListsOK
  BY DEF Inv
<1> QED
  BY <1>1, InvAlways, PTL

(* The lists built by add_ctnt and cut by remove_loaded hold exactly the   *)
(* contents of their mgmt.                                                 *)
THEOREM FamiliesCorrect == Spec => []FamilyOK
<1>1. Inv => FamilyOK
  BY DEF Inv
<1> QED
  BY <1>1, InvAlways, PTL

(* remove_loaded never refuses what the search of handle_cached found. *)
THEOREM RemovalCorrect == Spec => []RemovalOK
<1>1. Inv => RemovalOK
  BY FoundIsRemovable DEF RemovalOK
<1> QED
  BY <1>1, InvAlways, PTL

(* One step of the list, other than a restart, leaves every content of an  *)
(* origin or a normal in its slot and under its parent.                    *)
LEMMA ParsedStep ==
    ASSUME Inv, Next, ~Reinit, NEW c \in CSlot, Parsed(c)
    PROVE  c \in UsedCtnt' /\ ctnt'[c].parent = ctnt[c].parent
<1> USE SlotFacts
<1>0. /\ ctnt \in [CSlot -> CtntRec] /\ cpool \in Pool(NCtnt)
      /\ PoolSound(cpool, NCtnt) /\ c \in UsedCtnt
  BY DEF Inv, TypeOK, FreeListsOK, Parsed
<1>1. CASE UNCHANGED <<ctnt, cpool>>
  BY <1>0, <1>1 DEF UsedCtnt
<1>2. CASE NextAddMgmt
  BY <1>1, <1>2 DEF NextAddMgmt, AddMgmt
<1>3. ASSUME NEW m \in UsedMgmt, NEW u \in Url, NEW d \in CSlot, AddCtnt(m, u, d)
      PROVE  c \in UsedCtnt' /\ ctnt'[c].parent = ctnt[c].parent
  <2>1. d \in CSlot \ UsedCtnt /\ UsedCtnt' = UsedCtnt \cup {d}
    BY <1>0, <1>3, PoolGetSound DEF AddCtnt, UsedCtnt, CSlot
  <2> QED
    BY <1>0, <1>3, <2>1 DEF AddCtnt
<1>4. ASSUME NEW u \in Url, AddMgmtError(u)
      PROVE  UNCHANGED <<ctnt, cpool>>
  BY <1>4 DEF AddMgmtError, rlvars
<1>5. ASSUME NEW m \in UsedMgmt, NEW u \in Url, AddCtntError(m, u)
      PROVE  c \in UsedCtnt' /\ ctnt'[c].parent = ctnt[c].parent
  <2>1. CASE UNCHANGED rlvars
    BY <1>1, <2>1 DEF rlvars
  <2>2. CASE ~UNCHANGED rlvars
    <3> DEFINE d == FreeHead(cpool, NCtnt)
    <3>1. /\ ~RanOut(cpool, NCtnt)
          /\ cpool' = PoolPut(PoolGet(cpool, NCtnt), NCtnt, d)
          /\ ctnt' = [ctnt EXCEPT ![d] = ZeroCtnt]
      BY <1>5, <2>2 DEF AddCtntError
    <3>2. d \in CSlot \ UsedCtnt
      BY <1>0, <3>1, PoolGetSound DEF UsedCtnt, CSlot
    <3> HIDE DEF d
    <3>3. UsedCtnt' = UsedCtnt
      BY <1>0, <3>1, GetPutSound DEF UsedCtnt, d
    <3> QED
      BY <1>0, <3>1, <3>2, <3>3
  <2> QED
    BY <2>1, <2>2
<1>6. ASSUME NEW d \in CSlot, NEW f \in Flag, SetFlag(d, f) \/ UnsetFlag(d, f)
      PROVE  c \in UsedCtnt' /\ ctnt'[c].parent = ctnt[c].parent
  BY <1>0, <1>6 DEF SetFlag, UnsetFlag, UsedCtnt, CtntRec
<1>7. ASSUME NEW m \in UsedMgmt, NEW parsed \in UsedCtnt,
             NEW pre \in CSlot \cup {NULL}, NEW ld \in CSlot,
             IsCtrlLd(m), Parsed(parsed), Consecutive(m, pre, ld),
             HandleCached(parsed, pre, ld)
      PROVE  c \in UsedCtnt' /\ ctnt'[c].parent = ctnt[c].parent
  <2>1. ld \in Children(m) /\ CanRemoveLoaded(pre, ld)
    BY <1>7, FoundIsRemovable
  <2>2. RemoveLoaded(parsed, pre, ld)
    BY <1>7, <2>1 DEF HandleCached
  <2>3. ld \in UsedCtnt /\ c # ld
    BY <1>7, <2>1 DEF Children, Parsed
  <2>4. UsedCtnt' = UsedCtnt \ {ld}
    BY <1>0, <2>2, <2>3, PoolPutSound DEF RemoveLoaded, UsedCtnt
  <2> DEFINE un == IF pre = NULL THEN ctnt
                   ELSE [ctnt EXCEPT ![pre].siblings = ctnt[ld].siblings]
  <2>5. un[c].parent = ctnt[c].parent /\ DOMAIN un = CSlot
    BY <1>0 DEF CtntRec
  <2>6. DupCtnt(ld, parsed).parent = ctnt[parsed].parent
    BY <1>0 DEF DupCtnt, CtntRec
  <2>7. ctnt' = [un EXCEPT ![parsed] = DupCtnt(ld, parsed), ![ld] = ZeroCtnt]
    BY <2>2 DEF RemoveLoaded
  <2> HIDE DEF un
  <2>8. ctnt'[c] = IF c = parsed THEN DupCtnt(ld, parsed) ELSE un[c]
    BY <2>3, <2>5, <2>7
  <2> QED
    BY <1>0, <2>3, <2>4, <2>5, <2>6, <2>8
<1> QED
  BY <1>1, <1>2, <1>3, <1>4, <1>5, <1>6, <1>7
     DEF Next, NextAddCtnt, NextAddError, NextFlag, NextHandleCached

(* No call takes the slot of a content that is not a loaded, or moves it   *)
(* to another list: sc_res_info_handle_cached frees loaded files only.     *)
THEOREM ParsedSafe == Spec => ParsedKept
<1>1. Inv /\ [Next]_rlvars =>
        [Reinit \/ \A c \in CSlot : Parsed(c) =>
             c \in UsedCtnt' /\ ctnt'[c].parent = ctnt[c].parent]_rlvars
  BY ParsedStep
<1> QED
  BY <1>1, InvAlways, PTL DEF Spec, ParsedKept
=============================================================================
