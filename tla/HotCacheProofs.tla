--------------------------- MODULE HotCacheProofs ---------------------------
(***************************************************************************)
(* What the Snooping Client at work guarantees for arrays of every size,   *)
(* any URLs and files and any number of faults and restarts.  The threads  *)
(* keep pointers into the list over their waits; the invariant says which  *)
(* of them can be stale, and that what they do through those is harmless.  *)
(***************************************************************************)
EXTENDS HotCache, ResListProofs

-----------------------------------------------------------------------------
(* WHAT A CALL LEAVES OF THE LIST *)

(* A slot that is free is blank, whatever flag a stale pointer has set in  *)
(* it; a loaded is stored; and a content has the path of its URL.          *)
FreeBlank == \A c \in CSlot \ UsedCtnt : ctnt[c].url = NoUrl /\ ctnt[c].localpath = NoPath
LoadedStored == \A c \in UsedCtnt : IsCtrlLd(ctnt[c].parent) => "STORED" \in ctnt[c].flag
PathOfUrl == \A c \in UsedCtnt :
                /\ ctnt[c].url \in Url /\ ctnt[c].localpath \in Path
                /\ \E s \in Site : ctnt[c].localpath = LocalPathOf[<<s, ctnt[c].url>>]
ListInv == Inv /\ FreeBlank /\ LoadedStored /\ PathOfUrl

(* The mgmt slots in use stay, as what they are, and so do the contents of *)
(* origins and normals.                                                    *)
MgmtKept == \A m \in UsedMgmt : /\ m \in UsedMgmt'
                                /\ mgmt'[m].gen = mgmt[m].gen /\ mgmt'[m].site = mgmt[m].site
CtntKept == \A c \in CSlot : Parsed(c) => c \in UsedCtnt' /\ ctnt'[c].parent = ctnt[c].parent

(* What is stored was stored before, under the same path. *)
StoredBefore == \A c \in UsedCtnt' : "STORED" \in ctnt'[c].flag =>
    \E d \in UsedCtnt : "STORED" \in ctnt[d].flag /\ ctnt'[c].localpath = ctnt[d].localpath

(* All that one call leaves. *)
Leaves == [Next]_rlvars /\ ListInv' /\ MgmtKept /\ CtntKept

(* A call that only changes flags. *)
OnlyFlags ==
    /\ UsedCtnt' = UsedCtnt
    /\ \A c \in CSlot : ctnt'[c].localpath = ctnt[c].localpath /\ ctnt'[c].parent = ctnt[c].parent

LEMMA NoStep ==
    ASSUME ListInv, UNCHANGED rlvars
    PROVE  Leaves /\ StoredBefore
<1>1. UNCHANGED <<mgmt, ctnt, mpool, cpool>>
  BY DEF rlvars
<1>2. UsedMgmt' = UsedMgmt /\ UsedCtnt' = UsedCtnt
  BY <1>1 DEF UsedMgmt, UsedCtnt
<1>3. Inv'
  BY NextInv DEF ListInv
<1>4. FreeBlank' /\ LoadedStored' /\ PathOfUrl'
  BY <1>1, <1>2 DEF ListInv, FreeBlank, LoadedStored, PathOfUrl, IsCtrlLd
<1> QED
  BY <1>1, <1>2, <1>3, <1>4 DEF Leaves, ListInv, MgmtKept, CtntKept, Parsed, StoredBefore

(* A call that leaves the contents in use alone. *)
LEMMA CtntsAlone ==
    ASSUME ListInv, [Next]_rlvars, UsedCtnt' = UsedCtnt, MgmtKept,
           \A c \in UsedCtnt : ctnt'[c] = ctnt[c],
           \A c \in CSlot \ UsedCtnt : ctnt'[c] = ctnt[c] \/ ctnt'[c] = ZeroCtnt
    PROVE  Leaves /\ StoredBefore
<1>1. Inv'
  BY NextInv DEF ListInv
<1>2. FreeBlank'
  BY DEF ListInv, FreeBlank, ZeroCtnt
<1>3. LoadedStored'
  BY DEF ListInv, LoadedStored, IsCtrlLd, MgmtKept, Inv, FamilyOK
<1>4. PathOfUrl'
  BY DEF ListInv, PathOfUrl
<1>5. CtntKept /\ StoredBefore
  BY DEF CtntKept, StoredBefore, Parsed
<1> QED
  BY <1>1, <1>2, <1>3, <1>4, <1>5 DEF Leaves, ListInv

(* sc_res_info_add_origin, add_normal and add_ctrl_ld *)
LEMMA AddMgmtLeaves ==
    ASSUME ListInv, NEW gen \in MgmtGen, NEW u \in Url, NEW m \in MSlot, AddMgmt(gen, u, m)
    PROVE  /\ Leaves /\ StoredBefore
           /\ m \in UsedMgmt' \ UsedMgmt /\ mgmt'[m].gen = gen /\ mgmt'[m].site = MarkSite(u)
           /\ UsedCtnt' = UsedCtnt
<1> USE SlotFacts
<1>1. m \in MSlot \ UsedMgmt /\ UsedMgmt' = UsedMgmt \cup {m}
  BY PoolGetSound DEF AddMgmt, ListInv, Inv, TypeOK, FreeListsOK, UsedMgmt, MSlot
<1>2. mgmt \in [MSlot -> MgmtRec] /\ mgmt' = [mgmt EXCEPT ![m] = NewMgmt(gen, u)]
      /\ UNCHANGED <<ctnt, cpool>>
  BY DEF AddMgmt, ListInv, Inv, TypeOK
<1>3. mgmt'[m].gen = gen /\ mgmt'[m].site = MarkSite(u) /\ MgmtKept
  BY <1>1, <1>2 DEF NewMgmt, MgmtKept
<1>4. UsedCtnt' = UsedCtnt
  BY <1>2 DEF UsedCtnt
<1>5. Next
  BY DEF Next, NextAddMgmt
<1> QED
  BY <1>1, <1>2, <1>3, <1>4, <1>5, CtntsAlone

LEMMA AddMgmtErrorLeaves ==
    ASSUME ListInv, NEW u \in Url, AddMgmtError(u)
    PROVE  Leaves /\ StoredBefore
<1> USE SlotFacts
<1>1. CASE UNCHANGED rlvars
  BY <1>1, NoStep
<1>2. CASE ~UNCHANGED rlvars
  <2> DEFINE m == FreeHead(mpool, NMgmt)
  <2>0. mpool \in Pool(NMgmt) /\ PoolSound(mpool, NMgmt) /\ mgmt \in [MSlot -> MgmtRec]
    BY DEF ListInv, Inv, TypeOK, FreeListsOK
  <2>1. /\ ~RanOut(mpool, NMgmt) /\ mpool' = PoolPut(PoolGet(mpool, NMgmt), NMgmt, m)
        /\ mgmt' = [mgmt EXCEPT ![m] = ZeroMgmt] /\ UNCHANGED <<ctnt, cpool>>
    BY <1>2 DEF AddMgmtError
  <2>2. m \in MSlot \ UsedMgmt
    BY <2>0, <2>1, PoolGetSound DEF UsedMgmt, MSlot
  <2> HIDE DEF m
  <2>3. UsedMgmt' = UsedMgmt
    BY <2>0, <2>1, GetPutSound DEF UsedMgmt, m
  <2>4. MgmtKept /\ UsedCtnt' = UsedCtnt
    BY <2>0, <2>1, <2>2, <2>3 DEF MgmtKept, UsedCtnt
  <2>5. Next
    BY DEF Next, NextAddError
  <2> QED
    BY <2>1, <2>4, <2>5, CtntsAlone
<1> QED
  BY <1>1, <1>2

(* The errors of sc_res_info_add_ctnt *)
LEMMA AddCtntErrorLeaves ==
    ASSUME ListInv, NEW m \in UsedMgmt, NEW u \in Url, AddCtntError(m, u)
    PROVE  /\ Leaves /\ StoredBefore /\ UsedCtnt' = UsedCtnt
           /\ \A c \in UsedCtnt : ctnt'[c] = ctnt[c]
<1> USE SlotFacts
<1>1. CASE UNCHANGED rlvars
  BY <1>1, NoStep DEF rlvars, UsedCtnt
<1>2. CASE ~UNCHANGED rlvars
  <2> DEFINE d == FreeHead(cpool, NCtnt)
  <2>0. cpool \in Pool(NCtnt) /\ PoolSound(cpool, NCtnt) /\ ctnt \in [CSlot -> CtntRec]
    BY DEF ListInv, Inv, TypeOK, FreeListsOK
  <2>1. /\ ~RanOut(cpool, NCtnt) /\ cpool' = PoolPut(PoolGet(cpool, NCtnt), NCtnt, d)
        /\ ctnt' = [ctnt EXCEPT ![d] = ZeroCtnt] /\ UNCHANGED <<mgmt, mpool>>
    BY <1>2 DEF AddCtntError
  <2>2. d \in CSlot \ UsedCtnt
    BY <2>0, <2>1, PoolGetSound DEF UsedCtnt, CSlot
  <2> HIDE DEF d
  <2>3. UsedCtnt' = UsedCtnt
    BY <2>0, <2>1, GetPutSound DEF UsedCtnt, d
  <2>4. MgmtKept
    BY <2>1 DEF MgmtKept, UsedMgmt
  <2>5. Next
    BY DEF Next, NextAddError
  <2>6. \A c \in CSlot : ctnt'[c] = IF c = d THEN ZeroCtnt ELSE ctnt[c]
    BY <2>0, <2>1
  <2> QED
    BY <2>2, <2>3, <2>4, <2>5, <2>6, CtntsAlone
<1> QED
  BY <1>1, <1>2

(* sc_res_info_add_ctnt *)
LEMMA AddCtntLeaves ==
    ASSUME ListInv, NEW m \in UsedMgmt, NEW u \in Url, NEW c \in CSlot, AddCtnt(m, u, c)
    PROVE  /\ Leaves
           /\ c \in UsedCtnt' \ UsedCtnt /\ UsedCtnt' = UsedCtnt \cup {c}
           /\ ctnt' = [ctnt EXCEPT ![c] = NewCtnt(m, u)] /\ ctnt'[c].parent = m
           /\ ctnt'[c].localpath = LocalPathOf[<<mgmt[m].site, u>>]
           /\ ~IsCtrlLd(m) => Parsed(c)' /\ StoredBefore
<1> USE SlotFacts
<1>0. /\ cpool \in Pool(NCtnt) /\ PoolSound(cpool, NCtnt) /\ ctnt \in [CSlot -> CtntRec]
      /\ mgmt \in [MSlot -> MgmtRec] /\ mgmt[m] \in MgmtRec /\ mgmt[m].site \in Site
  BY DEF ListInv, Inv, TypeOK, FreeListsOK, MgmtRec
<1>1. c \in CSlot \ UsedCtnt /\ UsedCtnt' = UsedCtnt \cup {c}
  BY <1>0, PoolGetSound DEF AddCtnt, UsedCtnt, CSlot
<1>2. ctnt' = [ctnt EXCEPT ![c] = NewCtnt(m, u)] /\ UNCHANGED mpool
  BY DEF AddCtnt
<1>3. UsedMgmt' = UsedMgmt /\ MgmtKept
  <2>1. mgmt' = [mgmt EXCEPT ![m].child = c, ![m].child_cnt = @ + 1]
    BY DEF AddCtnt
  <2> DEFINE r == [mgmt[m] EXCEPT !.child = c, !.child_cnt = @ + 1]
  <2>2. r.gen = mgmt[m].gen /\ r.site = mgmt[m].site
    BY <1>0 DEF MgmtRec
  <2>3. mgmt' = [mgmt EXCEPT ![m] = r]
    BY <1>0, <2>1
  <2> HIDE DEF r
  <2>4. \A x \in MSlot : mgmt'[x].gen = mgmt[x].gen /\ mgmt'[x].site = mgmt[x].site
    BY <1>0, <2>2, <2>3
  <2> QED
    BY <1>2, <2>4 DEF MgmtKept, UsedMgmt
<1>4. LocalPathOf[<<mgmt[m].site, u>>] \in Path
  BY <1>0, UrlAssumption DEF AddCtnt
<1>5. /\ ctnt'[c].url = u /\ ctnt'[c].parent = m
      /\ ctnt'[c].localpath = LocalPathOf[<<mgmt[m].site, u>>]
      /\ ctnt'[c].flag = IF IsCtrlLd(m) THEN {"STORED"} ELSE {}
      /\ \A x \in CSlot : x # c => ctnt'[x] = ctnt[x]
  BY <1>0, <1>1, <1>2 DEF NewCtnt
<1>6. Next
  BY DEF Next, NextAddCtnt
<1>7. Inv'
  BY <1>6, NextInv DEF ListInv
<1>8. FreeBlank'
  BY <1>1, <1>5 DEF ListInv, FreeBlank
<1>9. IsCtrlLd(m)' = IsCtrlLd(m) /\ \A x \in UsedMgmt : IsCtrlLd(x)' <=> IsCtrlLd(x)
  BY <1>3 DEF MgmtKept, IsCtrlLd
<1>10. LoadedStored'
  BY <1>1, <1>5, <1>9 DEF ListInv, LoadedStored, IsCtrlLd, Inv, FamilyOK
<1>11. PathOfUrl'
  BY <1>0, <1>1, <1>4, <1>5 DEF ListInv, PathOfUrl
<1>12. CtntKept
  BY <1>1, <1>5 DEF CtntKept, Parsed
<1>13. ~IsCtrlLd(m) => Parsed(c)' /\ StoredBefore
  BY <1>1, <1>5, <1>9 DEF Parsed, IsCtrlLd, StoredBefore
<1> QED
  BY <1>1, <1>2, <1>3, <1>5, <1>6, <1>7, <1>8, <1>10, <1>11, <1>12, <1>13 DEF Leaves, ListInv

(* A flag set or cleared, through a pointer that may be stale. *)
LEMMA FlagLeaves ==
    ASSUME ListInv, NEW c \in CSlot, NEW f \in Flag,
           SetFlag(c, f) \/ (UnsetFlag(c, f) /\ f # "STORED")
    PROVE  /\ Leaves /\ OnlyFlags
           /\ f # "STORED" => StoredBefore
           /\ \A x \in CSlot : x # c => ctnt'[x].flag = ctnt[x].flag
<1> USE SlotFacts
<1>0. ctnt \in [CSlot -> CtntRec] /\ ctnt[c] \in CtntRec
  BY DEF ListInv, Inv, TypeOK
<1>1. PICK g : /\ g \in {ctnt[c].flag \cup {f}, ctnt[c].flag \ {f}}
               /\ ctnt' = [ctnt EXCEPT ![c].flag = g]
               /\ "STORED" \in ctnt[c].flag => "STORED" \in g
  <2>1. CASE SetFlag(c, f)
    BY <2>1 DEF SetFlag
  <2>2. CASE UnsetFlag(c, f) /\ f # "STORED"
    BY <2>2 DEF UnsetFlag
  <2> QED
    BY <2>1, <2>2
<1>2. UNCHANGED <<mgmt, mpool, cpool>>
  BY DEF SetFlag, UnsetFlag
<1>3. UsedMgmt' = UsedMgmt /\ UsedCtnt' = UsedCtnt
  BY <1>2 DEF UsedMgmt, UsedCtnt
<1>4. f # "STORED" => ("STORED" \in g => "STORED" \in ctnt[c].flag)
  BY <1>1
<1>5. \A x \in CSlot : /\ ctnt'[x].url = ctnt[x].url /\ ctnt'[x].localpath = ctnt[x].localpath
                       /\ ctnt'[x].parent = ctnt[x].parent
                       /\ ctnt'[x].flag = IF x = c THEN g ELSE ctnt[x].flag
  BY <1>0, <1>1 DEF CtntRec
<1>6. Next
  BY DEF Next, NextFlag
<1>7. Inv'
  BY <1>6, NextInv DEF ListInv
<1>8. FreeBlank' /\ PathOfUrl'
  BY <1>3, <1>5 DEF ListInv, FreeBlank, PathOfUrl
<1>9. LoadedStored'
  BY <1>1, <1>2, <1>3, <1>5 DEF ListInv, LoadedStored, IsCtrlLd
<1>10. MgmtKept /\ CtntKept
  BY <1>2, <1>3, <1>5 DEF MgmtKept, CtntKept, Parsed
<1>11. f # "STORED" => StoredBefore
  BY <1>3, <1>4, <1>5 DEF StoredBefore
<1> QED
  BY <1>3, <1>5, <1>6, <1>7, <1>8, <1>9, <1>10, <1>11 DEF Leaves, ListInv, OnlyFlags

(* What the loop of sc_res_info_handle_cached finds is on the list. *)
LEMMA LoopStays ==
    ASSUME ListInv, NEW m \in UsedMgmt, NEW c, NEW ld \in CSlot, NEW pre \in CSlot \cup {NULL},
           LoopFinds(m, c, pre, ld)
    PROVE  Consecutive(m, pre, ld)
<1> USE SlotFacts
<1>1. PICK n \in 1 .. NCtnt : \E w \in [1 .. n -> CSlot] :
          /\ w[1] = mgmt[m].child
          /\ \A j \in 2 .. n : w[j] = ctnt[w[j - 1]].siblings
          /\ \A j \in 1 .. n : VidHit(w[j], c) <=> j = n
          /\ ld = w[n] /\ pre = IF n = 1 THEN NULL ELSE w[n - 1]
  BY DEF LoopFinds
<1>2. PICK w \in [1 .. n -> CSlot] :
          /\ w[1] = mgmt[m].child
          /\ \A j \in 2 .. n : w[j] = ctnt[w[j - 1]].siblings
          /\ ld = w[n] /\ pre = IF n = 1 THEN NULL ELSE w[n - 1]
  BY <1>1
<1>3. n \in Nat /\ n >= 1 /\ \A j \in 2 .. n : j - 1 \in 1 .. n
  OBVIOUS
<1>4. \A j \in 1 .. n : w[j] \in CSlot /\ w[j] # NULL
  OBVIOUS
<1>5. \A j \in 2 .. n : w[j] = Siblings[w[j - 1]]
  BY <1>2, <1>3, <1>4 DEF Siblings
<1>6. ListSound(mgmt[m].child_cnt, mgmt[m].child, Siblings, Children(m))
  BY DEF ListInv, Inv, FamilyOK
<1>7. mgmt[m].child_cnt \in Nat /\ Children(m) \in SUBSET Nat
  <2>1. m \in MSlot /\ mgmt \in [MSlot -> MgmtRec]
    BY DEF ListInv, Inv, TypeOK
  <2>2. mgmt[m] \in MgmtRec
    BY <2>1
  <2>3. mgmt[m].child_cnt \in 0 .. NCtnt
    BY <2>2 DEF MgmtRec
  <2>4. \A x \in Children(m) : x \in Nat
    BY DEF Children
  <2> HIDE SlotFacts
  <2> QED
    BY <2>3, <2>4, SizeAssumption
<1>8. \A j \in 1 .. n : w[j] \in Children(m)
  <2>1. PICK S : S = Children(m)
    OBVIOUS
  <2>2. PICK k, h, next : k = mgmt[m].child_cnt /\ h = mgmt[m].child /\ next = Siblings
    OBVIOUS
  <2>3. S \in SUBSET Nat /\ k \in Nat /\ ListSound(k, h, next, S)
    BY <1>6, <1>7, <2>1, <2>2
  <2>4. Walks(n, w, h, next)
    BY <1>2, <1>4, <1>5, <2>2 DEF Walks
  <2>5. \A j \in 1 .. n : w[j] \in S
    BY <1>3, <2>3, <2>4, ListWalk
  <2> QED
    BY <2>1, <2>5
<1>9. CASE n = 1
  BY <1>2, <1>9 DEF Consecutive
<1>10. CASE n # 1
  <2>1. n \in 2 .. n /\ n - 1 \in 1 .. n
    BY <1>3, <1>10
  <2> QED
    BY <1>2, <1>8, <1>10, <2>1 DEF Consecutive
<1> QED
  BY <1>9, <1>10

(* sc_res_info_handle_cached, for a content of an origin or a normal *)
LEMMA CachedLeaves ==
    ASSUME ListInv, NEW m \in UsedMgmt, NEW parsed \in UsedCtnt,
           NEW pre \in CSlot \cup {NULL}, NEW ld \in CSlot,
           IsCtrlLd(m), Parsed(parsed), Consecutive(m, pre, ld),
           HandleCached(parsed, pre, ld)
    PROVE  Leaves /\ StoredBefore
<1> USE SlotFacts
<1>0. /\ mgmt \in [MSlot -> MgmtRec] /\ ctnt \in [CSlot -> CtntRec]
      /\ cpool \in Pool(NCtnt) /\ PoolSound(cpool, NCtnt)
      /\ m \in MSlot /\ mgmt[m] \in MgmtRec
      /\ parsed \in CSlot /\ ctnt[ld] \in CtntRec /\ ctnt[parsed] \in CtntRec
  BY DEF ListInv, Inv, TypeOK, FreeListsOK
<1>1. ld \in Children(m) /\ CanRemoveLoaded(pre, ld)
  BY FoundIsRemovable DEF ListInv
<1>2. RemoveLoaded(parsed, pre, ld)
  BY <1>1 DEF HandleCached
<1>3. ld \in UsedCtnt /\ parsed # ld /\ ctnt[ld].parent = m /\ "STORED" \in ctnt[ld].flag
  BY <1>1 DEF Children, Parsed, ListInv, LoadedStored
<1>4. UsedCtnt' = UsedCtnt \ {ld}
  BY <1>0, <1>2, <1>3, PoolPutSound DEF RemoveLoaded, UsedCtnt
<1>5. UsedMgmt' = UsedMgmt /\ MgmtKept
  <2>1. /\ mgmt' = [mgmt EXCEPT ![m].child_cnt = @ - 1,
                                ![m].child = IF pre = NULL THEN ctnt[ld].siblings ELSE @]
        /\ mpool' = mpool
    BY <1>2, <1>3 DEF RemoveLoaded
  <2> DEFINE r == [mgmt[m] EXCEPT !.child_cnt = @ - 1,
                                  !.child = IF pre = NULL THEN ctnt[ld].siblings ELSE @]
  <2>2. r.gen = mgmt[m].gen /\ r.site = mgmt[m].site
    BY <1>0 DEF MgmtRec
  <2>3. mgmt' = [mgmt EXCEPT ![m] = r]
    BY <1>0, <2>1
  <2> HIDE DEF r
  <2>4. \A x \in MSlot : mgmt'[x].gen = mgmt[x].gen /\ mgmt'[x].site = mgmt[x].site
    BY <1>0, <2>2, <2>3
  <2> QED
    BY <2>1, <2>4 DEF MgmtKept, UsedMgmt
<1>6. /\ DupCtnt(ld, parsed).parent = ctnt[parsed].parent
      /\ DupCtnt(ld, parsed).url = ctnt[ld].url
      /\ DupCtnt(ld, parsed).localpath = ctnt[ld].localpath
  BY <1>0 DEF DupCtnt, CtntRec
<1>7. /\ ctnt'[ld] = ZeroCtnt /\ ctnt'[parsed] = DupCtnt(ld, parsed)
      /\ \A x \in CSlot \ {ld, parsed} :
            /\ ctnt'[x].parent = ctnt[x].parent /\ ctnt'[x].url = ctnt[x].url
            /\ ctnt'[x].localpath = ctnt[x].localpath /\ ctnt'[x].flag = ctnt[x].flag
  <2> DEFINE un == IF pre = NULL THEN ctnt
                   ELSE [ctnt EXCEPT ![pre].siblings = ctnt[ld].siblings]
  <2>1. /\ DOMAIN un = CSlot
        /\ \A x \in CSlot : /\ un[x].parent = ctnt[x].parent /\ un[x].url = ctnt[x].url
                            /\ un[x].localpath = ctnt[x].localpath /\ un[x].flag = ctnt[x].flag
    <3>1. CASE pre = NULL
      BY <1>0, <3>1
    <3>2. CASE pre # NULL
      BY <1>0, <3>2 DEF CtntRec
    <3> QED
      BY <3>1, <3>2
  <2>2. ctnt' = [un EXCEPT ![parsed] = DupCtnt(ld, parsed), ![ld] = ZeroCtnt]
    BY <1>2 DEF RemoveLoaded
  <2> HIDE DEF un
  <2> QED
    BY <1>0, <1>3, <2>1, <2>2
<1>8. Next
  BY DEF Next, NextHandleCached
<1>9. Inv'
  BY <1>8, NextInv DEF ListInv
<1>10. FreeBlank'
  BY <1>4, <1>7 DEF ListInv, FreeBlank, ZeroCtnt
<1>11. \A x \in UsedMgmt : IsCtrlLd(x)' <=> IsCtrlLd(x)
  BY <1>5 DEF MgmtKept, IsCtrlLd
<1>12. \A x \in UsedCtnt : ctnt[x].parent \in UsedMgmt
  BY DEF ListInv, Inv, FamilyOK
<1>13. \A x \in UsedCtnt' : x \in CSlot \ {ld} /\ ctnt'[x].parent = ctnt[x].parent
  BY <1>4, <1>6, <1>7
<1>14. LoadedStored'
  <2> SUFFICES ASSUME NEW x \in UsedCtnt', IsCtrlLd(ctnt[x].parent)'
               PROVE  "STORED" \in ctnt'[x].flag
    BY DEF LoadedStored
  <2>1. x \in UsedCtnt /\ IsCtrlLd(ctnt[x].parent)
    BY <1>4, <1>11, <1>12, <1>13 DEF IsCtrlLd
  <2>2. x # parsed /\ x # ld
    BY <1>4, <2>1 DEF Parsed
  <2> QED
    BY <1>7, <2>1, <2>2 DEF ListInv, LoadedStored
<1>15. PathOfUrl'
  <2>1. \A x \in UsedCtnt' : \E y \in UsedCtnt : /\ ctnt'[x].url = ctnt[y].url
                                                 /\ ctnt'[x].localpath = ctnt[y].localpath
    BY <1>3, <1>4, <1>6, <1>7
  <2> QED
    BY <2>1 DEF ListInv, PathOfUrl
<1>16. CtntKept
  BY <1>3, <1>4, <1>13 DEF CtntKept, Parsed
<1>17. StoredBefore
  BY <1>3, <1>4, <1>6, <1>7 DEF StoredBefore
<1> QED
  BY <1>5, <1>8, <1>9, <1>10, <1>14, <1>15, <1>16, <1>17 DEF Leaves, ListInv

(* sc_yk_handle_cached and sc_sohu_handle_cached: a loaded is found. *)
LEMMA FoundLeaves ==
    ASSUME ListInv, NEW s \in Site, NEW c \in CSlot, Parsed(c),
           ctrl[s] # NULL => ctrl[s] \in UsedMgmt /\ IsCtrlLd(ctrl[s]),
           CachedFound(s, c)
    PROVE  Leaves /\ StoredBefore
<1>1. PICK m : m = ctrl[s]
  OBVIOUS
<1>2. m \in UsedMgmt /\ IsCtrlLd(m) /\ c \in UsedCtnt
  BY <1>1 DEF CachedFound, Parsed
<1>3. PICK ld \in CSlot, pre \in CSlot \cup {NULL} :
         LoopFinds(m, c, pre, ld) /\ HandleCached(c, pre, ld)
  BY <1>1 DEF CachedFound
<1>4. Consecutive(m, pre, ld)
  BY <1>2, <1>3, LoopStays
<1> QED
  BY <1>2, <1>3, <1>4, CachedLeaves

LEMMA MinOf ==
    ASSUME NEW T \in SUBSET Nat, T # {}
    PROVE  Min(T) \in T /\ \A y \in T : Min(T) <= y
  BY LeastNat DEF Min

(* Nginx marks a content whose local path begins with p, and no free slot. *)
LEMMA MarkLeaves ==
    ASSUME ListInv, NEW p \in Path, NEW f \in Flag, NgxMark(p, f)
    PROVE  /\ Leaves /\ OnlyFlags
           /\ \A c \in UsedCtnt' : "STORED" \in ctnt'[c].flag =>
                 \/ \E d \in UsedCtnt : /\ "STORED" \in ctnt[d].flag
                                        /\ ctnt'[c].localpath = ctnt[d].localpath
                 \/ f = "STORED" /\ <<p, ctnt'[c].localpath>> \in PathPrefix
<1> USE SlotFacts
<1>1. CASE UNCHANGED rlvars
  BY <1>1, NoStep DEF StoredBefore, rlvars, UsedCtnt, OnlyFlags
<1>2. CASE ~UNCHANGED rlvars
  <2>1. NgxMatch(p) # {} /\ SetFlag(Min(NgxMatch(p)), f)
    BY <1>2 DEF NgxMark
  <2>2. PICK hits : hits = {c \in CSlot : <<p, ctnt[c].localpath>> \in PathPrefix}
    OBVIOUS
  <2>3. hits # {} /\ hits \in SUBSET Nat /\ NgxMatch(p) = {Min(hits)}
    BY <2>1, <2>2 DEF NgxMatch
  <2>4. Min(hits) \in hits
    BY <2>3, MinOf
  <2>5. PICK c : c = Min(hits)
    OBVIOUS
  <2>6. c \in CSlot /\ <<p, ctnt[c].localpath>> \in PathPrefix
    BY <2>2, <2>4, <2>5
  <2>7. Min({c}) = c
    <3>1. {c} \in SUBSET Nat /\ {c} # {}
      BY <2>6
    <3>2. Min({c}) \in {c}
      BY <3>1, MinOf
    <3> QED
      BY <3>2
  <2>8. SetFlag(c, f)
    BY <2>1, <2>3, <2>5, <2>7
  <2>9. /\ Leaves /\ OnlyFlags /\ (f # "STORED" => StoredBefore)
        /\ \A x \in CSlot : x # c => ctnt'[x].flag = ctnt[x].flag
    BY <2>6, <2>8, FlagLeaves
  <2> QED
    BY <2>6, <2>9 DEF StoredBefore, OnlyFlags
<1> QED
  BY <1>1, <1>2
-----------------------------------------------------------------------------
(* THE INVARIANT OF THE THREADS *)

(* The main thread works on a mgmt of its own; the controllers are set     *)
(* when the walk over the directory begins.                                *)
MainOK ==
    /\ main.pc \in {"site", "seg", "down", "dl"} =>
          main.m \in UsedMgmt /\ ~IsCtrlLd(main.m) /\ main.req \in Url
    /\ main.pc = "site" => main.req \in OriginUrl
    /\ main.pc # "boot" => \A s \in Site : ctrl[s] # NULL

(* The resource-list thread is at a slot, which may be free by now, or     *)
(* hold another content than the one it came for.                          *)
ProcOK ==
    /\ proc.pc \in {"dl", "add", "added", "refused"} => proc.c \in CSlot
    /\ proc.pc \in {"walk", "dl", "add", "added", "refused"} => proc.i \in MSlot
    /\ proc.pc = "add" => proc.u \in Url

(* A download is only ever asked for a content of an origin or a normal,   *)
(* and such a pointer does not become stale.                               *)
PcOf(t) == IF t = "main" THEN main.pc ELSE proc.pc
CallOK ==
    \A t \in Thread : call[t].st # "none" =>
        PcOf(t) = "dl" /\ CallCtnt(t) \in CSlot /\ Parsed(CallCtnt(t))

CtrlOK ==
    \A s \in Site : ctrl[s] # NULL =>
        ctrl[s] \in UsedMgmt /\ IsCtrlLd(ctrl[s]) /\ mgmt[ctrl[s]].site = s

(* The resource-list thread is started when the load is over. *)
Booting == {"boot", "load", "hung"}
BootOK == main.pc \in Booting => proc.pc = "off"

HInv == ListInv /\ HCTypeOK /\ MainOK /\ ProcOK /\ CallOK /\ CtrlOK /\ BootOK

(* What the calls of a step leave is still right for the other thread, and *)
(* for this one if it stays where it is.                                   *)
LEMMA ListStays ==
    ASSUME HInv, Leaves
    PROVE  /\ TypeOK'
           /\ \A m \in UsedMgmt : m \in UsedMgmt' /\ (IsCtrlLd(m)' <=> IsCtrlLd(m))
           /\ \A c \in CSlot : Parsed(c) => Parsed(c)'
           /\ UNCHANGED ctrl => CtrlOK'
           /\ UNCHANGED <<main, ctrl>> => MainOK'
           /\ UNCHANGED proc => ProcOK'
<1> USE SlotFacts
<1>1. TypeOK'
  BY DEF Leaves, ListInv, Inv
<1>2. \A m \in UsedMgmt : m \in UsedMgmt' /\ (IsCtrlLd(m)' <=> IsCtrlLd(m))
                          /\ mgmt'[m].site = mgmt[m].site
  BY DEF Leaves, MgmtKept, IsCtrlLd
<1>3. \A c \in UsedCtnt : ctnt[c].parent \in UsedMgmt
  BY DEF HInv, ListInv, Inv, FamilyOK
<1>4. \A c \in CSlot : Parsed(c) => Parsed(c)'
  BY <1>2, <1>3 DEF Leaves, CtntKept, Parsed, IsCtrlLd
<1>5. UNCHANGED ctrl => CtrlOK'
  BY <1>2 DEF HInv, CtrlOK, IsCtrlLd
<1>6. UNCHANGED <<main, ctrl>> => MainOK'
  BY <1>2 DEF HInv, MainOK, IsCtrlLd
<1>7. UNCHANGED proc => ProcOK'
  BY DEF HInv, ProcOK
<1> QED
  BY <1>1, <1>2, <1>4, <1>5, <1>6, <1>7

LEMMA FaultType == ASSUME HCTypeOK, Fault \/ UNCHANGED faults
                   PROVE  faults' \in 0 .. MaxFaults
  BY SourceAssumption DEF Fault, HCTypeOK

(* A thread goes on within its call, which may have changed the list. *)
LEMMA CallGoesOn ==
    ASSUME HInv, Leaves, NEW t \in Thread, NEW r \in CallRec, call[t].st # "none",
           call' = [call EXCEPT ![t] = r], Fault \/ UNCHANGED faults,
           ngx' \in [Path -> 0 .. MaxInflight],
           UNCHANGED <<main, proc, ctrl, reply, snoop, disk, restarts>>
    PROVE  HInv'
<1>1. MainOK' /\ ProcOK' /\ CtrlOK'
  BY ListStays
<1>2. call \in [Thread -> CallRec]
  BY DEF HInv, HCTypeOK
<1>3. call' \in [Thread -> CallRec] /\ \A x \in Thread : call'[x].st # "none" => call[x].st # "none"
  BY <1>2
<1>4. \A x \in Thread : PcOf(x)' = PcOf(x) /\ CallCtnt(x)' = CallCtnt(x)
  BY DEF PcOf, CallCtnt
<1>5. CallOK'
  <2> SUFFICES ASSUME NEW x \in Thread, call'[x].st # "none"
               PROVE  PcOf(x)' = "dl" /\ CallCtnt(x)' \in CSlot /\ Parsed(CallCtnt(x))'
    BY DEF CallOK
  <2>1. PICK c : c = CallCtnt(x)
    OBVIOUS
  <2>2. PcOf(x) = "dl" /\ c \in CSlot /\ Parsed(c)
    BY <1>3, <2>1 DEF HInv, CallOK
  <2>3. Parsed(c)'
    BY <2>2, ListStays
  <2> QED
    BY <1>4, <2>1, <2>2, <2>3 DEF Parsed, IsCtrlLd
<1>6. faults' \in 0 .. MaxFaults
  BY FaultType DEF HInv
<1>7. HCTypeOK'
  BY <1>3, <1>6, ListStays DEF HInv, HCTypeOK
<1> QED
  BY <1>1, <1>5, <1>7 DEF HInv, Leaves, BootOK

-----------------------------------------------------------------------------
(* THE STEPS *)

(* A step that keeps the invariant, and after which nothing is stored that *)
(* was not stored before.                                                  *)
Quiet == HInv' /\ Leaves /\ StoredBefore

(* The content of the call a thread is in. *)
LEMMA CallFacts ==
    ASSUME HInv, NEW t \in Thread, call[t].st # "none"
    PROVE  /\ call[t] \in CallRec /\ CallCtnt(t) \in CSlot /\ Parsed(CallCtnt(t))
           /\ \A st \in {"ngx", "back", "done"}, ret \in {"ok", "exists", "err"} :
                 /\ [call[t] EXCEPT !.st = st] \in CallRec
                 /\ [call[t] EXCEPT !.st = st, !.ret = ret] \in CallRec
<1>1. call[t] \in CallRec
  BY DEF HInv, HCTypeOK
<1> QED
  BY <1>1 DEF HInv, CallOK, CallRec

LEMMA SohuSessionStep ==
    ASSUME HInv, NEW t \in Thread, SohuSession(t)
    PROVE  Quiet
<1>1. call[t].st # "none" /\ call \in [Thread -> CallRec]
  BY DEF SohuSession, HInv, HCTypeOK
<1>2. PICK c : c = CallCtnt(t)
  OBVIOUS
<1>3. c \in CSlot /\ Parsed(c)
  BY <1>1, <1>2, CallFacts
<1>4. PICK r : /\ r \in CallRec /\ call' = [call EXCEPT ![t] = r]
               /\ Fault \/ UNCHANGED faults
               /\ UNCHANGED rlvars \/ CachedFound("sohu", c)
  <2>1. /\ [call[t] EXCEPT !.st = "ngx"] \in CallRec
        /\ [call[t] EXCEPT !.st = "done", !.ret = "err"] \in CallRec
        /\ [call[t] EXCEPT !.st = "done", !.ret = "ok"] \in CallRec
    BY <1>1, CallFacts
  <2> QED
    BY <1>1, <1>2, <2>1 DEF SohuSession, EndCall
<1>5. Leaves /\ StoredBefore
  <2>1. CASE UNCHANGED rlvars
    BY <2>1, NoStep DEF HInv
  <2>2. CASE CachedFound("sohu", c)
    BY <1>3, <2>2, FoundLeaves DEF HInv, CtrlOK, Site
  <2> QED
    BY <1>4, <2>1, <2>2
<1>6. UNCHANGED <<main, proc, ctrl, reply, ngx, snoop, disk, restarts>>
  BY DEF SohuSession, envvars
<1>7. ngx' \in [Path -> 0 .. MaxInflight]
  BY <1>6 DEF HInv, HCTypeOK
<1> QED
  BY <1>1, <1>4, <1>5, <1>6, <1>7, CallGoesOn DEF Quiet

LEMMA NgxRequestStep ==
    ASSUME HInv, NEW t \in Thread, NgxRequest(t)
    PROVE  /\ Quiet
           /\ \A p \in Path : ngx'[p] > 0 =>
                 ngx[p] > 0 \/ \E c \in UsedCtnt : ctnt[c].localpath = p
<1>1. call[t].st # "none" /\ call \in [Thread -> CallRec] /\ ngx \in [Path -> 0 .. MaxInflight]
  BY DEF NgxRequest, HInv, HCTypeOK
<1>2. PICK c : c = CallCtnt(t)
  OBVIOUS
<1>3. c \in UsedCtnt /\ ctnt[c].localpath \in Path
  BY <1>1, <1>2, CallFacts DEF Parsed, HInv, ListInv, PathOfUrl
<1>4. PICK r : /\ r \in CallRec /\ call' = [call EXCEPT ![t] = r]
               /\ Fault \/ UNCHANGED faults
  <2>1. \A ret \in {"ok", "exists", "err"} : [call[t] EXCEPT !.st = "back", !.ret = ret] \in CallRec
    BY <1>1, CallFacts
  <2> QED
    BY <1>1, <2>1 DEF NgxRequest
<1>5. \/ UNCHANGED ngx
      \/ /\ ngx[ctnt[c].localpath] < MaxInflight
         /\ ngx' = [ngx EXCEPT ![ctnt[c].localpath] = @ + 1]
  BY <1>2 DEF NgxRequest
<1>6. /\ ngx' \in [Path -> 0 .. MaxInflight]
      /\ \A p \in Path : p # ctnt[c].localpath => ngx'[p] = ngx[p]
  <2>1. CASE UNCHANGED ngx
    BY <1>1, <2>1
  <2>2. CASE ~UNCHANGED ngx
    <3>1. PICK p \in Path : p = ctnt[c].localpath
      BY <1>3
    <3>2. ngx[p] + 1 \in 0 .. MaxInflight /\ ngx' = [ngx EXCEPT ![p] = ngx[p] + 1]
      BY <1>1, <1>5, <2>2, <3>1, SourceAssumption
    <3> QED
      BY <1>1, <3>1, <3>2
  <2> QED
    BY <2>1, <2>2
<1>7. Leaves /\ StoredBefore
  <2>1. PICK p \in Path : p = ctnt[c].localpath
    BY <1>3
  <2>2. NgxMark(p, "D_FAIL") \/ UNCHANGED rlvars
    BY <1>2, <2>1 DEF NgxRequest
  <2> QED
    BY <2>1, <2>2, NoStep, MarkLeaves DEF HInv, Flag, StoredBefore, rlvars, UsedCtnt
<1>8. UNCHANGED <<main, proc, ctrl, reply, snoop, disk, restarts>>
  BY DEF NgxRequest
<1>9. Quiet
  BY <1>1, <1>4, <1>6, <1>7, <1>8, CallGoesOn DEF Quiet
<1> QED
  BY <1>3, <1>6, <1>9

LEMMA CallReturnStep ==
    ASSUME HInv, NEW t \in Thread, CallReturn(t)
    PROVE  Quiet
<1>1. call[t].st # "none" /\ call \in [Thread -> CallRec]
  BY DEF CallReturn, HInv, HCTypeOK
<1>2. PICK c : c = CallCtnt(t)
  OBVIOUS
<1>3. c \in CSlot /\ Parsed(c)
  BY <1>1, <1>2, CallFacts
<1>4. PICK r : r \in CallRec /\ call' = [call EXCEPT ![t] = r]
  <2>1. /\ [call[t] EXCEPT !.st = "done", !.ret = "err"] \in CallRec
        /\ [call[t] EXCEPT !.st = "done", !.ret = "ok"] \in CallRec
    BY <1>1, CallFacts
  <2> QED
    BY <1>1, <2>1 DEF CallReturn, EndCall
<1>5. Leaves /\ StoredBefore
  <2>1. CASE UNCHANGED rlvars
    BY <2>1, NoStep DEF HInv
  <2>2. CASE CachedFound("youku", c)
    BY <1>3, <2>2, FoundLeaves DEF HInv, CtrlOK, Site
  <2>3. CASE SetFlag(c, "I_FAIL")
    BY <1>3, <2>3, FlagLeaves DEF HInv, Flag
  <2> QED
    BY <1>2, <2>1, <2>2, <2>3 DEF CallReturn
<1>6. UNCHANGED <<main, proc, ctrl, reply, ngx, snoop, disk, faults, restarts>>
  BY DEF CallReturn, envvars
<1>7. ngx' \in [Path -> 0 .. MaxInflight]
  BY <1>6 DEF HInv, HCTypeOK
<1> QED
  BY <1>1, <1>4, <1>5, <1>6, <1>7, CallGoesOn DEF Quiet

(* A step of the main thread leaves the other thread's business alone. *)
LEMMA MainMoves ==
    ASSUME HInv, Leaves, UNCHANGED <<proc, ctrl, ngx, restarts>>,
           main' \in MainRec, MainOK', call' \in [Thread -> CallRec],
           main'.pc \in Booting => main.pc \in Booting,
           call'["proc"] = call["proc"],
           call'["main"].st # "none" => main'.pc = "dl" /\ main'.c \in CSlot /\ Parsed(main.c)',
           reply' \in [Request -> {"none", "ok", "error"}], Fault \/ UNCHANGED faults,
           snoop' \subseteq Url, disk' \subseteq Path
    PROVE  HInv'
<1>1. ProcOK' /\ CtrlOK'
  BY ListStays
<1>2. CallOK'
  <2> SUFFICES ASSUME NEW x \in Thread, call'[x].st # "none"
               PROVE  PcOf(x)' = "dl" /\ CallCtnt(x)' \in CSlot /\ Parsed(CallCtnt(x))'
    BY DEF CallOK
  <2>1. CASE x = "main"
    BY <2>1 DEF PcOf, CallCtnt, Parsed, IsCtrlLd
  <2>2. CASE x = "proc"
    <3>1. PICK c : c = proc.c
      OBVIOUS
    <3>2. proc.pc = "dl" /\ c \in CSlot /\ Parsed(c)
      BY <2>2, <3>1 DEF HInv, CallOK, PcOf, CallCtnt, Thread
    <3>3. Parsed(c)'
      BY <3>2, ListStays
    <3> QED
      BY <2>2, <3>1, <3>2, <3>3 DEF PcOf, CallCtnt, Parsed, IsCtrlLd
  <2> QED
    BY <2>1, <2>2 DEF Thread
<1>3. faults' \in 0 .. MaxFaults
  BY FaultType DEF HInv
<1>4. HCTypeOK'
  BY <1>3, ListStays DEF HInv, HCTypeOK
<1> QED
  BY <1>1, <1>2, <1>4 DEF HInv, Leaves, BootOK

(* The main thread answers and waits for the next request. *)
LEMMA AnswerMoves ==
    ASSUME HInv, Leaves, main.pc # "boot", NEW u, NEW status \in {"ok", "error"}, Answer(u, status),
           call' \in [Thread -> CallRec], call'["proc"] = call["proc"], call'["main"].st = "none",
           Fault \/ UNCHANGED faults, UNCHANGED <<proc, ctrl, snoop, disk, ngx, restarts>>
    PROVE  HInv'
<1>1. main' = [MainStart EXCEPT !.pc = "idle"] /\ reply' = [reply EXCEPT ![u] = status]
  BY DEF Answer
<1>2. main' \in MainRec /\ main'.pc = "idle"
  <2>1. <<>> \in Seq(Url) /\ {} \in SUBSET Path
    OBVIOUS
  <2>2. main' = [pc |-> "idle", todo |-> {}, req |-> NoUrl, m |-> NULL, segs |-> <<>>, c |-> NULL]
    BY <1>1 DEF MainStart
  <2> QED
    BY <2>1, <2>2 DEF MainRec
<1>3. MainOK'
  BY <1>2 DEF MainOK, HInv
<1>4. reply' \in [Request -> {"none", "ok", "error"}]
  BY <1>1 DEF HInv, HCTypeOK
<1>5. snoop' \subseteq Url /\ disk' \subseteq Path
  BY DEF HInv, HCTypeOK
<1> QED
  BY <1>2, <1>3, <1>4, <1>5, MainMoves DEF Booting

(* Outside a download the main thread is in no call. *)
LEMMA NoMainCall ==
    ASSUME HInv, main.pc # "dl"
    PROVE  call["main"].st = "none" /\ call \in [Thread -> CallRec]
  BY DEF HInv, HCTypeOK, CallOK, PcOf, Thread

(* sc_snooping_do_parse and sc_snooping_do_down up to their first wait *)
LEMMA ReceiveStep ==
    ASSUME HInv, NEW u \in Url, NEW gen \in {"origin", "normal"}, NEW pc \in {"site", "down"},
           main.pc = "idle", pc = "site" => u \in OriginUrl,
           \/ Answer(u, "ok") /\ UNCHANGED rlvars
           \/ AddMgmtError(u) /\ Answer(u, "error")
           \/ /\ \E m \in MSlot : /\ AddMgmt(gen, u, m)
                                  /\ main' = [main EXCEPT !.pc = pc, !.req = u, !.m = m]
              /\ UNCHANGED reply,
           UNCHANGED <<proc, call, ctrl, envvars, faults, restarts>>
    PROVE  Quiet
<1> USE SlotFacts
<1>0. UNCHANGED <<proc, call, ctrl, snoop, ngx, disk, faults, restarts>>
  BY DEF envvars
<1>1. call["main"].st = "none" /\ call \in [Thread -> CallRec]
  BY NoMainCall
<1>2. CASE Answer(u, "ok") /\ UNCHANGED rlvars
  <2>1. Leaves /\ StoredBefore
    BY <1>2, NoStep DEF HInv
  <2>2. HInv'
    BY <1>0, <1>1, <1>2, <2>1, AnswerMoves
  <2> QED
    BY <2>1, <2>2 DEF Quiet
<1>3. CASE AddMgmtError(u) /\ Answer(u, "error")
  <2>1. Leaves /\ StoredBefore
    BY <1>3, AddMgmtErrorLeaves DEF HInv
  <2>2. HInv'
    BY <1>0, <1>1, <1>3, <2>1, AnswerMoves
  <2> QED
    BY <2>1, <2>2 DEF Quiet
<1>4. ASSUME NEW m \in MSlot, AddMgmt(gen, u, m), UNCHANGED reply,
             main' = [main EXCEPT !.pc = pc, !.req = u, !.m = m]
      PROVE  Quiet
  <2>1. Leaves /\ StoredBefore /\ m \in UsedMgmt' /\ mgmt'[m].gen = gen
    <3>1. gen \in MgmtGen
      BY DEF MgmtGen
    <3> QED
      BY <1>4, <3>1, AddMgmtLeaves DEF HInv
  <2>2. main' \in MainRec /\ main'.pc = pc /\ main'.req = u /\ main'.m = m
    BY <1>4 DEF HInv, HCTypeOK, MainRec
  <2>3. MainOK'
    BY <1>0, <2>1, <2>2 DEF HInv, MainOK, IsCtrlLd
  <2>4. /\ reply' \in [Request -> {"none", "ok", "error"}]
        /\ snoop' \subseteq Url /\ disk' \subseteq Path
    BY <1>0, <1>4 DEF HInv, HCTypeOK
  <2>5. HInv'
    BY <1>0, <1>1, <2>1, <2>2, <2>3, <2>4, MainMoves DEF Booting
  <2> QED
    BY <2>1, <2>5 DEF Quiet
<1> QED
  BY <1>2, <1>3, <1>4

LEMMA DoParseStep ==
    ASSUME HInv, NEW o \in OriginUrl, DoParse(o)
    PROVE  Quiet
<1>1. o \in Url /\ main.pc = "idle" /\ UNCHANGED <<proc, call, ctrl, envvars, faults, restarts>>
  BY SourceAssumption DEF DoParse
<1>2. \/ Answer(o, "ok") /\ UNCHANGED rlvars
      \/ AddMgmtError(o) /\ Answer(o, "error")
      \/ /\ \E m \in MSlot : /\ AddMgmt("origin", o, m)
                             /\ main' = [main EXCEPT !.pc = "site", !.req = o, !.m = m]
         /\ UNCHANGED reply
  BY DEF DoParse
<1> QED
  BY <1>1, <1>2, ReceiveStep

LEMMA DoDownStep ==
    ASSUME HInv, NEW u \in NormalUrl, DoDown(u)
    PROVE  Quiet
<1>1. u \in Url /\ main.pc = "idle" /\ UNCHANGED <<proc, call, ctrl, envvars, faults, restarts>>
  BY SourceAssumption DEF DoDown
<1>2. \/ Answer(u, "ok") /\ UNCHANGED rlvars
      \/ AddMgmtError(u) /\ Answer(u, "error")
      \/ /\ \E m \in MSlot : /\ AddMgmt("normal", u, m)
                             /\ main' = [main EXCEPT !.pc = "down", !.req = u, !.m = m]
         /\ UNCHANGED reply
  BY DEF DoDown
<1> QED
  BY <1>1, <1>2, ReceiveStep

LEMMA GetListStep ==
    ASSUME HInv, GetList
    PROVE  Quiet
<1>0. main.pc = "site" /\ UNCHANGED <<rlvars, proc, call, ctrl, snoop, ngx, disk, restarts>>
  BY DEF GetList, envvars
<1>1. call["main"].st = "none" /\ call \in [Thread -> CallRec]
  BY <1>0, NoMainCall
<1>2. Leaves /\ StoredBefore
  BY <1>0, NoStep DEF HInv
<1>3. CASE Fault /\ Answer(main.req, "ok")
  <2>1. PICK u : u = main.req
    OBVIOUS
  <2>2. HInv'
    BY <1>0, <1>1, <1>2, <1>3, <2>1, AnswerMoves
  <2> QED
    BY <1>2, <2>2 DEF Quiet
<1>4. CASE main' = [main EXCEPT !.pc = "seg", !.segs = SegsOf[main.req]] /\ UNCHANGED <<reply, faults>>
  <2>1. main \in MainRec /\ main.req \in OriginUrl
    BY <1>0 DEF HInv, HCTypeOK, MainOK
  <2>2. SegsOf[main.req] \in Seq(Url)
    BY <2>1, SourceAssumption
  <2>3. /\ main' \in MainRec /\ main'.pc = "seg"
        /\ main'.m = main.m /\ main'.req = main.req
    BY <1>4, <2>1, <2>2 DEF MainRec
  <2>4. PICK m : m = main.m
    OBVIOUS
  <2>5. m \in UsedMgmt /\ ~IsCtrlLd(m) /\ main.req \in Url
    BY <1>0, <2>4 DEF HInv, MainOK
  <2>6. m \in UsedMgmt' /\ ~IsCtrlLd(m)'
    BY <1>2, <2>5, ListStays
  <2>7. MainOK'
    BY <1>0, <2>3, <2>4, <2>5, <2>6 DEF HInv, MainOK, IsCtrlLd
  <2>8. /\ reply' \in [Request -> {"none", "ok", "error"}]
        /\ snoop' \subseteq Url /\ disk' \subseteq Path
    BY <1>0, <1>4 DEF HInv, HCTypeOK
  <2>9. HInv'
    BY <1>0, <1>1, <1>2, <1>4, <2>3, <2>7, <2>8, MainMoves DEF Booting
  <2> QED
    BY <1>2, <2>9 DEF Quiet
<1> QED
  BY <1>3, <1>4 DEF GetList

LEMMA ParseDoneStep ==
    ASSUME HInv, ParseDone
    PROVE  Quiet
<1>0. /\ main.pc = "seg" /\ Answer(main.req, "ok")
      /\ UNCHANGED <<rlvars, proc, call, ctrl, snoop, ngx, disk, faults, restarts>>
  BY DEF ParseDone, envvars
<1>1. call["main"].st = "none" /\ call \in [Thread -> CallRec]
  BY <1>0, NoMainCall
<1>2. Leaves /\ StoredBefore
  BY <1>0, NoStep DEF HInv
<1>3. PICK u : u = main.req
  OBVIOUS
<1>4. HInv'
  BY <1>0, <1>1, <1>2, <1>3, AnswerMoves
<1> QED
  BY <1>2, <1>4 DEF Quiet

(* A content is added for the mgmt the main thread works on, and its       *)
(* download begins.                                                        *)
LEMMA ContentAdded ==
    ASSUME HInv, main.pc \in {"seg", "down"}, NEW u \in Url, NEW c \in CSlot, NEW segs \in Seq(Url),
           NEW kind \in {"plain"} \cup Site,
           AddCtnt(main.m, u, c), main' = [main EXCEPT !.pc = "dl", !.segs = segs, !.c = c],
           StartCall("main", kind), UNCHANGED <<reply, faults, proc, ctrl, envvars, restarts>>
    PROVE  Quiet
<1> USE SlotFacts
<1>0. UNCHANGED <<proc, reply, ctrl, snoop, ngx, disk, faults, restarts>>
  BY DEF envvars
<1>1. call \in [Thread -> CallRec] /\ main \in MainRec
  BY DEF HInv, HCTypeOK
<1>2. PICK m : m = main.m
  OBVIOUS
<1>3. m \in UsedMgmt /\ ~IsCtrlLd(m) /\ main.req \in Url
  BY <1>2 DEF HInv, MainOK
<1>4. Leaves /\ Parsed(c)' /\ StoredBefore
  BY <1>2, <1>3, AddCtntLeaves DEF HInv
<1>5. /\ main' \in MainRec /\ main'.pc = "dl" /\ main'.c = c
      /\ main'.m = main.m /\ main'.req = main.req
  BY <1>1 DEF MainRec
<1>6. call' \in [Thread -> CallRec] /\ call'["proc"] = call["proc"]
  <2> DEFINE r == [st |-> IF kind = "sohu" THEN "session" ELSE "ngx", kind |-> kind, ret |-> "none"]
  <2>1. r \in CallRec
    BY DEF CallRec
  <2>2. call' = [call EXCEPT !["main"] = r]
    BY DEF StartCall
  <2> HIDE DEF r
  <2> QED
    BY <1>1, <2>1, <2>2 DEF Thread
<1>7. m \in UsedMgmt' /\ ~IsCtrlLd(m)'
  BY <1>3, <1>4, ListStays
<1>8. MainOK'
  BY <1>0, <1>2, <1>3, <1>5, <1>7 DEF HInv, MainOK, IsCtrlLd
<1>9. /\ reply' \in [Request -> {"none", "ok", "error"}]
      /\ snoop' \subseteq Url /\ disk' \subseteq Path
  BY <1>0 DEF HInv, HCTypeOK
<1>10. main'.c \in CSlot /\ Parsed(main.c)'
  BY <1>4, <1>5 DEF Parsed, IsCtrlLd
<1>11. HInv'
  BY <1>0, <1>4, <1>5, <1>6, <1>8, <1>9, <1>10, MainMoves DEF Booting
<1> QED
  BY <1>4, <1>11 DEF Quiet

LEMMA NextSegStep ==
    ASSUME HInv, NextSeg
    PROVE  Quiet
<1> USE SlotFacts
<1>0. main.pc = "seg" /\ main.segs # <<>> /\ UNCHANGED <<proc, ctrl, snoop, ngx, disk, restarts>>
  BY DEF NextSeg, envvars
<1>1. call["main"].st = "none" /\ call \in [Thread -> CallRec]
  BY <1>0, NoMainCall
<1>2. main \in MainRec /\ main.segs \in Seq(Url)
  BY DEF HInv, HCTypeOK, MainRec
<1>3. Head(main.segs) \in Url /\ Tail(main.segs) \in Seq(Url)
  BY <1>0, <1>2
<1>4. PICK m, u, segs, req : m = main.m /\ u = Head(main.segs) /\ segs = Tail(main.segs) /\ req = main.req
  OBVIOUS
<1>5. m \in UsedMgmt /\ ~IsCtrlLd(m) /\ u \in Url /\ segs \in Seq(Url) /\ req \in Url
  BY <1>0, <1>3, <1>4 DEF HInv, MainOK
<1>6. CASE Fault /\ Answer(main.req, "ok") /\ UNCHANGED <<rlvars, call>>
  <2>1. Leaves /\ StoredBefore
    BY <1>6, NoStep DEF HInv
  <2>2. HInv'
    BY <1>0, <1>1, <1>4, <1>6, <2>1, AnswerMoves
  <2> QED
    BY <2>1, <2>2 DEF Quiet
<1>7. CASE /\ AddCtntError(main.m, Head(main.segs)) \/ UNCHANGED rlvars
           /\ PassOver /\ UNCHANGED <<call, reply>> /\ (Fault \/ UNCHANGED faults)
  <2>1. Leaves /\ StoredBefore
    BY <1>4, <1>5, <1>7, AddCtntErrorLeaves, NoStep DEF HInv
  <2>2. main' = [main EXCEPT !.segs = segs]
    BY <1>4, <1>7 DEF PassOver
  <2>3. main' \in MainRec /\ main'.pc = "seg" /\ main'.m = m /\ main'.req = req
    BY <1>0, <1>2, <1>4, <1>5, <2>2 DEF MainRec
  <2>4. m \in UsedMgmt' /\ ~IsCtrlLd(m)'
    BY <1>5, <2>1, ListStays
  <2>5. MainOK'
    BY <1>0, <1>5, <2>3, <2>4 DEF HInv, MainOK, IsCtrlLd
  <2>6. /\ reply' \in [Request -> {"none", "ok", "error"}]
        /\ snoop' \subseteq Url /\ disk' \subseteq Path
    BY <1>0, <1>7 DEF HInv, HCTypeOK
  <2>7. HInv'
    BY <1>0, <1>1, <1>7, <2>1, <2>3, <2>5, <2>6, MainMoves DEF Booting
  <2> QED
    BY <2>1, <2>7 DEF Quiet
<1>8. ASSUME NEW c \in CSlot, AddCtnt(main.m, Head(main.segs), c),
             main' = [main EXCEPT !.pc = "dl", !.segs = Tail(@), !.c = c],
             StartCall("main", mgmt[main.m].site), UNCHANGED <<reply, faults>>
      PROVE  Quiet
  <2>1. main' = [main EXCEPT !.pc = "dl", !.segs = segs, !.c = c]
    BY <1>4, <1>8
  <2>2. PICK kind : kind = mgmt[main.m].site
    OBVIOUS
  <2>3. kind \in {"plain"} \cup Site
    BY <1>4, <1>5, <2>2 DEF HInv, HCTypeOK, TypeOK, MgmtRec
  <2>4. UNCHANGED <<reply, faults, proc, ctrl, envvars, restarts>>
    BY <1>0, <1>8 DEF envvars
  <2>5. AddCtnt(main.m, u, c) /\ StartCall("main", kind)
    BY <1>4, <1>8, <2>2
  <2> QED
    BY <1>0, <1>5, <2>1, <2>3, <2>4, <2>5, ContentAdded
<1> QED
  BY <1>6, <1>7, <1>8 DEF NextSeg

LEMMA DownCtntStep ==
    ASSUME HInv, DownCtnt
    PROVE  Quiet
<1> USE SlotFacts
<1>0. main.pc = "down" /\ UNCHANGED <<proc, ctrl, snoop, ngx, disk, faults, restarts>>
  BY DEF DownCtnt, envvars
<1>1. call["main"].st = "none" /\ call \in [Thread -> CallRec]
  BY <1>0, NoMainCall
<1>2. main \in MainRec /\ main.segs \in Seq(Url)
  BY DEF HInv, HCTypeOK, MainRec
<1>3. PICK m, u, segs : m = main.m /\ u = main.req /\ segs = main.segs
  OBVIOUS
<1>4. m \in UsedMgmt /\ ~IsCtrlLd(m) /\ u \in Url /\ segs \in Seq(Url)
  BY <1>0, <1>2, <1>3 DEF HInv, MainOK
<1>5. CASE AddCtntError(main.m, main.req) /\ Answer(main.req, "error") /\ UNCHANGED call
  <2>1. Leaves /\ StoredBefore
    BY <1>3, <1>4, <1>5, AddCtntErrorLeaves DEF HInv
  <2>2. HInv'
    BY <1>0, <1>1, <1>3, <1>5, <2>1, AnswerMoves
  <2> QED
    BY <2>1, <2>2 DEF Quiet
<1>6. ASSUME NEW c \in CSlot, AddCtnt(main.m, main.req, c),
             main' = [main EXCEPT !.pc = "dl", !.c = c],
             StartCall("main", "plain"), UNCHANGED reply
      PROVE  Quiet
  <2>1. main' = [main EXCEPT !.pc = "dl", !.segs = segs, !.c = c]
    BY <1>2, <1>3, <1>6 DEF MainRec
  <2>2. UNCHANGED <<reply, faults, proc, ctrl, envvars, restarts>>
    BY <1>0, <1>6 DEF envvars
  <2>3. AddCtnt(main.m, u, c)
    BY <1>3, <1>6
  <2> QED
    BY <1>0, <1>4, <1>6, <2>1, <2>2, <2>3, ContentAdded
<1> QED
  BY <1>5, <1>6 DEF DownCtnt

LEMMA DownloadDoneStep ==
    ASSUME HInv, DownloadDone
    PROVE  Quiet
<1>0. /\ main.pc = "dl" /\ UNCHANGED <<rlvars, proc, ctrl, snoop, ngx, disk, faults, restarts>>
      /\ call' = [call EXCEPT !["main"] = NoCall]
  BY DEF DownloadDone, envvars
<1>1. call' \in [Thread -> CallRec] /\ call'["main"].st = "none" /\ call'["proc"] = call["proc"]
  <2>1. NoCall \in CallRec /\ NoCall.st = "none"
    BY DEF NoCall, CallRec
  <2> QED
    BY <1>0, <2>1 DEF HInv, HCTypeOK, Thread
<1>2. Leaves /\ StoredBefore
  BY <1>0, NoStep DEF HInv
<1>3. PICK u, m : u = main.req /\ m = main.m
  OBVIOUS
<1>4. CASE Answer(main.req, "ok")
  <2>1. HInv'
    BY <1>0, <1>1, <1>2, <1>3, <1>4, AnswerMoves
  <2> QED
    BY <1>2, <2>1 DEF Quiet
<1>5. CASE main' = [main EXCEPT !.pc = "seg", !.c = NULL] /\ UNCHANGED reply
  <2>1. m \in UsedMgmt /\ ~IsCtrlLd(m) /\ u \in Url
    BY <1>0, <1>3 DEF HInv, MainOK
  <2>2. main' \in MainRec /\ main'.pc = "seg" /\ main'.m = m /\ main'.req = u
    BY <1>0, <1>3, <1>5 DEF HInv, HCTypeOK, MainRec
  <2>3. m \in UsedMgmt' /\ ~IsCtrlLd(m)'
    BY <1>2, <2>1, ListStays
  <2>4. MainOK'
    BY <1>0, <2>1, <2>2, <2>3 DEF HInv, MainOK, IsCtrlLd
  <2>5. /\ reply' \in [Request -> {"none", "ok", "error"}]
        /\ snoop' \subseteq Url /\ disk' \subseteq Path
    BY <1>0, <1>5 DEF HInv, HCTypeOK
  <2>6. HInv'
    BY <1>0, <1>1, <1>2, <2>2, <2>4, <2>5, MainMoves DEF Booting
  <2> QED
    BY <1>2, <2>6 DEF Quiet
<1> QED
  BY <1>4, <1>5 DEF DownloadDone

(* A step of the resource-list thread leaves the main thread's business. *)
LEMMA ProcMoves ==
    ASSUME HInv, Leaves, UNCHANGED <<main, ctrl, reply, ngx, disk, restarts>>,
           proc' \in ProcRec, ProcOK', call' \in [Thread -> CallRec], proc.pc # "off",
           call'["main"] = call["main"],
           call'["proc"].st # "none" => proc'.pc = "dl" /\ proc'.c \in CSlot /\ Parsed(proc.c)',
           Fault \/ UNCHANGED faults, snoop' \subseteq Url
    PROVE  HInv'
<1>1. MainOK' /\ CtrlOK'
  BY ListStays
<1>2. CallOK'
  <2> SUFFICES ASSUME NEW x \in Thread, call'[x].st # "none"
               PROVE  PcOf(x)' = "dl" /\ CallCtnt(x)' \in CSlot /\ Parsed(CallCtnt(x))'
    BY DEF CallOK
  <2>1. CASE x = "proc"
    BY <2>1 DEF PcOf, CallCtnt, Parsed, IsCtrlLd
  <2>2. CASE x = "main"
    <3>1. PICK c : c = main.c
      OBVIOUS
    <3>2. main.pc = "dl" /\ c \in CSlot /\ Parsed(c)
      BY <2>2, <3>1 DEF HInv, CallOK, PcOf, CallCtnt, Thread
    <3>3. Parsed(c)'
      BY <3>2, ListStays
    <3> QED
      BY <2>2, <3>1, <3>2, <3>3 DEF PcOf, CallCtnt, Parsed, IsCtrlLd
  <2> QED
    BY <2>1, <2>2 DEF Thread
<1>3. faults' \in 0 .. MaxFaults
  BY FaultType DEF HInv
<1>4. HCTypeOK'
  BY <1>3, ListStays DEF HInv, HCTypeOK
<1> QED
  BY <1>1, <1>2, <1>4 DEF HInv, Leaves, BootOK

LEMMA NoProcCall ==
    ASSUME HInv, proc.pc # "dl"
    PROVE  call["proc"].st = "none" /\ call \in [Thread -> CallRec]
  BY DEF HInv, HCTypeOK, CallOK, PcOf, Thread

(* curr = curr->siblings, from a slot that may be free by now. *)
LEMMA AdvanceMoves ==
    ASSUME HInv, Leaves, proc.pc # "off", proc.c \in CSlot, proc.i \in MSlot, Advance,
           call' \in [Thread -> CallRec], call'["main"] = call["main"], call'["proc"].st = "none",
           UNCHANGED <<main, ctrl, reply, envvars, faults, restarts>>
    PROVE  HInv'
<1> USE SlotFacts
<1>0. UNCHANGED <<main, ctrl, reply, snoop, ngx, disk, faults, restarts>>
  BY DEF envvars
<1>1. PICK i, c : i = proc.i /\ c = ctnt[proc.c].siblings
  OBVIOUS
<1>2. i \in MSlot /\ i \in 0 .. NMgmt /\ c \in CSlot \cup {NULL}
  <2>1. ctnt[proc.c] \in CtntRec
    BY DEF HInv, HCTypeOK, TypeOK
  <2> QED
    BY <1>1, <2>1 DEF CtntRec, HInv, HCTypeOK, ProcRec
<1>3. proc' = [pc |-> "walk", i |-> i, c |-> c, why |-> "none", u |-> NoUrl]
  BY <1>1 DEF Advance, ProcStart
<1>4. proc' \in ProcRec /\ proc'.pc = "walk" /\ proc'.i = i
  BY <1>2, <1>3 DEF ProcRec
<1>5. ProcOK'
  BY <1>2, <1>4 DEF ProcOK, MSlot
<1>6. snoop' \subseteq Url
  BY <1>0 DEF HInv, HCTypeOK
<1> QED
  BY <1>0, <1>4, <1>5, <1>6, ProcMoves

LEMMA ProcScanStep ==
    ASSUME HInv, ProcScan
    PROVE  Quiet
<1> USE SlotFacts
<1>0. /\ UNCHANGED <<rlvars, main, call, ctrl, reply, snoop, ngx, disk, faults, restarts>>
      /\ proc.pc = "scan" /\ proc \in ProcRec /\ proc.i \in 0 .. NMgmt
  BY DEF ProcScan, envvars, HInv, HCTypeOK, ProcRec
<1>1. Leaves /\ StoredBefore
  BY <1>0, NoStep DEF HInv
<1>2. call["proc"].st = "none" /\ call \in [Thread -> CallRec]
  BY <1>0, NoProcCall
<1>3. proc' \in ProcRec /\ ProcOK'
  <2>1. CASE proc.i = NMgmt
    <3>1. proc' = [proc EXCEPT !.i = 0]
      BY <2>1 DEF ProcScan
    <3> QED
      BY <1>0, <3>1 DEF ProcRec, ProcOK
  <2>2. CASE proc.i # NMgmt
    <3>1. PICK c : c = mgmt[proc.i].child
      OBVIOUS
    <3>2. proc.i \in MSlot /\ proc.i + 1 \in 0 .. NMgmt
      BY <1>0, <2>2 DEF MSlot, Slots
    <3>3. c \in CSlot \cup {NULL}
      BY <3>1, <3>2 DEF HInv, HCTypeOK, TypeOK, MgmtRec
    <3>4. \/ proc' = [proc EXCEPT !.pc = "walk", !.c = c]
          \/ proc' = [proc EXCEPT !.i = @ + 1]
      BY <2>2, <3>1 DEF ProcScan
    <3>5. CASE proc' = [proc EXCEPT !.pc = "walk", !.c = c]
      <4>1. proc' \in ProcRec /\ proc'.pc = "walk" /\ proc'.i = proc.i
        BY <1>0, <3>3, <3>5 DEF ProcRec
      <4> QED
        BY <3>2, <4>1 DEF ProcOK, MSlot
    <3>6. CASE proc' = [proc EXCEPT !.i = @ + 1]
      BY <1>0, <3>2, <3>6 DEF ProcRec, ProcOK
    <3> QED
      BY <3>4, <3>5, <3>6
  <2> QED
    BY <2>1, <2>2
<1>4. snoop' \subseteq Url
  BY <1>0 DEF HInv, HCTypeOK
<1>5. HInv'
  BY <1>0, <1>1, <1>2, <1>3, <1>4, ProcMoves
<1> QED
  BY <1>1, <1>5 DEF Quiet

LEMMA ProcListEndStep ==
    ASSUME HInv, ProcListEnd
    PROVE  Quiet
<1> USE SlotFacts
<1>0. /\ UNCHANGED <<rlvars, main, call, ctrl, reply, snoop, ngx, disk, faults, restarts>>
      /\ proc.pc = "walk" /\ proc \in ProcRec /\ proc.i \in MSlot
      /\ proc' = [proc EXCEPT !.pc = "scan", !.i = @ + 1]
  BY DEF ProcListEnd, envvars, HInv, HCTypeOK, ProcOK
<1>1. Leaves /\ StoredBefore
  BY <1>0, NoStep DEF HInv
<1>2. call["proc"].st = "none" /\ call \in [Thread -> CallRec]
  BY <1>0, NoProcCall
<1>3. proc.i + 1 \in 0 .. NMgmt
  BY <1>0 DEF MSlot, Slots
<1>4. proc' \in ProcRec /\ proc'.pc = "scan"
  BY <1>0, <1>3 DEF ProcRec
<1>5. ProcOK'
  BY <1>4 DEF ProcOK
<1>6. snoop' \subseteq Url
  BY <1>0 DEF HInv, HCTypeOK
<1>7. HInv'
  BY <1>0, <1>1, <1>2, <1>4, <1>5, <1>6, ProcMoves
<1> QED
  BY <1>1, <1>7 DEF Quiet

(* sc_res_retry_download: only a content of an origin or a normal is not   *)
(* stored, and so the pointer of this call will not become stale.          *)
LEMMA RetryMoves ==
    ASSUME HInv, Leaves, proc.pc = "walk", NEW c \in CSlot, c = proc.c, ctnt[c].url # NoUrl,
           "STORED" \notin ctnt[c].flag, NEW why \in {"i_fail", "d_fail"}, Retry(why),
           UNCHANGED <<main, ctrl, reply, envvars, faults, restarts>>
    PROVE  HInv'
<1> USE SlotFacts
<1>0. UNCHANGED <<main, ctrl, reply, snoop, ngx, disk, faults, restarts>>
  BY DEF envvars
<1>1. call \in [Thread -> CallRec] /\ proc \in ProcRec /\ proc.i \in MSlot
  BY DEF HInv, HCTypeOK, ProcOK
<1>2. Parsed(c)
  BY DEF HInv, ListInv, FreeBlank, LoadedStored, Parsed
<1>3. Parsed(c)'
  BY <1>2, ListStays
<1>4. PICK kind : kind = ctnt[proc.c].site
  OBVIOUS
<1>5. kind \in Site
  BY <1>4 DEF HInv, HCTypeOK, TypeOK, CtntRec
<1>6. call' \in [Thread -> CallRec] /\ call'["main"] = call["main"]
  <2> DEFINE r == [st |-> IF kind = "sohu" THEN "session" ELSE "ngx", kind |-> kind, ret |-> "none"]
  <2>1. r \in CallRec
    BY <1>5 DEF CallRec
  <2>2. call' = [call EXCEPT !["proc"] = r]
    BY <1>4 DEF Retry, StartCall
  <2> HIDE DEF r
  <2> QED
    BY <1>1, <2>1, <2>2 DEF Thread
<1>7. /\ proc' \in ProcRec /\ proc'.pc = "dl" /\ proc'.c = c /\ proc'.i = proc.i
  BY <1>1 DEF Retry, ProcRec
<1>8. ProcOK'
  BY <1>1, <1>7 DEF ProcOK, MSlot, CSlot
<1>9. proc'.c \in CSlot /\ Parsed(proc.c)'
  BY <1>3, <1>7 DEF Parsed, IsCtrlLd
<1>10. snoop' \subseteq Url
  BY <1>0 DEF HInv, HCTypeOK
<1> QED
  BY <1>0, <1>6, <1>7, <1>8, <1>9, <1>10, ProcMoves

LEMMA ProcCtntStep ==
    ASSUME HInv, ProcCtnt
    PROVE  Quiet
<1> USE SlotFacts
<1>0. proc.pc = "walk" /\ proc.c # NULL /\ UNCHANGED <<main, ctrl, reply, envvars, faults, restarts>>
  BY DEF ProcCtnt
<1>1. proc \in ProcRec /\ proc.c \in CSlot /\ proc.i \in MSlot
  BY <1>0 DEF HInv, HCTypeOK, ProcRec, ProcOK
<1>2. call["proc"].st = "none" /\ call \in [Thread -> CallRec]
  BY <1>0, NoProcCall
<1>3. PICK c \in CSlot : c = proc.c
  BY <1>1
<1>4. CASE ProcSkip
  <2>1. UNCHANGED <<rlvars, call>> /\ Advance
    BY <1>4 DEF ProcSkip
  <2>2. Leaves /\ StoredBefore
    BY <2>1, NoStep DEF HInv
  <2>3. HInv'
    BY <1>0, <1>1, <1>2, <2>1, <2>2, AdvanceMoves
  <2> QED
    BY <2>2, <2>3 DEF Quiet
<1>5. CASE ProcRetryIFail
  <2>1. UNCHANGED rlvars /\ Retry("i_fail") /\ ctnt[c].url # NoUrl /\ "STORED" \notin ctnt[c].flag
    BY <1>3, <1>5 DEF ProcRetryIFail
  <2>2. Leaves /\ StoredBefore
    BY <2>1, NoStep DEF HInv
  <2>3. HInv'
    BY <1>0, <1>3, <2>1, <2>2, RetryMoves
  <2> QED
    BY <2>2, <2>3 DEF Quiet
<1>6. CASE ProcRetryDFail
  <2>1. /\ UnsetFlag(c, "D_FAIL") /\ Retry("d_fail") /\ ctnt[c].url # NoUrl
        /\ "STORED" \notin ctnt[c].flag
    BY <1>3, <1>6 DEF ProcRetryDFail
  <2>2. Leaves /\ StoredBefore
    BY <2>1, FlagLeaves DEF HInv, Flag
  <2>3. HInv'
    BY <1>0, <1>3, <2>1, <2>2, RetryMoves
  <2> QED
    BY <2>2, <2>3 DEF Quiet
<1>7. CASE ProcNotify
  <2>1. PICK u : u = ctnt[proc.c].url
    OBVIOUS
  <2>2. u # NoUrl /\ proc' = [proc EXCEPT !.pc = "add", !.u = u] /\ UNCHANGED <<rlvars, call>>
    BY <1>7, <2>1 DEF ProcNotify
  <2>3. u \in Url
    BY <1>1, <2>1, <2>2 DEF HInv, HCTypeOK, TypeOK, CtntRec
  <2>4. Leaves /\ StoredBefore
    BY <2>2, NoStep DEF HInv
  <2>5. /\ proc' \in ProcRec /\ proc'.pc = "add" /\ proc'.u = u
        /\ proc'.c = proc.c /\ proc'.i = proc.i
    BY <1>1, <2>2, <2>3 DEF ProcRec
  <2>6. ProcOK'
    BY <1>1, <2>3, <2>5 DEF ProcOK, MSlot, CSlot
  <2>7. snoop' \subseteq Url /\ UNCHANGED <<ngx, disk>>
    BY <1>0 DEF HInv, HCTypeOK, envvars
  <2>8. HInv'
    BY <1>0, <1>2, <2>2, <2>4, <2>5, <2>6, <2>7, ProcMoves
  <2> QED
    BY <2>4, <2>8 DEF Quiet
<1> QED
  BY <1>4, <1>5, <1>6, <1>7 DEF ProcCtnt

LEMMA ProcRetriedStep ==
    ASSUME HInv, ProcRetried
    PROVE  Quiet
<1> USE SlotFacts
<1>0. /\ proc.pc = "dl" /\ UNCHANGED <<main, ctrl, reply, envvars, faults, restarts>>
      /\ call' = [call EXCEPT !["proc"] = NoCall] /\ Advance
  BY DEF ProcRetried
<1>1. proc.c \in CSlot /\ proc.i \in MSlot
  BY <1>0 DEF HInv, ProcOK
<1>2. call' \in [Thread -> CallRec] /\ call'["proc"].st = "none" /\ call'["main"] = call["main"]
  <2>1. NoCall \in CallRec /\ NoCall.st = "none"
    BY DEF NoCall, CallRec
  <2> QED
    BY <1>0, <2>1 DEF HInv, HCTypeOK, Thread
<1>3. PICK c \in CSlot : c = proc.c
  BY <1>1
<1>4. UNCHANGED rlvars \/ UnsetFlag(c, "I_FAIL")
  BY <1>3 DEF ProcRetried
<1>5. Leaves /\ StoredBefore
  BY <1>4, NoStep, FlagLeaves DEF HInv, Flag
<1>6. HInv'
  BY <1>0, <1>1, <1>2, <1>5, AdvanceMoves
<1> QED
  BY <1>5, <1>6 DEF Quiet

LEMMA ProcAddedStep ==
    ASSUME HInv, ProcAdded
    PROVE  Quiet
<1> USE SlotFacts
<1>0. /\ proc.pc \in {"added", "refused"} /\ Advance
      /\ UNCHANGED <<main, call, ctrl, reply, envvars, faults, restarts>>
  BY DEF ProcAdded
<1>1. proc.c \in CSlot /\ proc.i \in MSlot
  BY <1>0 DEF HInv, ProcOK
<1>2. call["proc"].st = "none" /\ call \in [Thread -> CallRec]
  BY <1>0, NoProcCall
<1>3. PICK c \in CSlot : c = proc.c
  BY <1>1
<1>4. UNCHANGED rlvars \/ SetFlag(c, "NOTIFY")
  BY <1>3 DEF ProcAdded
<1>5. Leaves /\ StoredBefore
  BY <1>4, NoStep, FlagLeaves DEF HInv, Flag
<1>6. HInv'
  BY <1>0, <1>1, <1>2, <1>5, AdvanceMoves
<1> QED
  BY <1>5, <1>6 DEF Quiet

LEMMA SnoopAddStep ==
    ASSUME HInv, SnoopAdd
    PROVE  Quiet
<1> USE SlotFacts
<1>0. proc.pc = "add" /\ UNCHANGED <<rlvars, main, call, ctrl, reply, ngx, disk, restarts>>
  BY DEF SnoopAdd
<1>1. proc \in ProcRec /\ proc.c \in CSlot /\ proc.i \in MSlot /\ proc.u \in Url
  BY <1>0 DEF HInv, HCTypeOK, ProcOK
<1>2. call["proc"].st = "none" /\ call \in [Thread -> CallRec]
  BY <1>0, NoProcCall
<1>3. Leaves /\ StoredBefore
  BY <1>0, NoStep DEF HInv
<1>4. PICK pc \in {"added", "refused", "hung"} : proc' = [proc EXCEPT !.pc = pc]
  BY DEF SnoopAdd
<1>5. proc' \in ProcRec /\ proc'.pc = pc /\ proc'.c = proc.c /\ proc'.i = proc.i
  BY <1>1, <1>4 DEF ProcRec
<1>6. ProcOK'
  BY <1>1, <1>5 DEF ProcOK, MSlot, CSlot
<1>7. snoop' \subseteq Url /\ (Fault \/ UNCHANGED faults)
  BY <1>1 DEF SnoopAdd, HInv, HCTypeOK
<1>8. HInv'
  BY <1>0, <1>2, <1>3, <1>5, <1>6, <1>7, ProcMoves
<1> QED
  BY <1>3, <1>8 DEF Quiet

(* sc_ld_init_and_load up to the directory walk *)
LEMMA BootCtrlStep ==
    ASSUME HInv, BootCtrl
    PROVE  Quiet /\ UsedCtnt' = UsedCtnt
<1> USE SlotFacts
<1>0. main.pc = "boot" /\ UNCHANGED <<proc, call, reply, snoop, ngx, disk, faults, restarts>>
  BY DEF BootCtrl, envvars
<1>1. call["main"].st = "none" /\ call \in [Thread -> CallRec] /\ main \in MainRec
  BY <1>0, NoMainCall DEF HInv, HCTypeOK
<1>2. PICK m \in MSlot, s \in Site, u \in Url :
         /\ u = IF s = "youku" THEN YoukuHome ELSE SohuHome
         /\ AddMgmt("ctrl_ld", u, m) /\ ctrl' = [ctrl EXCEPT ![s] = m]
         /\ s = "youku" => UNCHANGED main
         /\ s = "sohu" => main' = [main EXCEPT !.pc = "load", !.todo = disk] /\ ctrl["youku"] # NULL
  <2>1. PICK m \in MSlot :
          IF ctrl["youku"] = NULL
          THEN /\ AddMgmt("ctrl_ld", YoukuHome, m)
               /\ ctrl' = [ctrl EXCEPT !["youku"] = m]
               /\ UNCHANGED main
          ELSE /\ AddMgmt("ctrl_ld", SohuHome, m)
               /\ ctrl' = [ctrl EXCEPT !["sohu"] = m]
               /\ main' = [main EXCEPT !.pc = "load", !.todo = disk]
    BY DEF BootCtrl
  <2>2. "youku" \in Site /\ "sohu" \in Site /\ "sohu" # "youku" /\ YoukuHome \in Url /\ SohuHome \in Url
    BY BootAssumption DEF Site
  <2>3. CASE ctrl["youku"] = NULL
    BY <2>1, <2>2, <2>3
  <2>4. CASE ctrl["youku"] # NULL
    BY <2>1, <2>2, <2>4
  <2> QED
    BY <2>3, <2>4
<1>3. MarkSite(u) = s
  BY <1>2, BootAssumption DEF MarkSite, Site
<1>4. /\ Leaves /\ StoredBefore /\ UsedCtnt' = UsedCtnt
      /\ m \in UsedMgmt' /\ mgmt'[m].gen = "ctrl_ld" /\ mgmt'[m].site = s
  BY <1>2, <1>3, AddMgmtLeaves DEF HInv, MgmtGen
<1>5. /\ ctrl' \in [Site -> MSlot \cup {NULL}] /\ ctrl'[s] = m /\ m # NULL
      /\ \A x \in Site \ {s} : ctrl'[x] = ctrl[x]
  BY <1>2 DEF HInv, HCTypeOK
<1>6. CtrlOK'
  <2> SUFFICES ASSUME NEW x \in Site, ctrl'[x] # NULL
               PROVE  (ctrl[x] \in UsedMgmt /\ IsCtrlLd(ctrl[x]) /\ mgmt[ctrl[x]].site = x)'
    BY DEF CtrlOK
  <2>1. CASE x = s
    BY <1>4, <1>5, <2>1 DEF IsCtrlLd
  <2>2. CASE x # s
    <3>1. PICK k : k = ctrl[x]
      OBVIOUS
    <3>2. k \in UsedMgmt /\ mgmt[k].gen = "ctrl_ld" /\ mgmt[k].site = x
      BY <1>5, <2>2, <3>1 DEF HInv, CtrlOK, IsCtrlLd
    <3>3. k \in UsedMgmt' /\ mgmt'[k].gen = "ctrl_ld" /\ mgmt'[k].site = x
      BY <1>4, <3>2 DEF Leaves, MgmtKept
    <3> QED
      BY <1>5, <2>2, <3>1, <3>3 DEF IsCtrlLd
  <2> QED
    BY <2>1, <2>2
<1>7. /\ main' \in MainRec /\ main'.pc \in {"boot", "load"}
      /\ main'.pc = "load" => s = "sohu" /\ ctrl["youku"] # NULL
  <2>1. CASE s = "youku"
    BY <1>0, <1>1, <1>2, <2>1
  <2>2. CASE s = "sohu"
    <3>1. disk \in SUBSET Path
      BY DEF HInv, HCTypeOK
    <3>2. main' = [main EXCEPT !.pc = "load", !.todo = disk] /\ ctrl["youku"] # NULL
      BY <1>2, <2>2
    <3> QED
      BY <1>1, <2>2, <3>1, <3>2 DEF MainRec
  <2> QED
    BY <2>1, <2>2 DEF Site
<1>8. MainOK'
  BY <1>5, <1>7 DEF MainOK, Site
<1>9. ProcOK'
  BY <1>0, <1>4, ListStays
<1>10. CallOK'
  <2> SUFFICES ASSUME NEW x \in Thread, call'[x].st # "none"
               PROVE  PcOf(x)' = "dl" /\ CallCtnt(x)' \in CSlot /\ Parsed(CallCtnt(x))'
    BY DEF CallOK
  <2>1. x = "proc"
    BY <1>0, <1>1 DEF Thread
  <2>2. PICK c : c = proc.c
    OBVIOUS
  <2>3. proc.pc = "dl" /\ c \in CSlot /\ Parsed(c)
    BY <1>0, <2>1, <2>2 DEF HInv, CallOK, PcOf, CallCtnt, Thread
  <2>4. Parsed(c)'
    BY <1>4, <2>3, ListStays
  <2> QED
    BY <1>0, <2>1, <2>2, <2>3, <2>4 DEF PcOf, CallCtnt, Parsed, IsCtrlLd
<1>11. HCTypeOK'
  BY <1>0, <1>4, <1>5, <1>7, ListStays DEF HInv, HCTypeOK
<1>12. BootOK'
  BY <1>0 DEF HInv, BootOK, Booting
<1> QED
  BY <1>4, <1>6, <1>8, <1>9, <1>10, <1>11, <1>12 DEF Quiet, HInv, Leaves

(* A step of the directory walk. *)
LEMMA LoadMoves ==
    ASSUME HInv, Leaves, main.pc = "load", NEW pc \in {"load", "hung"}, NEW todo \in SUBSET Path,
           main' = [main EXCEPT !.pc = pc, !.todo = todo],
           UNCHANGED <<proc, call, ctrl, reply, ngx, restarts>>, Fault \/ UNCHANGED faults,
           snoop' \subseteq Url, disk' \subseteq Path
    PROVE  HInv'
<1>1. call["main"].st = "none" /\ call \in [Thread -> CallRec]
  BY NoMainCall
<1>2. main' \in MainRec /\ main'.pc = pc
  BY DEF HInv, HCTypeOK, MainRec
<1>3. MainOK'
  BY <1>2 DEF HInv, MainOK
<1>4. reply' \in [Request -> {"none", "ok", "error"}]
  BY DEF HInv, HCTypeOK
<1> QED
  BY <1>1, <1>2, <1>3, <1>4, MainMoves DEF Booting

(* The site whose controller takes a file. *)
FileSite(f) == IF FileKind[f] = "sohu" THEN "sohu" ELSE "youku"

(* What the walk leaves at a file f: the contents it found, and perhaps    *)
(* one more, for f.                                                        *)
OnlyLoads(f) ==
    \A c \in UsedCtnt' :
        \/ /\ c \in UsedCtnt /\ ctnt'[c] = ctnt[c]
        \/ /\ c \notin UsedCtnt /\ FileKind[f] # "unknown" /\ disk' = Renamed(f)
           /\ ctnt'[c].parent = Controller(f)
           /\ ctnt'[c].localpath = LocalPathOf[<<FileSite(f), RecoverUrl[StdPath[f]]>>]

LEMMA AddLoadedLeaves ==
    ASSUME HInv, main.pc = "load", NEW f \in Path, NEW u \in Url, u = RecoverUrl[StdPath[f]],
           FileKind[f] # "unknown", disk' = Renamed(f), AddLoaded(Controller(f), u)
    PROVE  /\ Leaves /\ OnlyLoads(f) /\ snoop' \subseteq snoop
           /\ Fault \/ UNCHANGED faults
<1> USE SlotFacts
<1>1. PICK m, s : m = Controller(f) /\ s = FileSite(f)
  OBVIOUS
<1>2. s \in Site /\ m = ctrl[s]
  BY <1>1 DEF FileSite, Controller, Site
<1>3. m \in UsedMgmt /\ IsCtrlLd(m) /\ mgmt[m].site = s
  BY <1>2 DEF HInv, MainOK, CtrlOK
<1>4. ListInv
  BY DEF HInv
<1>5. snoop' \subseteq snoop /\ (Fault \/ UNCHANGED faults)
  BY DEF AddLoaded
<1>6. CASE UNCHANGED rlvars
  <2>1. Leaves
    BY <1>4, <1>6, NoStep
  <2>2. OnlyLoads(f)
    BY <1>6 DEF OnlyLoads, rlvars, UsedCtnt
  <2> QED
    BY <1>5, <2>1, <2>2
<1>7. CASE AddCtntError(m, u)
  <2>1. Leaves /\ UsedCtnt' = UsedCtnt /\ \A c \in UsedCtnt : ctnt'[c] = ctnt[c]
    BY <1>3, <1>4, <1>7, AddCtntErrorLeaves
  <2> QED
    BY <1>5, <2>1 DEF OnlyLoads
<1>8. ASSUME NEW d \in CSlot, AddCtnt(m, u, d)
      PROVE  Leaves /\ OnlyLoads(f)
  <2>1. /\ Leaves /\ d \notin UsedCtnt /\ UsedCtnt' = UsedCtnt \cup {d}
        /\ ctnt' = [ctnt EXCEPT ![d] = NewCtnt(m, u)] /\ ctnt'[d].parent = m
        /\ ctnt'[d].localpath = LocalPathOf[<<mgmt[m].site, u>>]
    BY <1>3, <1>4, <1>8, AddCtntLeaves
  <2>2. \A c \in UsedCtnt : ctnt'[c] = ctnt[c]
    BY <2>1 DEF HInv, HCTypeOK, TypeOK
  <2> QED
    BY <1>1, <1>3, <2>1, <2>2 DEF OnlyLoads
<1> QED
  BY <1>1, <1>5, <1>6, <1>7, <1>8 DEF AddLoaded

(* sc_ld_file_process *)
LEMMA LoadFileStep ==
    ASSUME HInv, NEW f \in Path, LoadFile(f)
    PROVE  HInv' /\ Leaves /\ OnlyLoads(f) /\ snoop' \subseteq snoop
<1> USE SlotFacts
<1>0. main.pc = "load" /\ UNCHANGED <<proc, call, ctrl, reply, ngx, restarts>>
  BY DEF LoadFile
<1>1. /\ main \in MainRec /\ main.todo \in SUBSET Path /\ snoop \subseteq Url /\ disk \subseteq Path
      /\ StdPath[f] \in Path /\ RecoverUrl[StdPath[f]] \in Url
  BY SourceAssumption DEF HInv, HCTypeOK, MainRec
<1>2. PICK todo \in SUBSET Path : main' = [main EXCEPT !.pc = "load", !.todo = todo]
  <2>1. PICK new \in {{}} \cup MetLater(StdPath[f]) :
           main' = [main EXCEPT !.todo = (main.todo \ {f}) \cup new]
    BY DEF LoadFile, Walked, WalkedRenamed
  <2>2. (main.todo \ {f}) \cup new \in SUBSET Path
    BY <1>1, <2>1 DEF MetLater
  <2> QED
    BY <1>0, <1>1, <2>1, <2>2 DEF MainRec
<1>3. disk' \subseteq Path
  BY <1>1 DEF LoadFile, Renamed
<1>4. /\ Leaves /\ OnlyLoads(f) /\ snoop' \subseteq snoop
      /\ Fault \/ UNCHANGED faults
  <2>1. CASE UNCHANGED <<rlvars, snoop>> /\ (Fault \/ UNCHANGED faults)
    <3>1. Leaves
      BY <2>1, NoStep DEF HInv
    <3>2. OnlyLoads(f)
      BY <2>1 DEF OnlyLoads, rlvars, UsedCtnt
    <3> QED
      BY <2>1, <3>1, <3>2
  <2>2. CASE /\ FileKind[f] # "unknown" /\ disk' = Renamed(f)
             /\ AddLoaded(Controller(f), RecoverUrl[StdPath[f]])
    BY <1>0, <1>1, <2>2, AddLoadedLeaves
  <2> QED
    BY <2>1, <2>2 DEF LoadFile
<1>5. HInv'
  BY <1>0, <1>1, <1>2, <1>3, <1>4, LoadMoves
<1> QED
  BY <1>4, <1>5

LEMMA BootHangStep ==
    ASSUME HInv, BootHang
    PROVE  Quiet /\ snoop' \subseteq snoop \cup AdvUrl
<1>0. /\ main.pc = "load" /\ Fault /\ UNCHANGED <<rlvars, proc, call, ctrl, reply, ngx, restarts>>
      /\ main' = [main EXCEPT !.pc = "hung"]
  BY DEF BootHang
<1>1. /\ main \in MainRec /\ main.todo \in SUBSET Path /\ snoop \subseteq Url /\ disk \subseteq Path
      /\ AdvUrl \subseteq Url /\ \A f \in Path : StdPath[f] \in Path
  BY SourceAssumption DEF HInv, HCTypeOK, MainRec
<1>2. PICK todo \in SUBSET Path : todo = main.todo
  BY <1>1
<1>3. main' = [main EXCEPT !.pc = "hung", !.todo = todo]
  BY <1>0, <1>1, <1>2 DEF MainRec
<1>4. snoop' \subseteq snoop \cup AdvUrl /\ disk' \subseteq Path
  BY <1>1 DEF BootHang, Renamed
<1>5. Leaves /\ StoredBefore
  BY <1>0, NoStep DEF HInv
<1>6. HInv'
  BY <1>0, <1>1, <1>3, <1>4, <1>5, LoadMoves
<1> QED
  BY <1>4, <1>5, <1>6 DEF Quiet

LEMMA BootDoneStep ==
    ASSUME HInv, BootDone
    PROVE  Quiet /\ snoop' \subseteq snoop \cup AdvUrl /\ main'.pc = "idle" /\ proc'.pc = "scan"
<1> USE SlotFacts
<1>0. /\ main.pc = "load" /\ UNCHANGED <<rlvars, call, ctrl, reply, ngx, disk, faults, restarts>>
      /\ main' = [main EXCEPT !.pc = "idle"] /\ proc' = [proc EXCEPT !.pc = "scan"]
  BY DEF BootDone
<1>1. main \in MainRec /\ proc \in ProcRec /\ snoop \subseteq Url /\ AdvUrl \subseteq Url
  BY SourceAssumption DEF HInv, HCTypeOK
<1>2. snoop' \subseteq snoop \cup AdvUrl
  BY DEF BootDone
<1>3. Leaves /\ StoredBefore
  BY <1>0, NoStep DEF HInv
<1>4. main' \in MainRec /\ main'.pc = "idle"
  BY <1>0, <1>1 DEF MainRec
<1>5. proc' \in ProcRec /\ proc'.pc = "scan" /\ proc'.c = proc.c
  BY <1>0, <1>1 DEF ProcRec
<1>6. MainOK' /\ ProcOK' /\ CtrlOK'
  BY <1>0, <1>3, <1>4, <1>5, ListStays DEF HInv, MainOK, ProcOK
<1>7. call["main"].st = "none"
  BY <1>0, NoMainCall
<1>8. call["proc"].st = "none"
  BY <1>0, NoProcCall DEF HInv, BootOK, Booting
<1>9. CallOK' /\ BootOK'
  BY <1>0, <1>4, <1>7, <1>8 DEF CallOK, BootOK, Booting, Thread
<1>10. HCTypeOK'
  BY <1>0, <1>1, <1>2, <1>3, <1>4, <1>5, ListStays DEF HInv, HCTypeOK
<1> QED
  BY <1>2, <1>3, <1>4, <1>5, <1>6, <1>9, <1>10 DEF Quiet, HInv, Leaves

(* A download ends.  While the files are loaded the walk may meet the new  *)
(* one.                                                                    *)
LEMMA DownloadEnds ==
    ASSUME HInv, Leaves, NEW p \in Path, ngx[p] > 0, ngx' = [ngx EXCEPT ![p] = @ - 1],
           NEW todo \in SUBSET Path, main' = [main EXCEPT !.todo = todo],
           disk' \subseteq Path, Fault \/ UNCHANGED faults,
           UNCHANGED <<proc, call, ctrl, reply, snoop, restarts>>
    PROVE  HInv'
<1>1. /\ main' \in MainRec /\ main'.pc = main.pc /\ main'.m = main.m
      /\ main'.req = main.req /\ main'.c = main.c
  BY DEF HInv, HCTypeOK, MainRec
<1>2. PICK m : m = main.m
  OBVIOUS
<1>3. \A x \in UsedMgmt : x \in UsedMgmt' /\ (IsCtrlLd(x)' <=> IsCtrlLd(x))
  BY ListStays
<1>4. MainOK'
  <2>1. main.pc \in {"site", "seg", "down", "dl"} => m \in UsedMgmt' /\ ~IsCtrlLd(m)'
    BY <1>2, <1>3 DEF HInv, MainOK
  <2> QED
    BY <1>1, <1>2, <2>1 DEF HInv, MainOK, IsCtrlLd
<1>5. ProcOK' /\ CtrlOK' /\ BootOK'
  BY <1>1, ListStays DEF HInv, BootOK
<1>6. \A x \in Thread : PcOf(x)' = PcOf(x) /\ CallCtnt(x)' = CallCtnt(x)
  BY <1>1 DEF PcOf, CallCtnt
<1>7. CallOK'
  <2> SUFFICES ASSUME NEW x \in Thread, call'[x].st # "none"
               PROVE  PcOf(x)' = "dl" /\ CallCtnt(x)' \in CSlot /\ Parsed(CallCtnt(x))'
    BY DEF CallOK
  <2>1. PICK c : c = CallCtnt(x)
    OBVIOUS
  <2>2. PcOf(x) = "dl" /\ c \in CSlot /\ Parsed(c)
    BY <2>1 DEF HInv, CallOK
  <2>3. Parsed(c)'
    BY <2>2, ListStays
  <2> QED
    BY <1>6, <2>1, <2>2, <2>3 DEF Parsed, IsCtrlLd
<1>8. faults' \in 0 .. MaxFaults
  BY FaultType DEF HInv
<1>9. ngx' \in [Path -> 0 .. MaxInflight]
  <2>1. ngx \in [Path -> 0 .. MaxInflight] /\ MaxInflight \in Nat
    BY SourceAssumption DEF HInv, HCTypeOK
  <2>2. ngx[p] - 1 \in 0 .. MaxInflight
    BY <2>1
  <2> QED
    BY <2>1, <2>2
<1>10. HCTypeOK'
  BY <1>1, <1>8, <1>9, ListStays DEF HInv, HCTypeOK
<1> QED
  BY <1>4, <1>5, <1>7, <1>10 DEF HInv, Leaves

(* What is stored was stored before, or has the path p. *)
StoredOr(p) ==
    \A c \in UsedCtnt' : "STORED" \in ctnt'[c].flag =>
        \/ \E d \in UsedCtnt : "STORED" \in ctnt[d].flag /\ ctnt'[c].localpath = ctnt[d].localpath
        \/ <<p, ctnt'[c].localpath>> \in PathPrefix

LEMMA NgxStoreStep ==
    ASSUME HInv, NEW p \in Path, NgxStore(p)
    PROVE  HInv' /\ Leaves /\ StoredOr(p) /\ OnlyFlags
<1>0. /\ ngx[p] > 0 /\ ngx' = [ngx EXCEPT ![p] = @ - 1] /\ NgxMark(p, "STORED")
      /\ UNCHANGED <<proc, call, ctrl, reply, snoop, restarts>>
      /\ Fault \/ UNCHANGED faults
  BY DEF NgxStore
<1>1. main.todo \in SUBSET Path /\ disk \subseteq Path
  BY DEF HInv, HCTypeOK, MainRec
<1>2. disk' \subseteq Path
  BY <1>1 DEF NgxStore
<1>3. PICK todo \in SUBSET Path : main' = [main EXCEPT !.todo = todo]
  <2>1. PICK new \in IF main.pc = "load" THEN MetLater(p) ELSE {{}} :
           main' = [main EXCEPT !.todo = main.todo \cup new]
    BY DEF NgxStore
  <2>2. main.todo \cup new \in SUBSET Path
    BY <1>1, <2>1 DEF MetLater
  <2> QED
    BY <2>1, <2>2
<1>4. Leaves /\ StoredOr(p) /\ OnlyFlags
  BY <1>0, MarkLeaves DEF HInv, Flag, StoredOr
<1>5. HInv'
  BY <1>0, <1>2, <1>3, <1>4, DownloadEnds
<1> QED
  BY <1>4, <1>5

LEMMA NgxFailStep ==
    ASSUME HInv, NEW p \in Path, NgxFail(p)
    PROVE  Quiet /\ OnlyFlags
<1>0. /\ ngx[p] > 0 /\ ngx' = [ngx EXCEPT ![p] = @ - 1]
      /\ NgxMark(p, "D_FAIL") \/ UNCHANGED rlvars
      /\ UNCHANGED <<main, proc, call, ctrl, reply, snoop, disk, restarts>> /\ Fault
  BY DEF NgxFail, threadvars
<1>1. main \in MainRec /\ main.todo \in SUBSET Path /\ disk' \subseteq Path
  BY <1>0 DEF HInv, HCTypeOK, MainRec
<1>2. PICK todo \in SUBSET Path : todo = main.todo
  BY <1>1
<1>3. main' = [main EXCEPT !.todo = todo]
  BY <1>0, <1>1, <1>2 DEF MainRec
<1>4. Leaves /\ StoredBefore /\ OnlyFlags
  BY <1>0, NoStep, MarkLeaves DEF HInv, Flag, StoredBefore, rlvars, UsedCtnt, OnlyFlags
<1>5. HInv'
  BY <1>0, <1>1, <1>3, <1>4, DownloadEnds
<1> QED
  BY <1>4, <1>5 DEF Quiet

(* The threads as they start, on a list just made. *)
Started ==
    /\ Inv /\ ctnt = [c \in CSlot |-> ZeroCtnt] /\ UsedCtnt = {}
    /\ main = MainStart /\ proc = ProcStart
    /\ call = [t \in Thread |-> NoCall] /\ ctrl = [s \in Site |-> NULL]
    /\ reply \in [Request -> {"none", "ok", "error"}] /\ snoop \subseteq Url
    /\ disk \subseteq Path /\ ngx \in [Path -> 0 .. MaxInflight]
    /\ faults \in 0 .. MaxFaults /\ restarts \in 0 .. MaxRestarts

LEMMA StartInv == Started => HInv
<1> SUFFICES ASSUME Started PROVE HInv
  OBVIOUS
<1> USE SlotFacts DEF Started
<1>1. ListInv
  BY DEF ListInv, FreeBlank, LoadedStored, PathOfUrl, ZeroCtnt
<1>2. main \in MainRec /\ main.pc = "boot"
  <2>1. <<>> \in Seq(Url) /\ {} \in SUBSET Path
    OBVIOUS
  <2> QED
    BY <2>1 DEF MainStart, MainRec
<1>3. proc \in ProcRec /\ proc.pc = "off"
  BY DEF ProcStart, ProcRec
<1>4. call \in [Thread -> CallRec] /\ \A t \in Thread : call[t].st = "none"
  BY DEF NoCall, CallRec
<1>5. HCTypeOK
  BY <1>2, <1>3, <1>4 DEF HCTypeOK, Inv
<1> QED
  BY <1>1, <1>2, <1>3, <1>4, <1>5 DEF HInv, MainOK, ProcOK, CallOK, CtrlOK, BootOK

LEMMA HCInitInv == HCInit => HInv /\ UsedCtnt = {}
<1> SUFFICES ASSUME HCInit PROVE HInv /\ UsedCtnt = {}
  OBVIOUS
<1>1. Inv /\ UsedCtnt = {}
  BY InitInv, SlotFacts, PoolInitSound DEF HCInit, Init, UsedCtnt
<1>2. /\ reply \in [Request -> {"none", "ok", "error"}] /\ snoop \subseteq Url
      /\ disk \subseteq Path /\ ngx \in [Path -> 0 .. MaxInflight]
      /\ faults \in 0 .. MaxFaults /\ restarts \in 0 .. MaxRestarts
  BY SourceAssumption DEF HCInit
<1> QED
  BY <1>1, <1>2, StartInv DEF HCInit, Init, Started

LEMMA RestartStep ==
    ASSUME HInv, Restart
    PROVE  HInv' /\ Reinit /\ UsedCtnt' = {}
<1>1. Inv' /\ UsedCtnt' = {} /\ Reinit
  BY ReinitInv, SlotFacts, PoolInitSound DEF Restart, Reinit, UsedCtnt
<1>2. /\ (reply \in [Request -> {"none", "ok", "error"}] /\ snoop \subseteq Url)'
      /\ (disk \subseteq Path /\ ngx \in [Path -> 0 .. MaxInflight])'
      /\ (faults \in 0 .. MaxFaults)'
  BY DEF Restart, envvars, HInv, HCTypeOK
<1>3. restarts' \in 0 .. MaxRestarts
  BY SourceAssumption DEF Restart, HInv, HCTypeOK
<1>4. (/\ ctnt = [c \in CSlot |-> ZeroCtnt] /\ main = MainStart /\ proc = ProcStart
       /\ call = [t \in Thread |-> NoCall] /\ ctrl = [s \in Site |-> NULL])'
  BY DEF Restart, Reinit
<1>5. Started'
  BY <1>1, <1>2, <1>3, <1>4 DEF Started
<1>6. (Started => HInv)'
  BY StartInv, PTL
<1> QED
  BY <1>1, <1>5, <1>6

(* A step of the client, of Nginx or of the Snooping Module.  All but a    *)
(* restart leave the list as a call does.                                  *)
LEMMA HCStep ==
    ASSUME HInv, [HCNext]_vars
    PROVE  HInv' /\ [Next]_rlvars /\ (Restart \/ Leaves)
<1>1. CASE Boot
  BY <1>1, BootCtrlStep, BootDoneStep, BootHangStep, LoadFileStep DEF Boot, Quiet, Leaves
<1>2. CASE Receive
  BY <1>2, DoParseStep, DoDownStep DEF Receive, Quiet, Leaves
<1>3. ASSUME NEW t \in Thread, Call(t)
      PROVE  HInv' /\ [Next]_rlvars /\ (Restart \/ Leaves)
  BY <1>3, SohuSessionStep, NgxRequestStep, CallReturnStep DEF Call, Quiet, Leaves
<1>4. CASE Serve
  BY <1>3, <1>4, GetListStep, NextSegStep, ParseDoneStep, DownCtntStep, DownloadDoneStep
     DEF Serve, Quiet, Leaves, Thread
<1>5. CASE Process
  BY <1>3, <1>5, ProcScanStep, ProcCtntStep, ProcListEndStep, ProcRetriedStep, ProcAddedStep
     DEF Process, Quiet, Leaves, Thread
<1>6. CASE SnoopAdd
  BY <1>6, SnoopAddStep DEF Quiet, Leaves
<1>7. ASSUME NEW p \in Path, NgxEnd(p)
      PROVE  HInv' /\ [Next]_rlvars /\ (Restart \/ Leaves)
  BY <1>7, NgxStoreStep, NgxFailStep DEF NgxEnd, Quiet, Leaves
<1>8. CASE Restart
  BY <1>8, RestartStep DEF Next
<1>9. CASE UNCHANGED vars
  <2>1. /\ UNCHANGED <<rlvars, mgmt, ctnt, mpool, cpool, main, proc, call, ctrl, reply>>
        /\ UNCHANGED <<snoop, ngx, disk, faults, restarts>>
    BY <1>9 DEF vars, rlvars, threadvars, envvars
  <2>2. Leaves
    BY <2>1, NoStep DEF HInv
  <2>3. HCTypeOK' /\ MainOK' /\ ProcOK' /\ CtrlOK' /\ BootOK'
    BY <2>1, <2>2, ListStays DEF HInv, HCTypeOK, BootOK
  <2>4. CallOK'
    BY <2>1 DEF HInv, CallOK, PcOf, CallCtnt, Parsed, UsedCtnt, IsCtrlLd
  <2> QED
    BY <2>2, <2>3, <2>4 DEF HInv, Leaves
<1> QED
  BY <1>1, <1>2, <1>4, <1>5, <1>6, <1>7, <1>8, <1>9 DEF HCNext

-----------------------------------------------------------------------------
(* THEOREMS *)

THEOREM HInvAlways == HCSpec => []HInv
  BY HCInitInv, HCStep, PTL DEF HCSpec

(* The threads, the calls they are in and what Nginx and the Snooping      *)
(* Module know always have a value their code can interpret; in particular *)
(* no pointer of a thread ever leaves the arrays of sc_res_list_t.         *)
THEOREM ClientTyped == HCSpec => []HCTypeOK
<1>1. HInv => HCTypeOK
  BY DEF HInv
<1> QED
  BY <1>1, HInvAlways, PTL

(* Whatever the threads, Nginx and restarts do, in whatever order, they do *)
(* to the resource list what a sequence of whole calls of sc_resource.c    *)
(* does, each with arguments it may be called with; stale pointers of the  *)
(* walk included.                                                          *)
THEOREM ClientKeepsDiscipline == HCSpec => ListDiscipline
<1>1. HCInit => Init
  BY DEF HCInit
<1>2. HInv /\ [HCNext]_vars => [Next]_rlvars
  BY HCStep
<1> QED
  BY <1>1, <1>2, HInvAlways, PTL DEF HCSpec, ListDiscipline, Spec

(* So the child lists stay sound while the threads interleave: the walk of *)
(* sc_res_list_process_ctnt from the head of a list ends.                  *)
THEOREM ClientFamilies == HCSpec => []FamilyOK
  BY ClientKeepsDiscipline, FamiliesCorrect, PTL DEF ListDiscipline

-----------------------------------------------------------------------------
(* WHAT IS STORED HAS ITS FILE *)

(* The names files can have: those found at the first start, and those     *)
(* downloads are given.                                                    *)
FileNames == Path \cap (DiskFiles \cup {LocalPathOf[su] : su \in Site \X Url})

(* Nothing outside the client gets in the way of its files: renaming the   *)
(* temporary file of a finished download succeeds, no local path is the    *)
(* beginning of another, no file has a pure-vid name, and the URL          *)
(* recovered from a name leads back to that name or to none.               *)
Tidy ==
    /\ RenameMayFail = FALSE
    /\ PathPrefix = {<<p, p>> : p \in Path}
    /\ \A p \in FileNames :
          /\ StdPath[p] = p
          /\ FileKind[p] # "unknown" => LocalPathOf[<<FileSite(p), RecoverUrl[p]>>] \in {p, NoPath}

(* While files are loaded, the list holds those already met and no other.  *)
LoadOK ==
    /\ main.pc = "boot" => UsedCtnt = {}
    /\ main.pc = "load" =>
          /\ main.todo \subseteq disk
          /\ \A c \in UsedCtnt : IsCtrlLd(ctnt[c].parent) /\ ctnt[c].localpath \notin main.todo
    /\ disk \subseteq FileNames
    /\ \A p \in Path : ngx[p] > 0 => p \in FileNames

(* Between two steps of the load, or after it: what the two threads leave. *)
Settled ==
    /\ Quiet /\ main.pc \notin Booting /\ main'.pc \notin Booting /\ UNCHANGED disk
    /\ \A p \in Path : ngx'[p] > 0 => ngx[p] > 0 \/ \E c \in UsedCtnt : ctnt[c].localpath = p
    /\ snoop' \subseteq snoop \cup (IF proc.pc = "add" THEN {proc.u} ELSE {})
    /\ proc'.pc = "add" =>
          \/ proc.pc = "add" /\ proc'.u = proc.u
          \/ \E c \in UsedCtnt : "STORED" \in ctnt[c].flag /\ proc'.u = ctnt[c].url

LEMMA CallSettled ==
    ASSUME HInv, NEW t \in Thread, Call(t)
    PROVE  Settled
<1>1. call[t].st # "none" /\ UNCHANGED <<main, proc, snoop, disk>>
  BY DEF Call, SohuSession, NgxRequest, CallReturn, envvars
<1>2. main.pc \notin Booting
  BY <1>1 DEF HInv, CallOK, BootOK, PcOf, Thread, Booting
<1>3. Quiet
  BY SohuSessionStep, NgxRequestStep, CallReturnStep DEF Call
<1>4. \A p \in Path : ngx'[p] > 0 => ngx[p] > 0 \/ \E c \in UsedCtnt : ctnt[c].localpath = p
  <2>1. CASE NgxRequest(t)
    BY <2>1, NgxRequestStep
  <2>2. CASE SohuSession(t) \/ CallReturn(t)
    BY <2>2 DEF SohuSession, CallReturn, envvars
  <2> QED
    BY <2>1, <2>2 DEF Call
<1> QED
  BY <1>1, <1>2, <1>3, <1>4 DEF Settled

(* A step of the main thread that serves a request *)
LEMMA MainSettled ==
    ASSUME HInv, Receive \/ GetList \/ NextSeg \/ ParseDone \/ DownCtnt \/ DownloadDone
    PROVE  Settled
<1>1. Quiet
  BY DoParseStep, DoDownStep, GetListStep, NextSegStep, ParseDoneStep, DownCtntStep, DownloadDoneStep
     DEF Receive
<1>2. UNCHANGED <<proc, ngx, snoop, disk>>
  BY DEF Receive, DoParse, DoDown, GetList, NextSeg, ParseDone, DownCtnt, DownloadDone, envvars
<1>3. main.pc \notin Booting
  BY DEF Receive, DoParse, DoDown, GetList, NextSeg, ParseDone, DownCtnt, DownloadDone, Booting
<1>4. main \in MainRec
  BY DEF HInv, HCTypeOK
<1>5. \A u, status : Answer(u, status) => main'.pc = "idle"
  BY DEF Answer, MainStart
<1>6. main'.pc \notin Booting
  <2>1. CASE Receive
    BY <1>4, <1>5, <2>1 DEF Receive, DoParse, DoDown, MainRec, Booting
  <2>2. CASE GetList
    BY <1>4, <1>5, <2>2 DEF GetList, MainRec, Booting
  <2>3. CASE NextSeg
    BY <1>3, <1>4, <1>5, <2>3 DEF NextSeg, PassOver, MainRec, Booting
  <2>4. CASE ParseDone
    BY <1>5, <2>4 DEF ParseDone, Booting
  <2>5. CASE DownCtnt
    BY <1>4, <1>5, <2>5 DEF DownCtnt, MainRec, Booting
  <2>6. CASE DownloadDone
    BY <1>4, <1>5, <2>6 DEF DownloadDone, MainRec, Booting
  <2> QED
    BY <2>1, <2>2, <2>3, <2>4, <2>5, <2>6
<1> QED
  BY <1>1, <1>2, <1>3, <1>6 DEF Settled

LEMMA ProcessSettled ==
    ASSUME HInv, ProcScan \/ ProcCtnt \/ ProcListEnd \/ ProcRetried \/ ProcAdded \/ SnoopAdd
    PROVE  Settled
<1> USE SlotFacts
<1>1. Quiet
  BY ProcScanStep, ProcCtntStep, ProcListEndStep, ProcRetriedStep, ProcAddedStep, SnoopAddStep
<1>2. UNCHANGED <<main, ngx, disk>>
  BY DEF ProcScan, ProcCtnt, ProcListEnd, ProcRetried, ProcAdded, SnoopAdd, envvars
<1>3. proc.pc # "off" /\ proc \in ProcRec
  BY DEF ProcScan, ProcCtnt, ProcListEnd, ProcRetried, ProcAdded, SnoopAdd, HInv, HCTypeOK
<1>4. main.pc \notin Booting
  BY <1>3 DEF HInv, BootOK
<1>5. snoop' \subseteq snoop \cup (IF proc.pc = "add" THEN {proc.u} ELSE {})
  <2>1. CASE SnoopAdd
    BY <2>1 DEF SnoopAdd
  <2>2. CASE ~SnoopAdd
    BY <2>2 DEF ProcScan, ProcCtnt, ProcListEnd, ProcRetried, ProcAdded, envvars
  <2> QED
    BY <2>1, <2>2
<1>6. Advance => proc'.pc = "walk"
  BY DEF Advance, ProcStart
<1>7. ASSUME proc'.pc = "add"
      PROVE  \E c \in UsedCtnt : "STORED" \in ctnt[c].flag /\ proc'.u = ctnt[c].url
  <2>1. ~ProcScan
    BY <1>3, <1>7 DEF ProcScan, ProcRec
  <2>2. ~ProcListEnd
    BY <1>3, <1>7 DEF ProcListEnd, ProcRec
  <2>3. ~ProcRetried /\ ~ProcAdded /\ ~ProcSkip
    BY <1>6, <1>7 DEF ProcRetried, ProcAdded, ProcSkip
  <2>4. ~SnoopAdd
    BY <1>3, <1>7 DEF SnoopAdd, ProcRec
  <2>5. \A why : ~Retry(why)
    BY <1>3, <1>7 DEF Retry, ProcRec
  <2>6. ProcCtnt /\ ProcNotify
    BY <2>1, <2>2, <2>3, <2>4, <2>5 DEF ProcCtnt, ProcRetryIFail, ProcRetryDFail
  <2>7. PICK c \in CSlot : c = proc.c
    BY <1>3, <2>6 DEF ProcCtnt, ProcRec
  <2>8. ctnt[c].url # NoUrl /\ "STORED" \in ctnt[c].flag /\ proc'.u = ctnt[c].url
    BY <1>3, <2>6, <2>7 DEF ProcNotify, ProcRec
  <2>9. c \in UsedCtnt
    BY <2>8 DEF HInv, ListInv, FreeBlank
  <2> QED
    BY <2>8, <2>9
<1>8. ngx' = ngx /\ main'.pc \notin Booting
  BY <1>2, <1>4
<1> QED
  BY <1>1, <1>2, <1>4, <1>5, <1>7, <1>8 DEF Settled

SInv == StoredHasFile /\ LoadOK

(* The name of a content in use is one of the names files can have. *)
LEMMA NameOfCtnt ==
    ASSUME HInv, NEW c \in UsedCtnt
    PROVE  ctnt[c].localpath \in FileNames
<1>1. PICK s \in Site : ctnt[c].localpath = LocalPathOf[<<s, ctnt[c].url>>]
  BY DEF HInv, ListInv, PathOfUrl
<1>2. <<s, ctnt[c].url>> \in Site \X Url /\ ctnt[c].localpath \in Path
  BY DEF HInv, ListInv, PathOfUrl
<1> QED
  BY <1>1, <1>2 DEF FileNames

LEMMA SettledStores ==
    ASSUME HInv, SInv, Settled
    PROVE  SInv'
<1>1. StoredHasFile'
  BY DEF SInv, StoredHasFile, Settled, Quiet, StoredBefore
<1>2. \A p \in Path : ngx'[p] > 0 => p \in FileNames
  BY NameOfCtnt DEF Settled, SInv, LoadOK
<1>3. LoadOK'
  BY <1>2 DEF Settled, SInv, LoadOK, Booting, FileNames
<1> QED
  BY <1>1, <1>3 DEF SInv

(* A file is loaded.  What is stored so far was met before, so it is not   *)
(* this file that a duplicate costs.                                       *)
LEMMA LoadStores ==
    ASSUME Tidy, HInv, SInv, NEW f \in Path, LoadFile(f)
    PROVE  SInv' /\ (disk \subseteq disk' \/ IsDuplicate(f))
<1> USE SlotFacts
<1>1. /\ main.pc = "load" /\ f \in main.todo /\ main.todo \subseteq disk /\ disk \subseteq FileNames
      /\ \A c \in UsedCtnt : IsCtrlLd(ctnt[c].parent) /\ ctnt[c].localpath \notin main.todo
      /\ UNCHANGED <<ctrl, ngx>>
  BY DEF LoadFile, SInv, LoadOK
<1>2. /\ StdPath[f] = f
      /\ FileKind[f] # "unknown" => LocalPathOf[<<FileSite(f), RecoverUrl[f]>>] \in {f, NoPath}
  BY <1>1 DEF Tidy
<1>3. Renamed(f) = disk
  BY <1>1, <1>2 DEF Renamed
<1>4. main'.pc = "load" /\ main'.todo = main.todo \ {f}
  <2>1. main' = [main EXCEPT !.todo = (main.todo \ {f}) \cup {}]
    BY <1>2 DEF LoadFile, Walked, WalkedRenamed
  <2> QED
    BY <1>1, <2>1 DEF HInv, HCTypeOK, MainRec
<1>5. disk' = disk \/ (disk' = disk \ {f} /\ IsDuplicate(f))
  BY <1>2, <1>3 DEF LoadFile
<1>6. HInv' /\ Leaves /\ OnlyLoads(f)
  BY LoadFileStep
<1>7. \A m \in UsedMgmt : m \in UsedMgmt' /\ (IsCtrlLd(m)' <=> IsCtrlLd(m))
  BY <1>6, ListStays
<1>8. ASSUME NEW c \in UsedCtnt'
      PROVE  /\ IsCtrlLd(ctnt[c].parent)' /\ ctnt'[c].localpath \notin main'.todo
             /\ ctnt'[c].localpath \in disk'
  <2>1. CASE c \in UsedCtnt /\ ctnt'[c] = ctnt[c]
    <3>1. ctnt[c].parent \in UsedMgmt /\ IsCtrlLd(ctnt[c].parent)
      BY <1>1, <2>1 DEF HInv, ListInv, Inv, FamilyOK
    <3>2. PICK m : m = ctnt[c].parent
      OBVIOUS
    <3>3. IsCtrlLd(m)'
      BY <1>7, <3>1, <3>2
    <3>4. ctnt[c].localpath \in disk /\ ctnt[c].localpath \notin main.todo
      BY <1>1, <2>1, <3>1 DEF HInv, ListInv, LoadedStored, SInv, StoredHasFile
    <3> QED
      BY <1>1, <1>4, <1>5, <2>1, <3>2, <3>3, <3>4 DEF IsCtrlLd
  <2>2. CASE /\ FileKind[f] # "unknown" /\ disk' = Renamed(f)
             /\ ctnt'[c].parent = Controller(f)
             /\ ctnt'[c].localpath = LocalPathOf[<<FileSite(f), RecoverUrl[StdPath[f]]>>]
    <3>1. ctnt'[c].localpath \in Path
      BY <1>6 DEF HInv, ListInv, PathOfUrl
    <3>2. ctnt'[c].localpath = f
      BY <1>2, <2>2, <3>1, UrlAssumption
    <3>3. PICK m, s : s = FileSite(f) /\ m = ctrl[s]
      OBVIOUS
    <3>4. s \in Site /\ m = Controller(f)
      BY <3>3 DEF FileSite, Controller, Site
    <3>5. m \in UsedMgmt /\ IsCtrlLd(m)
      BY <1>1, <3>3, <3>4 DEF HInv, MainOK, CtrlOK
    <3>6. IsCtrlLd(m)'
      BY <1>7, <3>5
    <3> QED
      BY <1>1, <1>3, <1>4, <2>2, <3>2, <3>4, <3>6 DEF IsCtrlLd
  <2> QED
    BY <1>6, <2>1, <2>2 DEF OnlyLoads
<1>9. StoredHasFile'
  BY <1>8 DEF StoredHasFile
<1>10. LoadOK'
  <2>1. main'.todo \subseteq disk' /\ disk' \subseteq FileNames
    BY <1>1, <1>4, <1>5
  <2> QED
    BY <1>1, <1>4, <1>8, <2>1 DEF SInv, LoadOK, FileNames
<1> QED
  BY <1>5, <1>9, <1>10 DEF SInv

(* A download ends: the file has its name before the content is marked. *)
LEMMA NgxStoreStores ==
    ASSUME Tidy, HInv, SInv, NEW p \in Path, NgxStore(p)
    PROVE  SInv' /\ disk \subseteq disk'
<1> USE SlotFacts
<1>1. /\ ngx[p] > 0 /\ ngx' = [ngx EXCEPT ![p] = @ - 1] /\ disk' = disk \cup {p}
      /\ ngx \in [Path -> 0 .. MaxInflight] /\ MaxInflight \in Nat
  BY SourceAssumption DEF NgxStore, Tidy, HInv, HCTypeOK
<1>2. /\ HInv' /\ Leaves /\ StoredOr(p) /\ UsedCtnt' = UsedCtnt
      /\ \A c \in CSlot : ctnt'[c].localpath = ctnt[c].localpath /\ ctnt'[c].parent = ctnt[c].parent
  BY NgxStoreStep DEF OnlyFlags
<1>3. StoredHasFile'
  <2>1. \A q : <<p, q>> \in PathPrefix => q = p
    BY DEF Tidy
  <2> QED
    BY <1>1, <1>2, <2>1 DEF StoredOr, SInv, StoredHasFile
<1>4. p \in FileNames /\ \A q \in Path : ngx'[q] > 0 => q \in FileNames
  BY <1>1 DEF SInv, LoadOK
<1>5. main \in MainRec
  BY DEF HInv, HCTypeOK
<1>6. PICK new \in IF main.pc = "load" THEN MetLater(p) ELSE {{}} :
         main' = [main EXCEPT !.todo = @ \cup new]
  BY DEF NgxStore
<1>7. main'.pc = main.pc /\ main'.todo = main.todo \cup new
  BY <1>5, <1>6 DEF MainRec
<1>8. ASSUME main'.pc = "load"
      PROVE  /\ main'.todo \subseteq disk'
             /\ \A c \in UsedCtnt' :
                   IsCtrlLd(ctnt[c].parent)' /\ ctnt'[c].localpath \notin main'.todo
  <2>1. /\ main.pc = "load" /\ main.todo \subseteq disk
        /\ \A c \in UsedCtnt : IsCtrlLd(ctnt[c].parent) /\ ctnt[c].localpath \notin main.todo
    BY <1>7, <1>8 DEF SInv, LoadOK
  <2>2. new = {} \/ (new = {p} /\ p \notin disk)
    BY <1>6, <2>1 DEF MetLater
  <2>3. ASSUME NEW c \in UsedCtnt
        PROVE  IsCtrlLd(ctnt[c].parent)' /\ ctnt'[c].localpath \notin main'.todo
    <3>1. ctnt[c].parent \in UsedMgmt /\ IsCtrlLd(ctnt[c].parent)
      BY <2>1 DEF HInv, ListInv, Inv, FamilyOK
    <3>2. ctnt[c].localpath \in disk /\ ctnt[c].localpath \notin main.todo
      BY <2>1, <3>1 DEF HInv, ListInv, LoadedStored, SInv, StoredHasFile
    <3>3. PICK m : m = ctnt[c].parent
      OBVIOUS
    <3>4. IsCtrlLd(m)'
      BY <1>2, <3>1, <3>3, ListStays
    <3> QED
      BY <1>2, <1>7, <2>2, <3>2, <3>3, <3>4 DEF IsCtrlLd
  <2> QED
    BY <1>1, <1>2, <1>7, <2>1, <2>2, <2>3
<1>9. LoadOK'
  BY <1>1, <1>2, <1>4, <1>7, <1>8 DEF SInv, LoadOK, FileNames
<1> QED
  BY <1>1, <1>3, <1>9 DEF SInv

(* The other steps of the start-up, a download that breaks off, and a      *)
(* restart take no file away.                                              *)
LEMMA OtherStores ==
    ASSUME Tidy, HInv, SInv,
           \/ BootCtrl \/ BootDone \/ BootHang \/ Restart \/ UNCHANGED vars
           \/ \E p \in Path : NgxFail(p)
    PROVE  SInv' /\ disk \subseteq disk'
<1> USE SlotFacts
<1>0. main \in MainRec /\ \A p \in Path : ngx[p] > 0 => p \in FileNames
  BY DEF SInv, LoadOK, HInv, HCTypeOK
<1>1. CASE BootCtrl
  <2>1. UsedCtnt = {} /\ UsedCtnt' = {} /\ UNCHANGED <<ngx, disk>>
    BY <1>1, BootCtrlStep DEF BootCtrl, SInv, LoadOK, envvars
  <2>2. main'.pc = "load" => main'.todo = disk
    BY <1>0, <1>1 DEF BootCtrl, MainRec
  <2> QED
    BY <2>1, <2>2 DEF SInv, LoadOK, StoredHasFile, FileNames
<1>2. CASE BootDone
  <2>1. Quiet /\ main'.pc = "idle"
    BY <1>2, BootDoneStep
  <2>2. UNCHANGED <<ngx, disk>>
    BY <1>2 DEF BootDone
  <2> QED
    BY <2>1, <2>2 DEF SInv, LoadOK, StoredHasFile, Quiet, StoredBefore, FileNames
<1>3. CASE BootHang
  <2>1. Quiet
    BY <1>3, BootHangStep
  <2>2. main'.pc = "hung" /\ UNCHANGED ngx
    BY <1>0, <1>3 DEF BootHang, MainRec
  <2>3. disk' = disk
    <3>1. \A f \in main.todo : f \in disk /\ StdPath[f] = f
      BY <1>3 DEF BootHang, SInv, LoadOK, Tidy
    <3>2. \A f \in main.todo : Renamed(f) = disk
      BY <3>1 DEF Renamed
    <3> QED
      BY <1>3, <3>2 DEF BootHang
  <2> QED
    BY <2>1, <2>2, <2>3 DEF SInv, LoadOK, StoredHasFile, Quiet, StoredBefore, FileNames
<1>4. CASE Restart
  <2>1. UsedCtnt' = {} /\ UNCHANGED <<ngx, disk>> /\ main'.pc = "boot"
    BY <1>4, RestartStep DEF Restart, envvars, MainStart
  <2> QED
    BY <2>1 DEF SInv, LoadOK, StoredHasFile, FileNames
<1>5. CASE UNCHANGED vars
  BY <1>5 DEF vars, rlvars, threadvars, envvars, SInv, LoadOK, StoredHasFile, UsedCtnt,
              FileNames, IsCtrlLd
<1>6. ASSUME NEW p \in Path, NgxFail(p)
      PROVE  SInv' /\ disk \subseteq disk'
  <2>1. UNCHANGED <<main, disk>> /\ ngx[p] > 0 /\ ngx' = [ngx EXCEPT ![p] = @ - 1]
    BY <1>6 DEF NgxFail, threadvars
  <2>2. Quiet /\ OnlyFlags
    BY <1>6, NgxFailStep
  <2>3. \A q \in Path : ngx'[q] > 0 => q \in FileNames
    BY <1>0, <2>1 DEF HInv, HCTypeOK
  <2>4. ASSUME NEW c \in UsedCtnt, IsCtrlLd(ctnt[c].parent)
        PROVE  IsCtrlLd(ctnt[c].parent)'
    <3>1. PICK m : m = ctnt[c].parent
      OBVIOUS
    <3>2. m \in UsedMgmt
      BY <3>1 DEF HInv, ListInv, Inv, FamilyOK
    <3>3. IsCtrlLd(m)'
      BY <2>2, <2>4, <3>1, <3>2, ListStays DEF Quiet
    <3> QED
      BY <2>2, <3>1, <3>3 DEF OnlyFlags, IsCtrlLd
  <2>5. LoadOK'
    BY <2>1, <2>2, <2>3, <2>4 DEF SInv, LoadOK, OnlyFlags, FileNames
  <2>6. StoredHasFile'
    BY <2>1, <2>2 DEF SInv, StoredHasFile, Quiet, StoredBefore
  <2> QED
    BY <2>1, <2>5, <2>6 DEF SInv
<1> QED
  BY <1>1, <1>2, <1>3, <1>4, <1>5, <1>6

LEMMA StoredStep ==
    ASSUME Tidy, HInv, SInv, [HCNext]_vars
    PROVE  SInv'
<1>1. CASE \E f \in Path : LoadFile(f)
  BY <1>1, LoadStores
<1>2. CASE \E p \in Path : NgxStore(p)
  BY <1>2, NgxStoreStores
<1>3. CASE Receive \/ Serve \/ Process \/ SnoopAdd
  BY <1>3, CallSettled, MainSettled, ProcessSettled, SettledStores DEF Serve, Process, Thread
<1>4. CASE \/ BootCtrl \/ BootDone \/ BootHang \/ Restart \/ UNCHANGED vars
           \/ \E p \in Path : NgxFail(p)
  BY <1>4, OtherStores
<1> QED
  BY <1>1, <1>2, <1>3, <1>4 DEF HCNext, Boot, NgxEnd

LEMMA StoredInit == ASSUME HCInit PROVE SInv
<1>1. UsedCtnt = {} /\ main.pc = "boot" /\ disk = DiskFiles /\ ngx = [p \in Path |-> 0]
  BY HCInitInv DEF HCInit, MainStart
<1>2. disk \subseteq FileNames
  BY <1>1, SourceAssumption DEF FileNames
<1> QED
  BY <1>1, <1>2 DEF SInv, StoredHasFile, LoadOK

(* In a directory whose names and renames are in order, a content marked   *)
(* STORED has its file, through interleaved downloads, copies from loaded  *)
(* files, duplicates removed at start-up and restarts.                     *)
THEOREM StoredHasItsFile ==
    ASSUME Tidy
    PROVE  HCSpec => []StoredHasFile
<1>1. HCInit => HInv /\ SInv
  BY HCInitInv, StoredInit
<1>2. HInv /\ SInv /\ [HCNext]_vars => HInv' /\ SInv'
  BY HCStep, StoredStep
<1>3. SInv => StoredHasFile
  BY DEF SInv
<1> QED
  BY <1>1, <1>2, <1>3, PTL DEF HCSpec

-----------------------------------------------------------------------------
(* WHAT IS REDIRECTED CAN BE SERVED *)

(* The start-up deletes a file as a duplicate when a loaded has its vid.   *)
(* That does no harm when the Snooping Module knows nothing yet; or when a *)
(* vid stands in the URL of one file name only, so that nothing is ever    *)
(* deleted.                                                                *)
NothingLost ==
    \/ MaxRestarts = 0
    \/ \A p \in Path, u \in Url, s \in Site :
          <<p, u>> \in DupOf => LocalPathOf[<<s, u>>] \in {p, NoPath}

Servable(u) == \E s \in Site : LocalPathOf[<<s, u>>] \in disk

RInv ==
    /\ RedirectServable
    /\ proc.pc = "add" => Servable(proc.u)
    /\ MaxRestarts = 0 /\ main.pc \in {"boot", "load"} => snoop \subseteq AdvUrl

(* Nothing is told and no file is lost. *)
LEMMA NothingTold ==
    ASSUME RInv, disk \subseteq disk', snoop' \subseteq snoop \cup AdvUrl,
           proc'.pc = "add" => proc.pc = "add" /\ proc'.u = proc.u,
           MaxRestarts = 0 /\ main'.pc \in {"boot", "load"} =>
               main.pc \in {"boot", "load"} /\ snoop' \subseteq snoop
    PROVE  RInv'
  BY DEF RInv, RedirectServable, Servable

LEMMA SettledServes ==
    ASSUME HInv, SInv, RInv, Settled
    PROVE  RInv'
<1>1. \A c \in UsedCtnt : "STORED" \in ctnt[c].flag => Servable(ctnt[c].url)
  BY DEF SInv, StoredHasFile, HInv, ListInv, PathOfUrl, Servable
<1>2. /\ UNCHANGED disk /\ main'.pc \notin Booting
      /\ snoop' \subseteq snoop \cup (IF proc.pc = "add" THEN {proc.u} ELSE {})
      /\ proc'.pc = "add" =>
            \/ proc.pc = "add" /\ proc'.u = proc.u
            \/ \E c \in UsedCtnt : "STORED" \in ctnt[c].flag /\ proc'.u = ctnt[c].url
  BY DEF Settled
<1>3. proc'.pc = "add" => Servable(proc'.u)
  BY <1>1, <1>2 DEF RInv
<1>4. \A u \in snoop' \ AdvUrl : Servable(u)
  BY <1>2 DEF RInv, RedirectServable, Servable
<1> QED
  BY <1>2, <1>3, <1>4 DEF RInv, RedirectServable, Servable, Booting

LEMMA LoadServes ==
    ASSUME Tidy, NothingLost, HInv, SInv, RInv, NEW f \in Path, LoadFile(f)
    PROVE  RInv'
<1>1. /\ main.pc = "load" /\ f \in main.todo /\ f \in FileNames /\ UNCHANGED proc
      /\ \A c \in UsedCtnt : ctnt[c].localpath \notin main.todo
  BY DEF LoadFile, SInv, LoadOK
<1>2. proc.pc = "off" /\ snoop' \subseteq snoop
  BY <1>1, LoadFileStep DEF HInv, BootOK, Booting
<1>3. CASE disk \subseteq disk'
  BY <1>1, <1>2, <1>3, NothingTold
<1>4. CASE MaxRestarts = 0
  BY <1>1, <1>2, <1>4 DEF RInv, RedirectServable
<1>5. CASE IsDuplicate(f) /\ MaxRestarts # 0
  <2>1. StdPath[f] = f
    BY <1>1 DEF Tidy
  <2>2. PICK c \in UsedCtnt : <<f, ctnt[c].url>> \in DupOf
    BY <1>5, <2>1 DEF IsDuplicate, Children
  <2>3. PICK s \in Site : ctnt[c].localpath = LocalPathOf[<<s, ctnt[c].url>>]
    BY DEF HInv, ListInv, PathOfUrl
  <2>4. ctnt[c].url \in Url /\ ctnt[c].localpath \in Path
    BY DEF HInv, ListInv, PathOfUrl
  <2>5. ctnt[c].localpath \in {f, NoPath}
    BY <1>5, <2>2, <2>3, <2>4 DEF NothingLost
  <2> QED
    BY <1>1, <2>4, <2>5, UrlAssumption
<1> QED
  BY <1>3, <1>4, <1>5, LoadStores

LEMMA ServesStep ==
    ASSUME Tidy, NothingLost, HInv, SInv, RInv, [HCNext]_vars
    PROVE  RInv'
<1>0. main \in MainRec
  BY DEF HInv, HCTypeOK
<1>1. CASE \E f \in Path : LoadFile(f)
  BY <1>1, LoadServes
<1>2. CASE Receive \/ Serve \/ Process \/ SnoopAdd
  BY <1>2, CallSettled, MainSettled, ProcessSettled, SettledServes DEF Serve, Process, Thread
<1>3. ASSUME NEW p \in Path, NgxStore(p)
      PROVE  RInv'
  <2>1. disk \subseteq disk'
    BY <1>3, NgxStoreStores
  <2>2. UNCHANGED <<proc, snoop>> /\ main'.pc = main.pc
    BY <1>0, <1>3 DEF NgxStore, MainRec
  <2> QED
    BY <2>1, <2>2, NothingTold
<1>4. CASE \/ BootCtrl \/ BootDone \/ BootHang \/ Restart \/ UNCHANGED vars
           \/ \E p \in Path : NgxFail(p)
  <2>1. disk \subseteq disk'
    BY <1>4, OtherStores
  <2>2. CASE BootCtrl
    BY <2>1, <2>2, NothingTold DEF BootCtrl, envvars
  <2>3. CASE BootDone
    <3>1. snoop' \subseteq snoop \cup AdvUrl /\ main'.pc = "idle" /\ proc'.pc = "scan"
      BY <2>3, BootDoneStep
    <3> QED
      BY <2>1, <3>1, NothingTold
  <2>4. CASE BootHang
    <3>1. snoop' \subseteq snoop \cup AdvUrl
      BY <2>4, BootHangStep
    <3>2. main'.pc = "hung" /\ UNCHANGED proc
      BY <1>0, <2>4 DEF BootHang, MainRec
    <3> QED
      BY <2>1, <3>1, <3>2, NothingTold
  <2>5. CASE Restart
    <3>1. MaxRestarts # 0
      BY <2>5, SourceAssumption DEF Restart, HInv, HCTypeOK
    <3>2. UNCHANGED snoop /\ proc'.pc = "off"
      BY <2>5 DEF Restart, envvars, ProcStart
    <3> QED
      BY <2>1, <3>1, <3>2, NothingTold
  <2>6. CASE UNCHANGED vars
    BY <2>1, <2>6, NothingTold DEF vars, threadvars, envvars
  <2>7. CASE \E p \in Path : NgxFail(p)
    BY <2>1, <2>7, NothingTold DEF NgxFail, threadvars
  <2> QED
    BY <1>4, <2>2, <2>3, <2>4, <2>5, <2>6, <2>7
<1> QED
  BY <1>1, <1>2, <1>3, <1>4 DEF HCNext, Boot, NgxEnd

(* Under the same conditions, and if the start-up loses no file that was   *)
(* told of, every URL the Snooping Module redirects leads to a file Nginx  *)
(* has, although the walk tells of a URL it read before it waited and      *)
(* writes through a pointer that may be stale afterwards.                  *)
THEOREM RedirectsServable ==
    ASSUME Tidy, NothingLost
    PROVE  HCSpec => []RedirectServable
<1>1. HCInit => HInv /\ SInv /\ RInv
  BY HCInitInv, StoredInit DEF HCInit, RInv, RedirectServable, ProcStart
<1>2. HInv /\ SInv /\ RInv /\ [HCNext]_vars => HInv' /\ SInv' /\ RInv'
  BY HCStep, StoredStep, ServesStep
<1>3. RInv => RedirectServable
  BY DEF RInv
<1> QED
  BY <1>1, <1>2, <1>3, PTL DEF HCSpec
=============================================================================
