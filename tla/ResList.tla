------------------------------- MODULE ResList -------------------------------
(***************************************************************************)
(* The resource list of the Snooping Client: sc_res_list_t in shared       *)
(* memory (hot_cache/include/sc_resource.h) and the operations of          *)
(* hot_cache/snooping_client/sc_resource.c that change it.                 *)
(*                                                                         *)
(* A "mgmt" slot describes something the client was asked for (an origin   *)
(* page to parse, a normal file to download, or one of the two controllers *)
(* of the files found on disk at start); a "ctnt" slot describes one file. *)
(* The files of a mgmt hang from mgmt.child and are linked by siblings.    *)
(*                                                                         *)
(* Each action is one whole call; ResList says what any sequence of calls  *)
(* does.  HotCache adds the threads that make the calls.                   *)
(***************************************************************************)
EXTENDS SlotPool, LinkedList

CONSTANTS
    NMgmt,         \* SC_RES_INFO_NUM_MAX_MGMT
    NCtnt,         \* SC_RES_INFO_NUM_MAX_CTNT
    Url,           \* the URLs, all without "http://" (sc_res_copy_url)
    NoUrl,         \* the empty string a zeroed slot holds
    YkUrl,         \* URLs sc_url_is_yk accepts
    SohuUrl,       \* URLs sc_url_is_sohu accepts
    FileUrl,       \* URLs sc_url_is_sohu_file_url accepts
    LongUrl,       \* URLs of HTTP_URL_MAX_LEN characters or more
    Path,          \* local paths
    NoPath,        \* no local path: zeroed, or its generation fails
    LocalPathOf,   \* the local path generated for a site's URL
    HasVid         \* <<u, v>>: strstr finds in u the last component of v

Site == {"youku", "sohu"}

ASSUME SizeAssumption == NMgmt \in Nat \ {0} /\ NCtnt \in Nat \ {0}

ASSUME UrlAssumption ==
    /\ NoUrl \notin Url /\ NoPath \notin Path
    /\ YkUrl \subseteq Url /\ SohuUrl \subseteq Url
    /\ FileUrl \subseteq Url /\ LongUrl \subseteq Url
    /\ LocalPathOf \in [Site \X Url -> Path \cup {NoPath}]
    /\ HasVid \subseteq Url \X Url

VARIABLES
    mgmt,    \* rl->mgmt[], without common.id
    ctnt,    \* rl->ctnt[], without common.id
    mpool,   \* common.id of mgmt[], mgmt_free and mgmt_cnt
    cpool    \* common.id of ctnt[], ctnt_free and ctnt_cnt

rlvars == <<mgmt, ctnt, mpool, cpool>>

-----------------------------------------------------------------------------
MSlot == Slots(NMgmt)

CSlot == Slots(NCtnt)

Flag == {"STORED", "D_FAIL", "I_FAIL", "NOTIFY"}

MgmtGen == {"origin", "normal", "ctrl_ld"}

(* memset(0): SC_RES_GEN_T_CONTENT and SC_RES_SITE_YOUKU are both zero. *)
ZeroMgmt == [gen |-> "content", url |-> NoUrl, site |-> "youku",
             child_cnt |-> 0, child |-> NULL]

ZeroCtnt == [flag |-> {}, site |-> "youku", url |-> NoUrl, localpath |-> NoPath,
             parent |-> NULL, siblings |-> NULL]

MgmtRec == [gen : MgmtGen \cup {"content"}, url : Url \cup {NoUrl}, site : Site,
            child_cnt : 0 .. NCtnt, child : CSlot \cup {NULL}]

CtntRec == [flag : SUBSET Flag, site : Site, url : Url \cup {NoUrl},
            localpath : Path \cup {NoPath}, parent : MSlot \cup {NULL},
            siblings : CSlot \cup {NULL}]

UsedMgmt == UsedSlots(mpool, NMgmt)

UsedCtnt == UsedSlots(cpool, NCtnt)

(* The links of the child lists, and the contents that name m as parent. *)
Siblings == [c \in CSlot |-> ctnt[c].siblings]

Children(m) == {c \in UsedCtnt : ctnt[c].parent = m}

IsCtrlLd(m) == mgmt[m].gen = "ctrl_ld"

(* sc_res_info_permit_adding and the length check behind it. *)
PermitAdding(u) == u \in (YkUrl \cup SohuUrl \cup FileUrl) \ LongUrl

(* sc_res_info_mark_site: Youku is tried first. *)
CanMarkSite(u) == u \in YkUrl \cup SohuUrl

MarkSite(u) == IF u \in YkUrl THEN "youku" ELSE "sohu"

(* sc_res_info_find_mgmt, as the slots it can return. *)
FindMgmt(u) == {m \in MSlot : mgmt[m].url = u}

-----------------------------------------------------------------------------
(* sc_res_list_alloc_and_init: the segment is zeroed, also when it already *)
(* existed, and both free lists are threaded.                              *)
Init ==
    /\ mgmt = [m \in MSlot |-> ZeroMgmt]
    /\ ctnt = [c \in CSlot |-> ZeroCtnt]
    /\ mpool = PoolInit(NMgmt)
    /\ cpool = PoolInit(NCtnt)

(* The client is started again on the segment its last run left behind. *)
Reinit ==
    /\ mgmt' = [m \in MSlot |-> ZeroMgmt]
    /\ ctnt' = [c \in CSlot |-> ZeroCtnt]
    /\ mpool' = PoolInit(NMgmt)
    /\ cpool' = PoolInit(NCtnt)

(* The slot the three functions below fill. *)
NewMgmt(gen, u) ==
    [gen |-> gen, url |-> u, site |-> MarkSite(u), child_cnt |-> 0, child |-> NULL]

(* sc_res_info_add_origin, add_normal and add_ctrl_ld: success, in slot m. *)
AddMgmt(gen, u, m) ==
    /\ PermitAdding(u)
    /\ ~RanOut(mpool, NMgmt)
    /\ CanMarkSite(u)
    /\ m = FreeHead(mpool, NMgmt)
    /\ mpool' = PoolGet(mpool, NMgmt)
    /\ mgmt' = [mgmt EXCEPT ![m] = NewMgmt(gen, u)]
    /\ UNCHANGED <<ctnt, cpool>>

(* The three ways they fail.  A slot taken before sc_res_info_mark_site    *)
(* failed is put back (sc_res_info_del).                                   *)
AddMgmtError(u) ==
    \/ /\ ~PermitAdding(u) \/ RanOut(mpool, NMgmt)
       /\ UNCHANGED rlvars
    \/ /\ PermitAdding(u)
       /\ ~RanOut(mpool, NMgmt)
       /\ ~CanMarkSite(u)
       /\ LET m == FreeHead(mpool, NMgmt)
          IN  /\ mpool' = PoolPut(PoolGet(mpool, NMgmt), NMgmt, m)
              /\ mgmt' = [mgmt EXCEPT ![m] = ZeroMgmt]
       /\ UNCHANGED <<ctnt, cpool>>

(* The slot sc_res_info_add_ctnt fills for a file of m. *)
NewCtnt(m, u) ==
    [flag      |-> IF IsCtrlLd(m) THEN {"STORED"} ELSE {},
     site      |-> mgmt[m].site,
     url       |-> u,
     localpath |-> LocalPathOf[<<mgmt[m].site, u>>],
     parent    |-> m,
     siblings  |-> IF mgmt[m].child_cnt = 0 THEN NULL ELSE mgmt[m].child]

(* A faulty add_ctnt: child_cnt++ is missing. *)
AddCtntUncounted(m, u, c) ==
    /\ PermitAdding(u) /\ ~RanOut(cpool, NCtnt)
    /\ LocalPathOf[<<mgmt[m].site, u>>] # NoPath
    /\ c = FreeHead(cpool, NCtnt)
    /\ cpool' = PoolGet(cpool, NCtnt)
    /\ ctnt' = [ctnt EXCEPT ![c] = NewCtnt(m, u)]
    /\ mgmt' = [mgmt EXCEPT ![m].child = c]
    /\ UNCHANGED mpool

(* sc_res_info_add_ctnt: success, in slot c.  (The DELETE it sends to the  *)
(* Snooping Module when m is a ctrl_ld is in HotCache.)                    *)
AddCtnt(m, u, c) ==
    /\ PermitAdding(u)
    /\ ~RanOut(cpool, NCtnt)
    /\ LocalPathOf[<<mgmt[m].site, u>>] # NoPath
    /\ c = FreeHead(cpool, NCtnt)
    /\ cpool' = PoolGet(cpool, NCtnt)
    /\ ctnt' = [ctnt EXCEPT ![c] = NewCtnt(m, u)]
    /\ mgmt' = [mgmt EXCEPT ![m].child = c, ![m].child_cnt = @ + 1]
    /\ UNCHANGED mpool

(* A faulty error path: the slot it took is not put back. *)
AddCtntErrorLeak(m, u) ==
    \/ /\ ~PermitAdding(u) \/ RanOut(cpool, NCtnt)
       /\ UNCHANGED rlvars
    \/ /\ PermitAdding(u) /\ ~RanOut(cpool, NCtnt)
       /\ LocalPathOf[<<mgmt[m].site, u>>] = NoPath
       /\ cpool' = PoolGet(cpool, NCtnt)
       /\ UNCHANGED <<mgmt, ctnt, mpool>>

(* Its failures; the slot is put back when no local path can be generated. *)
AddCtntError(m, u) ==
    \/ /\ ~PermitAdding(u) \/ RanOut(cpool, NCtnt)
       /\ UNCHANGED rlvars
    \/ /\ PermitAdding(u)
       /\ ~RanOut(cpool, NCtnt)
       /\ LocalPathOf[<<mgmt[m].site, u>>] = NoPath
       /\ LET c == FreeHead(cpool, NCtnt)
          IN  /\ cpool' = PoolPut(PoolGet(cpool, NCtnt), NCtnt, c)
              /\ ctnt' = [ctnt EXCEPT ![c] = ZeroCtnt]
       /\ UNCHANGED <<mgmt, mpool>>

(* The flag macros, on whatever slot the caller's pointer designates. *)
SetFlag(c, f) ==
    /\ ctnt' = [ctnt EXCEPT ![c].flag = @ \cup {f}]
    /\ UNCHANGED <<mgmt, mpool, cpool>>

UnsetFlag(c, f) ==
    /\ ctnt' = [ctnt EXCEPT ![c].flag = @ \ {f}]
    /\ UNCHANGED <<mgmt, mpool, cpool>>

-----------------------------------------------------------------------------
(* A faulty dup_ctnt: the whole of the loaded is copied, links included. *)
DupCtntWhole(ld, parsed) == ctnt[ld]

(* sc_res_info_dup_ctnt *)
DupCtnt(ld, parsed) ==
    [ctnt[parsed] EXCEPT !.url = ctnt[ld].url,
                         !.localpath = ctnt[ld].localpath,
                         !.flag = @ \cup (ctnt[ld].flag \cap {"STORED", "NOTIFY"})]

(* The checks of sc_res_info_remove_loaded. *)
CanRemoveLoaded(pre, ld) ==
    LET m == ctnt[ld].parent
    IN  /\ m # NULL
        /\ IF pre = NULL THEN mgmt[m].child = ld /\ mgmt[m].child_cnt # 0
                         ELSE mgmt[m].child_cnt >= 2

(* pre and ld are consecutive on the child list of m (pre NULL at its      *)
(* head), as the loop of sc_res_info_handle_cached leaves them.            *)
Consecutive(m, pre, ld) ==
    /\ ld # NULL
    /\ \/ pre = NULL /\ mgmt[m].child = ld
       \/ pre \in Children(m) /\ ctnt[pre].siblings = ld

(* A faulty remove_loaded: sc_res_info_del takes child_cnt down once more. *)
RemoveLoadedTwice(parsed, pre, ld) ==
    LET m == ctnt[ld].parent
        unlinked == IF pre = NULL
                    THEN ctnt
                    ELSE [ctnt EXCEPT ![pre].siblings = ctnt[ld].siblings]
    IN  /\ mgmt' = [mgmt EXCEPT ![m].child_cnt = @ - 2,
                                ![m].child = IF pre = NULL THEN ctnt[ld].siblings ELSE @]
        /\ ctnt' = [unlinked EXCEPT ![parsed] = DupCtnt(ld, parsed), ![ld] = ZeroCtnt]
        /\ cpool' = PoolPut(cpool, NCtnt, ld)
        /\ UNCHANGED mpool

(* sc_res_info_remove_loaded: ld is unlinked and put back. *)
RemoveLoaded(parsed, pre, ld) ==
    LET m == ctnt[ld].parent
        unlinked == IF pre = NULL
                    THEN ctnt
                    ELSE [ctnt EXCEPT ![pre].siblings = ctnt[ld].siblings]
    IN  /\ mgmt' = [mgmt EXCEPT ![m].child_cnt = @ - 1,
                                ![m].child = IF pre = NULL THEN ctnt[ld].siblings ELSE @]
        /\ ctnt' = [unlinked EXCEPT ![parsed] = DupCtnt(ld, parsed), ![ld] = ZeroCtnt]
        /\ cpool' = PoolPut(cpool, NCtnt, ld)
        /\ UNCHANGED mpool

(* sc_res_info_handle_cached once its loop has found ld: parsed takes over *)
(* what ld says, then ld is removed.  When remove_loaded refuses, the copy *)
(* has been made already and an error is returned.                         *)
HandleCached(parsed, pre, ld) ==
    /\ <<ctnt[ld].url, ctnt[parsed].url>> \in HasVid
    /\ IF CanRemoveLoaded(pre, ld)
       THEN RemoveLoaded(parsed, pre, ld)
       ELSE /\ ctnt' = [ctnt EXCEPT ![parsed] = DupCtnt(ld, parsed)]
            /\ UNCHANGED <<mgmt, mpool, cpool>>

(* The contents a download, and so sc_res_info_handle_cached, is about:    *)
(* those of an origin or a normal.  A loaded is stored from the start.     *)
Parsed(c) == c \in UsedCtnt /\ ~IsCtrlLd(ctnt[c].parent)

-----------------------------------------------------------------------------
NextAddMgmt == \E gen \in MgmtGen, u \in Url, m \in MSlot : AddMgmt(gen, u, m)

NextAddCtnt == \E m \in UsedMgmt, u \in Url, c \in CSlot : AddCtnt(m, u, c)

NextAddError == \/ \E u \in Url : AddMgmtError(u)
                \/ \E m \in UsedMgmt, u \in Url : AddCtntError(m, u)

NextFlag == \E c \in CSlot, f \in Flag : SetFlag(c, f) \/ UnsetFlag(c, f)

NextHandleCached ==
    \E m \in UsedMgmt, parsed \in UsedCtnt, pre \in CSlot \cup {NULL}, ld \in CSlot :
        /\ IsCtrlLd(m) /\ Parsed(parsed)
        /\ Consecutive(m, pre, ld)
        /\ HandleCached(parsed, pre, ld)

Next == NextAddMgmt \/ NextAddCtnt \/ NextAddError \/ NextFlag
        \/ NextHandleCached \/ Reinit

Spec == Init /\ [][Next]_rlvars

-----------------------------------------------------------------------------
(* TYPE INVARIANT.  Every field of sc_res_list_t holds a value its code    *)
(* can interpret: in particular child, siblings and parent are NULL or     *)
(* slots of the right array, and no count leaves its range.                *)
TypeOK ==
    /\ mgmt \in [MSlot -> MgmtRec]
    /\ ctnt \in [CSlot -> CtntRec]
    /\ mpool \in Pool(NMgmt)
    /\ cpool \in Pool(NCtnt)

(* FREE LISTS.  However get and put (sc_res_info_get_mgmt, get_ctnt, put)  *)
(* are mixed, with the slots put back on the error paths and by            *)
(* sc_res_info_remove_loaded: the free lists hold exactly the slots that   *)
(* are not in use, each once, and the two counts are right.  So no slot is *)
(* leaked, no slot in use is handed out again, and an allocation fails     *)
(* only when every slot is in use.                                         *)
FreeListsOK == PoolSound(mpool, NMgmt) /\ PoolSound(cpool, NCtnt)

(* FAMILY.  The child list of every mgmt (add_ctnt pushes, remove_loaded   *)
(* unlinks) is finite, ends in NULL, has child_cnt members, and they are   *)
(* exactly the contents in use whose parent is that mgmt; every content in *)
(* use is on one such list.  So process_ctnt's walk ends and visits every  *)
(* file.                                                                   *)
FamilyOK ==
    /\ \A c \in UsedCtnt : ctnt[c].parent \in UsedMgmt
    /\ \A m \in UsedMgmt :
           ListSound(mgmt[m].child_cnt, mgmt[m].child, Siblings, Children(m))

(* REMOVAL.  The error branches of sc_res_info_remove_loaded cannot be     *)
(* taken for a loaded the search of handle_cached found, so a content is   *)
(* never left as a second copy of a loaded that stays on its list.         *)
RemovalOK ==
    \A m \in UsedMgmt, ld \in CSlot, pre \in CSlot \cup {NULL} :
        Consecutive(m, pre, ld) => CanRemoveLoaded(pre, ld)

(* A content that is not a loaded is never taken from its owner: until the *)
(* client restarts, its slot stays in use under the same parent.           *)
ParsedKept ==
    [][Reinit \/ \A c \in CSlot : Parsed(c) =>
           c \in UsedCtnt' /\ ctnt'[c].parent = ctnt[c].parent]_rlvars
=============================================================================
