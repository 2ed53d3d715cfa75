------------------------------ MODULE HotCache ------------------------------
(***************************************************************************)
(* The Snooping Client at work: its main thread (start-up, then            *)
(* sc_snooping_serve), its resource-list thread                            *)
(* (sc_res_list_process_thread), the Nginx workers that download into the  *)
(* shared resource list, and what they exchange with the outside: the      *)
(* Snooping Module in the kernel, which redirects the URLs it was told of, *)
(* and the video sites.                                                    *)
(*                                                                         *)
(* No lock protects the resource list.  A step here is what a thread does  *)
(* between two blocking calls, so every other actor may run while a thread *)
(* waits for a peer, and a pointer kept across the wait may be stale.      *)
(***************************************************************************)
EXTENDS ResList, Sequences, FiniteSetsExt

CONSTANTS
    YoukuHome, SohuHome, \* YOUKU_WEBSITE_URL and SOHU_WEBSITE_URL
    OriginUrl,     \* what sc_res_gen_origin_url makes of PARSE requests
    NormalUrl,     \* URLs of DOWN requests
    SegsOf,        \* the file URLs the site gives for an origin
    AdvUrl,        \* the URLs of sc_init_advertisement
    FileKind,      \* "yk", "vid" (pure vid), "sohu" or "unknown"
    StdPath,       \* sc_yk_trans_vid_to_std_path for a "vid", else the path
    RecoverUrl,    \* sc_res_recover_url_from_local_path
    DupOf,         \* <<p, u>>: strstr finds in u the vid at the end of p
    PathPrefix,    \* <<p, q>>: p is a prefix of q (strncmp over p's length)
    DiskFiles,     \* the files under SC_NGX_ROOT_PATH at the first start
    RenameMayFail, \* may ngx_ext_rename_file fail?
    UdpMayLose,    \* may a datagram to or from the Snooping Module be lost?
    WalkMeetsNew,  \* may ftw meet a file that appeared after it began?
    MaxFaults, MaxInflight, MaxRestarts \* bounds

ASSUME BootAssumption ==
    /\ NMgmt >= 2 /\ {YoukuHome, SohuHome} \subseteq Url \ LongUrl
    /\ YoukuHome \in YkUrl /\ SohuHome \in SohuUrl \ YkUrl

ASSUME SourceAssumption ==
    /\ OriginUrl \subseteq Url /\ NormalUrl \subseteq Url /\ AdvUrl \subseteq Url
    /\ SegsOf \in [OriginUrl -> Seq(Url)]
    /\ FileKind \in [Path -> {"yk", "vid", "sohu", "unknown"}]
    /\ StdPath \in [Path -> Path]
    /\ RecoverUrl \in [Path -> Url]
    /\ DupOf \subseteq Path \X Url
    /\ PathPrefix \subseteq Path \X Path /\ \A p \in Path : <<p, p>> \in PathPrefix
    /\ DiskFiles \subseteq Path /\ {RenameMayFail, UdpMayLose, WalkMeetsNew} \subseteq BOOLEAN
    /\ MaxFaults \in Nat /\ MaxInflight \in Nat \ {0} /\ MaxRestarts \in Nat

VARIABLES
    main,     \* the main thread
    proc,     \* the resource-list thread
    call,     \* per thread: the download call it is in
    ctrl,     \* youku_controller_of_loaded and sohu_controller_of_loaded
    reply,    \* the last status sent to the Snooping Module for a request
    snoop,    \* the URLs the Snooping Module redirects
    ngx,      \* downloads Nginx has accepted and not finished, per path
    disk,     \* the files under SC_NGX_ROOT_PATH
    faults, restarts \* how often the environment misbehaved

threadvars == <<main, proc, call>>
envvars == <<snoop, ngx, disk>>
vars == <<rlvars, threadvars, ctrl, reply, envvars, faults, restarts>>

Thread == {"main", "proc"}
Request == OriginUrl \cup NormalUrl

NoCall == [st |-> "none", kind |-> "none", ret |-> "none"]

MainStart == [pc |-> "boot", todo |-> {}, req |-> NoUrl, m |-> NULL, segs |-> <<>>, c |-> NULL]
ProcStart == [pc |-> "off", i |-> 0, c |-> NULL, why |-> "none", u |-> NoUrl]

-----------------------------------------------------------------------------
(* Something outside the client goes wrong, or out of the ordinary. *)
Fault == faults < MaxFaults /\ faults' = faults + 1

(* A request for u is redirected to Nginx when the module knows a URL of   *)
(* the same file; the answer carries SC_REDIRECT_KEY_WORD.                 *)
Redirected(u) == \E v \in snoop : <<v, u>> \in HasVid

(* strstr finds in the URL of content ld the vid of content c. *)
VidHit(ld, c) == <<ctnt[ld].url, ctnt[c].url>> \in HasVid

(* The loop of sc_res_info_handle_cached over the child list of m leaves   *)
(* pre and ld: w is what it walked, its end the first content with the vid *)
(* of c.                                                                   *)
LoopFinds(m, c, pre, ld) ==
    \E n \in 1 .. NCtnt : \E w \in [1 .. n -> CSlot] :
        /\ w[1] = mgmt[m].child
        /\ \A j \in 2 .. n : w[j] = ctnt[w[j - 1]].siblings
        /\ \A j \in 1 .. n : VidHit(w[j], c) <=> j = n
        /\ ld = w[n] /\ pre = IF n = 1 THEN NULL ELSE w[n - 1]

(* sc_yk_handle_cached and sc_sohu_handle_cached: no such loaded. *)
CachedMissing(s, c) ==
    ctrl[s] = NULL \/ ~\E ld \in CSlot, pre \in CSlot \cup {NULL} : LoopFinds(ctrl[s], c, pre, ld)

(* A faulty handle_cached: the loaded is copied and not removed. *)
CachedFoundKept(s, c) ==
    /\ ctrl[s] # NULL
    /\ \E ld \in CSlot, pre \in CSlot \cup {NULL} :
          /\ LoopFinds(ctrl[s], c, pre, ld)
          /\ ctnt' = [ctnt EXCEPT ![c] = DupCtnt(ld, c)]
    /\ UNCHANGED <<mgmt, mpool, cpool>>

(* The same, with the first loaded found.  The result is always            *)
(* HC_SUCCESS: that remove_loaded cannot refuse here is RemovalOK.         *)
CachedFound(s, c) ==
    /\ ctrl[s] # NULL
    /\ \E ld \in CSlot, pre \in CSlot \cup {NULL} :
          LoopFinds(ctrl[s], c, pre, ld) /\ HandleCached(c, pre, ld)

(* sc_ngx_download as do_down calls it, and sc_youku_download or           *)
(* sc_sohu_download, as the content's site says.                           *)
StartCall(t, kind) ==
    call' = [call EXCEPT ![t] = [st |-> IF kind = "sohu" THEN "session" ELSE "ngx",
                                 kind |-> kind, ret |-> "none"]]

EndCall(t, ret) == call' = [call EXCEPT ![t].st = "done", ![t].ret = ret]

CallCtnt(t) == IF t = "main" THEN main.c ELSE proc.c

-----------------------------------------------------------------------------
(* sc_sohu_download up to the request to Nginx.  Its early returns on a    *)
(* failed session, an unexpected status or a Location it cannot parse set  *)
(* no flag.  Nginx is asked when the site answered 301, and also when the  *)
(* request was redirected but no loaded fits.                              *)
SohuSession(t) ==
    /\ call[t].st = "session"
    /\ \/ /\ Fault
          /\ EndCall(t, "err")
          /\ UNCHANGED rlvars
       \/ /\ call' = [call EXCEPT ![t].st = "ngx"]
          /\ UNCHANGED <<rlvars, faults>>
       \/ /\ Redirected(ctnt[CallCtnt(t)].url)
          /\ CachedFound("sohu", CallCtnt(t))
          /\ EndCall(t, "ok")
          /\ UNCHANGED faults
    /\ UNCHANGED <<main, proc, ctrl, reply, envvars, restarts>>

(* The first slot whose local path Nginx takes for p, as a set. *)
NgxMatch(p) ==
    LET hits == {c \in CSlot : <<p, ctnt[c].localpath>> \in PathPrefix}
    IN  IF hits = {} THEN {} ELSE {Min(hits)}

(* What both ends of a download do to it: nothing when it is stored. *)
NgxMark(p, f) ==
    IF \E c \in NgxMatch(p) : "STORED" \notin ctnt[c].flag
    THEN SetFlag(Min(NgxMatch(p)), f)
    ELSE UNCHANGED rlvars

(* sc_ngx_download: Nginx answers 200 and downloads; or 302 with the key   *)
(* word (HC_ERR_EXISTS); or something fails, before or after Nginx took    *)
(* the request.  A 302 is never stored: Nginx ends that request before it  *)
(* closes the connection the client reads to its end, with D_FAIL when the *)
(* 302 had a body, which had gone to a temporary file (counted by Fault).  *)
(* The real URL of a Sohu file is never redirected.                        *)
NgxRequest(t) ==
    LET c == ctnt[CallCtnt(t)]
        taken == /\ c.localpath # NoPath /\ ngx[c.localpath] < MaxInflight
                 /\ ngx' = [ngx EXCEPT ![c.localpath] = @ + 1]
    IN  /\ call[t].st = "ngx"
        /\ \/ /\ taken
              /\ call' = [call EXCEPT ![t].st = "back", ![t].ret = "ok"]
              /\ UNCHANGED <<rlvars, faults>>
           \/ /\ call[t].kind # "sohu" /\ Redirected(c.url)
              /\ call' = [call EXCEPT ![t].st = "back", ![t].ret = "exists"]
              /\ \/ UNCHANGED <<rlvars, faults>>
                 \/ NgxMark(c.localpath, "D_FAIL") /\ Fault
              /\ UNCHANGED ngx
           \/ /\ Fault
              /\ taken \/ UNCHANGED ngx
              /\ call' = [call EXCEPT ![t].st = "back", ![t].ret = "err"]
              /\ UNCHANGED rlvars
        /\ UNCHANGED <<main, proc, ctrl, reply, snoop, disk, restarts>>

(* The rest of sc_youku_download, sc_sohu_download and do_down: on         *)
(* HC_ERR_EXISTS only sc_youku_download looks for the loaded.              *)
CallReturn(t) ==
    /\ call[t].st = "back"
    /\ \/ /\ call[t].ret = "ok"
          /\ EndCall(t, "ok")
          /\ UNCHANGED rlvars
       \/ /\ call[t].ret = "exists" /\ call[t].kind = "youku"
          /\ CachedFound("youku", CallCtnt(t))
          /\ EndCall(t, "ok")
       \/ /\ \/ call[t].ret = "err"
             \/ call[t].ret = "exists" /\ call[t].kind = "plain"
             \/ /\ call[t].ret = "exists" /\ call[t].kind = "youku"
                /\ CachedMissing("youku", CallCtnt(t))
          /\ SetFlag(CallCtnt(t), "I_FAIL")
          /\ EndCall(t, "err")
    /\ UNCHANGED <<main, proc, ctrl, reply, envvars, faults, restarts>>

-----------------------------------------------------------------------------
(* Start-up: sc_ld_init_and_load adds the two controllers.  They are the   *)
(* first of at least two slots and have fixed URLs, so this cannot fail.   *)
BootCtrl ==
    /\ main.pc = "boot"
    /\ \E m \in MSlot :
          IF ctrl["youku"] = NULL
          THEN /\ AddMgmt("ctrl_ld", YoukuHome, m)
               /\ ctrl' = [ctrl EXCEPT !["youku"] = m]
               /\ UNCHANGED main
          ELSE /\ AddMgmt("ctrl_ld", SohuHome, m)
               /\ ctrl' = [ctrl EXCEPT !["sohu"] = m]
               /\ main' = [main EXCEPT !.pc = "load", !.todo = disk]
    /\ UNCHANGED <<proc, call, reply, envvars, faults, restarts>>

(* sc_ld_file_process takes the file for one of this controller ... *)
Controller(f) == ctrl[IF FileKind[f] = "sohu" THEN "sohu" ELSE "youku"]

(* ... after a pure-vid file has been given its standard name. *)
Renamed(f) == (disk \ {f}) \cup {StdPath[f]}

(* sc_ld_is_duplicate_file: a loaded already has the vid of the file. *)
IsDuplicate(f) ==
    FileKind[f] # "unknown" /\
        \E c \in Children(Controller(f)) : <<StdPath[f], ctnt[c].url>> \in DupOf

(* A file that enters the directory during the walk is met by it or not:   *)
(* POSIX leaves that to the implementation of readdir.                     *)
MetLater(p) == IF WalkMeetsNew /\ p \notin disk THEN {{}, {p}} ELSE {{}}

(* sc_res_info_add_ctnt for a controller: the URL is deleted from the      *)
(* Snooping Module first, and a failure of that is a failure of the call.  *)
AddLoaded(m, u) ==
    \/ /\ ~PermitAdding(u)
       /\ AddCtntError(m, u)
       /\ UNCHANGED <<snoop, faults>>
    \/ /\ PermitAdding(u)
       /\ Fault
       /\ snoop' \in {snoop, snoop \ {u}}
       /\ UNCHANGED rlvars
    \/ /\ PermitAdding(u)
       /\ snoop' = snoop \ {u}
       /\ AddCtntError(m, u) \/ \E c \in CSlot : AddCtnt(m, u, c)
       /\ UNCHANGED faults

(* The walk is done with f; of the name f was renamed to, see MetLater. *)
Walked(f, met) == main' = [main EXCEPT !.todo = (@ \ {f}) \cup met]

WalkedRenamed(f) ==
    \E met \in IF StdPath[f] = f THEN {{}} ELSE MetLater(StdPath[f]) : Walked(f, met)

(* sc_ld_file_process, for one file of the directory walk.  Its errors do  *)
(* not end the walk.                                                       *)
LoadFile(f) ==
    /\ main.pc = "load" /\ f \in main.todo
    /\ \/ /\ \/ FileKind[f] = "unknown" /\ UNCHANGED faults
             \/ FileKind[f] = "vid" /\ Fault
          /\ Walked(f, {})
          /\ UNCHANGED <<rlvars, disk, snoop>>
       \/ /\ IsDuplicate(f)
          /\ WalkedRenamed(f)
          /\ \/ disk' = Renamed(f) \ {StdPath[f]} /\ UNCHANGED faults
             \/ disk' = Renamed(f) /\ Fault
          /\ UNCHANGED <<rlvars, snoop>>
       \/ /\ FileKind[f] # "unknown" /\ ~IsDuplicate(f)
          /\ WalkedRenamed(f)
          /\ disk' = Renamed(f)
          /\ AddLoaded(Controller(f), RecoverUrl[StdPath[f]])
    /\ UNCHANGED <<proc, call, ctrl, reply, ngx, restarts>>

(* The answer to a DELETE or an ADD of the start-up is lost: recvfrom      *)
(* waits for ever, and the client serves nobody.                           *)
BootHang ==
    /\ UdpMayLose /\ Fault
    /\ main.pc = "load"
    /\ main' = [main EXCEPT !.pc = "hung"]
    /\ \/ /\ \E f \in main.todo :
                LET u == RecoverUrl[StdPath[f]]
                IN  /\ FileKind[f] # "unknown" /\ ~IsDuplicate(f) /\ PermitAdding(u)
                    /\ disk' = Renamed(f)
                    /\ snoop' \in {snoop, snoop \ {u}}
       \/ /\ main.todo = {}
          /\ \E told \in SUBSET AdvUrl : snoop' = snoop \cup told
          /\ AdvUrl # {}
          /\ UNCHANGED disk
    /\ UNCHANGED <<rlvars, proc, call, ctrl, reply, ngx, restarts>>

(* main after the load: sc_init_advertisement, whose failures are ignored, *)
(* then the resource-list thread is started and requests are served.       *)
BootDone ==
    /\ main.pc = "load" /\ main.todo = {}
    /\ \E told \in SUBSET AdvUrl : snoop' = snoop \cup told
    /\ main' = [main EXCEPT !.pc = "idle"]
    /\ proc' = [proc EXCEPT !.pc = "scan"]
    /\ UNCHANGED <<rlvars, call, ctrl, reply, ngx, disk, faults, restarts>>

-----------------------------------------------------------------------------
(* sc_snooping_resp_to_sp at the end of a request, back to recvfrom. *)
Answer(u, status) ==
    /\ reply' = [reply EXCEPT ![u] = status]
    /\ main' = [MainStart EXCEPT !.pc = "idle"]

(* A faulty do_parse: the status of an origin already known is not set. *)
DoParseStatusUnset(o) ==
    /\ main.pc = "idle"
    /\ \/ /\ FindMgmt(o) # {}
          /\ Answer(o, "unset")
          /\ UNCHANGED rlvars
       \/ /\ FindMgmt(o) = {}
          /\ \E m \in MSlot :
                /\ AddMgmt("origin", o, m)
                /\ main' = [main EXCEPT !.pc = "site", !.req = o, !.m = m]
          /\ UNCHANGED reply
    /\ UNCHANGED <<proc, call, ctrl, envvars, faults, restarts>>

(* sc_snooping_do_parse up to the first session with the site. *)
DoParse(o) ==
    /\ main.pc = "idle"
    /\ \/ /\ FindMgmt(o) # {}
          /\ Answer(o, "ok")
          /\ UNCHANGED rlvars
       \/ /\ FindMgmt(o) = {}
          /\ AddMgmtError(o)
          /\ Answer(o, "error")
       \/ /\ FindMgmt(o) = {}
          /\ \E m \in MSlot :
                /\ AddMgmt("origin", o, m)
                /\ main' = [main EXCEPT !.pc = "site", !.req = o, !.m = m]
          /\ UNCHANGED reply
    /\ UNCHANGED <<proc, call, ctrl, envvars, faults, restarts>>

(* getPlaylist of Youku or the m3u8 of Sohu.  Any failure ends the parse,  *)
(* and the request is still answered OK.                                   *)
GetList ==
    /\ main.pc = "site"
    /\ \/ Fault /\ Answer(main.req, "ok")
       \/ /\ main' = [main EXCEPT !.pc = "seg", !.segs = SegsOf[main.req]]
          /\ UNCHANGED <<reply, faults>>
    /\ UNCHANGED <<rlvars, proc, call, ctrl, envvars, restarts>>

(* A faulty loop: "continue" without going to the next file. *)
NextSegStuck ==
    /\ main.pc = "seg" /\ main.segs # <<>>
    /\ \/ /\ AddCtntError(main.m, Head(main.segs))
          /\ UNCHANGED <<main, call>>
       \/ /\ \E c \in CSlot :
                /\ AddCtnt(main.m, Head(main.segs), c)
                /\ main' = [main EXCEPT !.pc = "dl", !.segs = Tail(@), !.c = c]
          /\ StartCall("main", mgmt[main.m].site)
    /\ UNCHANGED <<reply, faults, proc, ctrl, envvars, restarts>>

(* "continue": the loop goes to the next file. *)
PassOver == main' = [main EXCEPT !.segs = Tail(@)]

(* One file of the list: for Youku its getFlvpath URL is built, or the     *)
(* file is passed over, and a session with the site may fail and end the   *)
(* parse; then sc_res_info_add_ctnt, and the download when that succeeded. *)
(* A file that cannot be added is passed over.                             *)
NextSeg ==
    /\ main.pc = "seg" /\ main.segs # <<>>
    /\ \/ /\ mgmt[main.m].site = "youku"
          /\ Fault
          /\ Answer(main.req, "ok") \/ (PassOver /\ UNCHANGED reply)
          /\ UNCHANGED <<rlvars, call>>
       \/ /\ AddCtntError(main.m, Head(main.segs))
          /\ PassOver
          /\ UNCHANGED <<call, reply, faults>>
       \/ /\ \E c \in CSlot :
                /\ AddCtnt(main.m, Head(main.segs), c)
                /\ main' = [main EXCEPT !.pc = "dl", !.segs = Tail(@), !.c = c]
          /\ StartCall("main", mgmt[main.m].site)
          /\ UNCHANGED <<reply, faults>>
    /\ UNCHANGED <<proc, ctrl, envvars, restarts>>

ParseDone ==
    /\ main.pc = "seg" /\ main.segs = <<>>
    /\ Answer(main.req, "ok")
    /\ UNCHANGED <<rlvars, proc, call, ctrl, envvars, faults, restarts>>

(* The download of a file returned: the next file, or the answer to DOWN. *)
DownloadDone ==
    /\ main.pc = "dl" /\ call["main"].st = "done"
    /\ call' = [call EXCEPT !["main"] = NoCall]
    /\ IF call["main"].kind = "plain"
       THEN Answer(main.req, "ok")
       ELSE main' = [main EXCEPT !.pc = "seg", !.c = NULL] /\ UNCHANGED reply
    /\ UNCHANGED <<rlvars, proc, ctrl, envvars, faults, restarts>>

(* sc_snooping_do_down up to sc_res_info_add_normal. *)
DoDown(u) ==
    /\ main.pc = "idle"
    /\ \/ /\ FindMgmt(u) # {}
          /\ Answer(u, "ok")
          /\ UNCHANGED rlvars
       \/ /\ FindMgmt(u) = {}
          /\ AddMgmtError(u)
          /\ Answer(u, "error")
       \/ /\ FindMgmt(u) = {}
          /\ \E m \in MSlot :
                /\ AddMgmt("normal", u, m)
                /\ main' = [main EXCEPT !.pc = "down", !.req = u, !.m = m]
          /\ UNCHANGED reply
    /\ UNCHANGED <<proc, call, ctrl, envvars, faults, restarts>>

(* Its second half: the one content of the normal.  When it cannot be      *)
(* added the normal stays.                                                 *)
DownCtnt ==
    /\ main.pc = "down"
    /\ \/ /\ AddCtntError(main.m, main.req)
          /\ Answer(main.req, "error")
          /\ UNCHANGED call
       \/ /\ \E c \in CSlot :
                /\ AddCtnt(main.m, main.req, c)
                /\ main' = [main EXCEPT !.pc = "dl", !.c = c]
          /\ StartCall("main", "plain")
          /\ UNCHANGED reply
    /\ UNCHANGED <<proc, ctrl, envvars, faults, restarts>>

-----------------------------------------------------------------------------
(* A faulty thread: one pass over the list and no more. *)
ProcScanOnce ==
    /\ proc.pc = "scan" /\ proc.i < NMgmt
    /\ proc' = IF InUse(mpool, NMgmt, proc.i)
               THEN [proc EXCEPT !.pc = "walk", !.c = mgmt[proc.i].child]
               ELSE [proc EXCEPT !.i = @ + 1]
    /\ UNCHANGED <<rlvars, main, call, ctrl, reply, envvars, faults, restarts>>

(* sc_res_list_process_mgmt: the next slot; after the last, sleep and      *)
(* start again.  A free slot is skipped.                                   *)
ProcScan ==
    /\ proc.pc = "scan"
    /\ proc' = IF proc.i = NMgmt THEN [proc EXCEPT !.i = 0]
               ELSE IF InUse(mpool, NMgmt, proc.i)
               THEN [proc EXCEPT !.pc = "walk", !.c = mgmt[proc.i].child]
               ELSE [proc EXCEPT !.i = @ + 1]
    /\ UNCHANGED <<rlvars, main, call, ctrl, reply, envvars, faults, restarts>>

(* curr = curr->siblings *)
Advance == proc' = [ProcStart EXCEPT !.pc = "walk", !.i = proc.i, !.c = ctnt[proc.c].siblings]

(* sc_res_retry_download of the content the walk is at. *)
Retry(why) ==
    /\ proc' = [proc EXCEPT !.pc = "dl", !.why = why]
    /\ StartCall("proc", ctnt[proc.c].site)

(* sc_res_list_process_ctnt at a content it has nothing to do for. *)
ProcSkip ==
    LET flag == ctnt[proc.c].flag
    IN  /\ \/ ctnt[proc.c].url = NoUrl
           \/ flag \cap {"STORED", "I_FAIL", "D_FAIL"} = {}
           \/ {"STORED", "NOTIFY"} \subseteq flag
        /\ Advance
        /\ UNCHANGED <<rlvars, call>>

(* A faulty walk: what Nginx was never told of is left alone. *)
ProcRetryIFailSkipped ==
    /\ "STORED" \notin ctnt[proc.c].flag /\ "I_FAIL" \in ctnt[proc.c].flag
    /\ Advance
    /\ UNCHANGED <<rlvars, call>>

(* Nginx could not be told of the download: once more. *)
ProcRetryIFail ==
    /\ ctnt[proc.c].url # NoUrl
    /\ "STORED" \notin ctnt[proc.c].flag /\ "I_FAIL" \in ctnt[proc.c].flag
    /\ Retry("i_fail")
    /\ UNCHANGED rlvars

(* Nginx failed: D_FAIL is cleared, then the download asked for again. *)
ProcRetryDFail ==
    /\ ctnt[proc.c].url # NoUrl
    /\ "D_FAIL" \in ctnt[proc.c].flag /\ ctnt[proc.c].flag \cap {"STORED", "I_FAIL"} = {}
    /\ UnsetFlag(proc.c, "D_FAIL")
    /\ Retry("d_fail")

(* A faulty walk: the URL is told before the file is stored. *)
ProcNotifyEarly ==
    /\ ctnt[proc.c].url # NoUrl /\ "NOTIFY" \notin ctnt[proc.c].flag
    /\ proc' = [proc EXCEPT !.pc = "add", !.u = ctnt[proc.c].url]
    /\ UNCHANGED <<rlvars, call>>

(* The file is stored: its URL goes to the Snooping Module. *)
ProcNotify ==
    /\ ctnt[proc.c].url # NoUrl
    /\ "STORED" \in ctnt[proc.c].flag /\ "NOTIFY" \notin ctnt[proc.c].flag
    /\ proc' = [proc EXCEPT !.pc = "add", !.u = ctnt[proc.c].url]
    /\ UNCHANGED <<rlvars, call>>

(* sc_res_list_process_ctnt, one content of the walk. *)
ProcCtnt ==
    /\ proc.pc = "walk" /\ proc.c # NULL
    /\ ProcSkip \/ ProcRetryIFail \/ ProcRetryDFail \/ ProcNotify
    /\ UNCHANGED <<main, ctrl, reply, envvars, faults, restarts>>

ProcListEnd ==
    /\ proc.pc = "walk" /\ proc.c = NULL
    /\ proc' = [proc EXCEPT !.pc = "scan", !.i = @ + 1]
    /\ UNCHANGED <<rlvars, main, call, ctrl, reply, envvars, faults, restarts>>

(* The retry returned; I_FAIL is cleared when it succeeded. *)
ProcRetried ==
    /\ proc.pc = "dl" /\ call["proc"].st = "done"
    /\ IF call["proc"].ret = "ok" /\ proc.why = "i_fail"
       THEN UnsetFlag(proc.c, "I_FAIL")
       ELSE UNCHANGED rlvars
    /\ call' = [call EXCEPT !["proc"] = NoCall]
    /\ Advance
    /\ UNCHANGED <<main, ctrl, reply, envvars, faults, restarts>>

(* sc_snooping_initiate_action: the Snooping Module adds the URL and       *)
(* answers OK; or answers with another status or session id; or the        *)
(* datagram or its answer is lost and recvfrom, which has no timeout,      *)
(* waits for ever.                                                         *)
SnoopAdd ==
    /\ proc.pc = "add"
    /\ \/ /\ snoop' = snoop \cup {proc.u}
          /\ proc' = [proc EXCEPT !.pc = "added"]
          /\ UNCHANGED faults
       \/ /\ Fault
          /\ snoop' \in {snoop, snoop \cup {proc.u}}
          /\ \/ proc' = [proc EXCEPT !.pc = "refused"]
             \/ UdpMayLose /\ proc' = [proc EXCEPT !.pc = "hung"]
    /\ UNCHANGED <<rlvars, main, call, ctrl, reply, ngx, disk, restarts>>

(* The end of sc_res_notify_ri_url, through the pointer of the walk. *)
ProcAdded ==
    /\ \/ proc.pc = "added" /\ SetFlag(proc.c, "NOTIFY")
       \/ proc.pc = "refused" /\ UNCHANGED rlvars
    /\ Advance
    /\ UNCHANGED <<main, call, ctrl, reply, envvars, faults, restarts>>

-----------------------------------------------------------------------------
(* ngx_http_upstream_process_request: the body is complete, the temporary  *)
(* file gets its name, the content is marked.  The result of the rename is *)
(* ignored.                                                                *)
NgxStore(p) ==
    /\ ngx[p] > 0
    /\ ngx' = [ngx EXCEPT ![p] = @ - 1]
    /\ \/ disk' = disk \cup {p} /\ UNCHANGED faults
       \/ RenameMayFail /\ Fault /\ UNCHANGED disk
    /\ NgxMark(p, "STORED")
    /\ \E new \in IF main.pc = "load" THEN MetLater(p) ELSE {{}} :
          main' = [main EXCEPT !.todo = @ \cup new]
    /\ UNCHANGED <<proc, call, ctrl, reply, snoop, restarts>>

(* A faulty finalize_request: a download that broke off counts as stored. *)
NgxFailStored(p) ==
    /\ ngx[p] > 0
    /\ ngx' = [ngx EXCEPT ![p] = @ - 1]
    /\ Fault
    /\ NgxMark(p, "STORED")
    /\ UNCHANGED <<threadvars, ctrl, reply, snoop, disk, restarts>>

(* ngx_http_upstream_finalize_request of a download that broke off: D_FAIL *)
(* when a temporary file had been opened, otherwise nothing.               *)
NgxFail(p) ==
    /\ ngx[p] > 0
    /\ ngx' = [ngx EXCEPT ![p] = @ - 1]
    /\ Fault
    /\ NgxMark(p, "D_FAIL") \/ UNCHANGED rlvars
    /\ UNCHANGED <<threadvars, ctrl, reply, snoop, disk, restarts>>

(* The client dies, or its machine's operator restarts it: threads and     *)
(* resource list start anew, Nginx, the files and the kernel go on.        *)
Restart ==
    /\ restarts < MaxRestarts
    /\ restarts' = restarts + 1
    /\ Reinit
    /\ main' = MainStart
    /\ proc' = ProcStart
    /\ call' = [t \in Thread |-> NoCall]
    /\ ctrl' = [s \in Site |-> NULL]
    /\ UNCHANGED <<reply, envvars, faults>>

-----------------------------------------------------------------------------
HCInit ==
    /\ Init
    /\ main = MainStart
    /\ proc = ProcStart
    /\ call = [t \in Thread |-> NoCall]
    /\ ctrl = [s \in Site |-> NULL]
    /\ reply = [u \in Request |-> "none"]
    /\ snoop = {}
    /\ ngx = [p \in Path |-> 0]
    /\ disk = DiskFiles
    /\ faults = 0 /\ restarts = 0

Boot == BootCtrl \/ BootDone \/ BootHang \/ \E f \in Path : LoadFile(f)

Receive == \/ \E o \in OriginUrl : DoParse(o)
           \/ \E u \in NormalUrl : DoDown(u)

Call(t) == SohuSession(t) \/ NgxRequest(t) \/ CallReturn(t)

(* The main thread between two requests. *)
Serve == GetList \/ NextSeg \/ ParseDone \/ DownCtnt \/ DownloadDone \/ Call("main")

Process == ProcScan \/ ProcCtnt \/ ProcListEnd \/ ProcRetried \/ ProcAdded \/ Call("proc")

NgxEnd(p) == NgxStore(p) \/ NgxFail(p)

HCNext == Boot \/ Receive \/ Serve \/ Process \/ SnoopAdd
          \/ (\E p \in Path : NgxEnd(p)) \/ Restart

HCSpec == HCInit /\ [][HCNext]_vars

(* The thread waits for a video site: recv with MSG_WAITALL and without a  *)
(* timeout (yk_http_session, sohu_http_session), so the site decides       *)
(* whether the thread ever goes on.                                        *)
InSession(t) ==
    \/ call[t].st = "session"
    \/ /\ t = "main"
       /\ \/ main.pc = "site"
          \/ main.pc = "seg" /\ main.segs # <<>> /\ mgmt[main.m].site = "youku"

(* Threads that can run and do not wait for a site do, the Snooping Module *)
(* answers, and downloads end; neither that requests arrive nor that a     *)
(* site answers is assumed.                                                *)
Fairness == /\ WF_vars(Boot) /\ WF_vars(SnoopAdd)
            /\ WF_vars(Serve /\ ~InSession("main"))
            /\ WF_vars(Process /\ ~InSession("proc"))
            /\ \A p \in Path : WF_vars(NgxEnd(p))

HCFairSpec == HCSpec /\ Fairness

-----------------------------------------------------------------------------
MainRec == [pc : {"boot", "load", "hung", "idle", "site", "seg", "down", "dl"},
            todo : SUBSET Path, req : Url \cup {NoUrl}, m : MSlot \cup {NULL},
            segs : Seq(Url), c : CSlot \cup {NULL}]
ProcRec == [pc : {"off", "scan", "walk", "dl", "add", "added", "refused", "hung"},
            i : 0 .. NMgmt, c : CSlot \cup {NULL},
            why : {"none", "i_fail", "d_fail"}, u : Url \cup {NoUrl}]
CallRec == [st : {"none", "session", "ngx", "back", "done"},
            kind : {"none", "plain"} \cup Site, ret : {"none", "ok", "exists", "err"}]

(* TYPE INVARIANT of the threads and of their surroundings. *)
HCTypeOK ==
    /\ TypeOK
    /\ main \in MainRec /\ proc \in ProcRec /\ call \in [Thread -> CallRec]
    /\ ctrl \in [Site -> MSlot \cup {NULL}]
    /\ reply \in [Request -> {"none", "ok", "error"}]
    /\ snoop \subseteq Url /\ disk \subseteq Path
    /\ ngx \in [Path -> 0 .. MaxInflight]
    /\ faults \in 0 .. MaxFaults /\ restarts \in 0 .. MaxRestarts

(* A content marked STORED, by Nginx at the end of a download, by the load *)
(* at start-up or by the copy from a loaded (sc_res_info_dup_ctnt), has    *)
(* its file on disk: "Resource is stored" (sc_resource.h).                 *)
StoredHasFile ==
    \A c \in UsedCtnt : "STORED" \in ctnt[c].flag => ctnt[c].localpath \in disk

(* A URL the Snooping Module redirects, advertisements aside, leads to a   *)
(* file Nginx has: the ADD of sc_res_notify_ri_url comes after the file,   *)
(* and start-up deletes the URLs of the files it finds before it adds them *)
(* again.                                                                  *)
RedirectServable ==
    \A u \in snoop \ AdvUrl : \E s \in Site : LocalPathOf[<<s, u>>] \in disk

(* The two threads, Nginx and restarts only ever do to the resource list   *)
(* what some sequence of whole calls does; so the theorems of              *)
(* ResListProofs hold here too, stale pointers included.                   *)
ListDiscipline == Spec

(* A content with NOTIFY is one whose URL the Snooping Module was told     *)
(* (sc_resource.h: "Stored resource URL is notified to Snooping Module").  *)
NotifyMeansTold ==
    \A c \in UsedCtnt : "NOTIFY" \in ctnt[c].flag => ctnt[c].url \in snoop

(* A content with neither STORED nor a failure flag is being downloaded    *)
(* (the last branch of sc_res_list_process_ctnt): Nginx is at it, or a     *)
(* thread is still in the call that asks Nginx.                            *)
BeingDownloaded ==
    \A c \in UsedCtnt :
        ctnt[c].flag \cap {"STORED", "I_FAIL", "D_FAIL"} = {} =>
            \/ ngx[ctnt[c].localpath] > 0
            \/ \E t \in Thread : call[t].st # "none" /\ CallCtnt(t) = c

(* A stored content is eventually marked NOTIFY, or has handed its file    *)
(* over to another content and is gone: the loop of                        *)
(* sc_res_list_process_thread reaches every file, while the main thread    *)
(* adds contents and takes loadeds out of the list under it; unless a site *)
(* never lets the thread go on.                                            *)
StoredGetsNotified ==
    \A c \in CSlot : (c \in UsedCtnt /\ "STORED" \in ctnt[c].flag)
        ~> (c \notin UsedCtnt \/ "NOTIFY" \in ctnt[c].flag \/ []InSession("proc"))

(* A request is served to its end and answered, and the main thread waits  *)
(* for the next, or a site keeps the main thread waiting for ever: nothing *)
(* else holds a request up.  No error path of do_parse, do_down or the     *)
(* site parsers loops, and neither thread waits for the other.             *)
RequestAnswered ==
    \A u \in Request :
        (main.req = u) ~> ((main.pc = "idle" /\ reply[u] # "none") \/ []InSession("main"))

(* A failure to inform Nginx does not last: sc_res_list_process_ctnt       *)
(* retries until Nginx takes the download or the file is there, unless a   *)
(* site never lets the thread go on.                                       *)
RetrySucceeds ==
    \A c \in CSlot : ("I_FAIL" \in ctnt[c].flag) ~>
        ("I_FAIL" \notin ctnt[c].flag \/ "STORED" \in ctnt[c].flag \/ []InSession("proc"))
=============================================================================
