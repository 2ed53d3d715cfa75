----------------------------- MODULE NginxProofs ----------------------------
(***************************************************************************)
(* What Nginx guarantees for any number of slots, workers, requests, hosts *)
(* and paths.  The downloads of GetFile and the processes of NgxProcesses  *)
(* are proved about apart, each in the steps of the other.                 *)
(***************************************************************************)
EXTENDS Nginx, FiniteSetTheorems, TLAPS

-----------------------------------------------------------------------------
(* THE DOWNLOADS *)

DInv == GFTypeOK /\ OwnHost

(* A request before it begins and after it has ended: of the right type,   *)
(* and connected to nothing.                                               *)
LEMMA NewReqFacts ==
    /\ NewReq \in ReqRec /\ NewReq.conn = NoHost /\ NewReq.stage = "new"
    /\ \A st \in Stage : Over(st) \in ReqRec /\ Over(st).conn = NoHost /\ Over(st).stage = st
<1>1. (CHOOSE w \in Worker : TRUE) \in Worker /\ (CHOOSE p \in Path : TRUE) \in Path
      /\ (CHOOSE h \in Host : TRUE) \in Host
  BY GetFileAssumption
<1>2. NewReq \in ReqRec /\ NewReq.conn = NoHost /\ NewReq.stage = "new"
  BY <1>1, GetFileAssumption DEF NewReq, ReqRec, Stage, NoFd
<1> QED
  BY <1>2 DEF Over, ReqRec

LEMMA DInit == GFInit => DInv
<1> SUFFICES ASSUME GFInit PROVE DInv
  OBVIOUS
<1>1. req \in [Request -> ReqRec] /\ \A r \in Request : req[r].conn = NoHost
  BY NewReqFacts DEF GFInit
<1>2. file \in [Path -> FileRec]
  BY GetFileAssumption DEF GFInit, NoFile, FileRec
<1> QED
  BY <1>1, <1>2 DEF GFInit, DInv, GFTypeOK, OwnHost

(* A step that gives request r the record rq, and writes neither a file    *)
(* nor a flag.                                                             *)
LEMMA DSet ==
    ASSUME DInv, NEW r \in Request, NEW rq \in ReqRec, rq.conn \in {rq.host, NoHost},
           req' = [req EXCEPT ![r] = rq],
           backend' \in [Worker -> Host \cup {NoHost}], file' \in [Path -> FileRec],
           flag' \in [Path -> SUBSET {"STORED", "D_FAIL"}]
    PROVE  DInv'
BY DEF DInv, GFTypeOK, OwnHost

LEMMA DFinalize ==
    ASSUME DInv, NEW r \in Request, NEW rq \in ReqRec, Finalize(r, rq)
    PROVE  DInv' /\ [Promise!FNext]_<<file, flag>>
<1>1. rq.path \in Path /\ flag[rq.path] \subseteq {"STORED", "D_FAIL"}
  BY DEF ReqRec, DInv, GFTypeOK
<1>2. flag' \in [Path -> SUBSET {"STORED", "D_FAIL"}] /\ UNCHANGED file
  BY <1>1 DEF Finalize, DInv, GFTypeOK
<1>3. DInv'
  BY <1>2, DSet, NewReqFacts DEF Finalize, DInv, GFTypeOK, Stage
<1>4. CASE UNCHANGED flag
  BY <1>2, <1>3, <1>4
<1>5. CASE ~UNCHANGED flag
  <2>1. Promise!FFail(rq.path)
    BY <1>5 DEF Finalize, Promise!FFail
  <2> QED
    BY <1>1, <1>3, <2>1 DEF Promise!FNext
<1> QED
  BY <1>4, <1>5

(* ngx_http_upstream_connect opens a connection to the address it is given. *)
LEMMA DConnect ==
    ASSUME DInv, NEW r \in Request, NEW rq \in ReqRec, Connect(r, rq, rq.host),
           backend' \in [Worker -> Host \cup {NoHost}], UNCHANGED <<file, flag>>
    PROVE  DInv'
<1>1. CASE req' = [req EXCEPT ![r] = Over("done")]
  BY <1>1, DSet, NewReqFacts DEF DInv, GFTypeOK, Stage
<1>2. ASSUME NEW stage \in {"connecting", "header"},
             req' = [req EXCEPT ![r] = [rq EXCEPT !.stage = stage, !.conn = rq.host]]
      PROVE  DInv'
  <2> DEFINE new == [rq EXCEPT !.stage = stage, !.conn = rq.host]
  <2>1. new \in ReqRec /\ new.conn = new.host
    BY DEF ReqRec, Stage, Waiting
  <2> QED
    BY <1>2, <2>1, DSet DEF DInv, GFTypeOK
<1> QED
  BY <1>1, <1>2 DEF Connect

LEMMA DBegin ==
    ASSUME DInv, NEW r \in Request, NEW w \in Worker, Begin(r, w)
    PROVE  DInv' /\ UNCHANGED <<file, flag>>
<1>1. CASE Refuse(r)
  BY <1>1, DSet, NewReqFacts DEF Refuse, DInv, GFTypeOK, Stage
<1>2. ASSUME NEW p \in Path, NEW h \in Host, StartAddress(r, w, p, h)
      PROVE  DInv' /\ UNCHANGED <<file, flag>>
  <2> DEFINE rq == Asked(w, p, h)
  <2>0. NewReq \in ReqRec
    BY NewReqFacts
  <2>1. rq \in ReqRec /\ rq.host = h
    BY <2>0 DEF Asked, ReqRec
  <2>2. backend' \in [Worker -> Host \cup {NoHost}] /\ backend'[w] = h
    BY <1>2 DEF StartAddress, DInv, GFTypeOK
  <2> QED
    BY <1>2, <2>1, <2>2, DConnect DEF StartAddress
<1>3. ASSUME NEW p \in Path, NEW h \in Host, StartName(r, w, p, h)
      PROVE  DInv' /\ UNCHANGED <<file, flag>>
  <2> DEFINE rq == [Asked(w, p, h) EXCEPT !.stage = "resolving"]
  <2>0. NewReq \in ReqRec /\ NewReq.conn = NoHost
    BY NewReqFacts
  <2>1. /\ Asked(w, p, h) \in ReqRec
        /\ Asked(w, p, h).conn = NoHost
    <3>1. Asked(w, p, h) \in ReqRec
      BY <2>0 DEF Asked, ReqRec
    <3>2. Asked(w, p, h).conn = NoHost
      BY <2>0 DEF Asked, ReqRec
    <3> QED
      BY <3>1, <3>2
  <2>2. rq \in ReqRec /\ rq.conn = NoHost
    BY <2>1 DEF ReqRec, Stage, Waiting
  <2> QED
    BY <1>3, <2>2, DSet, NewReqFacts DEF StartName, DInv, GFTypeOK, Stage
<1> QED
  BY <1>1, <1>2, <1>3 DEF Begin

(* ngx_http_upstream_process_request stores what Fetch allows: a whole     *)
(* file, because what was written is what was read and its length was      *)
(* compared.                                                               *)
LEMMA DStore ==
    ASSUME DInv, NEW r \in Request, StoreFile(r)
    PROVE  DInv' /\ Promise!FNext
<1> DEFINE rq == Flushed(req[r])
           p == rq.path
           f == [bytes |-> rq.got, announced |-> rq.announced, status |-> rq.status]
<1>1. rq \in ReqRec /\ p \in Path /\ rq.got \in 0 .. MaxBody /\ rq.announced \in -1 .. MaxBody
      /\ rq.temp = IF rq.got = 0 THEN NoFd ELSE rq.got
  <2> DEFINE q == req[r]
  <2>1. q \in ReqRec
    BY DEF DInv, GFTypeOK
  <2>2. /\ q.got \in 0 .. MaxBody /\ MaxBody \in Nat
        /\ (IF q.got = 0 THEN NoFd ELSE q.got) \in NoFd .. MaxBody
    BY <2>1, GetFileAssumption DEF ReqRec, NoFd
  <2>3. Flushed(q) \in ReqRec
    BY <2>1, <2>2 DEF Flushed, ReqRec
  <2>4. Flushed(q).got = q.got /\ Flushed(q).temp = IF q.got = 0 THEN NoFd ELSE q.got
    BY <2>1 DEF Flushed, ReqRec
  <2>5. rq = Flushed(q)
    OBVIOUS
  <2> QED
    BY <2>2, <2>3, <2>4, <2>5 DEF ReqRec
<1>2. rq.status = 200 /\ rq.announced \in {-1, rq.got}
  BY <1>1 DEF StoreFile, Storable, NoFd
<1>3. f \in FileRec /\ f \in Promise!WholeFile
  BY <1>1, <1>2 DEF FileRec, Promise!WholeFile
<1>4. file' = [file EXCEPT ![p] = f] \/ UNCHANGED file
  BY DEF StoreFile
<1>5. flag' = [flag EXCEPT ![p] = @ \cup {"STORED"}] /\ UNCHANGED backend
  BY DEF StoreFile
<1>6. file' \in [Path -> FileRec] /\ flag' \in [Path -> SUBSET {"STORED", "D_FAIL"}]
  BY <1>1, <1>3, <1>4, <1>5 DEF DInv, GFTypeOK
<1>7. DInv'
  BY <1>5, <1>6, DSet, NewReqFacts DEF StoreFile, DInv, GFTypeOK, Stage
<1>8. Promise!FStore(p)
  BY <1>3, <1>4, <1>5 DEF Promise!FStore
<1> QED
  BY <1>1, <1>7, <1>8 DEF Promise!FNext

LEMMA DProgress ==
    ASSUME DInv, NEW r \in Request, Progress(r)
    PROVE  DInv' /\ [Promise!FNext]_<<file, flag>>
<1>0. req[r] \in ReqRec /\ req[r].conn \in {req[r].host, NoHost}
      /\ file \in [Path -> FileRec] /\ flag \in [Path -> SUBSET {"STORED", "D_FAIL"}]
      /\ backend \in [Worker -> Host \cup {NoHost}]
  BY DEF DInv, GFTypeOK, OwnHost
<1>1. CASE Resolved(r)
  BY <1>0, <1>1, DConnect DEF Resolved
<1>2. CASE NotResolved(r)
  BY <1>0, <1>2, DFinalize DEF NotResolved
<1>3. CASE SendRequest(r)
  <2> DEFINE rq == [req[r] EXCEPT !.stage = "header"]
  <2>1. rq \in ReqRec /\ rq.conn \in {rq.host, NoHost}
    BY <1>0 DEF ReqRec, Stage, Waiting
  <2>2. req' = [req EXCEPT ![r] = rq] /\ UNCHANGED <<backend, file, flag>>
    BY <1>3 DEF SendRequest
  <2> QED
    BY <1>0, <2>1, <2>2, DSet
<1>4. CASE PeerFails(r)
  BY <1>0, <1>4, DFinalize DEF PeerFails, UpstreamNext
<1>5. CASE HeaderRead(r)
  <2>1. PICK a \in Answer : req' = [req EXCEPT ![r] = Piped(req[r], a)]
    BY <1>5 DEF HeaderRead
  <2>2. Piped(req[r], a) \in ReqRec /\ Piped(req[r], a).conn = req[r].conn
        /\ Piped(req[r], a).host = req[r].host
    <3>1. /\ a.status \in {0, 200, 404} /\ a.announced \in -1 .. MaxBody
          /\ 0 \in 0 .. MaxBody /\ NoFd \in NoFd .. MaxBody /\ "body" \in Stage
      BY GetFileAssumption DEF Answer, NoFd, Stage, Waiting
    <3>2. Piped(req[r], a) \in ReqRec
      BY <1>0, <3>1 DEF Piped, ReqRec
    <3>3. Piped(req[r], a).conn = req[r].conn /\ Piped(req[r], a).host = req[r].host
      BY <1>0 DEF Piped, ReqRec
    <3> QED
      BY <3>2, <3>3
  <2> QED
    BY <1>0, <1>5, <2>1, <2>2, DSet DEF HeaderRead
<1>6. CASE ReadBody(r)
  <2>1. PICK n \in {req[r].temp, req[r].got + 1} :
           req' = [req EXCEPT ![r].got = @ + 1, ![r].temp = n]
    BY <1>6 DEF ReadBody
  <2> DEFINE rq == [req[r] EXCEPT !.got = @ + 1, !.temp = n]
  <2>2. req[r].got + 1 \in 0 .. MaxBody /\ n \in NoFd .. MaxBody
    BY <1>0, <1>6, GetFileAssumption DEF ReadBody, ReqRec, NoFd
  <2>3. rq \in ReqRec /\ rq.conn \in {rq.host, NoHost}
    BY <1>0, <2>2 DEF ReqRec
  <2>4. req' = [req EXCEPT ![r] = rq]
    BY <1>0, <2>1 DEF DInv, GFTypeOK
  <2> QED
    BY <1>0, <1>6, <2>3, <2>4, DSet DEF ReadBody
<1>7. CASE BodyFails(r)
  BY <1>0, <1>7, DFinalize DEF BodyFails
<1>8. CASE StoreFile(r)
  BY <1>8, DStore
<1>9. CASE EndOfBody(r)
  <2>1. Flushed(req[r]) \in ReqRec
    BY <1>0, GetFileAssumption DEF Flushed, ReqRec, NoFd
  <2> QED
    BY <1>9, <2>1, DFinalize DEF EndOfBody
<1> QED
  BY <1>1, <1>2, <1>3, <1>4, <1>5, <1>6, <1>7, <1>8, <1>9 DEF Progress

(* What a step of the processes does to the downloads keeps DInv. *)
LEMMA DWithWorkers ==
    ASSUME DInv, WithWorkers
    PROVE  DInv' /\ UNCHANGED <<file, flag>>
<1>1. req' \in [Request -> ReqRec]
  BY NewReqFacts DEF DInv, GFTypeOK, WithWorkers, Stage
<1>2. \A r \in Request : req'[r] = req[r] \/ req'[r].conn = NoHost
  BY NewReqFacts DEF WithWorkers, Stage
<1>3. backend' \in [Worker -> Host \cup {NoHost}]
  BY WorkersAreSlots DEF DInv, GFTypeOK, WithWorkers
<1> QED
  BY <1>1, <1>2, <1>3 DEF DInv, GFTypeOK, OwnHost, WithWorkers

(* Every step keeps DInv, and is a step of Fetch or none. *)
LEMMA DStep ==
    ASSUME DInv, [NNext]_nvars
    PROVE  DInv' /\ [Promise!FNext]_<<file, flag>>
<1>1. CASE UNCHANGED gfvars
  BY <1>1 DEF gfvars, DInv, GFTypeOK, OwnHost
<1>2. CASE WithWorkers
  BY <1>2, DWithWorkers
<1>3. ASSUME NEW r \in Request, NEW s \in Slot, Accept(r, s)
      PROVE  DInv' /\ [Promise!FNext]_<<file, flag>>
  BY <1>3, DBegin, WorkersAreSlots DEF Accept
<1>4. ASSUME NEW r \in Request, Serve(r)
      PROVE  DInv' /\ [Promise!FNext]_<<file, flag>>
  BY <1>4, DProgress DEF Serve
<1>5. ASSUME NEW r \in Request, Retry(r)
      PROVE  DInv' /\ [Promise!FNext]_<<file, flag>>
  BY <1>5, DSet, NewReqFacts DEF Retry, AskAgain, DInv, GFTypeOK
<1> QED
  BY <1>1, <1>2, <1>3, <1>4, <1>5
     DEF NNext, nvars, Master, WorkerLoop, GracefulExit

-----------------------------------------------------------------------------
(* THE PROCESSES *)

(* TableKnowsWorkers, MasterLast and LostOnlyWithWorker rest on four facts *)
(* between turns of the master: its table knows the workers, live is right *)
(* when it says that none is left, only a server that is to terminate has  *)
(* told a worker to, and the master is only gone when live is off.         *)
Knows(tb, wk) == \A s \in Slot : wk[s].life # "gone" => tb[s].used /\ ~tb[s].exited
LiveRight(m, tb) == ~m.live => \A s \in Slot : ~tb[s].used \/ tb[s].exited
TermTold(m, wk) == \A s \in Slot : wk[s].term => m.terminate

PInv == /\ PTypeOK
        /\ Knows(table, worker) /\ LiveRight(master, table) /\ TermTold(master, worker)
        /\ ~master.up => ~master.live

LEMMA SlotFacts ==
    /\ FreeSlot \in TableRec /\ Gone \in WorkerRec /\ Fresh \in WorkerRec
    /\ ~FreeSlot.used /\ Gone.life = "gone" /\ ~Gone.term /\ Fresh.life = "init" /\ ~Fresh.term
    /\ \A life \in {"dead", "fatal"} : /\ Ended(life) \in WorkerRec /\ Ended(life).life = life
                                       /\ ~Ended(life).term
BY DEF FreeSlot, Gone, Fresh, Ended, TableRec, WorkerRec

(* What a number of failures leaves of the settings. *)
LEMMA SpentFacts ==
    ASSUME NEW c \in LeftRec, NEW k \in Nat, k <= c.fails
    PROVE  /\ Spent(c, k) \in LeftRec /\ Spent(c, k).workers = c.workers
           /\ Spent(c, k).failed = c.failed + k
<1>1. c.fails - k \in Nat /\ c.failed + k \in Nat
  BY DEF LeftRec
<1>2. Spent(c, k) = [c EXCEPT !.fails = c.fails - k, !.failed = c.failed + k]
  BY DEF Spent, LeftRec
<1> QED
  BY <1>1, <1>2 DEF LeftRec

(* ngx_start_worker_processes: the slots taken hold workers the table knows. *)
LEMMA StartFacts ==
    ASSUME NEW tb \in [Slot -> TableRec], NEW n, NEW just \in BOOLEAN
    PROVE  /\ StartWorkers(tb, n, just) \in [Slot -> TableRec]
           /\ \A s \in SpawnSlots(tb, n) :
                 StartWorkers(tb, n, just)[s].used /\ ~StartWorkers(tb, n, just)[s].exited
           /\ \A s \in Slot \ SpawnSlots(tb, n) : StartWorkers(tb, n, just)[s] = tb[s]
<1> DEFINE new == [FreeSlot EXCEPT !.used = TRUE, !.respawn = TRUE, !.just = just]
<1>1. new \in TableRec /\ new.used /\ ~new.exited
  BY DEF FreeSlot, TableRec
<1>2. SpawnSlots(tb, n) \subseteq Slot
  BY DEF SpawnSlots
<1> HIDE DEF new
<1>3. StartWorkers(tb, n, just) = [s \in Slot |-> IF s \in SpawnSlots(tb, n) THEN new ELSE tb[s]]
  BY DEF StartWorkers, new
<1> QED
  BY <1>1, <1>2, <1>3

LEMMA PInitial == PInit => PInv
<1> SUFFICES ASSUME PInit PROVE PInv
  OBVIOUS
<1> DEFINE none == [s \in Slot |-> FreeSlot]
<1>1. none \in [Slot -> TableRec]
  BY SlotFacts
<1>2. PICK n : /\ table = StartWorkers(none, n, FALSE)
               /\ worker = [s \in Slot |-> IF s \in SpawnSlots(none, n) THEN Fresh ELSE Gone]
  BY DEF PInit
<1>3. left \in LeftRec
  <2>1. PICK c \in Settings : \E k \in 0 .. c.workers : k <= c.fails /\ left = Spent(c, k)
    BY DEF PInit
  <2>2. PICK k \in 0 .. c.workers : k <= c.fails /\ left = Spent(c, k)
    BY <2>1
  <2>3. c \in LeftRec
    BY ProcessAssumption DEF LeftRec
  <2>4. k \in Nat
    BY <2>3 DEF LeftRec
  <2> QED
    BY <2>2, <2>3, <2>4, SpentFacts
<1>4. master \in MasterRec /\ master.live /\ master.up
  BY DEF PInit, MasterRec
<1> HIDE DEF none
<1>5. PTypeOK
  <2>1. mutex \in Slot \cup {NoHolder}
    BY DEF PInit
  <2>2. table \in [Slot -> TableRec] /\ worker \in [Slot -> WorkerRec]
    BY <1>1, <1>2, StartFacts, SlotFacts
  <2> QED
    BY <1>3, <1>4, <2>1, <2>2 DEF PTypeOK
<1>6. Knows(table, worker) /\ TermTold(master, worker)
  BY <1>1, <1>2, StartFacts, SlotFacts DEF Knows, TermTold
<1> QED
  BY <1>4, <1>5, <1>6 DEF PInv, LiveRight

(* ngx_reap_children: a slot that is freed or respawned had no worker left. *)
LEMMA ReapFacts ==
    ASSUME PInv, NEW F \in Failing
    PROVE  /\ Tb(F) \in [Slot -> TableRec] /\ Wk(F) \in [Slot -> WorkerRec] /\ Mm(F) \in MasterRec
           /\ Knows(Tb(F), Wk(F)) /\ LiveRight(Mm(F), Tb(F)) /\ TermTold(Mm(F), Wk(F))
           /\ Mm(F).up = master.up /\ Mm(F).terminate = master.terminate
           /\ \A s \in Slot : Running(s) => Wk(F)[s].life = "run"
<1>0. table \in [Slot -> TableRec] /\ worker \in [Slot -> WorkerRec] /\ master \in MasterRec
      /\ Knows(table, worker) /\ LiveRight(master, table) /\ TermTold(master, worker)
  BY DEF PInv, PTypeOK
<1>f. \A s \in F : master.reap /\ table[s].used /\ table[s].exited
  BY DEF Failing, ToRespawn
<1>1. Mm(F) \in MasterRec /\ Mm(F).up = master.up /\ Mm(F).terminate = master.terminate
      /\ Mm(F).live = IF master.reap THEN LiveAfter(table, master, F) ELSE master.live
  <2>1. LiveAfter(table, master, F) \in BOOLEAN
    BY DEF LiveAfter
  <2> QED
    BY <1>0, <2>1 DEF Mm, MasterRec
<1>2. CASE ~master.reap
  <2>1. Tb(F) = table /\ Wk(F) = worker /\ Mm(F).live = master.live
    BY <1>0, <1>1, <1>2 DEF Tb, Wk
  <2> QED
    BY <1>0, <1>1, <2>1 DEF LiveRight, TermTold, Running
<1>3. CASE master.reap
  <2> DEFINE R == ToRespawn(table, master)
  <2>1. Tb(F) = [s \in Slot |-> IF s \in F THEN table[s]
                                ELSE IF s \in R THEN [table[s] EXCEPT !.exited = FALSE]
                                ELSE IF table[s].used /\ table[s].exited THEN FreeSlot
                                ELSE table[s]]
    BY <1>3 DEF Tb, Reaped
  <2>2. Wk(F) = [s \in Slot |-> IF s \in R \ F THEN Fresh ELSE worker[s]]
    BY <1>3 DEF Wk
  <2>3. \A s \in Slot : s \in R => table[s].used /\ table[s].exited
    BY DEF ToRespawn
  <2>4. \A s \in Slot : /\ [table[s] EXCEPT !.exited = FALSE] \in TableRec
                        /\ [table[s] EXCEPT !.exited = FALSE].used = table[s].used
                        /\ ~[table[s] EXCEPT !.exited = FALSE].exited
    BY <1>0 DEF TableRec
  <2> HIDE DEF R
  <2>5. Tb(F) \in [Slot -> TableRec] /\ Wk(F) \in [Slot -> WorkerRec]
    BY <1>0, <2>1, <2>2, <2>4, SlotFacts
  <2>6. Knows(Tb(F), Wk(F))
    BY <1>0, <2>1, <2>2, <2>3, <2>4, SlotFacts DEF Knows
  <2>7. TermTold(Mm(F), Wk(F)) /\ \A s \in Slot : Running(s) => Wk(F)[s].life = "run"
    <3>1. \A s \in Slot : Running(s) => s \notin R
      BY <1>0, <2>3 DEF Knows, Running
    <3> QED
      BY <1>0, <1>1, <2>2, <3>1, SlotFacts DEF TermTold, Running
  <2>8. LiveRight(Mm(F), Tb(F))
    BY <1>1, <1>3 DEF LiveRight, LiveAfter, Tb
  <2> QED
    BY <1>1, <2>5, <2>6, <2>7, <2>8
<1> QED
  BY <1>2, <1>3

(* ngx_signal_worker_processes: nobody gets out of the table, and only     *)
(* SIGKILL ends a worker.                                                  *)
WorkersAfter(tb, wk, sig) ==
    [s \in Slot |-> IF s \in Signalled(tb, sig) THEN Told(wk[s], sig) ELSE wk[s]]

LEMMA TableSignalled ==
    ASSUME NEW tb \in [Slot -> TableRec], NEW sig
    PROVE  /\ AfterSignal(tb, sig) \in [Slot -> TableRec]
           /\ \A s \in Slot : /\ AfterSignal(tb, sig)[s].used = tb[s].used
                              /\ AfterSignal(tb, sig)[s].exited = tb[s].exited
<1>1. ASSUME NEW e \in TableRec
      PROVE  /\ [e EXCEPT !.exiting = ~e.exited] \in TableRec
             /\ [e EXCEPT !.just = FALSE] \in TableRec
             /\ [e EXCEPT !.exiting = ~e.exited].used = e.used
             /\ [e EXCEPT !.exiting = ~e.exited].exited = e.exited
             /\ [e EXCEPT !.just = FALSE].used = e.used
             /\ [e EXCEPT !.just = FALSE].exited = e.exited
  BY DEF TableRec
<1> QED
  BY <1>1 DEF AfterSignal

LEMMA WorkersSignalled ==
    ASSUME NEW tb, NEW wk \in [Slot -> WorkerRec], NEW sig \in {"quit", "term", "kill"}
    PROVE  /\ WorkersAfter(tb, wk, sig) \in [Slot -> WorkerRec]
           /\ \A s \in Slot :
                 /\ WorkersAfter(tb, wk, sig)[s].life # "gone" => wk[s].life # "gone"
                 /\ sig # "kill" => WorkersAfter(tb, wk, sig)[s].life = wk[s].life
                 /\ sig # "term" /\ WorkersAfter(tb, wk, sig)[s].term => wk[s].term
<1>1. ASSUME NEW w \in WorkerRec
      PROVE  /\ Told(w, sig) \in WorkerRec
             /\ Told(w, sig).life # "gone" => w.life # "gone"
             /\ sig # "kill" => Told(w, sig).life = w.life
             /\ sig # "term" /\ Told(w, sig).term => w.term
  <2>1. CASE ~Alive(w)
    BY <2>1 DEF Told
  <2>2. CASE Alive(w) /\ sig = "kill"
    BY <2>2, SlotFacts DEF Told, Alive
  <2>3. CASE Alive(w) /\ sig = "quit"
    BY <2>3 DEF Told, WorkerRec
  <2>4. CASE Alive(w) /\ sig = "term"
    BY <2>4 DEF Told, WorkerRec
  <2> QED
    BY <2>1, <2>2, <2>3, <2>4
<1> QED
  BY <1>1 DEF WorkersAfter

LEMMA SignalFacts ==
    ASSUME NEW tb, NEW wk, NEW m, NEW sig, SignalWorkers(tb, wk, m, sig)
    PROVE  /\ table' = AfterSignal(tb, sig) /\ worker' = WorkersAfter(tb, wk, sig)
           /\ \E again \in BOOLEAN : master' = Asleep(m, again)
BY DEF SignalWorkers, WorkersAfter, NoSuchProcess

LEMMA QuitFacts ==
    ASSUME NEW tb \in [Slot -> TableRec], NEW wk \in [Slot -> WorkerRec],
           NEW m, SignalWorkers(tb, wk, m, "quit")
    PROVE  \A s \in Slot : worker'[s].life = wk[s].life
<1>1. worker' = WorkersAfter(tb, wk, "quit")
  BY DEF SignalWorkers, WorkersAfter
<1>2. \A sig \in {"quit", "term", "kill"} : \A s \in Slot :
         sig # "kill" => WorkersAfter(tb, wk, sig)[s].life = wk[s].life
  BY WorkersSignalled
<1> QED
  BY <1>1, <1>2

(* The master goes back to sleep, or was never awake. *)
LEMMA AsleepFacts ==
    ASSUME NEW m \in MasterRec, NEW again \in BOOLEAN
    PROVE  /\ Asleep(m, again) \in MasterRec
           /\ Asleep(m, again).up = m.up /\ Asleep(m, again).live = m.live
           /\ Asleep(m, again).terminate = m.terminate
<1>1. m.delay \in Nat /\ m.sigio \in Nat /\ 2 * m.delay \in Nat
  BY DEF MasterRec
<1>2. /\ (IF m.delay # 0 /\ m.alarm THEN 0 ELSE m.sigio) \in Nat
      /\ (IF m.alarm /\ m.delay <= KillDelay THEN 2 * m.delay ELSE m.delay) \in Nat
  BY <1>1
<1>3. Asleep(m, again) = [m EXCEPT !.woken = FALSE, !.reap = again, !.alarm = FALSE,
                     !.sigio = IF m.delay # 0 /\ m.alarm THEN 0 ELSE m.sigio,
                     !.delay = IF m.alarm /\ m.delay <= KillDelay THEN 2 * m.delay ELSE m.delay]
  BY DEF Asleep, MasterRec
<1> QED
  BY <1>2, <1>3 DEF MasterRec

(* A turn of the master ends with the table and workers it began with, or  *)
(* signals them; m is what it goes to sleep with.                          *)
LEMMA TurnEnd ==
    ASSUME PInv, NEW m \in MasterRec, NEW tb \in [Slot -> TableRec], NEW wk \in [Slot -> WorkerRec],
           Knows(tb, wk), LiveRight(m, tb), TermTold(m, wk), m.up,
           mutex' = mutex, left' \in LeftRec,
           \/ Sleep(tb, wk, m)
           \/ \E sig \in {"quit", "term", "kill"} :
                 SignalWorkers(tb, wk, m, sig) /\ (sig = "term" => m.terminate)
    PROVE  PInv'
<1>0. PICK again \in BOOLEAN : master' = Asleep(m, again)
  BY SignalFacts DEF Sleep
<1>1. /\ master' \in MasterRec /\ master'.up /\ master'.live = m.live
      /\ master'.terminate = m.terminate
  BY <1>0, AsleepFacts
<1>2. CASE Sleep(tb, wk, m)
  <2>1. table' = tb /\ worker' = wk
    BY <1>2 DEF Sleep
  <2> QED
    BY <1>1, <2>1 DEF PInv, PTypeOK, Knows, LiveRight, TermTold
<1>3. ASSUME NEW sig \in {"quit", "term", "kill"},
             SignalWorkers(tb, wk, m, sig), sig = "term" => m.terminate
      PROVE  PInv'
  <2> DEFINE tb2 == AfterSignal(tb, sig)
             wk2 == WorkersAfter(tb, wk, sig)
  <2>0. table' = tb2 /\ worker' = wk2
    BY <1>3, SignalFacts
  <2>1. /\ tb2 \in [Slot -> TableRec]
        /\ \A s \in Slot : tb2[s].used = tb[s].used /\ tb2[s].exited = tb[s].exited
    BY TableSignalled
  <2>2. /\ wk2 \in [Slot -> WorkerRec]
        /\ \A s \in Slot : /\ wk2[s].life # "gone" => wk[s].life # "gone"
                           /\ sig # "term" /\ wk2[s].term => wk[s].term
    BY WorkersSignalled
  <2> HIDE DEF tb2, wk2
  <2>3. Knows(tb2, wk2) /\ LiveRight(m, tb2)
    BY <2>1, <2>2 DEF Knows, LiveRight
  <2>4. TermTold(m, wk2)
    BY <1>3, <2>2 DEF TermTold
  <2>5. Knows(table, worker)' /\ LiveRight(master, table)' /\ TermTold(master, worker)'
    BY <1>1, <2>0, <2>3, <2>4 DEF Knows, LiveRight, TermTold
  <2> QED
    BY <1>1, <2>0, <2>1, <2>2, <2>5 DEF PInv, PTypeOK
<1> QED
  BY <1>2, <1>3

(* The failures of a turn are counted. *)
LEMMA TurnLeft ==
    ASSUME PInv, NEW F \in Failing,
           \/ MasterExit(F) \/ MasterTerminate(F) \/ MasterQuit(F)
           \/ MasterReconfigure(F) \/ MasterRefused(F) \/ MasterReap(F)
    PROVE  left' \in LeftRec /\ mutex' = mutex /\ master.up
<1>0. left \in LeftRec
  BY DEF PInv, PTypeOK
<1>1. F \subseteq Slot
  BY DEF Failing, ToRespawn
<1>2. Cardinality(F) \in Nat
  BY <1>1, ProcessAssumption, FS_Subset, FS_CardinalityType
<1>3. ASSUME NEW n \in Nat, Awake(n)
      PROVE  left' \in LeftRec /\ mutex' = mutex /\ master.up
  BY <1>0, <1>3, SpentFacts DEF Awake, Fail
<1>4. CASE MasterReconfigure(F)
  <2>1. PICK k \in 0 .. left.workers : Awake(Cardinality(F) + k)
    BY <1>4 DEF MasterReconfigure
  <2>2. left.workers \in Nat
    BY <1>0 DEF LeftRec
  <2>3. Cardinality(F) + k \in Nat
    BY <1>2, <2>2
  <2> QED
    BY <1>3, <2>1, <2>3
<1>5. CASE Awake(Cardinality(F))
  BY <1>2, <1>3, <1>5
<1> QED
  BY <1>4, <1>5 DEF MasterExit, MasterTerminate, MasterQuit, MasterRefused, MasterReap

(* The turns of ngx_master_process_cycle keep the invariant, and only one  *)
(* of a server that is to terminate can end a worker.                      *)
LEMMA MasterFacts ==
    ASSUME PInv, MasterCycle
    PROVE  /\ PInv'
           /\ \A s \in Slot : Died(s) => master.terminate
<1>p. PICK F \in Failing :
         \/ MasterExit(F) \/ MasterTerminate(F) \/ MasterQuit(F)
         \/ MasterReconfigure(F) \/ MasterRefused(F) \/ MasterReap(F)
  BY DEF MasterCycle
<1>l. left' \in LeftRec /\ mutex' = mutex /\ master.up
  BY <1>p, TurnLeft
<1>0. /\ Tb(F) \in [Slot -> TableRec] /\ Wk(F) \in [Slot -> WorkerRec] /\ Mm(F) \in MasterRec
      /\ Knows(Tb(F), Wk(F)) /\ LiveRight(Mm(F), Tb(F)) /\ TermTold(Mm(F), Wk(F))
      /\ Mm(F).up = master.up /\ Mm(F).terminate = master.terminate
      /\ \A s \in Slot : Running(s) => Wk(F)[s].life = "run"
  BY ReapFacts
<1>1. CASE MasterExit(F)
  <2> DEFINE m == [Mm(F) EXCEPT !.up = FALSE]
  <2>1. m \in MasterRec /\ ~m.up /\ m.live = Mm(F).live /\ m.terminate = Mm(F).terminate
    BY <1>0 DEF MasterRec
  <2>2. master' = m /\ ~m.live /\ table' = Tb(F) /\ worker' = Wk(F)
    BY <1>1, <2>1 DEF MasterExit
  <2> HIDE DEF m
  <2>3. PInv'
    BY <1>0, <1>l, <2>1, <2>2 DEF PInv, PTypeOK, Knows, LiveRight, TermTold
  <2>4. \A s \in Slot : ~Died(s)
    BY <1>0, <2>2 DEF Died
  <2> QED
    BY <2>3, <2>4
<1>2. CASE MasterTerminate(F)
  <2> DEFINE d == IF master.delay = 0 THEN FirstDelay ELSE master.delay
  <2>0. master.delay \in Nat /\ master.sigio \in Nat /\ left.workers + 2 \in Nat
    BY DEF PInv, PTypeOK, MasterRec, LeftRec
  <2>s. Mm(F).sigio = master.sigio
    BY DEF Mm, PInv, PTypeOK, MasterRec
  <2>1. d \in Nat /\ Mm(F).terminate /\ Mm(F).up
    BY <1>0, <1>2, <1>l, <2>0, ProcessAssumption DEF MasterTerminate
  <2> HIDE DEF d
  <2>2. ASSUME NEW n \in Nat
        PROVE  LET m == [Mm(F) EXCEPT !.delay = d, !.sigio = n]
               IN  /\ m \in MasterRec /\ m.up = Mm(F).up /\ m.live = Mm(F).live
                   /\ m.terminate = Mm(F).terminate
    BY <1>0, <2>1 DEF MasterRec
  <2>3. CASE master.sigio > 0
    <3> DEFINE m == [Mm(F) EXCEPT !.delay = d, !.sigio = master.sigio - 1]
    <3>1. master.sigio - 1 \in Nat
      BY <2>0, <2>3
    <3>2. m \in MasterRec /\ m.up = Mm(F).up /\ m.live = Mm(F).live /\ m.terminate = Mm(F).terminate
      BY <2>2, <3>1
    <3>3. Sleep(Tb(F), Wk(F), m)
      BY <1>2, <2>3, <2>s DEF MasterTerminate, d
    <3> HIDE DEF m
    <3>4. LiveRight(m, Tb(F)) /\ TermTold(m, Wk(F))
      BY <1>0, <3>2 DEF LiveRight, TermTold
    <3> QED
      BY <1>0, <2>1, <3>2, <3>3, <3>4, <1>l, TurnEnd
  <2>4. CASE ~(master.sigio > 0)
    <3> DEFINE m == [Mm(F) EXCEPT !.delay = d, !.sigio = left.workers + 2]
               sig == IF d > KillDelay THEN "kill" ELSE "term"
    <3>2. m \in MasterRec /\ m.up = Mm(F).up /\ m.live = Mm(F).live /\ m.terminate = Mm(F).terminate
      BY <2>0, <2>2
    <3>3. SignalWorkers(Tb(F), Wk(F), m, sig)
      BY <1>2, <2>4 DEF MasterTerminate, d
    <3>4. sig \in {"quit", "term", "kill"}
      OBVIOUS
    <3> HIDE DEF m, sig
    <3>5. LiveRight(m, Tb(F)) /\ TermTold(m, Wk(F))
      BY <1>0, <3>2 DEF LiveRight, TermTold
    <3> QED
      BY <1>0, <2>1, <3>2, <3>3, <3>4, <3>5, <1>l, TurnEnd
  <2> QED
    BY <2>3, <2>4
<1>3. CASE MasterQuit(F)
  <2>1. Mm(F).up /\ SignalWorkers(Tb(F), Wk(F), Mm(F), "quit")
    BY <1>0, <1>3 DEF MasterQuit, Awake
  <2>2. \A s \in Slot : ~Died(s)
    <3>1. \A s \in Slot : worker'[s].life = Wk(F)[s].life
      BY <1>0, <2>1, QuitFacts
    <3> QED
      BY <1>0, <3>1 DEF Died
  <2> QED
    BY <1>0, <2>1, <2>2, <1>l, TurnEnd
<1>4. CASE MasterReconfigure(F)
  <2>0. PICK n :
           SignalWorkers(StartWorkers(Tb(F), n, TRUE),
                         [s \in Slot |-> IF s \in SpawnSlots(Tb(F), n) THEN Fresh ELSE Wk(F)[s]],
                         [Mm(F) EXCEPT !.reconfigure = FALSE, !.live = TRUE], "quit")
    BY <1>4 DEF MasterReconfigure
  <2> DEFINE new == SpawnSlots(Tb(F), n)
             m == [Mm(F) EXCEPT !.reconfigure = FALSE, !.live = TRUE]
             tb == StartWorkers(Tb(F), n, TRUE)
             wk == [s \in Slot |-> IF s \in new THEN Fresh ELSE Wk(F)[s]]
  <2>1. m \in MasterRec /\ m.up = Mm(F).up /\ m.live /\ m.terminate = Mm(F).terminate
    BY <1>0 DEF MasterRec
  <2>2. Mm(F).up /\ SignalWorkers(tb, wk, m, "quit")
    BY <1>0, <1>l, <2>0
  <2>3. /\ tb \in [Slot -> TableRec]
        /\ \A s \in Slot : IF s \in new THEN tb[s].used /\ ~tb[s].exited ELSE tb[s] = Tb(F)[s]
    <3>1. \A just \in BOOLEAN :
             /\ StartWorkers(Tb(F), n, just) \in [Slot -> TableRec]
             /\ \A s \in SpawnSlots(Tb(F), n) : /\ StartWorkers(Tb(F), n, just)[s].used
                                                /\ ~StartWorkers(Tb(F), n, just)[s].exited
             /\ \A s \in Slot \ SpawnSlots(Tb(F), n) : StartWorkers(Tb(F), n, just)[s] = Tb(F)[s]
      BY <1>0, StartFacts
    <3> QED
      BY <3>1
  <2>n. \A s \in new : ~Tb(F)[s].used
    BY DEF SpawnSlots
  <2> HIDE DEF new, m, tb
  <2>4. wk \in [Slot -> WorkerRec]
    BY <1>0, SlotFacts
  <2>5. Knows(tb, wk) /\ LiveRight(m, tb) /\ TermTold(m, wk)
    BY <1>0, <2>1, <2>3, SlotFacts DEF Knows, LiveRight, TermTold
  <2>6. \A s \in Slot : Running(s) => wk[s].life = "run"
    BY <1>0, <2>n DEF Knows
  <2> HIDE DEF wk
  <2>7. \A s \in Slot : ~Died(s)
    <3>1. \A s \in Slot : worker'[s].life = wk[s].life
      BY <2>2, <2>3, <2>4, QuitFacts
    <3> QED
      BY <2>6, <3>1 DEF Died
  <2> QED
    BY <2>1, <2>2, <2>3, <2>4, <2>5, <2>7, <1>l, TurnEnd
<1>5. CASE MasterRefused(F)
  <2> DEFINE m == [Mm(F) EXCEPT !.reconfigure = FALSE]
  <2>1. m \in MasterRec /\ m.up = Mm(F).up /\ m.live = Mm(F).live /\ m.terminate = Mm(F).terminate
    BY <1>0 DEF MasterRec
  <2>2. Mm(F).up /\ Sleep(Tb(F), Wk(F), m)
    BY <1>0, <1>5 DEF MasterRefused, Awake
  <2> HIDE DEF m
  <2>3. LiveRight(m, Tb(F)) /\ TermTold(m, Wk(F))
    BY <1>0, <2>1 DEF LiveRight, TermTold
  <2>4. \A s \in Slot : ~Died(s)
    BY <1>0, <2>2 DEF Died, Sleep
  <2> QED
    BY <1>0, <2>1, <2>2, <2>3, <2>4, <1>l, TurnEnd
<1>6. CASE MasterReap(F)
  <2>1. Mm(F).up /\ Sleep(Tb(F), Wk(F), Mm(F))
    BY <1>0, <1>6 DEF MasterReap, Awake
  <2>2. \A s \in Slot : ~Died(s)
    BY <1>0, <2>1 DEF Died, Sleep
  <2> QED
    BY <1>0, <2>1, <2>2, <1>l, TurnEnd
<1> QED
  BY <1>p, <1>1, <1>2, <1>3, <1>4, <1>5, <1>6

(* What a step of the processes other than a turn of the master does.      *)
LEMMA DeadFacts ==
    ASSUME PInv, NEW t \in Slot, Alive(worker[t]), UNCHANGED <<table, master, mutex>>,
           left' \in LeftRec, NEW life \in {"dead", "fatal"},
           worker' = [worker EXCEPT ![t] = Ended(life)]
    PROVE  PInv' /\ \A s \in Slot : Died(s) => s = t
<1> DEFINE d == Ended(life)
<1>1. d \in WorkerRec /\ d.life = life /\ ~d.term
  BY SlotFacts
<1>2. worker' = [worker EXCEPT ![t] = d]
  OBVIOUS
<1> HIDE DEF d
<1>3. worker \in [Slot -> WorkerRec] /\ Knows(table, worker) /\ TermTold(master, worker)
  BY DEF PInv, PTypeOK
<1>4. worker' \in [Slot -> WorkerRec] /\ \A s \in Slot : Died(s) => s = t
  BY <1>1, <1>2, <1>3 DEF Died, Running
<1>5. Knows(table, worker') /\ TermTold(master, worker')
  BY <1>1, <1>2, <1>3 DEF Knows, TermTold, Alive
<1> QED
  BY <1>4, <1>5 DEF PInv, PTypeOK, Knows, TermTold, LiveRight

LEMMA LeftFacts ==
    ASSUME PInv, NEW f \in {"signals", "crashes", "requests"}, left[f] > 0
    PROVE  [left EXCEPT ![f] = @ - 1] \in LeftRec
<1>1. left \in LeftRec
  BY DEF PInv, PTypeOK
<1>2. CASE f = "signals"
  BY <1>1, <1>2 DEF LeftRec
<1>3. CASE f = "crashes"
  BY <1>1, <1>3 DEF LeftRec
<1>4. CASE f = "requests"
  BY <1>1, <1>4 DEF LeftRec
<1> QED
  BY <1>2, <1>3, <1>4

(* ngx_process_get_status: only workers that are dead already are marked. *)
LEMMA SigchldFacts ==
    ASSUME PInv, Sigchld
    PROVE  PInv' /\ \A s \in Slot : ~Died(s)
<1>0. table \in [Slot -> TableRec] /\ worker \in [Slot -> WorkerRec] /\ master \in MasterRec
      /\ Knows(table, worker) /\ LiveRight(master, table) /\ TermTold(master, worker)
  BY DEF PInv, PTypeOK
<1>1. \A s \in Slot : /\ Exited(s) \in TableRec
                      /\ Exited(s).used = table[s].used /\ Exited(s).exited
  BY <1>0 DEF TableRec, Exited
<1>2. /\ table' \in [Slot -> TableRec] /\ \A s \in Slot : table'[s].used = table[s].used
      /\ \A s \in Slot \ Dead : table'[s] = table[s]
      /\ \A s \in Slot : table[s].exited => table'[s].exited
  BY <1>0, <1>1 DEF Sigchld
<1>3. /\ worker' \in [Slot -> WorkerRec]
      /\ \A s \in Slot : worker'[s] = IF s \in Dead THEN Gone ELSE worker[s]
  BY <1>0, SlotFacts DEF Sigchld
<1>4. /\ master' \in MasterRec /\ master'.live = master.live /\ master'.up = master.up
      /\ master'.terminate = master.terminate
  BY <1>0 DEF Sigchld, MasterRec
<1>5. \A s \in Slot : ~Died(s)
  BY <1>3 DEF Died, Running, Dead
<1>6. Knows(table, worker)'
  BY <1>0, <1>2, <1>3, SlotFacts DEF Knows
<1>7. TermTold(master, worker)' /\ LiveRight(master, table)'
  BY <1>0, <1>2, <1>3, <1>4, SlotFacts DEF TermTold, LiveRight
<1>8. mutex' \in Slot \cup {NoHolder} /\ left' = left
  BY DEF Sigchld, PInv, PTypeOK
<1> QED
  BY <1>2, <1>3, <1>4, <1>5, <1>6, <1>7, <1>8 DEF PInv, PTypeOK

(* The signal handler of the master sets flags only. *)
LEMMA SignalHandled ==
    ASSUME PInv, \/ \E sig \in {"terminate", "quit", "reconfigure"} : Signal(sig)
                 \/ Sigalrm
    PROVE  PInv' /\ \A s \in Slot : ~Died(s)
<1>0. master \in MasterRec
  BY DEF PInv, PTypeOK
<1>1. /\ master' \in MasterRec /\ master'.live = master.live /\ master'.up = master.up
      /\ master.terminate => master'.terminate
  <2>1. ASSUME NEW sig \in {"terminate", "quit", "reconfigure"}, Signal(sig)
        PROVE  /\ master' \in MasterRec /\ master'.live = master.live /\ master'.up = master.up
               /\ master.terminate => master'.terminate
    <3>1. CASE sig = "terminate"
      BY <1>0, <2>1, <3>1 DEF Signal, MasterRec
    <3>2. CASE sig = "quit"
      BY <1>0, <2>1, <3>2 DEF Signal, MasterRec
    <3>3. CASE sig = "reconfigure"
      BY <1>0, <2>1, <3>3 DEF Signal, MasterRec
    <3> QED
      BY <3>1, <3>2, <3>3
  <2>2. CASE Sigalrm
    BY <1>0, <2>2 DEF Sigalrm, MasterRec
  <2> QED
    BY <2>1, <2>2
<1>2. UNCHANGED <<table, worker, mutex>>
  BY DEF Signal, Sigalrm
<1>3. left' \in LeftRec
  BY LeftFacts DEF Signal, Sigalrm, PInv, PTypeOK
<1>4. Knows(table, worker)' /\ LiveRight(master, table)' /\ TermTold(master, worker)'
  BY <1>1, <1>2 DEF PInv, Knows, LiveRight, TermTold
<1>5. \A s \in Slot : ~Died(s)
  BY <1>2 DEF Died, Running
<1> QED
  BY <1>1, <1>2, <1>3, <1>4, <1>5 DEF PInv, PTypeOK

-----------------------------------------------------------------------------
(* BOTH TOGETHER *)

(* The handlers themselves lose no request: each ends it or goes on.       *)
LEMMA NoHandlerLoses ==
    ASSUME DInv, NEW r \in Request, NEW w \in Worker, Begin(r, w) \/ Progress(r) \/ AskAgain(r)
    PROVE  \A q \in Request : req'[q].stage = "lost" => req[q].stage = "lost"
<1>0. req \in [Request -> ReqRec] /\ req[r] \in ReqRec
  BY DEF DInv, GFTypeOK
<1>1. SUFFICES ASSUME NEW rq, rq.stage # "lost", req' = [req EXCEPT ![r] = rq]
               PROVE  \A q \in Request : req'[q].stage = "lost" => req[q].stage = "lost"
  <2>1. ASSUME req' = [req EXCEPT ![r] = Over("done")] \/ req' = [req EXCEPT ![r] = NewReq]
        PROVE  \E rq : rq.stage # "lost" /\ req' = [req EXCEPT ![r] = rq]
    BY <2>1, NewReqFacts DEF Stage
  <2>2. ASSUME NEW rq \in ReqRec, NEW addr, Connect(r, rq, addr)
        PROVE  \E new : new.stage # "lost" /\ req' = [req EXCEPT ![r] = new]
    <3>1. ASSUME NEW st \in {"connecting", "header"}
          PROVE  [rq EXCEPT !.stage = st, !.conn = addr].stage # "lost"
      BY DEF ReqRec
    <3> QED
      BY <2>1, <2>2, <3>1 DEF Connect
  <2>3. ASSUME NEW rq, Finalize(r, rq)
        PROVE  \E new : new.stage # "lost" /\ req' = [req EXCEPT ![r] = new]
    BY <2>1, <2>3 DEF Finalize
  <2>4. ASSUME Begin(r, w)
        PROVE  \E new : new.stage # "lost" /\ req' = [req EXCEPT ![r] = new]
    <3>1. ASSUME NEW p \in Path, NEW h \in Host
          PROVE  /\ Asked(w, p, h) \in ReqRec
                 /\ [Asked(w, p, h) EXCEPT !.stage = "resolving"].stage = "resolving"
      <4>0. NewReq \in ReqRec
        BY NewReqFacts
      <4>1. Asked(w, p, h) \in ReqRec
        BY <4>0 DEF Asked, ReqRec
      <4> QED
        BY <4>1 DEF ReqRec
    <3> QED
      BY <2>1, <2>2, <2>4, <3>1 DEF Begin, Refuse, StartAddress, StartName
  <2>5. ASSUME Progress(r)
        PROVE  \E new : new.stage # "lost" /\ req' = [req EXCEPT ![r] = new]
    <3>1. CASE SendRequest(r)
      <4>1. [req[r] EXCEPT !.stage = "header"].stage # "lost"
        BY <1>0 DEF ReqRec
      <4>2. req' = [req EXCEPT ![r] = [req[r] EXCEPT !.stage = "header"]]
        BY <3>1 DEF SendRequest
      <4> QED
        BY <4>1, <4>2
    <3>2. CASE HeaderRead(r)
      <4>1. \A a : Piped(req[r], a).stage = "body"
        BY <1>0 DEF Piped, ReqRec
      <4> QED
        BY <3>2, <4>1 DEF HeaderRead
    <3>3. CASE ReadBody(r)
      <4>1. \A n : [req[r] EXCEPT !.got = @ + 1, !.temp = n].stage = "body"
        BY <1>0, <3>3 DEF ReadBody, In, ReqRec
      <4>2. PICK n : req' = [req EXCEPT ![r].got = @ + 1, ![r].temp = n]
        BY <3>3 DEF ReadBody
      <4>3. req' = [req EXCEPT ![r] = [req[r] EXCEPT !.got = @ + 1, !.temp = n]]
        BY <1>0, <4>2
      <4> QED
        BY <4>1, <4>3
    <3>4. CASE StoreFile(r)
      BY <2>1, <3>4 DEF StoreFile
    <3>5. CASE Resolved(r)
      BY <1>0, <2>2, <3>5 DEF Resolved
    <3> QED
      BY <2>3, <2>5, <3>1, <3>2, <3>3, <3>4, <3>5
         DEF Progress, NotResolved, PeerFails, UpstreamNext, BodyFails, EndOfBody
  <2> QED
    BY <2>1, <2>4, <2>5 DEF AskAgain
<1> QED
  BY <1>0, <1>1

(* A request that the processes lose was in a worker that died. *)
LEMMA LostIn ==
    ASSUME DInv, WithWorkers, NEW r \in Request, req'[r].stage = "lost", req[r].stage # "lost"
    PROVE  /\ req[r].stage \in Waiting /\ req[r].worker \in Slot
           /\ Died(req[r].worker)
<1>1. req[r] \in ReqRec
  BY DEF DInv, GFTypeOK
<1> QED
  BY <1>1, WorkersAreSlots DEF WithWorkers, ReqRec

Lost == \A r \in Request : req'[r].stage = "lost" /\ req[r].stage # "lost"
                           => left'.crashes < left.crashes \/ master.terminate

(* Every step of the server keeps PInv and loses no request but with a     *)
(* worker that crashes or a server that is to terminate.                   *)
LEMMA PStep ==
    ASSUME DInv, PInv, [NNext]_nvars
    PROVE  PInv' /\ Lost
<1>1. ASSUME NEW sig \in {"terminate", "quit", "reconfigure"}, Signal(sig), UNCHANGED gfvars
      PROVE  PInv' /\ Lost
  BY <1>1, SignalHandled DEF gfvars, Lost
<1>2. CASE Sigalrm /\ WithWorkers
  BY <1>2, SignalHandled, LostIn DEF Lost
<1>3. CASE Sigchld /\ WithWorkers
  BY <1>3, SigchldFacts, LostIn DEF Lost
<1>4. CASE MasterCycle /\ WithWorkers
  BY <1>4, MasterFacts, LostIn DEF Lost
<1>5. ASSUME NEW s \in Slot, WorkerTerm(s), WithWorkers
      PROVE  PInv' /\ Lost
  <2>1. master.terminate
    BY <1>5 DEF PInv, TermTold, WorkerTerm
  <2>2. PInv'
    BY <1>5, DeadFacts DEF WorkerTerm, PInv, PTypeOK, Running, Alive
  <2> QED
    BY <2>1, <2>2 DEF Lost
<1>6. ASSUME NEW s \in Slot, WorkerQuit(s), UNCHANGED gfvars
      PROVE  PInv' /\ Lost
  <2>0. worker \in [Slot -> WorkerRec] /\ worker[s] \in WorkerRec
    BY DEF PInv, PTypeOK
  <2> DEFINE w == [worker[s] EXCEPT !.quit = FALSE, !.exiting = TRUE]
  <2>1. w \in WorkerRec /\ w.life = worker[s].life /\ w.term = worker[s].term
    BY <2>0 DEF WorkerRec
  <2>2. worker' = [worker EXCEPT ![s] = w] /\ UNCHANGED <<table, master, mutex, left>>
    BY <1>6, <2>0 DEF WorkerQuit
  <2> HIDE DEF w
  <2>3. /\ worker' \in [Slot -> WorkerRec]
        /\ \A t \in Slot : worker'[t].life = worker[t].life /\ worker'[t].term = worker[t].term
    BY <2>0, <2>1, <2>2
  <2>4. Knows(table, worker)' /\ TermTold(master, worker)' /\ LiveRight(master, table)'
    BY <2>2, <2>3 DEF PInv, Knows, TermTold, LiveRight
  <2> QED
    BY <1>6, <2>2, <2>3, <2>4 DEF PInv, PTypeOK, Lost, gfvars
<1>7. ASSUME NEW s \in Slot, GracefulExit(s)
      PROVE  PInv' /\ Lost
  <2>1. PInv' /\ \A t \in Slot : Died(t) => t = s
    BY <1>7, DeadFacts DEF GracefulExit, WorkerExit, PInv, PTypeOK, Running, Alive
  <2>2. \A r \in Request : ~(req[r].stage \in Waiting /\ req[r].worker = s)
    BY <1>7 DEF GracefulExit, WorkerExit, HasRequest
  <2> QED
    BY <1>7, <2>1, <2>2, LostIn DEF Lost, GracefulExit
<1>8. ASSUME NEW s \in Slot, WorkerCrash(s), WithWorkers
      PROVE  PInv' /\ Lost
  <2>1. left.crashes > 0 /\ left' = [left EXCEPT !.crashes = @ - 1]
    BY <1>8 DEF WorkerCrash
  <2>2. left' \in LeftRec
    BY <2>1, LeftFacts
  <2>3. PInv'
    BY <1>8, <2>2, DeadFacts DEF WorkerCrash
  <2>4. left'.crashes < left.crashes
    BY <2>1 DEF PInv, PTypeOK, LeftRec
  <2> QED
    BY <2>3, <2>4 DEF Lost
<1>9. ASSUME NEW s \in Slot, LockAccept(s) \/ UnlockAccept(s), UNCHANGED gfvars
      PROVE  PInv' /\ Lost
  BY <1>9 DEF LockAccept, UnlockAccept, gfvars, PInv, PTypeOK, Knows, LiveRight, TermTold, Lost
<1>10. ASSUME NEW s \in Slot, NEW r \in Request, Accept(r, s)
       PROVE  PInv' /\ Lost
  <2>1. left' \in LeftRec
    BY <1>10, LeftFacts DEF Accept
  <2>2. Lost
    BY <1>10, NoHandlerLoses, WorkersAreSlots DEF Lost, Accept
  <2> QED
    BY <1>10, <2>1, <2>2 DEF Accept, PInv, PTypeOK, Knows, LiveRight, TermTold
<1>11. ASSUME NEW r \in Request, Serve(r) \/ Retry(r)
       PROVE  PInv' /\ Lost
  <2>1. PICK w : w \in Worker
    BY GetFileAssumption
  <2>2. Lost
    BY <1>11, <2>1, NoHandlerLoses DEF Lost, Serve, Retry
  <2> QED
    BY <1>11, <2>2 DEF Serve, Retry, pvars, PInv, PTypeOK, Knows, LiveRight, TermTold
<1>12. ASSUME NEW s \in Slot, WorkerInit(s), UNCHANGED gfvars
       PROVE  PInv' /\ Lost
  <2>0. worker \in [Slot -> WorkerRec] /\ worker[s] \in WorkerRec /\ worker[s].life = "init"
    BY <1>12 DEF PInv, PTypeOK, WorkerInit
  <2> DEFINE w == [worker[s] EXCEPT !.life = "run"]
  <2>1. w \in WorkerRec /\ w.life = "run" /\ w.term = worker[s].term
    BY <2>0 DEF WorkerRec
  <2>2. worker' = [worker EXCEPT ![s] = w] /\ UNCHANGED <<table, master, mutex, left>>
    BY <1>12, <2>0 DEF WorkerInit
  <2> HIDE DEF w
  <2>3. /\ worker' \in [Slot -> WorkerRec]
        /\ \A t \in Slot : worker'[t].life # "gone" => worker[t].life # "gone"
    BY <2>0, <2>1, <2>2
  <2>4. \A t \in Slot : worker'[t].term => worker[t].term
    BY <2>0, <2>1, <2>2
  <2>5. Knows(table, worker)'
    BY <2>2, <2>3 DEF PInv, Knows
  <2>6. TermTold(master, worker)'
    BY <2>2, <2>4 DEF PInv, TermTold
  <2>7. LiveRight(master, table)'
    BY <2>2 DEF PInv, LiveRight
  <2> QED
    BY <1>12, <2>2, <2>3, <2>5, <2>6, <2>7 DEF PInv, PTypeOK, Lost, gfvars
<1>13. ASSUME NEW s \in Slot, WorkerFatal(s), WithWorkers
       PROVE  PInv' /\ Lost
  <2>1. left' \in LeftRec
    BY <1>13, SpentFacts DEF WorkerFatal, Fail, PInv, PTypeOK
  <2>2. PInv' /\ \A t \in Slot : Died(t) => t = s
    BY <1>13, <2>1, DeadFacts DEF WorkerFatal, Alive
  <2>3. ~Died(s)
    BY <1>13 DEF WorkerFatal, Died, Running
  <2> QED
    BY <1>13, <2>2, <2>3, LostIn DEF Lost
<1>14. CASE UNCHANGED nvars
  BY <1>14 DEF nvars, pvars, gfvars, PInv, PTypeOK, Knows, LiveRight, TermTold, Lost
<1> QED
  BY <1>1, <1>2, <1>3, <1>4, <1>5, <1>6, <1>7, <1>8, <1>9, <1>10, <1>11, <1>12,
     <1>13, <1>14
     DEF NNext, Master, WorkerLoop

LEMMA NInitial == NInit => DInv /\ PInv
BY DInit, PInitial DEF NInit

LEMMA NInvariant == NSpec => [](DInv /\ PInv)
<1>1. (DInv /\ PInv) /\ [NNext]_nvars => (DInv /\ PInv)'
  BY DStep, PStep
<1> QED
  BY <1>1, NInitial, PTL DEF NSpec

(* The records of requests, files, slots, workers and the master stay of   *)
(* their types, whatever crashes and whoever is signalled: the bytes of an *)
(* answer never exceed its bound, the counters never go below zero and the *)
(* accept mutex has at most one holder, a worker's slot.                   *)
THEOREM NginxTyped == NSpec => []NTypeOK
<1>1. DInv /\ PInv => NTypeOK
  BY DEF DInv, PInv, NTypeOK
<1> QED
  BY <1>1, NInvariant, PTL

(* ngx_http_getfile_handler: although all requests of a worker share       *)
(* backendSockAddr, none is ever connected to the host of another's URL.   *)
THEOREM OwnHostAlways == NSpec => []OwnHost
<1>1. DInv => OwnHost
  BY DEF DInv
<1> QED
  BY <1>1, NInvariant, PTL

(* ngx_processes[] stays right about the workers through crashes, reaping  *)
(* and respawning, reloads and stops, in whatever order they meet.         *)
THEOREM TableRight == NSpec => []TableKnowsWorkers
<1>1. PInv => TableKnowsWorkers
  BY DEF PInv, Knows, TableKnowsWorkers
<1> QED
  BY <1>1, NInvariant, PTL

(* ngx_master_process_cycle: the master exits only when live is off, and   *)
(* live is off only when every slot is free or waits to be respawned, so   *)
(* it outlives every worker.                                               *)
THEOREM MasterIsLast == NSpec => []MasterLast
<1>1. PInv => MasterLast
  BY DEF PInv, Knows, LiveRight, MasterLast
<1> QED
  BY <1>1, NInvariant, PTL

(* The downloads in the workers implement Fetch: ngx_http_upstream.c       *)
(* stores whole files only, sets STORED with them and never D_FAIL after.  *)
THEOREM PromiseKept == NSpec => KeepsPromise
<1>1. NInit => Promise!FInit
  BY DEF NInit, GFInit, Promise!FInit, NoFile
<1>2. DInv /\ [NNext]_nvars => [Promise!FNext]_<<file, flag>>
  BY DStep
<1> QED
  BY <1>1, <1>2, NInvariant, PTL DEF NSpec, KeepsPromise, Promise!FSpec

(* A request ends without an answer only with a worker that crashes or a   *)
(* server that is to terminate: neither a reload nor a graceful stop, nor  *)
(* the reaping of the dead, loses a download.                              *)
THEOREM LostWithWorker == NSpec => LostOnlyWithWorker
<1>1. DInv /\ PInv /\ [NNext]_nvars => Lost
  BY PStep
<1> QED
  BY <1>1, NInvariant, PTL DEF NSpec, LostOnlyWithWorker, Lost
=============================================================================
