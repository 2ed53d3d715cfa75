------------------------------- MODULE Nginx -------------------------------
(***************************************************************************)
(* Nginx as the Snooping Client uses it: the downloads of GetFile in the   *)
(* worker processes of NgxProcesses.  A request is read by the worker that *)
(* holds the accept mutex, goes on only while that worker runs, keeps a    *)
(* worker that was told to quit alive, and is lost with a worker that      *)
(* dies; no handler runs then, so no flag is set.                          *)
(***************************************************************************)
EXTENDS GetFile, NgxProcesses

nvars == <<gfvars, pvars>>

ASSUME WorkersAreSlots == Worker = Slot

NInit == GFInit /\ PInit

(* The requests of worker s; their timers and connections keep a worker    *)
(* that is exiting in its loop (ngx_event_timer_rbtree is not empty).      *)
HasRequest(s) == \E r \in Request : req[r].stage \in Waiting /\ req[r].worker = s

(* What a step of the processes does to the downloads: the memory of a     *)
(* worker that dies is gone, with its requests and its static variable.    *)
Died(s) == Running(s) /\ worker'[s].life # "run"

WithWorkers ==
    /\ req' = [r \in Request |-> IF req[r].stage \in Waiting /\ Died(req[r].worker)
                                 THEN Over("lost") ELSE req[r]]
    /\ backend' = [s \in Slot |-> IF Died(s) THEN NoHost ELSE backend[s]]
    /\ UNCHANGED <<file, flag>>

(* A faulty exit: a worker that was told to quit does not wait. *)
GracefulExitNow(s) == WorkerExit(s, FALSE) /\ WithWorkers

(* The end of a graceful exit. *)
GracefulExit(s) == WorkerExit(s, HasRequest(s)) /\ WithWorkers

(* What a worker does before its loop and between two turns of it. *)
WorkerLoop(s) == \/ WorkerInit(s) /\ UNCHANGED gfvars
                 \/ WorkerTerm(s) /\ WithWorkers
                 \/ WorkerQuit(s) /\ UNCHANGED gfvars
                 \/ GracefulExit(s)

(* A request is accepted and read. *)
Accept(r, s) == /\ Running(s) /\ ~worker[s].exiting
                /\ UseAcceptMutex => mutex = s
                /\ left.requests > 0 /\ left' = [left EXCEPT !.requests = @ - 1]
                /\ Begin(r, s)
                /\ UNCHANGED <<table, worker, master, mutex>>

(* The event loop of its worker takes a request on. *)
Serve(r) == Running(req[r].worker) /\ Progress(r) /\ UNCHANGED pvars

Retry(r) == left.requests > 0 /\ AskAgain(r) /\ UNCHANGED pvars

Master == (MasterCycle \/ Sigchld \/ Sigalrm) /\ WithWorkers

NNext ==
    \/ \E sig \in {"terminate", "quit", "reconfigure"} : Signal(sig) /\ UNCHANGED gfvars
    \/ Master
    \/ \E s \in Slot :
          \/ WorkerLoop(s)
          \/ (WorkerCrash(s) \/ WorkerFatal(s)) /\ WithWorkers
          \/ (LockAccept(s) \/ UnlockAccept(s)) /\ UNCHANGED gfvars
          \/ \E r \in Request : Accept(r, s)
    \/ \E r \in Request : Serve(r) \/ Retry(r)

(* The master runs when a signal wakes it, and its timer fires; a worker   *)
(* runs its loop, gives the accept mutex back in each turn and tests its   *)
(* flags after it, when the mutex is free again (hence strong fairness);   *)
(* every wait of a request ends, by its timer if by nothing else.  Each of *)
(* these is done a bounded number of times, so that fairness to all the    *)
(* workers, or requests, together is fairness to each.                     *)
NFairness ==
    /\ WF_nvars(MasterCycle /\ WithWorkers)
    /\ WF_nvars(Sigchld /\ WithWorkers)
    /\ WF_nvars(Sigalrm /\ WithWorkers)
    /\ SF_nvars(\E s \in Slot : WorkerLoop(s))
    /\ WF_nvars((\E s \in Slot : UnlockAccept(s)) /\ UNCHANGED gfvars)
    /\ WF_nvars(\E r \in Request : Serve(r))

NSpec == NInit /\ [][NNext]_nvars /\ NFairness

-----------------------------------------------------------------------------
NTypeOK == GFTypeOK /\ PTypeOK

(* The downloads keep the promise of Fetch through reloads, shutdowns and  *)
(* crashes: what is stored under a path is a whole file, STORED is set     *)
(* with it and D_FAIL never after it.                                      *)
Promise == INSTANCE Fetch
KeepsPromise == Promise!FSpec

(* A request is lost only with a worker that crashes or a server that is   *)
(* told to terminate: a reload or a graceful shutdown loses none.          *)
LostOnlyWithWorker ==
    [][\A r \in Request : req'[r].stage = "lost" /\ req[r].stage # "lost"
          => left'.crashes < left.crashes \/ master.terminate]_nvars

(* A stop comes to an end: after SIGTERM or SIGQUIT the master exits, even *)
(* when a worker that was killed or has crashed held the accept mutex, or  *)
(* could not be respawned.  The exception is a master that believes its    *)
(* workers live (live = 1, ngx_process_cycle.c:142, 225) when not one of   *)
(* them could be spawned: no SIGCHLD ever makes it reap.                   *)
NobodySpawned == master.live /\ left.failed > 0 /\ \A s \in Slot : ~table[s].used
Stops == (master.terminate \/ master.quit) ~> (~master.up \/ NobodySpawned)

(* The accept mutex comes back, whatever happens to the worker that holds  *)
(* it (ngx_unlock_mutexes).                                                *)
MutexComesBack == []<>(mutex = NoHolder)

(* A server that is not told to stop ends up with all its workers serving, *)
(* after every reload and crash; each failure to spawn or to initialise a  *)
(* worker costs it one at most.                                            *)
Serving == {s \in Slot : Running(s) /\ ~worker[s].exiting /\ ~worker[s].quit}
Enough == IF left.failed = 0 THEN Cardinality(Serving) = left.workers
                             ELSE Cardinality(Serving) + left.failed >= left.workers
WorkersComeBack == <>[](master.terminate \/ master.quit \/ Enough)
=============================================================================
