---------------------------- MODULE NgxProcesses ---------------------------
(***************************************************************************)
(* The master and the worker processes of Nginx (ngx_process_cycle.c,      *)
(* ngx_process.c) and the accept mutex (ngx_event_accept.c, ngx_shmtx.c):  *)
(* start, reload, graceful and fast shutdown, crashes and their repair,    *)
(* and processes that cannot be spawned or cannot begin.                   *)
(*                                                                         *)
(* A worker is known by its slot in ngx_processes[].  The binary upgrade,  *)
(* the reopening of logs and the cache processes are left out.             *)
(***************************************************************************)
EXTENDS Integers, FiniteSets

CONSTANTS
    Slot,         \* the slots of ngx_processes[], numbers from 0
    FirstDelay,   \* the delay before SIGTERM is repeated, 50 ms
    KillDelay,    \* the delay past which SIGKILL is sent, 1000 ms
    Settings      \* the settings to begin with: worker_processes, and how many
                  \* signals, crashes, requests and failures to spawn or to
                  \* initialise a worker there may be (bounds); none failed yet

ASSUME ProcessAssumption ==
    /\ Slot \subseteq Nat /\ IsFiniteSet(Slot)
    /\ FirstDelay \in Nat \ {0} /\ KillDelay \in Nat
    /\ Settings \subseteq [workers : 1 .. Cardinality(Slot), signals : Nat, crashes : Nat,
                           requests : Nat, fails : Nat, failed : {0}]

VARIABLES
    table,    \* ngx_processes[]
    worker,   \* the worker processes themselves
    master,   \* the flags and local variables of ngx_master_process_cycle
    mutex,    \* the holder of the accept mutex, NoHolder when free
    left      \* the settings: ccf->worker_processes, what is left of the others,
              \* and how many workers have failed (history)

pvars == <<table, worker, master, mutex, left>>

NoHolder == -1

FreeSlot == [used |-> FALSE, exiting |-> FALSE, exited |-> FALSE, respawn |-> FALSE, just |-> FALSE]

(* A worker: in its initialisation, in its loop, dead and not yet waited   *)
(* for (fatal: with the exit code 2), or gone.  quit and term are its      *)
(* flags, set through the channel; exiting is ngx_exiting.                 *)
Gone == [life |-> "gone", quit |-> FALSE, term |-> FALSE, exiting |-> FALSE]
Ended(life) == [Gone EXCEPT !.life = life]
Fresh == [Gone EXCEPT !.life = "init"]
Running(s) == worker[s].life = "run"
Alive(wk) == wk.life \in {"init", "run"}

(* n processes could not be spawned, or initialised. *)
Fail(n) == n <= left.fails
Spent(c, n) == [c EXCEPT !.fails = @ - n, !.failed = @ + n]

(* The first n slots that ngx_spawn_process finds free in tb. *)
SpawnSlots(tb, n) ==
    LET free == {s \in Slot : ~tb[s].used}
    IN  {s \in free : Cardinality({t \in free : t < s}) < n}

(* ngx_start_worker_processes with NGX_PROCESS_RESPAWN or JUST_RESPAWN,    *)
(* when n of its calls of ngx_spawn_process succeed.  It does not look at  *)
(* their results; a slot that a failed call has found free stays free.     *)
StartWorkers(tb, n, just) ==
    [s \in Slot |-> IF s \in SpawnSlots(tb, n)
                    THEN [FreeSlot EXCEPT !.used = TRUE, !.respawn = TRUE, !.just = just]
                    ELSE tb[s]]

PInit ==
    LET none == [s \in Slot |-> FreeSlot]
    IN  /\ \E c \in Settings : \E k \in 0 .. c.workers : k <= c.fails /\ left = Spent(c, k)
        /\ table = StartWorkers(none, left.workers - left.failed, FALSE)
        /\ worker = [s \in Slot |-> IF s \in SpawnSlots(none, left.workers - left.failed)
                                    THEN Fresh ELSE Gone]
        /\ master = [up |-> TRUE, woken |-> FALSE, reap |-> FALSE, terminate |-> FALSE,
                     quit |-> FALSE, reconfigure |-> FALSE, live |-> TRUE,
                     delay |-> 0, sigio |-> 0, alarm |-> FALSE]
        /\ mutex = NoHolder

-----------------------------------------------------------------------------
(* ngx_signal_handler in the master. *)
Signal(sig) ==
    /\ master.up /\ left.signals > 0 /\ left' = [left EXCEPT !.signals = @ - 1]
    /\ master' = [master EXCEPT !.woken = TRUE, ![sig] = TRUE]
    /\ UNCHANGED <<table, worker, mutex>>

Dead == {s \in Slot : worker[s].life \in {"dead", "fatal"}}

(* The entry of a worker that has ended; the exit code 2 is not respawned. *)
Exited(s) == [table[s] EXCEPT !.exited = TRUE, !.respawn = @ /\ worker[s].life # "fatal"]

(* A faulty handler: the mutex of the dead is not given back. *)
SigchldKeepsMutex ==
    /\ master.up /\ Dead # {}
    /\ table' = [s \in Slot |-> IF s \in Dead THEN Exited(s) ELSE table[s]]
    /\ worker' = [s \in Slot |-> IF s \in Dead THEN Gone ELSE worker[s]]
    /\ master' = [master EXCEPT !.woken = TRUE, !.reap = TRUE]
    /\ UNCHANGED <<mutex, left>>

(* SIGCHLD: ngx_process_get_status marks the dead workers and gives back   *)
(* the accept mutex they held (ngx_unlock_mutexes).                        *)
Sigchld ==
    /\ master.up /\ Dead # {}
    /\ table' = [s \in Slot |-> IF s \in Dead THEN Exited(s) ELSE table[s]]
    /\ worker' = [s \in Slot |-> IF s \in Dead THEN Gone ELSE worker[s]]
    /\ mutex' = IF mutex \in Dead THEN NoHolder ELSE mutex
    /\ master' = [master EXCEPT !.woken = TRUE, !.reap = TRUE]
    /\ UNCHANGED <<left>>

(* The timer of the termination. *)
Sigalrm == /\ master.up /\ master.delay # 0 /\ ~master.alarm
           /\ master' = [master EXCEPT !.woken = TRUE, !.alarm = TRUE]
           /\ UNCHANGED <<table, worker, mutex, left>>

-----------------------------------------------------------------------------
(* ngx_reap_children: the slots to respawn, and the table and live after   *)
(* it when the spawning fails for those in failed, which stay exited and   *)
(* do not count as live.                                                   *)
ToRespawn(tb, m) == {s \in Slot : /\ tb[s].used /\ tb[s].exited
                                  /\ tb[s].respawn /\ ~tb[s].exiting
                                  /\ ~m.terminate /\ ~m.quit}

(* A faulty reaping: the slot of a new worker keeps the mark of the old. *)
ReapedStillExited(tb, m, failed) ==
    [s \in Slot |-> IF tb[s].used /\ tb[s].exited /\ s \notin ToRespawn(tb, m)
                    THEN FreeSlot ELSE tb[s]]

Reaped(tb, m, failed) ==
    [s \in Slot |-> IF s \in failed THEN tb[s]
                    ELSE IF s \in ToRespawn(tb, m) THEN [tb[s] EXCEPT !.exited = FALSE]
                    ELSE IF tb[s].used /\ tb[s].exited THEN FreeSlot ELSE tb[s]]

(* Faulty results: only new workers count, or the slots just freed as well. *)
LiveRespawned(tb, m, failed) == ToRespawn(tb, m) \ failed # {}
LiveBefore(tb, m, failed) == \E s \in Slot : tb[s].used

LiveAfter(tb, m, failed) ==
    \E s \in Slot : Reaped(tb, m, failed)[s].used /\ ~Reaped(tb, m, failed)[s].exited

(* A faulty signal: those just spawned are told to quit as well. *)
SignalledAll(tb, sig) == {s \in Slot : tb[s].used /\ ~(tb[s].exiting /\ sig = "quit")}

(* ngx_signal_worker_processes: who is signalled, and the table after it.  *)
(* A worker that was just spawned is passed over once.  A slot that could  *)
(* not be respawned has a closed channel and the pid of a process that was *)
(* waited for: kill says ESRCH, and the slot is to be reaped once more.    *)
Signalled(tb, sig) == {s \in Slot : /\ tb[s].used /\ ~tb[s].just
                                    /\ ~(tb[s].exiting /\ sig = "quit")}
AfterSignal(tb, sig) ==
    [s \in Slot |-> IF s \in Signalled(tb, sig) THEN [tb[s] EXCEPT !.exiting = ~tb[s].exited]
                    ELSE IF tb[s].used THEN [tb[s] EXCEPT !.just = FALSE] ELSE tb[s]]
NoSuchProcess(tb, sig) == \E s \in Signalled(tb, sig) : tb[s].exited

(* A command in the channel, or a signal: SIGKILL ends the worker. *)
Told(wk, sig) == IF ~Alive(wk) THEN wk
                 ELSE IF sig = "kill" THEN Ended("dead")
                 ELSE [wk EXCEPT ![sig] = TRUE]

(* The top of the loop, before sigsuspend: the delay is doubled when the   *)
(* alarm was it that woke the master.                                      *)
Asleep(m, again) == [m EXCEPT !.woken = FALSE, !.reap = again, !.alarm = FALSE,
                              !.sigio = IF m.delay # 0 /\ m.alarm THEN 0 ELSE @,
                              !.delay = IF m.alarm /\ @ <= KillDelay THEN 2 * @ ELSE @]

Sleep(tb, wk, m) == master' = Asleep(m, FALSE) /\ table' = tb /\ worker' = wk

SignalWorkers(tb, wk, m, sig) ==
    /\ master' = Asleep(m, NoSuchProcess(tb, sig))
    /\ table' = AfterSignal(tb, sig)
    /\ worker' = [s \in Slot |-> IF s \in Signalled(tb, sig) THEN Told(wk[s], sig) ELSE wk[s]]

(* One turn of ngx_master_process_cycle from sigsuspend to sigsuspend.     *)
(* First the dead are reaped, where the spawning fails for some, ...       *)
Failing == SUBSET {s \in ToRespawn(table, master) : master.reap}
Tb(failed) == IF master.reap THEN Reaped(table, master, failed) ELSE table
Wk(failed) == [s \in Slot |-> IF master.reap /\ s \in ToRespawn(table, master) \ failed
                              THEN Fresh ELSE worker[s]]
Mm(failed) == [master EXCEPT !.live = IF master.reap THEN LiveAfter(table, master, failed) ELSE @]

Awake(n) == master.up /\ master.woken /\ Fail(n) /\ left' = Spent(left, n) /\ UNCHANGED mutex

(* ... the master exits when none is left, ... *)
MasterExit(failed) ==
    /\ Awake(Cardinality(failed)) /\ ~Mm(failed).live /\ (master.terminate \/ master.quit)
    /\ master' = [Mm(failed) EXCEPT !.up = FALSE]
    /\ table' = Tb(failed) /\ worker' = Wk(failed)

(* ... terminates the workers, killing them when they take too long, ... *)
MasterTerminate(failed) ==
    LET d == IF master.delay = 0 THEN FirstDelay ELSE master.delay
        m == Mm(failed)
    IN  /\ Awake(Cardinality(failed)) /\ m.live /\ master.terminate
        /\ IF master.sigio > 0
           THEN Sleep(Tb(failed), Wk(failed), [m EXCEPT !.delay = d, !.sigio = @ - 1])
           ELSE SignalWorkers(Tb(failed), Wk(failed),
                              [m EXCEPT !.delay = d, !.sigio = left.workers + 2],
                              IF d > KillDelay THEN "kill" ELSE "term")

(* ... or shuts them down, ... *)
MasterQuit(failed) ==
    /\ Awake(Cardinality(failed)) /\ Mm(failed).live /\ ~master.terminate /\ master.quit
    /\ SignalWorkers(Tb(failed), Wk(failed), Mm(failed), "quit")

(* ... or starts new workers, as far as they can be spawned, and shuts     *)
(* down the old ones, ...                                                  *)
MasterReconfigure(failed) ==
    \E k \in 0 .. left.workers :
        LET new == SpawnSlots(Tb(failed), left.workers - k)
        IN  /\ Awake(Cardinality(failed) + k)
            /\ ~master.terminate /\ ~master.quit /\ master.reconfigure
            /\ SignalWorkers(StartWorkers(Tb(failed), left.workers - k, TRUE),
                             [s \in Slot |-> IF s \in new THEN Fresh ELSE Wk(failed)[s]],
                             [Mm(failed) EXCEPT !.reconfigure = FALSE, !.live = TRUE], "quit")

(* ... unless the new configuration is refused, ... *)
MasterRefused(failed) ==
    /\ Awake(Cardinality(failed)) /\ ~master.terminate /\ ~master.quit /\ master.reconfigure
    /\ Sleep(Tb(failed), Wk(failed), [Mm(failed) EXCEPT !.reconfigure = FALSE])

(* ... or goes back to sleep. *)
MasterReap(failed) ==
    /\ Awake(Cardinality(failed)) /\ ~master.terminate /\ ~master.quit /\ ~master.reconfigure
    /\ Sleep(Tb(failed), Wk(failed), Mm(failed))

MasterCycle ==
    \E failed \in Failing :
        \/ MasterExit(failed) \/ MasterTerminate(failed) \/ MasterQuit(failed)
        \/ MasterReconfigure(failed) \/ MasterRefused(failed) \/ MasterReap(failed)

-----------------------------------------------------------------------------
(* ngx_worker_process_init: the worker gets into its loop, or exits with   *)
(* the fatal code 2.                                                       *)
WorkerInit(s) == /\ worker[s].life = "init"
                 /\ worker' = [worker EXCEPT ![s].life = "run"]
                 /\ UNCHANGED <<table, master, mutex, left>>

WorkerFatal(s) == /\ worker[s].life = "init" /\ Fail(1) /\ left' = Spent(left, 1)
                  /\ worker' = [worker EXCEPT ![s] = Ended("fatal")]
                  /\ UNCHANGED <<table, master, mutex>>

(* ngx_worker_process_cycle, between two turns of the event loop, when the *)
(* accept mutex is not held: a fast exit, ...                              *)
WorkerTerm(s) == /\ Running(s) /\ worker[s].term /\ mutex # s
                 /\ worker' = [worker EXCEPT ![s] = Ended("dead")]
                 /\ UNCHANGED <<table, master, mutex, left>>

(* ... the beginning of a graceful one, ... *)
WorkerQuit(s) == /\ Running(s) /\ worker[s].quit /\ ~worker[s].term /\ mutex # s
                 /\ worker' = [worker EXCEPT ![s].quit = FALSE, ![s].exiting = TRUE]
                 /\ UNCHANGED <<table, master, mutex, left>>

(* ... and its end, when no timer is left: busy is whether the worker      *)
(* still has a request.                                                    *)
WorkerExit(s, busy) == /\ Running(s) /\ worker[s].exiting /\ ~busy
                       /\ worker' = [worker EXCEPT ![s] = Ended("dead")]
                       /\ UNCHANGED <<table, master, mutex, left>>

(* A worker crashes, wherever it is. *)
WorkerCrash(s) == /\ Alive(worker[s]) /\ left.crashes > 0 /\ left' = [left EXCEPT !.crashes = @ - 1]
                  /\ worker' = [worker EXCEPT ![s] = Ended("dead")]
                  /\ UNCHANGED <<table, master, mutex>>

(* ngx_event_process_init: one worker alone needs no accept mutex. *)
UseAcceptMutex == left.workers > 1

(* ngx_trylock_accept_mutex and ngx_shmtx_unlock around the accepting, by  *)
(* a worker that still listens.                                            *)
LockAccept(s) == /\ UseAcceptMutex
                 /\ Running(s) /\ ~worker[s].exiting /\ mutex = NoHolder
                 /\ mutex' = s
                 /\ UNCHANGED <<table, worker, master, left>>

UnlockAccept(s) == /\ Running(s) /\ mutex = s
                   /\ mutex' = NoHolder
                   /\ UNCHANGED <<table, worker, master, left>>

-----------------------------------------------------------------------------
TableRec == [used : BOOLEAN, exiting : BOOLEAN, exited : BOOLEAN, respawn : BOOLEAN,
             just : BOOLEAN]
WorkerRec == [life : {"init", "run", "dead", "fatal", "gone"}, quit : BOOLEAN, term : BOOLEAN,
              exiting : BOOLEAN]
MasterRec == [up : BOOLEAN, woken : BOOLEAN, reap : BOOLEAN, terminate : BOOLEAN, quit : BOOLEAN,
              reconfigure : BOOLEAN, live : BOOLEAN, delay : Nat, sigio : Nat, alarm : BOOLEAN]
LeftRec == [workers : 1 .. Cardinality(Slot), signals : Nat, crashes : Nat, requests : Nat,
            fails : Nat, failed : Nat]

PTypeOK ==
    /\ table \in [Slot -> TableRec]
    /\ worker \in [Slot -> WorkerRec]
    /\ master \in MasterRec
    /\ mutex \in Slot \cup {NoHolder}
    /\ left \in LeftRec

(* The table of the master is right about its workers: a worker that runs  *)
(* or is not waited for yet has a slot that is not marked exited.          *)
TableKnowsWorkers ==
    \A s \in Slot : worker[s].life # "gone" => table[s].used /\ ~table[s].exited

(* The master never exits before its workers (ngx_reap_children's live). *)
MasterLast == ~master.up => \A s \in Slot : worker[s].life = "gone"
=============================================================================
