# Hot cache server: a verification project

The repository is a caching server for video sites. A *Snooping Module* in the
kernel of a router sees the requests of the users. It asks the *Snooping Client*
(`hot_cache/`) to parse the page of a video (PARSE) or to download a file
(DOWN). The client finds out the URLs of the video's files, has a modified Nginx
download them, and, once a file is stored, tells the Snooping Module the URL to
redirect to Nginx (ADD). This directory models the client, the parts of Nginx
changed for it, the Nginx processes they run in, and their surroundings.

## The system's parts

| part | source | state | operations | module |
|---|---|---|---|---|
| resource list: free lists | `sc_resource.c`, `sc_resource.h` | `common.id`, `mgmt_free`, `ctnt_free`, the two counts | init, get, put | `SlotPool`, `ListSteps` |
| resource list: records | same | `mgmt[]` (origin, normal, ctrl_ld) and `ctnt[]` (one per file); child, siblings, parent links; flags STORED, D_FAIL, I_FAIL, NOTIFY | add_origin, add_normal, add_ctrl_ld, add_ctnt, handle_cached, set and unset flags | `ResList`, `LinkedList` |
| names | `sc_resource.c`, `sc_youku.c`, `sc_sohu.c` | - | URL to local path, path to URL, searches by vid | `UrlText` |
| load of local files | `sc_localdata.c`, `os_util.c` | two controllers of loaded files | walk of the root directory, renaming, duplicate removal | `HotCache` |
| main thread | `sc_main.c`, `sc_snooping.c` | the request at hand | do_parse, do_down, answer | `HotCache` |
| resource-list thread | `sc_resource.c` | position of its scan | retry downloads, notify stored URLs | `HotCache` |
| requests to Nginx | `sc_ngx.c` | - | one HTTP request, its status | `HotCache` |
| site logic | `sc_youku.c`, `sc_sohu.c` | - | playlists to file URLs, download, take over a loaded | `HotCache`, `YoukuPages`, `SohuPages` |
| site libraries | `youku/`, `sohu/`, `net_util.c` | - | playlist, file ids, m3u8 list, status line | `YoukuPages`, `SohuPages`, `StatusLine` |
| getfile and upstream of Nginx | `ngx_http_getfile_module.c`, `ngx_http_upstream.c`, `ngx_event_pipe.c` | requests, their address, temporary files | resolve, connect, read header and body, store, flag the content | `GetFile` |
| Nginx processes | `ngx_process_cycle.c`, `ngx_process.c`, `ngx_event_accept.c`, `ngx_shmtx.c` | process table, flags of master and workers, accept mutex | signals, reload, quit, terminate, reap, respawn and its failure, initialisation and its failure, crash | `NgxProcesses` |
| flv module of Nginx | `ngx_http_flv_module.c` | - | seek by time | `FlvSeek` |
| Snooping Module | outside the repository | the URLs it redirects | ADD, DELETE over UDP | `HotCache` |

The resource list lies in a System V segment. Three parties write it without any
lock: the main thread, the resource-list thread and the Nginx workers
(`sc_main.c:93` says so and delays the start of the service instead). The
threads wait in the middle of their work, for Nginx, in `recv` without a timeout
for a site, and in `recvfrom` without a timeout for the Snooping Module. What is hard is therefore:

* pointers and flags read before a wait and used after it;
* the taking over of a *loaded* file (one found on disk at start) by a *parsed*
  one, which frees a slot the other thread may be looking at;
* an overloaded field: `id` is an index in a used slot and an address in a free
  one, and is the only thing that tells the two apart;
* failures between two steps: a request Nginx accepted but whose answer was
  lost, a download that breaks off before or after its temporary file exists;
* names that lose letters on the way to the disk and back, by which files are
  found again after a restart;
* restarts of the client, which zero the list under a running Nginx and a
  Snooping Module that remembers its URLs; reloads and crashes of Nginx under
  running downloads;
* a static variable of the getfile module that all requests of a worker share.

What makes each part correct: the free lists partition the slots; the child
lists are finite, complete and counted; STORED means there is a file; a URL is
redirected only to a file that is there; a stored file is announced in the end;
a failed request is repeated until it succeeds; a request is answered; a stored
file is whole; a file is found again under the name it was stored with; Nginx
keeps its number of workers, gives back its accept mutex, and stops when told.

`PROJECT.json` lists the hazards at their lines, with the properties that cover
them.

## The modules

The resource list and the client:

* `SlotPool` — the free list as operators on a record `[id, free, cnt]`, used
  for both arrays. Slot `s` of `n` has address `n + s` and `INVALID_PTR` is
  `2 n`, so `id < n` tests for a used slot just as
  `sc_res_list_process_mgmt` does. `PoolSound` says what a correct pool is.
* `LinkedList` — what it means for links to form a list of `n` members.
* `ResList` — the resource list. One action per whole call: `AddMgmt` (the
  three mgmt adds), `AddCtnt`, their error paths (`AddMgmtError`,
  `AddCtntError`, with the slot taken and put back), `SetFlag`, `UnsetFlag`,
  `HandleCached` (search result, copy, unlink, put), `Reinit`. URLs and paths
  are members of constant sets; the checks on URLs (`sc_url_is_yk` and so on)
  are constant subsets, the path generated for a URL a constant function.
* `HotCache` — the threads. It extends `ResList` and makes its calls at the
  points where the code does; a step is what a thread does between two waits.
  `main` and `proc` hold the threads' local variables, `call[t]` the state of a
  download call of either thread (`session` with Sohu, `ngx` request, `back`
  with the answer, `done`), `snoop` what the Snooping Module redirects, `ngx`
  the number of downloads in flight per path, `disk` the files. The environment
  misbehaves at most `MaxFaults` times (`Fault`).
* `AtomicList` — what the callers of the list rely on: a slot has one owner, is
  refused only when all are in use, a flag set stays set. Every call one step.
* `ListSteps` — `sc_res_info_get_ctnt`, `sc_res_info_put` and the flag macros
  with every load and store of shared memory a step of its own, and no lock, as
  in the code. The actors have the roles the code gives them: only the main
  thread takes slots, both threads put them back, a worker sets STORED or D_FAIL
  at the end of a download it was asked for, the resource-list thread tests a
  word before it sets NOTIFY or unsets I_FAIL or D_FAIL. `pc`, `slot` and `reg`
  are the callers' local state; the history variable `met` records whether a
  get or put ever began while another was under way.
  `Atomic == INSTANCE AtomicList WITH ...` is the refinement mapping.

The pure parts, as operators:

* `UrlText` — local path of a URL for either site (`Flatten`: a `.` of
  the host, a `/` after it and every `?` become `_`), the URL recovered from a
  path (`Unflatten` and `MarkFile`), the length limits, the searches for marks and vids. A text is a sequence of
  tokens: the characters the conversions look at, and whole words.
* `StatusLine` — the automaton of `http_parse_status_line` and the one of Nginx
  it was taken from, one turn of the loop per character, and `StatusOf`, the same
  without an automaton.
* `YoukuPages` — streams and segments of a playlist with their limits, the
  stream that is chosen, the shuffled alphabet and the file id; `PlaylistRight`
  is what the download of a playlist should be.
* `SohuPages` — the search for the next file of an m3u8 list and the loop over
  the list's parts; `M3u8Right` is what it should ask for.
* `FlvSeek` — the keyframe for a time, the offset, and the two parts of the
  answer with its announced length. Times are in milliseconds; the code cuts
  them to whole seconds (`WholeSeconds`), so a seek to second 2 goes on at a
  keyframe of 2.5 s.

Nginx:

* `GetFile` — a download in a worker: the getfile handler (`Refuse`,
  `StartAddress`, `StartName`), the waits for the resolver, the connection, the
  header and the body, the end of the body, `StoreFile` (temporary file
  complete and status 200) and `Finalize`, with the flags each leaves. `backend`
  is the static `backendSockAddr` of the module, one per worker. `next_upstream` is
  not configured, so a peer that fails is never followed by another; 404 stands
  for every status that is not 200.
* `Fetch` — the abstract specification of it: a path only ever gets a whole
  file, STORED is never taken back, a path that is STORED is never reported as
  failed, an end is reported by a flag or not at all.
* `NgxProcesses` — master, workers, accept mutex. `table` is `ngx_processes[]`,
  `worker` the processes with their flags, `master` the master's signal flags
  and the doubled delay before SIGKILL. A worker begins in its initialisation
  (`WorkerInit`), which may end it with the exit code 2 (`WorkerFatal`), after
  which it is not respawned. `MasterCycle` is a turn of
  `ngx_master_process_cycle` after `sigsuspend` (`MasterRefused` is a reload
  whose configuration `ngx_init_cycle` rejects), `Sigchld` and `Sigalrm` its
  signal handlers, the latter two interleaved anywhere. `Failing` is the
  respawns of a turn that fail: such a slot stays exited, does not count as
  live, and is tried again at the next reaping, which a signal to it brings
  about (`NoSuchProcess`: its pid is gone, `kill` says ESRCH).
* `Nginx` — the two composed: a request is read by the worker that holds the
  accept mutex, goes on while that worker runs, keeps a worker told to quit
  alive, and is lost with one that dies, in the same step.

`MCResList`, `MCHotCache`, `MCListSteps`, `MCText`, `MCNginx` are the small
worlds of the runs; the pure parts' properties are in `MCText`, beside the inputs
they range over, and the reference definitions they compare with in the modules
of the algorithms (`StatusOf`, `PlaylistRight`, `M3u8Right`). `ListProofs` (the
free lists and the linked lists), `ResListProofs`, `UrlTextProofs`,
`PagesProofs`, `TextProofs`, `ListStepsProofs`, `NginxProofs` and
`HotCacheProofs` are the proofs.

Definitions whose comment begins "A faulty ..." are plausible mistakes in the
code beside them. They are part of no specification; put in the place of the
right definition they break the property `PROJECT.json` names, which shows that
the property depends on that code.

Points of the code the modules follow deliberately:

* `sc_res_info_remove_loaded` and the two searches use the links, not a set;
  a thread with a stale pointer goes on along the links it finds.
* D_FAIL is cleared before its retry, I_FAIL after it and only on success.
* `sc_sohu_download` sets I_FAIL only when the request to Nginx fails;
  `sc_youku_download` on any failure; `do_down` does not look for a loaded.
* a failed parse is answered OK, a failed add an error.
* Nginx marks the first content whose path *begins* with the request's path,
  marks nothing that is STORED already, and ignores the result of the rename.
* start-up deletes a URL from the Snooping Module before it adds the loaded;
  whether the walk meets files that appear under it is left open
  (`WalkMeetsNew`), as POSIX does.
* the stock accept mutex is used only with more than one worker; a worker that
  is killed in it leaves it to the master's `ngx_unlock_mutexes`.

External, modelled from how the client uses it: the Snooping Module redirects a
request when it knows a URL of the same file (`Redirected`); an ADD or DELETE is
carried out and confirmed, refused, or its answer lost (`UdpMayLose`). Each call
opens a socket of its own, so a late answer never reaches another call.

### Who implements whom

* `HotCache` implements `ResList` (`ListDiscipline`): every step of the composed
  system is, on the list, one of `ResList`'s whole calls, so the theorems about
  `ResList` speak about it.
* `ListSteps` does not implement `AtomicList` (`CallsAreAtomic` in the run
  `list_race`): what the callers take for granted is not what the unlocked calls
  give. `ResList` and `HotCache` take calls as atomic; what they show therefore
  holds of executions in which no two calls overlap.
* `Nginx` implements `Fetch` (`KeepsPromise`), also through reloads and crashes.
  `HotCache` has its own, coarser end of a download (`NgxEnd`); it also has
  what `GetFile` does not: the search of the whole list for the content.
* `HotCache` takes the results of `UrlText` as constants: `LocalPathOf`,
  `RecoverUrl`, `HasVid`, `DupOf`, `PathPrefix`.

## The runs

Passing:

| run | question | bounds | distinct states |
|---|---|---|---|
| `reslist` | Is the list sound after every sequence of calls? | 2 mgmt, 3 ctnt, five URLs, one for each outcome of the checks; flags limited to STORED, the only one the calls look at besides NOTIFY | 21 552 |
| `sites` | Both sites, a DOWN request, two threads and Nginx; a Sohu file, an unknown file and a pure-vid file on disk; lost datagrams | 4 mgmt (two controllers and two requests, for three that may come), 3 ctnt: exhaustion happens; one fault, two downloads in flight per path | 275 394 |
| `restart` | A restart at any point, downloads in flight, a walk that meets what it renames | one restart, one fault, two files of an origin on disk, one under another host | 397 619 |
| `live` | Does what must happen happen in the client, also when a site never answers? | both sites, 4 mgmt, 2 ctnt, a loaded that the main thread takes over under the walk, two faults; renames may fail and one path is the beginning of another | 171 411 |
| `text` | Do the pure parts compute what they should? | names to 10 tokens (limits 10 and 9, so both are met), status lines to 15 characters, m3u8 lists to 7 tokens, playlists of 3 types and 2 groups with one segment more than fits, empty lists and groups included, three seeds, FLV files with 0, 2 or 3 keyframes, also two within one second | 492 306 |
| `steps` | What is left of the free list without a lock? | 2 slots, both threads and a worker, 5 gets and puts, one retry | 2 271 962 |
| `nginx` | Are downloads whole and owned, and do the processes recover? | 2 connections, 3 hosts, announced lengths of 0, 1 or none and bodies of 0 or 1 unit (as long, shorter, longer), 4 process slots, and the eight settings of `MCSettings` | 177 475 |

Three mgmt slots are the least that hold the two controllers and a request; three
ctnt slots are the least with a head, a middle and an end of a list, and with a
slot freed and reused while a third is walked. One fault puts a failure at every
place; the run with two shows that a second does not matter for progress. In
`nginx`, four slots are the least in which two workers can be replaced by two
others while the old ones still exit; the settings combine one or two workers
with signals, a crash, repeated requests and a failure to spawn or initialise a
worker a few at a time, so that each pair that touches the same state meets.
`FirstDelay` is the code's 50 and `KillDelay` 60 stands for its 1000:
the delay is doubled once before SIGKILL instead of five times. File ids are
made with the code's alphabet and the example of its comment; the seed is a
number the site sends, of which 0, the one of the example and a large one are
tried.

What the properties say:

* `sites` and `restart`: `StoredHasFile` (STORED means a file),
  `RedirectServable` (what is redirected is there; not in `restart`, see
  Observations), `ListDiscipline`. `sites` does not check for deadlock because a
  lost datagram really stops the client.
* `live`: `RequestAnswered`, `StoredGetsNotified`, `RetrySucceeds`.
* `text`: a stored file is loaded under the path it has (`LoadedKeepsPath`); the
  recovered URL is the original one when it has none of the letters a path loses
  (`RecoveredUrl`), and the file is found by its vid (`FoundAgain`);
  `StatusLineRead`, `PlaylistRead`, `M3u8FilesAsked` and `FlvServed` compare the
  algorithms with definitions that do not follow them: a status line by where
  its parts are (`StatusOf`) and not by a state machine, an m3u8 list by its
  parts and the first file of each (`M3u8Right`) and not by a moving pointer.
  `FileIdsDiffer` says that the shuffle is a permutation of the letters and that
  segments never share an id, `FileIdExample` that the example in the comment at
  `yk_get_fileid` comes out.
* `steps`: `QuietSound` (as long as no get or put has met another, no slot has
  two owners and the free list is sound between calls, whatever flags are
  written meanwhile). When two meet nothing of it is left, which is hazard and
  finding, not a property.
* `nginx`: `OwnHost` (a request connects to its own host, although the address
  passes through the shared static variable), `KeepsPromise`,
  `LostOnlyWithWorker` (a download disappears unreported only with a worker that
  dies, never by a graceful exit), `TableKnowsWorkers` (no running worker is
  missing from the master's table), `MasterLast` (the master outlives its
  workers), `Stops`, `MutexComesBack`, `WorkersComeBack` (with no failure the
  configured number of workers serves in the end; each failed spawn or
  initialisation costs one at most). Deadlock is not checked: the server may be
  told to stop.

NOTIFY in `StoredGetsNotified` is the mark the thread leaves, not the proof that
the Snooping Module was told: a mark can be left on the wrong content
(`notify_stale`).

Fairness in `live`: a thread that can run and is not in a session with a site
does (both are plain threads of one process), the Snooping Module answers, and a
download ends one way or the other (Nginx has timeouts on its upstream
connections). A session with a site may last for ever: `yk_lib.c:175` and
`sohu_lib.c:105` wait in `recv` with MSG_WAITALL and no timeout. So each of the
three properties says what happens unless the thread stays in such a session
(`[]InSession`), and shows that nothing else holds the thread up. It does not
assume that requests arrive, that faults cease by themselves (they are bounded), or that
datagrams are never refused; only that none is lost, because without that
`recvfrom` blocks for good.

Fairness in `nginx`: weak for the master's loop, for the delivery of SIGCHLD and
SIGALRM, for the release of the accept mutex (it is held for one turn of the
event loop) and for the requests (every wait has a timeout). Strong for a
worker's loop: a worker looks at its flags after every turn, but in the model is
kept from it while it holds the mutex, which it takes and releases again and
again. Crashes, signals, accepting and repeated requests are not fair. Each of
these actions is taken boundedly often between two signals, so that fairness to
one of several workers is not lost to another.

Runs that show a disagreement between the code and what the repository says
(each is a finding in `PROJECT.json`):

* `notify_stale` — the resource-list thread sends an ADD for a loaded; before it
  has its answer the main thread takes the loaded over, frees the slot and fills
  it with the next file; NOTIFY is then set on that file, which will never be
  announced (`NotifyMeansTold`).
* `stuck_download` — a failed session in `sc_sohu_download` leaves the content
  without any flag, which `sc_res_list_process_ctnt` takes for "being
  downloaded" (`BeingDownloaded`).
* `retry_forever` — a file redirected although no loaded exists for it fails on
  every retry (`RetrySucceeds`), though `sc_ngx.c:153` says that answer is no
  failure.
* `stream_index` — a playlist without MP4 and FLV (in the trace, one stream hd2
  with one segment) makes
  `sc_get_yk_video_tradition` read `streams[-1]`; the check meant for it
  combines its two conditions with `&&` (`StreamIndexValid`).
* `list_race` — calls that overlap, as `sc_main.c:93` says they may, are not
  atomic (`CallsAreAtomic`): the resource-list thread unsets I_FAIL after a retry
  Nginx has accepted; between its read and its write the worker ends that
  download and sets D_FAIL, and the write takes D_FAIL away again.

## Observations

Behaviours met while modelling that no statement of the repository speaks
about, so that no run claims them:

* A duplicate file is removed at start-up (`sc_localdata.c:107`) but a URL of it
  stays redirected in the Snooping Module if it was added before the restart:
  `RedirectServable` fails in the world of `restart` and is not checked there.
* A pure-vid file that is renamed under the walk (`sc_localdata.c:93`) may be
  met again, is then taken for a duplicate of itself and removed, while its
  loaded stays STORED. It takes `DiskFiles = {pv}` and `WalkMeetsNew = TRUE`;
  `StoredHasFile` then fails.
* With one path the beginning of another (`ngx_http_upstream.c:3098`), or when
  the rename of a temporary file fails (`:3298`), STORED may be set on a content
  without a file. `live` has both, the runs that check `StoredHasFile` neither.
* A path with the marks of both sites is loaded as a Youku file, whichever site
  it came from (`sc_localdata.c`); `LoadedKeepsPath` excludes it.
* A `_` in a URL comes back from its path as `/` or `.`: `RecoveredUrl` and
  `FoundAgain` exclude it, `LoadedKeepsPath` does not, because the path of the
  wrong URL is the same.
* `ngx_master_process_cycle` takes its workers for live after a start or a reload
  without looking whether one was spawned. If none was, no SIGCHLD makes it look,
  and SIGTERM and SIGQUIT never end it: the exception in `Stops`.
* A slot that could not be respawned is respawned after a reload, beside the
  workers of the reload: the server then has one worker more than configured.

## The proofs

`ResListProofs` proves, for every number of slots, every set of URLs and every
choice of the constant functions (under `SizeAssumption` and `UrlAssumption`):
`TypeCorrect`, `FreeListsCorrect`, `FamiliesCorrect`, `RemovalCorrect` and
`ParsedSafe`, each `Spec => ...` for a property the run `reslist` checks.

The inductive invariant is `Inv == TypeOK /\ FreeListsOK /\ FamilyOK`. None of
the three is inductive alone: the free lists need the types; a child list stays
a list under `AddCtnt` only because the slot taken is not in use (free lists)
and so on no list (families); a removal puts back a slot that is in use only
because it was on a controller's list. There is one lemma per action.
`RemovalOK` follows from `Inv`; `ParsedSafe` needs `Inv` and the step.

The existential definitions make the induction work without recursion:
`PoolSound` says there is a sequence of the free slots, `ListSound` that there
is a sequence of the members, and the lemmas of `ListProofs` give the new
sequence for get, put, push and unlink.

`UrlTextProofs` proves what `text` checks on short names for names of any
length: `PathRecovered`, that the path of the URL recovered from a path is that
path; from it `YoukuPathKept` and `SohuPathKept`, that a file within the length
limits is loaded with the path it has (for Youku when the recovered URL has not
the mark of a Sohu file, `ipad/file=/`; for Sohu when that mark is not in the
host). The argument is about the first `/`: `FirstSlash` picks it,
`FlattenKeeps` and `UnflattenKeeps` say that both conversions leave it where it
is and change only what follows it, letter by letter, so the two agree on where
the host ends. Texts are functions from `1 .. n` (`IsText`), which is all the
argument needs.

`HotCacheProofs` proves about the two threads, for all sizes, URLs, paths and
bounds:

* `ClientTyped` (`HCTypeOK`) and `ClientKeepsDiscipline` (`ListDiscipline`: the
  client implements `ResList`), hence `ClientFamilies`. The inductive invariant
  `HInv` says of the list, besides `Inv`, that a free slot is blank
  (`FreeBlank`), that a loaded is STORED (`LoadedStored`) and that a content's
  path is the one of its URL (`PathOfUrl`); of each thread, that what it keeps
  across a wait is still what it was (`MainOK`, `ProcOK`, `CallOK`): the content
  a thread downloads for is still that content because it is not a loaded, and
  `ParsedKept` is why that is enough; the pointer the walk keeps may be stale,
  so `ProcOK` claims nothing about it but that it is a slot, and the flags
  written through it are shown to be a call `ResList` allows. `CtrlOK` says the
  controllers stay, `BootOK` that the second thread starts after the load.
* `StoredHasItsFile` (`StoredHasFile`), under `Tidy`: renames succeed, no path
  is the beginning of another, every file has its standard name, and the URL recovered from a name leads back to it (what `UrlTextProofs` and
  `text` show of the conversions). The hypothesis is needed: a file with a pure
  vid for a name is renamed over one already loaded, or met a second time by the
  walk of the directory after its rename, and is then deleted as a duplicate of
  itself while the content is STORED; a rename that fails leaves a content whose
  path has no file. The constants of the run `restart` satisfy it; those of
  `sites` do not, and there the file with such a name happens to do no harm. The
  invariant added is `LoadOK`: while files are loaded, the list holds the ones
  already met and the walk has only names that are on the disk before it.
* `RedirectsServable` (`RedirectServable`), under `Tidy` and `NothingLost`:
  there is no restart, or a duplicate found at start-up has the same path as the
  file it duplicates. Without it the start-up deletes a file whose URL the
  Snooping Module, which is not told, still redirects. `RInv` adds that the URL
  the walk has read before it waits to be answered is servable when it is told.

`ListStepsProofs` proves about the unlocked accesses, for any number of slots
and workers and with no assumption on which calls overlap: `StepsTypes`, that
every id and the head of the free list stay an index or an address of `ctnt[]`
(a count may be wrong, a word is never garbage), and `QuietIsSound`, that the
free list is right until a get or put has begun while another was under way.
`StepsInv` has one case per program counter: `CallOf` says what the registers of
a call under way know about the pool; the flag accesses of all the actors leave
the pool alone and may fall anywhere.

`NginxProofs` proves about `Nginx`, for any requests, workers, sizes and bounds,
the type invariant (`NginxTyped`), `OwnHostAlways`, `TableRight`,
`MasterIsLast`, the refinement of `Fetch` (`PromiseKept`) and `LostWithWorker`.
The inductive invariant is `DInv /\ PInv`: of the downloads their types and
`OwnHost`; of the processes that the table knows the workers (`Knows`), that
`live` is off only when every slot is free or waits to be respawned
(`LiveRight`) and that a worker has the
order to terminate only if the master has it (`TermTold`). `LiveRight` and `TermTold`
are what `MasterLast` and `LostOnlyWithWorker` need and neither says.

`TextProofs` proves what `text` checks of names and seeks, for names of any
length, any limits and any bound: `FilesKeepPaths` (`LoadedKeepsPath`),
`UrlsComeBack` (`RecoveredUrl`), `FilesFoundAgain` (`FoundAgain`). The invariant
is only that a name keeps its beginning (`NameGrows`); the work is in the lemmas
about the conversions. `NoMarkMade` is why a Youku file is never taken for a
Sohu file by its recovered URL: the only `/` of its path ends the host, so a mark
in the URL was one in the path. `SohuMark` says that the first mark of a Sohu
file is the one it began with, so that the `?` comes back where it was.
`VidComesBack` follows the letters after the last `/`, which no conversion
touches. `FlvAnswersRight` is about files of any size with any keyframes in
order: the announced length is the bytes sent, and the loop over the times stops
at the last keyframe that begins within the second asked for or before;
`FlvAlwaysServed` applies it to the run's files.

`PagesProofs` proves what the parsers and the file ids compute, for inputs of
any length:

* `StatusLineParsed`: `http_parse_status_line` takes from every text the status
  `StatusOf` gives it. `ParseRun` turns the loop into the sequence of its states; a text the machine accepts is a status line (`RunSound`),
  and on a status line it goes through the states in order.
* `M3u8PartsAsked`: the loop over an m3u8 list calls the parser once per part, in
  order, and asks for the first file of each, when every part has a URL. Where a
  part has none the search runs into the next part, and the theorem (as the
  invariant) says nothing. The argument is that a call at the start of a part
  ends at the start of the next one (`NextPart`, `CallOfPart`), so no part is
  passed over between two calls (`Visited`).
* `PlaylistParsed`: a playlist is taken exactly when `PlaylistRight` says so and
  the right segments are asked for, for any sizes of `streams[]` and `segs[]`
  and any number of streams that fits. Its hypotheses are those of the run:
  no type is named twice, and no type has two groups. `Parsed` is the invariant
  of the loop over the groups; `GroupRead` is its step.
* `LettersMixed`: the shuffle of `ranom8T` is a permutation, for every table of
  different letters and every seed: the index it computes is always one of a
  letter that is left (`PickInside`, `SpotInside`), the letters left are
  different and one fewer at each turn (`LeftOk`), and a letter taken is never
  left again (`TakenGone`). `FileIdsApart`: equal ids have equal segment numbers,
  and equal fields but for the two places the number is written over.

A recursive function has no induction principle the provers can apply, so two
lemmas stand for it. `UpTo` is induction as a statement about a set of numbers:
a set that has the first number and with each the next has all up to a bound; it
follows from every set of naturals having a least member. `Iterated` says that a
function defined from its predecessor's value exists, with values in a given
set, which is what makes the `CHOOSE` behind a recursive definition satisfy its
equation. Each recursion of the model is then shown to exist (`CallsExist`,
`LeftExists`, `PlayExists`) and its invariant to hold up to its end (`LeftAlways`,
`PlayAlways`).

From these `TextProofs` has `StatusAlwaysRead`, `M3u8AlwaysAsked`,
`PlaylistAlwaysRead` and `FileIdsAlwaysDiffer`, the invariants `StatusLineRead`,
`M3u8FilesAsked`, `PlaylistRead` and `FileIdsDiffer` of `text`, for texts of any
length, any seeds and any sizes. The assumptions on the
constants are that the seeds are naturals (the arithmetic is that of the code
for seeds of up to seven digits, see below) and that `streams[]` has a place for
each of the four types (`yk_lib.h`).

Only model-checked: all liveness (`RequestAnswered`, `StoredGetsNotified`,
`RetrySucceeds`, `Stops`, `MutexComesBack`, `WorkersComeBack`; fairness and
ENABLED are out of the prover's reach), and `FileIdExample`, one computation of
66 letters that the run carries out.

## Not modelled

* Stock Nginx apart from its processes, its accept mutex and the upstream:
  configuration, request phases, filters, protocols, the inside of the resolver,
  and the modules this program does not use. It is vendored and makes up some
  145 000 of the 151 000 lines of the repository's implementation, of which the
  program changes a few hundred; the share of all lines that the modules stand
  for is small for that reason, the share of `hot_cache/`, of the getfile module
  and of the changed places of Nginx is not.
* Of the Nginx processes: binary upgrade, reopening of logs, cache processes, and
  what becomes of the descriptors of a channel that is closed after a failed
  `fork` but kept in the table (they may be closed again, or belong to another
  file by then).
* Seeds of more than seven digits: `yk_parse_pl_seed` does not count what it
  copies into `SEED_STRING_LEN` bytes, and the product in `zf` overflows.
* More than `STREAM_TYPE_TOTAL` names under `streamfileids`: `streams[i++]` is not
  checked (`yk_routine.c:208`).
* FLV keyframe lists with no entry or one, for which the code reads past the
  list, and lists longer than the 16 KB it has read (`ngx_http_flv_module.c:179`).
* Sohu names other than `ipad?file=...` in `text`; the code takes any `?file=/`.
* In `ListSteps`: two threads that put back one loaded at once (both found it by
  the same search), and a request to Nginx that failed for the client but was
  taken all the same; `HotCache` has the latter.
* The JSON of playlists, the text of HTTP requests, cookies, and the sockets
  they travel through (`yk_getplaylist.c`, `yk_lib.c`, `yk_getflvpath.c`): text
  and I/O; their failures are in `HotCache`.
* Weaker memory than sequential consistency in `ListSteps`.
* The mime type (no decision depends on it), `sc_yk_get_vf` (compiled out),
  `sc_res_info_find_ctnt` (no caller), logging.
* GETNEXT and malformed datagrams, which are dropped.

## Plan

1. Done: free lists, resource list, threads with Nginx, load and restarts;
   names, parsers and seeks; single accesses; downloads in Nginx and its
   processes; the three refinements; proofs about the resource list and names.
2. Done: proofs about `Nginx`, `ListSteps` and `HotCache`, the three refinements
   included. Proofs about names, FLV seeks, status lines, playlists, file ids
   and m3u8 lists: every invariant of a run that is not one computation is a
   theorem.
3. `Catalogue`: an abstract specification (a set of files, each absent, wanted,
   stored or announced) that `HotCache` implements when the assumptions its
   findings name hold; with it the two hazards about partly added origins.
4. `Resolver`: the inside of `ngx_resolver.c`, which `GetFile` takes as one wait.
