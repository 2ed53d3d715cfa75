------------------------------ MODULE GetFile ------------------------------
(***************************************************************************)
(* A download in an Nginx worker: the handler of ngx_http_getfile_module   *)
(* and the upstream, event pipe and store it runs on                       *)
(* (ngx_http_upstream.c, ngx_event_pipe.c), with the flags it leaves in    *)
(* the resource list.  The module sets neither next_upstream nor           *)
(* reinit_request, so a peer that fails is never followed by another.      *)
(*                                                                         *)
(* The origin server and the network are free: an answer has any status    *)
(* and announces a length or none, and every wait may end in data, in the  *)
(* end of the connection, in an error or in a timeout.                     *)
(***************************************************************************)
EXTENDS Integers, FiniteSets

CONSTANTS
    Request,      \* the requests of the client
    Worker,       \* the slots of the worker processes
    Path,         \* the local paths
    Host,         \* the hosts of the URLs
    NoHost,
    NamedHost,    \* the hosts that are a name, not an address
    RenameMayFail, \* whether ngx_ext_rename_file may fail
    MaxBody       \* bound on the bytes of an answer

ASSUME GetFileAssumption ==
    /\ NoHost \notin Host /\ NamedHost \subseteq Host /\ Path # {} /\ Host # {}
    /\ Worker # {} /\ RenameMayFail \in BOOLEAN /\ MaxBody \in Nat \ {0}

VARIABLES
    req,      \* the request with its upstream and pipe
    backend,  \* the static backendSockAddr of each worker
    file,     \* the stored files
    flag      \* the flags of the contents

gfvars == <<req, backend, file, flag>>

Waiting == {"resolving", "connecting", "header", "body"}
Stage == {"new", "done", "lost"} \cup Waiting

NoFile == [bytes |-> -1, announced |-> -1, status |-> 0]
NoFd == -1   \* tf->offset of a temporary file not created yet

NewReq == [stage |-> "new", worker |-> CHOOSE w \in Worker : TRUE,
           path |-> CHOOSE p \in Path : TRUE, host |-> CHOOSE h \in Host : TRUE,
           conn |-> NoHost, status |-> 0, announced |-> -1, got |-> 0, temp |-> NoFd]

(* A request that has ended: its pool is destroyed. *)
Over(stage) == [NewReq EXCEPT !.stage = stage]

(* The request that worker w has read, with its arguments. *)
Asked(w, p, h) == [NewReq EXCEPT !.worker = w, !.path = p, !.host = h]

GFInit == /\ req = [r \in Request |-> NewReq]
          /\ backend = [w \in Worker |-> NoHost]
          /\ file = [p \in Path |-> NoFile]
          /\ flag = [p \in Path |-> {}]

In(r, stage) == req[r].stage = stage

-----------------------------------------------------------------------------
(* The end of ngx_http_upstream_finalize_request for an upstream that has  *)
(* not been stored: with a temporary file the content gets D_FAIL, unless  *)
(* it is STORED, and the file is deleted; without one nobody is told.      *)
Finalize(r, rq) ==
    /\ req' = [req EXCEPT ![r] = Over("done")]
    /\ flag' = IF rq.temp # NoFd /\ "STORED" \notin flag[rq.path]
               THEN [flag EXCEPT ![rq.path] = @ \cup {"D_FAIL"}] ELSE flag
    /\ UNCHANGED <<backend, file>>

(* A faulty ngx_http_upstream_next: the next try, as if next_upstream were *)
(* set, connects to whatever address the peer points to by now.            *)
UpstreamNextRetries(r) ==
    /\ req' = [req EXCEPT ![r].stage = "connecting", ![r].conn =
                  IF req[r].host \in NamedHost THEN req[r].host ELSE backend[req[r].worker]]
    /\ UNCHANGED <<backend, file, flag>>

(* ngx_http_upstream_next, for every kind of failure. *)
UpstreamNext(r) == Finalize(r, req[r])

(* ngx_http_upstream_connect of the upstream rq: the address is read when  *)
(* the connection is opened, which fails at once, is under way, or is made. *)
Connect(r, rq, addr) ==
    \/ req' = [req EXCEPT ![r] = Over("done")]
    \/ \E stage \in {"connecting", "header"} :
          req' = [req EXCEPT ![r] = [rq EXCEPT !.stage = stage, !.conn = addr]]

-----------------------------------------------------------------------------
(* ngx_http_getfile_handler and ngx_http_upstream_init, in the worker that *)
(* has accepted the request: arguments it refuses, too short or of another *)
(* type, ...                                                               *)
Refuse(r) == /\ In(r, "new")
             /\ req' = [req EXCEPT ![r] = Over("done")]
             /\ UNCHANGED <<backend, file, flag>>

(* ... a host that is an address, put into the static variable, ... *)
StartAddress(r, w, p, h) ==
    /\ In(r, "new") /\ h \notin NamedHost
    /\ backend' = [backend EXCEPT ![w] = h]
    /\ Connect(r, Asked(w, p, h), backend'[w])
    /\ UNCHANGED <<file, flag>>

(* ... or a name, which is resolved first, if there is a resolver. *)
StartName(r, w, p, h) ==
    /\ In(r, "new") /\ h \in NamedHost
    /\ \/ req' = [req EXCEPT ![r] = [Asked(w, p, h) EXCEPT !.stage = "resolving"]]
       \/ req' = [req EXCEPT ![r] = Over("done")]
    /\ UNCHANGED <<backend, file, flag>>

(* ngx_http_upstream_resolve_handler: the name has an address, or not; the *)
(* resolver's timeout ends here too.                                       *)
Resolved(r) == /\ In(r, "resolving")
               /\ Connect(r, req[r], req[r].host)
               /\ UNCHANGED <<backend, file, flag>>

NotResolved(r) == In(r, "resolving") /\ Finalize(r, req[r])

(* ngx_http_upstream_send_request(_handler): the connection is there and   *)
(* the request is sent.                                                    *)
SendRequest(r) == /\ In(r, "connecting")
                  /\ req' = [req EXCEPT ![r].stage = "header"]
                  /\ UNCHANGED <<backend, file, flag>>

(* The connection fails, is closed in the header, or times out. *)
PeerFails(r) == (In(r, "connecting") \/ In(r, "header")) /\ UpstreamNext(r)

(* getfile_process_status_line and getfile_upstream_process_header: what   *)
(* they take from a header.  404 stands for every status but 200, the 0    *)
(* left by a status line that cannot be parsed included.                   *)
Answer == [status : {200, 404}, announced : -1 .. MaxBody]

(* ngx_http_upstream_send_response: the header is sent on, and the body is *)
(* read into a pipe that has no temporary file yet.                        *)
Piped(rq, a) == [rq EXCEPT !.stage = "body", !.status = a.status, !.announced = a.announced,
                           !.got = 0, !.temp = NoFd]

(* ngx_http_upstream_process_header with a whole header. *)
HeaderRead(r) == /\ In(r, "header")
                 /\ \E a \in Answer : req' = [req EXCEPT ![r] = Piped(@, a)]
                 /\ UNCHANGED <<backend, file, flag>>

(* A faulty pipe: it reads on past the end of the answer. *)
ReadPast(r) == /\ In(r, "body") /\ req[r].got <= MaxBody
               /\ req' = [req EXCEPT ![r].got = @ + 1, ![r].temp = req[r].got + 1]
               /\ UNCHANGED <<backend, file, flag>>

(* ngx_event_pipe: more of the body; full buffers go to the temporary      *)
(* file, the last one only when it is full or the body has ended.          *)
ReadBody(r) ==
    /\ In(r, "body") /\ req[r].got < MaxBody
    /\ \E n \in {req[r].temp, req[r].got + 1} :
          req' = [req EXCEPT ![r].got = @ + 1, ![r].temp = n]
    /\ UNCHANGED <<backend, file, flag>>

(* ngx_http_upstream_process_upstream after a timeout, or an error of the  *)
(* pipe.                                                                   *)
BodyFails(r) == In(r, "body") /\ Finalize(r, req[r])

(* A faulty test: the length is not compared. *)
StorableAnyLength(rq) == rq.status = 200

(* The test of ngx_http_upstream_process_request at the end of the body,   *)
(* where p->length is always -1.                                           *)
Storable(rq) ==
    /\ rq.status = 200
    /\ rq.announced = -1 \/ rq.announced = IF rq.temp = NoFd THEN 0 ELSE rq.temp

(* The connection ends: what is left in the buffers is written, and        *)
(* ngx_http_upstream_process_request stores the file, whether or not it    *)
(* can be renamed, ...                                                     *)
Flushed(rq) == [rq EXCEPT !.temp = IF rq.got = 0 THEN NoFd ELSE rq.got]

StoreFile(r) ==
    LET rq == Flushed(req[r])
        p == rq.path
    IN  /\ In(r, "body") /\ Storable(rq)
        /\ \/ file' = [file EXCEPT ![p] = [bytes |-> rq.got, announced |-> rq.announced,
                                           status |-> rq.status]]
           \/ RenameMayFail /\ UNCHANGED file
        /\ flag' = [flag EXCEPT ![p] = @ \cup {"STORED"}]
        /\ req' = [req EXCEPT ![r] = Over("done")]
        /\ UNCHANGED backend

(* ... or finalizes the request. *)
EndOfBody(r) == /\ In(r, "body") /\ ~Storable(Flushed(req[r]))
                /\ Finalize(r, Flushed(req[r]))

(* The client has another request. *)
AskAgain(r) == /\ req[r].stage \in {"done", "lost"}
               /\ req' = [req EXCEPT ![r] = NewReq]
               /\ UNCHANGED <<backend, file, flag>>

Begin(r, w) == \/ Refuse(r)
               \/ \E p \in Path, h \in Host : StartAddress(r, w, p, h) \/ StartName(r, w, p, h)

(* The handlers that end a wait of request r. *)
Progress(r) == \/ Resolved(r) \/ NotResolved(r) \/ SendRequest(r) \/ PeerFails(r)
               \/ HeaderRead(r) \/ ReadBody(r) \/ BodyFails(r) \/ StoreFile(r) \/ EndOfBody(r)

-----------------------------------------------------------------------------
ReqRec == [stage : Stage, worker : Worker, path : Path, host : Host, conn : Host \cup {NoHost},
           status : {0, 200, 404}, announced : -1 .. MaxBody,
           got : 0 .. MaxBody, temp : NoFd .. MaxBody]
FileRec == [bytes : -1 .. MaxBody, announced : -1 .. MaxBody, status : {0, 200}]

GFTypeOK ==
    /\ req \in [Request -> ReqRec]
    /\ backend \in [Worker -> Host \cup {NoHost}]
    /\ file \in [Path -> FileRec]
    /\ flag \in [Path -> SUBSET {"STORED", "D_FAIL"}]

(* Every request is connected to the host of its own URL, although the     *)
(* address of all requests of a worker is kept in one static variable      *)
(* (backendSockAddr in ngx_http_getfile_handler).                          *)
OwnHost == \A r \in Request : req[r].conn \in {req[r].host, NoHost}
=============================================================================
