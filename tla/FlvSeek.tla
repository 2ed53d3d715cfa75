------------------------------ MODULE FlvSeek ------------------------------
(***************************************************************************)
(* How Nginx serves a stored FLV file from a point of time on: the changed *)
(* ngx_http_flv_module.c.  A file has a size and, when its script tag      *)
(* holds them, keyframes: their times, doubles in the file and             *)
(* milliseconds here, and their positions; <<>> is a file whose script tag *)
(* has no "keyframes".  The body of an answer is a sequence of chunks: a   *)
(* range [from, to) of the file, or the header of 13 bytes kept in the     *)
(* module.                                                                 *)
(***************************************************************************)
EXTENDS Integers, Sequences

CONSTANT FlvHeaderLen   \* sizeof(ngx_flv_header) - 1

ASSUME FlvHeaderAssumption == FlvHeaderLen \in Nat

(* (off_t)dd: the fraction of a second is cut off. *)
WholeSeconds(t) == t \div 1000

(* A faulty choice of the keyframe: the one the search stopped at. *)
KeyframePast(kf, start) ==
    LET past == {i \in DOMAIN kf : start < WholeSeconds(kf[i].time)}
    IN  IF past = {} THEN Len(kf) ELSE CHOOSE i \in past : \A j \in past : i <= j

(* The loop over the times in ngx_http_flv_kf_compute_offset: the keyframe *)
(* before the first whose whole seconds are past start, the last one when  *)
(* there is none, the first one when start is ahead of all.                *)
StartKeyframe(kf, start) ==
    LET past == {i \in DOMAIN kf : start < WholeSeconds(kf[i].time)}
        stop == IF past = {} THEN Len(kf) + 1 ELSE CHOOSE i \in past : \A j \in past : i <= j
    IN  IF stop = 1 THEN 1 ELSE stop - 1

(* ngx_http_flv_time_to_offset: the offset and the size up to the second   *)
(* keyframe; {} without a script tag with keyframes (NGX_ERROR).  Lists of *)
(* no or one keyframe are left out: their positions are read past the end. *)
TimeToOffset(kf, start) ==
    IF kf = <<>> THEN {}
    ELSE {[offset |-> kf[StartKeyframe(kf, start)].pos, kf2 |-> kf[2].pos]}

FileChunk(from, to) == [in |-> "file", from |-> from, to |-> to]
HeaderChunk == [in |-> "memory", from |-> 0, to |-> FlvHeaderLen]

(* ngx_http_flv_handler for an open file: start is the argument, 0 when it *)
(* is missing, malformed or not below the size of the file.                *)
FlvAnswer(size, kf, arg) ==
    LET start == IF arg >= size THEN 0 ELSE arg
        seek == TimeToOffset(kf, start)
        t == CHOOSE r \in seek : TRUE
    IN  IF start = 0 THEN [length |-> size, body |-> <<FileChunk(0, size)>>]
        ELSE IF seek = {}
        THEN [length |-> FlvHeaderLen + size - start,
              body |-> <<HeaderChunk, FileChunk(start, size)>>]
        ELSE [length |-> size - t.offset + t.kf2,
              body |-> <<IF t.kf2 = 0 THEN HeaderChunk ELSE FileChunk(0, t.kf2),
                        FileChunk(t.offset, size)>>]
=============================================================================
