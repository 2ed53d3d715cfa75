---------------------------- MODULE YoukuPages -----------------------------
(***************************************************************************)
(* What the client reads in the pages of Youku: the streams and segments   *)
(* of the getPlaylist answer (yk_routine.c), the stream it downloads       *)
(* (sc_youku.c) and the file id of a segment (yk_getfileid.c).             *)
(*                                                                         *)
(* A playlist is a record: ids, the types named under "streamfileids" in   *)
(* order, each with the field the file ids are made of, and segs, the      *)
(* groups under "segs", each a type and the numbers of its segments.       *)
(***************************************************************************)
EXTENDS Integers, Sequences, SequencesExt, FiniteSets

CONSTANTS StreamTypeTotal,  \* STREAM_TYPE_TOTAL, the size of streams[]
          StreamSegsMax     \* STREAM_SEGS_MAX, the size of segs[]

(* streams[] has a place for each of the four types (yk_lib.h). *)
ASSUME StreamAssumption ==
    StreamTypeTotal \in Nat /\ StreamTypeTotal >= 4 /\ StreamSegsMax \in Nat \ {0}

StreamType == {"hd2", "mp4", "hd3", "flv"}

(* yk_parse_pl_streamfileids: streams[], or {} after yk_destroy_streams_all *)
(* when a type is none of the four, or when there is none at all: the skip *)
(* over {" lands behind an empty object.  A type named again takes another *)
(* place and nothing compares i with the size of streams[], so the list is *)
(* not to be longer than StreamTypeTotal.                                  *)
ParseStreamFileIds(ids) ==
    IF ids # <<>> /\ \A i \in DOMAIN ids : ids[i] \in StreamType
    THEN {[i \in DOMAIN ids |-> [type |-> ids[i], segs |-> <<>>]]}
    ELSE {}

(* A faulty segment parser: the 64th segment fits the array and is let in. *)
ParseSegsRoom(streams, g) ==
    LET at == {i \in DOMAIN streams : streams[i].type = g.type}
        k == CHOOSE i \in at : \A j \in at : i <= j
    IN  IF at = {} \/ g.nos = <<>> \/ Len(g.nos) > StreamSegsMax THEN {}
        ELSE {[streams EXCEPT ![k].segs = g.nos \o SubSeq(@, Len(g.nos) + 1, Len(@))]}

(* One group of yk_parse_pl_segs with yk_parse_pl_segs_do: the segments    *)
(* overwrite those of the first stream of the type from the first on; the  *)
(* count that reaches the size of segs[] is an error, and so is a type no  *)
(* stream has.  After an empty group the skip to the next type lands       *)
(* beside it, which is an error too.                                       *)
ParseSegs(streams, g) ==
    LET at == {i \in DOMAIN streams : streams[i].type = g.type}
        k == CHOOSE i \in at : \A j \in at : i <= j
    IN  IF at = {} \/ g.nos = <<>> \/ Len(g.nos) >= StreamSegsMax THEN {}
        ELSE {[streams EXCEPT ![k].segs = g.nos \o SubSeq(@, Len(g.nos) + 1, Len(@))]}

(* yk_parse_playlist: streams[] on success; no stream is left on an error. *)
(* No group at all is an error, as for the streams.                        *)
ParsePlaylist(pl) ==
    LET upTo[i \in 0 .. Len(pl.segs)] ==
            IF i = 0 THEN ParseStreamFileIds(pl.ids)
            ELSE UNION {ParseSegs(s, pl.segs[i]) : s \in upTo[i - 1]}
    IN  IF pl.segs = <<>> THEN {} ELSE upTo[Len(pl.segs)]

(* sc_get_yk_download_video_type: the index in streams[], counted from 0.  *)
(* The first MP4 ends the loop, an FLV only sets the index.                *)
DownloadIndex(streams) ==
    LET of(t) == {i \in DOMAIN streams : i <= StreamTypeTotal /\ streams[i].type = t}
    IN  IF of("mp4") # {} THEN (CHOOSE i \in of("mp4") : \A j \in of("mp4") : i <= j) - 1
        ELSE IF of("flv") # {} THEN (CHOOSE i \in of("flv") : \A j \in of("flv") : j <= i) - 1
        ELSE -1

(* The check of the index in sc_get_yk_video_tradition: both halves must   *)
(* hold for the index to be refused.                                       *)
IndexRefused(i) == i < 0 /\ i >= StreamTypeTotal

(* The indices at which sc_get_yk_video_tradition reads streams[]. *)
IndicesRead(pl) ==
    {DownloadIndex(s) : s \in {t \in ParsePlaylist(pl) : ~IndexRefused(DownloadIndex(t))}}

(* The segments whose real URL sc_get_yk_video_tradition asks for, in the  *)
(* order of its inner loop.                                                *)
SegmentsAsked(pl) ==
    {s[DownloadIndex(s) + 1].segs : s \in {t \in ParsePlaylist(pl) : DownloadIndex(t) >= 0}}

(* What the download of a playlist should be: it is taken exactly when     *)
(* every type is known, there are segments, and every group of them is of  *)
(* a named stream, not empty, and leaves room in segs[]; then the segments of the MP4, or else of the     *)
(* FLV, are asked for in order.                                            *)
PlaylistRight(pl) ==
    LET named == {pl.ids[i] : i \in DOMAIN pl.ids}
        group == {pl.segs[i] : i \in DOMAIN pl.segs}
        best == IF "mp4" \in named THEN "mp4" ELSE "flv"
        nos == {g.nos : g \in {h \in group : h.type = best}}
    IN  SegmentsAsked(pl) =
          IF /\ named \subseteq StreamType /\ best \in named /\ group # {}
             /\ \A g \in group : g.type \in named /\ Len(g.nos) \in 1 .. StreamSegsMax - 1
          THEN (IF nos = {} THEN {<<>>} ELSE nos) ELSE {}

-----------------------------------------------------------------------------
(* yk_getfileid.c *)

(* zf: the next value of the seed, for seeds of at most seven digits, for  *)
(* which the product fits an int of 32 bits.  The array has room for seven *)
(* (SEED_STRING_LEN), but yk_parse_pl_seed does not count the digits it    *)
(* copies: a longer seed overruns the array and the int; not modelled.     *)
Zf(dt) == (dt * 211 + 30031) % 65536

(* The index (int)(zf * strlen): zf is dt / 65536, exact in a double. *)
Pick(dt, len) == (dt * len) \div 65536

(* ranom8T: the letters, of which each is taken and deleted.  del_key_in_str *)
(* deletes the first occurrence of the letter.                             *)
Shuffle(letters, seed) ==
    LET dt[i \in 0 .. Len(letters)] == IF i = 0 THEN seed ELSE Zf(dt[i - 1])
        left[i \in 1 .. Len(letters)] ==
            IF i = 1 THEN letters
            ELSE LET l == left[i - 1] IN RemoveAt(l, Pick(dt[i - 1], Len(l)) + 1)
    IN  [i \in DOMAIN letters |-> left[i][Pick(dt[i], Len(left[i])) + 1]]

(* A faulty number: not two digits below 16. *)
HexNoPad(n) == IF n < 16 THEN <<n, 0>> ELSE <<n \div 16, n % 16>>

(* The number of the segment as two hexadecimal digits (their values). *)
Hex2(n) == <<n \div 16, n % 16>>

(* A faulty file id: the number one place too far. *)
FileIdLate(letters, hex, ids, no, seed) ==
    LET mixed == Shuffle(letters, seed)
        named == [i \in DOMAIN ids |-> mixed[ids[i] + 1]]
    IN  [named EXCEPT ![10] = hex[Hex2(no)[1] + 1], ![11] = hex[Hex2(no)[2] + 1]]

(* cg_fun and yk_get_fileid: the letters of the shuffle at the indices of  *)
(* the stream, the ninth and tenth replaced by the segment's number.       *)
FileId(letters, hex, ids, no, seed) ==
    LET mixed == Shuffle(letters, seed)
        named == [i \in DOMAIN ids |-> mixed[ids[i] + 1]]
    IN  [named EXCEPT ![9] = hex[Hex2(no)[1] + 1], ![10] = hex[Hex2(no)[2] + 1]]
=============================================================================
