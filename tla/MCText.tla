------------------------------- MODULE MCText ------------------------------
(***************************************************************************)
(* The pure parts of the program on bounded inputs: one job is picked, and *)
(* its text grows where the input is a text.  The invariants compare what  *)
(* the code computes with what it should.                                  *)
(***************************************************************************)
EXTENDS UrlText, StatusLine, YoukuPages, SohuPages, FlvSeek

CONSTANTS MaxName,   \* bound on the tokens of a name
          MaxLine,   \* bound on the characters of a status line
          MaxPage,   \* bound on the tokens of an m3u8 list
          Seeds      \* the seeds the shuffle is tried with

ASSUME SeedsAssumption == Seeds \subseteq Nat

VARIABLES job, text

vars == <<job, text>>

(* The tokens of the names of files, and of the lists of files. *)
NameToken == {"youku", "ipad", "?", "file=", "/", ".", "_", "v"}
NameStart == [youku |-> <<"youku", ".", "com", "/">>, sohu |-> <<"ip", "/", "ipad", "?", "file=", "/">>]
PageToken == {"http://", "file=", "a", "&", "DISCONTINUITY"}
LineChar == {"H", "T", "P", "/", "1", "0", "SP", ".", "x", "CR", "LF"}

SeqsUpTo(S, n) == UNION {[1 .. k -> S] : k \in 0 .. n}

(* The playlists: any order of the types, one of them unknown, and any     *)
(* groups of segments.                                                     *)
Playlist == [ids : {s \in SeqsUpTo(StreamType \cup {"3gp"}, 3) : IsInjective(s)},
             segs : {s \in SeqsUpTo([type : {"mp4", "flv", "hd2"},
                                     nos : {[i \in 1 .. n |-> i - 1] : n \in 0 .. StreamSegsMax + 1}], 2) :
                       \A i, j \in DOMAIN s : s[i].type = s[j].type => i = j}]

(* The files of FlvSeek: six bytes or units, two or three keyframes. *)
FlvTime == {0, 1000, 1500, 2000, 2999}
Keyframes == {<<>>} \cup
             {kf \in UNION {[1 .. n -> [time : FlvTime, pos : 1 .. 5]] : n \in 2 .. 3} :
                  \A i, j \in DOMAIN kf : i < j => kf[i].time <= kf[j].time /\ kf[i].pos < kf[j].pos}

(* The letters of ranom8T, with BS and LOW for the backslash and the low   *)
(* line, the digits of a segment's number, and the example in the comment  *)
(* of yk_get_fileid: seed 1599, segment 0.                                 *)
Letters == <<"a", "b", "c", "d", "e", "f", "g", "h", "i", "j", "k", "l", "m", "n", "o", "p", "q", "r",
             "s", "t", "u", "v", "w", "x", "y", "z", "A", "B", "C", "D", "E", "F", "G", "H", "I", "J",
             "K", "L", "M", "N", "O", "P", "Q", "R", "S", "T", "U", "V", "W", "X", "Y", "Z", "/", "BS",
             ":", ".", "LOW", "-", "1", "2", "3", "4", "5", "6", "7", "8", "9", "0">>
HexDigit == <<"0", "1", "2", "3", "4", "5", "6", "7", "8", "9", "A", "B", "C", "D", "E", "F">>
ExampleIds == <<40, 32, 40, 40, 40, 12, 40, 17, 40, 40, 44, 12, 31, 2, 64, 49, 44, 44, 45, 2, 40,
             45, 40, 40, 64, 45, 1, 18, 32, 12, 48, 12, 40, 12, 32, 2, 18, 12, 39, 48, 44, 44,
             49, 39, 44, 31, 64, 48, 39, 54, 48, 32, 54, 39, 1, 2, 2, 49, 2, 35, 44, 31, 64, 1,
             48, 54>>
ExampleFileId == <<"0", "3", "0", "0", "0", "2", "0", "1", "0", "0", "5", "2", "F", "9", "6", "8", "5",
             "5", "C", "9", "0", "C", "0", "0", "6", "C", "B", "E", "3", "2", "4", "2", "0", "2",
             "3", "9", "E", "2", "-", "4", "5", "5", "8", "-", "5", "F", "6", "4", "-", "A", "4",
             "3", "A", "-", "B", "9", "9", "8", "9", "7", "5", "F", "6", "B", "4", "A">>

Init == \/ \E site \in DOMAIN NameStart :
               job = [kind |-> "name", site |-> site] /\ text = NameStart[site]
        \/ /\ text = <<>>
           /\ \/ job \in {[kind |-> k] : k \in {"line", "page"}}
              \/ job \in [kind : {"playlist"}, pl : Playlist]
              \/ job \in [kind : {"fileid"}, seed : Seeds, no : {0, 9, 15, 16, 62}]
              \/ job \in [kind : {"flv"}, kf : Keyframes, arg : 0 .. 7]

GrowName == /\ job.kind = "name" /\ Len(text) < MaxName
            /\ \E t \in NameToken : text' = Append(text, t)
            /\ UNCHANGED job

(* Another character of a line, as long as the parser waits for one. *)
GrowLine == /\ job.kind = "line" /\ Len(text) < MaxLine
            /\ NgxParseStatusLine(StartLine, text).ret = "AGAIN"
            /\ \E c \in LineChar : text' = Append(text, c)
            /\ UNCHANGED job

GrowPage == /\ job.kind = "page" /\ Len(text) < MaxPage
            /\ \E t \in PageToken : text' = Append(text, t)
            /\ UNCHANGED job

Next == GrowName \/ GrowLine \/ GrowPage

Spec == Init /\ [][Next]_vars

-----------------------------------------------------------------------------
(* A file that was stored under the path of a content is loaded at the     *)
(* next start, and with that path: sc_ld_file_process recovers a URL from  *)
(* the name and makes the path of it again.  Outside are the paths with    *)
(* the marks of both sites and those too long for a URL.                   *)
LoadedKeepsPath ==
    job.kind = "name" =>
        LET p == GenLocalPath(job.site, text)
        IN  p # NoText /\ ~(IsYkPath(p) /\ IsSohuPath(p)) /\ LoadSite(p) = job.site
                /\ Len(p) < UrlMax
              => {l.path : l \in LoadedOf(p)} = {p}

(* The letters the recovery cannot tell apart: a '_' of the URL, a '?' of  *)
(* a Sohu URL besides the one of its file=, and the mark of a Sohu file in *)
(* a Youku URL.                                                            *)
Recoverable(site, u) ==
    /\ \A i \in DOMAIN u : u[i] # "_"
    /\ IF site = "youku" THEN ~Occurs(u, SohuTag)
       ELSE Cardinality({i \in DOMAIN u : u[i] = "?"}) = 1

(* The URL recovered from a local path is the one the path was made of,    *)
(* without its parameters for Youku, when it has none of the letters the   *)
(* path loses (sc_res_recover_url_from_local_path).                        *)
RecoveredUrl ==
    job.kind = "name" =>
        LET p == GenLocalPath(job.site, text)
        IN  p # NoText /\ Recoverable(job.site, text)
              => RecoverUrlOf(p) \in {NoText, IF job.site = "youku" THEN WithoutPara(text) ELSE text}

(* After a restart a file is found again by the vid of the content it was  *)
(* stored for (sc_res_info_handle_cached), when the vid has neither a '_', *)
(* which comes back as '/', nor parameters, which the path never had.      *)
FoundAgain ==
    job.kind = "name" =>
        LET p == GenLocalPath(job.site, text)
        IN  /\ p # NoText
            /\ job.site = "youku" => text = WithoutPara(text)
            /\ \A v \in After(text, "/") : \A i \in DOMAIN v : v[i] \notin {"_", "?"}
            => \A l \in LoadedOf(p) : HasVidText(l.url, text)

(* The status the client takes from an answer is the one a status line     *)
(* has, and any other answer is refused (http_parse_status_line).          *)
StatusLineRead == job.kind = "line" => ParseStatusLine(text) = StatusOf(text)

(* A playlist is taken exactly when the client knows every type, there are *)
(* segments, and every group of them is of a named stream, not empty, and  *)
(* leaves room in segs[]; then the real URL of every segment of the MP4,   *)
(* or else of the FLV, is asked for, in order (yk_parse_playlist,          *)
(* sc_get_yk_video_tradition).                                             *)
PlaylistRead == job.kind = "playlist" => PlaylistRight(job.pl)

(* What the check "is invalid index" of sc_get_yk_video_tradition is for:  *)
(* streams[] is only read where a stream was parsed.                       *)
StreamIndexValid ==
    job.kind = "playlist" => \A i \in IndicesRead(job.pl) : i \in 0 .. StreamTypeTotal - 1

(* The shuffle of the letters loses and doubles none, whatever the seed,   *)
(* and two segments of a stream never get one file id (ranom8T, cg_fun).   *)
FileIdsDiffer ==
    job.kind = "fileid" =>
        LET mixed == Shuffle(Letters, job.seed)
            id(n) == FileId(Letters, HexDigit, ExampleIds, n, job.seed)
        IN  /\ IsInjective(mixed) /\ Range(mixed) = Range(Letters)
            /\ \A n \in {0, 1, 10, 16, 62} \ {job.no} : id(n) # id(job.no)

(* The example in the comment at yk_get_fileid comes out: its seed, its    *)
(* field of the playlist and its segment give its file id.                 *)
FileIdExample ==
    job.kind = "fileid" =>
        (job.seed = 1599 /\ job.no = 0 =>
            FileId(Letters, HexDigit, ExampleIds, job.no, job.seed) = ExampleFileId)

(* Of every part of an m3u8 list one file is asked for, the first of the   *)
(* part, in the order of the list, unless its URL is too long              *)
(* (sohu_parse_m3u8_response and the loop that calls it).  Lists with a    *)
(* part that has no URL are not meant: there the client takes the URL of a *)
(* later part.                                                             *)
M3u8FilesAsked ==
    job.kind = "page" /\ (\A b \in PartStart(text) : PartUrl(text, b) # {}) => M3u8Right(text)

(* The announced length of an answer is the number of bytes of its body,  *)
(* and the body goes on at the last keyframe that begins before the second *)
(* asked for is over, so less than a second after the time asked for, or   *)
(* at the first when all begin later.                                      *)
BegunBy(t, arg) == t < (arg + 1) * 1000
AnswerRight(size, kf, arg) ==
    LET a == FlvAnswer(size, kf, arg)
        n == Len(a.body)
        bytes(i) == a.body[i].to - a.body[i].from
    IN  /\ n \in {1, 2} /\ a.length = bytes(1) + (IF n = 2 THEN bytes(2) ELSE 0)
        /\ kf # <<>> /\ n = 2 =>
             \E i \in DOMAIN kf :
                /\ kf[i].pos = a.body[2].from
                /\ i = 1 \/ BegunBy(kf[i].time, arg)
                /\ \A j \in DOMAIN kf : BegunBy(kf[j].time, arg) => j <= i

(* The Content-Length of an FLV answer is right, and so is the place its   *)
(* body goes on from (ngx_http_flv_handler).                               *)
FlvSize == 6
FlvServed == job.kind = "flv" => AnswerRight(FlvSize, job.kf, job.arg)
=============================================================================
