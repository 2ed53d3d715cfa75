----------------------------- MODULE SohuPages -----------------------------
(***************************************************************************)
(* What the client reads in the pages of Sohu (sohu_lib.c, sc_sohu.c): the *)
(* files of an m3u8 list.  A page is a sequence of tokens.                 *)
(***************************************************************************)
EXTENDS Integers, Sequences

CONSTANT FileUrlMax   \* HTTP_URL_MAX_LEN

ASSUME FileUrlAssumption == FileUrlMax \in Nat \ {0}

(* strstr(s + from, c): the first c at or after from, 0 for NULL. *)
Find(s, c, from) ==
    LET at == {i \in from .. Len(s) : s[i] = c}
    IN  IF at = {} THEN 0 ELSE CHOOSE i \in at : \A j \in at : i <= j

(* A faulty search for "file=": from where the call started, not from the  *)
(* URL.                                                                    *)
ParseM3u8FromCurr(s, curr) ==
    LET url == Find(s, "http://", curr)
        file == Find(s, "file=", curr)
        stop == {i \in file .. Len(s) : s[i] = "&"} \cup {Len(s) + 1}
        end == CHOOSE i \in stop : \A j \in stop : i <= j
    IN  IF url = 0 \/ file = 0 THEN [next |-> 0, url |-> <<>>]
        ELSE [next |-> Find(s, "DISCONTINUITY", url + 1),
              url |-> IF end - (url + 1) >= FileUrlMax THEN <<>> ELSE SubSeq(s, url + 1, end - 1)]

(* sohu_parse_m3u8_response: the URL it copies (empty when it finds none   *)
(* or one that is too long) and where the next call starts, 0 for NULL.    *)
ParseM3u8(s, curr) ==
    LET url == Find(s, "http://", curr)
        file == Find(s, "file=", url + 1)
        stop == {i \in file .. Len(s) : s[i] = "&"} \cup {Len(s) + 1}
        end == CHOOSE i \in stop : \A j \in stop : i <= j
    IN  IF url = 0 \/ file = 0 THEN [next |-> 0, url |-> <<>>]
        ELSE [next |-> Find(s, "DISCONTINUITY", url + 1),
              url |-> IF end - (url + 1) >= FileUrlMax THEN <<>> ELSE SubSeq(s, url + 1, end - 1)]

(* The loop of sc_get_sohu_video_m3u8: where each call of the parser       *)
(* starts, 0 from where the loop has ended.                                *)
M3u8Calls(s) ==
    LET curr[k \in 1 .. Len(s) + 1] ==
            IF k = 1 THEN 1 ELSE IF curr[k - 1] = 0 THEN 0 ELSE ParseM3u8(s, curr[k - 1]).next
    IN  curr

(* The URL each call leaves for sc_res_info_add_ctnt, where an empty one   *)
(* is refused.                                                             *)
M3u8Urls(s) ==
    LET curr == M3u8Calls(s)
    IN  [k \in DOMAIN curr |-> IF curr[k] = 0 THEN <<>> ELSE ParseM3u8(s, curr[k]).url]

-----------------------------------------------------------------------------
(* Where the parts of a list begin, the places of a part, and the URL of   *)
(* the first file in it; {} for a part without one that ends in '&'.       *)
PartStart(s) == {1} \cup {i \in DOMAIN s : s[i] = "DISCONTINUITY"}
Part(s, b) == {i \in b .. Len(s) : \A j \in b + 1 .. i : s[j] # "DISCONTINUITY"}
First(s, P, c) == {i \in P : s[i] = c /\ \A j \in P : s[j] = c => i <= j}
PartUrl(s, b) ==
    LET after(i) == {j \in Part(s, b) : i < j}
        url == First(s, Part(s, b), "http://")
        file == UNION {First(s, after(u), "file=") : u \in url}
        amp == UNION {First(s, after(i), "&") : i \in file}
    IN  {SubSeq(s, p[1] + 1, p[2] - 1) : p \in url \X amp}

(* The calls start at the parts, in order, and each leaves the URL of its  *)
(* part or, when that is too long, none.                                   *)
M3u8Right(s) ==
    LET curr == M3u8Calls(s)
        urls == M3u8Urls(s)
    IN  /\ {curr[k] : k \in DOMAIN curr} \ {0} = PartStart(s)
        /\ \A j, k \in DOMAIN curr : j < k /\ curr[k] # 0 => curr[j] \in 1 .. curr[k] - 1
        /\ \A k \in DOMAIN curr : curr[k] # 0 =>
              \E u \in PartUrl(s, curr[k]) : urls[k] = IF Len(u) < FileUrlMax THEN u ELSE <<>>
=============================================================================
