------------------------------ MODULE UrlText ------------------------------
(***************************************************************************)
(* The names of the Snooping Client: how the URL of a file becomes the     *)
(* path it is stored under, how a URL is made of a path when the files on  *)
(* disk are loaded at the next start, and how both are compared            *)
(* (sc_resource.c, sc_youku.c, sc_sohu.c, sc_localdata.c).                 *)
(*                                                                         *)
(* A text is a sequence of tokens: the characters the conversions look at  *)
(* and whole words.  The length of a text is its number of tokens.         *)
(***************************************************************************)
EXTENDS Integers, Sequences

CONSTANTS PathMax,  \* SC_RES_LOCAL_PATH_MAX_LEN
          UrlMax    \* HTTP_URL_MAX_LEN

ASSUME LengthAssumption == PathMax \in Nat \ {0} /\ UrlMax \in Nat \ {0}

(* What a conversion returns instead of a text when it fails. *)
NoText == <<"-1">>

(* strstr: the pattern w occurs in s at position i. *)
At(s, w, i) == i + Len(w) - 1 <= Len(s) /\ \A j \in 1 .. Len(w) : s[i + j - 1] = w[j]

Occurs(s, w) == \E i \in 1 .. Len(s) + 1 : At(s, w, i)

(* The flag first_slash (meet_slash) when position i is looked at. *)
InHost(s, i) == \A j \in 1 .. i - 1 : s[j] # "/"

-----------------------------------------------------------------------------
(* sc_url_is_yk, sc_url_is_sohu, sc_url_is_sohu_file_url *)
IsYk(u) == Occurs(u, <<"youku">>)
IsSohu(u) == Occurs(u, <<"sohu">>)
IsFileUrl(u) == Occurs(u, <<"?", "file=", "/">>)

(* sc_yk_is_local_path: neither of the two kinds of advertisement; and     *)
(* sc_sohu_is_local_path.                                                  *)
IsYkPath(p) == /\ Occurs(p, <<"youku", "_">>)
               /\ ~Occurs(p, <<"valf">>) /\ ~Occurs(p, <<"ad_api_">>)
IsSohuPath(p) == Occurs(p, <<"_", "file=", "_">>)

(* A URL without its parameters. *)
WithoutPara(u) ==
    LET n == {i \in 0 .. Len(u) : \A j \in 1 .. i : u[j] # "?"}
    IN  SubSeq(u, 1, CHOOSE i \in n : \A j \in n : j <= i)

(* A faulty loop: every '.' is replaced, not only those of the host. *)
FlattenDots(u) ==
    [i \in 1 .. Len(u) |->
        IF u[i] = "." \/ (u[i] = "/" /\ ~InHost(u, i)) \/ u[i] = "?" THEN "_" ELSE u[i]]

(* The loop of both conversions to a path. *)
Flatten(u) ==
    [i \in 1 .. Len(u) |->
        IF \/ u[i] = "." /\ InHost(u, i)
           \/ u[i] = "/" /\ ~InHost(u, i)
           \/ u[i] = "?"
        THEN "_" ELSE u[i]]

(* sc_res_url_to_local_path_default, which sc_yk_url_to_local_path calls. *)
DefaultPath(u) == IF PathMax <= Len(u) THEN NoText ELSE Flatten(WithoutPara(u))

(* sc_sohu_file_url_to_local_path: the '?' is part of the name. *)
SohuPath(u) == IF ~IsFileUrl(u) \/ PathMax <= Len(u) THEN NoText ELSE Flatten(u)

(* sc_res_info_gen_ctnt_local_path *)
GenLocalPath(site, u) == IF site = "sohu" THEN SohuPath(u) ELSE DefaultPath(u)

(* The loop of sc_res_recover_url_from_local_path ... *)
Unflatten(p) ==
    [i \in 1 .. Len(p) |-> IF p[i] # "_" THEN p[i] ELSE IF InHost(p, i) THEN "." ELSE "/"]

SohuTag == <<"ipad", "/", "file=", "/">>

(* ... and its end: in the first occurrence of the tag the '/' after       *)
(* "ipad" becomes '?' again.                                               *)
MarkFile(u) ==
    IF ~Occurs(u, SohuTag) THEN u
    ELSE LET at == {i \in 1 .. Len(u) : At(u, SohuTag, i)}
             k == CHOOSE i \in at : \A j \in at : i <= j
         IN  [u EXCEPT ![k + 1] = "?"]

(* A faulty recovery: the tag is not looked for. *)
RecoverNoTag(p) == IF Len(p) >= UrlMax THEN NoText ELSE Unflatten(p)

(* sc_res_recover_url_from_local_path *)
RecoverUrlOf(p) == IF Len(p) >= UrlMax THEN NoText ELSE MarkFile(Unflatten(p))

-----------------------------------------------------------------------------
(* What follows the last c in s, as the searches for the vid do; {} when   *)
(* there is no c.                                                          *)
After(s, c) ==
    LET at == {i \in 1 .. Len(s) : s[i] = c}
    IN  {SubSeq(s, i + 1, Len(s)) : i \in {k \in at : \A j \in at : j <= k}}

(* The search of sc_res_info_handle_cached: the loaded with URL ld has the *)
(* vid of the parsed with URL u.                                           *)
HasVidText(ld, u) == \E vid \in After(u, "/") : Occurs(ld, vid)

(* The search of sc_ld_is_duplicate_file: a loaded with URL ld has the vid *)
(* of the file p.                                                          *)
DupText(p, ld) == /\ IsYkPath(p) \/ IsSohuPath(p)
                  /\ \E vid \in After(p, "_") : Occurs(ld, vid)

(* The controller sc_ld_file_process loads the file p under. *)
LoadSite(p) == IF IsYkPath(p) THEN "youku" ELSE IF IsSohuPath(p) THEN "sohu" ELSE "none"

(* The URL and the path of the loaded that sc_ld_file_process makes of the *)
(* file p, or none: the file is unknown, its URL not permitted             *)
(* (sc_res_info_permit_adding) or without a path.                          *)
LoadedOf(p) ==
    LET u == RecoverUrlOf(p)
    IN  {[url |-> u, path |-> q] : q \in
            IF LoadSite(p) = "none" \/ u = NoText \/ Len(u) >= UrlMax
               \/ ~(IsYk(u) \/ IsSohu(u) \/ IsFileUrl(u))
            THEN {} ELSE {GenLocalPath(LoadSite(p), u)} \ {NoText}}
=============================================================================
