----------------------------- MODULE MCResList -----------------------------
(***************************************************************************)
(* A small resource list: two mgmt slots, three ctnt slots, and a URL for  *)
(* every outcome of the checks the add functions make.                     *)
(***************************************************************************)
EXTENDS ResList

CONSTANTS yk, sohu, file, odd, long, p

MCUrl == {yk, sohu, file, odd, long}

(* file has a site only through its parent; sohu is no file URL, so it has *)
(* no local path; odd is accepted by no check.                             *)
MCLocalPathOf ==
    [su \in Site \X MCUrl |->
        IF su \in {<<"youku", yk>>, <<"youku", file>>, <<"sohu", file>>} THEN p ELSE NoPath]

MCHasVid == {<<u, u>> : u \in MCUrl}

(* Only the flags that sc_res_info_dup_ctnt looks at, to bound the states. *)
FewFlags == \A c \in CSlot : ctnt[c].flag \subseteq {"STORED"}
=============================================================================
