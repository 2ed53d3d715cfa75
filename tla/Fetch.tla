------------------------------- MODULE Fetch -------------------------------
(***************************************************************************)
(* What Nginx promises the Snooping Client: a path only ever gets a whole  *)
(* file, an end of a download is reported by a flag or not at all, STORED  *)
(* is never taken back, and a path that is STORED is never reported as     *)
(* failed.                                                                 *)
(***************************************************************************)
EXTENDS Integers

CONSTANTS Path, MaxBody

VARIABLES file, flag

(* A file as the server announced it, or one of unannounced length. *)
WholeFile == {f \in [bytes : 0 .. MaxBody, announced : -1 .. MaxBody, status : {200}] :
                 f.announced \in {-1, f.bytes}}

FInit == /\ file = [p \in Path |-> [bytes |-> -1, announced |-> -1, status |-> 0]]
         /\ flag = [p \in Path |-> {}]

FStore(p) == /\ \/ \E f \in WholeFile : file' = [file EXCEPT ![p] = f]
                \/ UNCHANGED file
             /\ flag' = [flag EXCEPT ![p] = @ \cup {"STORED"}]

FFail(p) == /\ "STORED" \notin flag[p]
            /\ flag' = [flag EXCEPT ![p] = @ \cup {"D_FAIL"}]
            /\ UNCHANGED file

FNext == \E p \in Path : FStore(p) \/ FFail(p)

FSpec == FInit /\ [][FNext]_<<file, flag>>
=============================================================================
