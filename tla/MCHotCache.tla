----------------------------- MODULE MCHotCache -----------------------------
(***************************************************************************)
(* The small world of the HotCache runs: two Youku files of one video (a   *)
(* on one host, a2 on another), a second Youku file b, a Sohu file f, a    *)
(* file px of unknown origin and a pure-vid file pv.                       *)
(***************************************************************************)
EXTENDS HotCache

CONSTANTS yh, sh, oy, os, a, a2, b, f, adv, pa, pa2, pb, pf, px, pv

MCUrl == {yh, sh, oy, os, a, a2, b, f, adv}
MCPath == {pa, pa2, pb, pf, px, pv}

MCLocalPathOf ==
    [su \in Site \X MCUrl |->
        CASE su = <<"youku", a>> -> pa [] su = <<"youku", a2>> -> pa2
          [] su = <<"youku", b>> -> pb [] su = <<"sohu", f>> -> pf
          [] OTHER -> NoPath]

MCHasVid == ({a, a2} \X {a, a2}) \cup {<<b, b>>, <<f, f>>}

MCFileKind == [p \in MCPath |-> CASE p \in {pa, pa2, pb} -> "yk" [] p = pf -> "sohu"
                                  [] p = pv -> "vid" [] OTHER -> "unknown"]

MCStdPath == [p \in MCPath |-> IF p = pv THEN pa2 ELSE p]

MCRecoverUrl == [p \in MCPath |-> CASE p = pa -> a [] p = pb -> b [] p = pf -> f
                                    [] OTHER -> a2]

MCDupOf == ({pa, pa2, pv} \X {a, a2}) \cup {<<pb, b>>, <<pf, f>>}

NoPrefix == {<<p, p>> : p \in MCPath}

(* The local path of b begins with that of a. *)
PrefixPair == NoPrefix \cup {<<pa, pb>>}

SegsTwo == [o \in {oy} |-> <<a, b>>]
SegsOne == [o \in {oy} |-> <<a>>]
SegsSohu == [o \in {os} |-> <<f>>]
SegsBoth == [o \in {os, oy} |-> IF o = os THEN <<f>> ELSE <<a>>]
=============================================================================
