------------------------------ MODULE MCNginx ------------------------------
(* An instance of Nginx: two connections, hosts with and without a name, *)
(* and settings that put signals, crashes and requests together.         *)
EXTENDS Nginx

CONSTANTS r1, r2, pa, named, addr1, addr2

MCSlot == 0 .. 3
MCSettings ==
    {[workers |-> w[1], signals |-> w[2], crashes |-> w[3], requests |-> w[4], fails |-> w[5],
      failed |-> 0] : w \in {<<1, 0, 1, 2, 0>>, <<1, 1, 1, 1, 0>>, <<1, 2, 1, 0, 0>>,
                             <<2, 1, 1, 0, 0>>, <<2, 1, 0, 1, 0>>, <<2, 0, 1, 1, 0>>,
                             <<1, 2, 1, 0, 1>>, <<2, 1, 1, 0, 1>>}}
=============================================================================
