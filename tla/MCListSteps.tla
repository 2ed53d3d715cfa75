---------------------------- MODULE MCListSteps ----------------------------
(* The Nginx worker of ListSteps as a model value. *)
EXTENDS ListSteps

CONSTANT ngx
=============================================================================
