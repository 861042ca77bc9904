-------------------------- MODULE MCDns53Upstream --------------------------
(***************************************************************************)
(* Dns53Upstream with two workers: enough for a connection to pass from one *)
(* to the other with a reply outstanding.  Two message ids make ids both    *)
(* collide and differ.                                                      *)
(***************************************************************************)
EXTENDS Dns53Upstream

CONSTANTS w1, w2
MC_Workers == {w1, w2}
MC_Ids == {1, 2}
=============================================================================
