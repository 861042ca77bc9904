------------------------------ MODULE MCFanOut ------------------------------
(***************************************************************************)
(* FanOut with three ECS IPs: the least number at which a matching IP can   *)
(* have one neighbour before it and one after it, so that head-of-line      *)
(* waiting, the last-result rule and the cleanup race all occur.            *)
(***************************************************************************)
EXTENDS FanOut

MC_N == 3
=============================================================================
