--------------------------- MODULE MCDohUpstream ---------------------------
(***************************************************************************)
(* DohUpstream with two workers, so that two calls race for the index, and  *)
(* up to three endpoints, so that a lost turn and a skipped one differ.     *)
(***************************************************************************)
EXTENDS DohUpstream

CONSTANTS w1, w2, good, bad
MC_Workers == {w1, w2}
MC_Queries == {good, bad}
MC_Malformed == {bad}
=============================================================================
