-------------------------- MODULE MCResolverCache --------------------------
(***************************************************************************)
(* ResolverCache with two clients, two responses and six seconds in steps *)
(* of 0.7 s, which fall on every side of a second's boundary: long enough   *)
(* for an entry of the capped lifetime to be hit several times, to expire   *)
(* and to be replaced.                                                      *)
(***************************************************************************)
EXTENDS ResolverCache, TLC

CONSTANTS c1, c2
MC_Clients == {c1, c2}
MC_Ttls == {1, 4}
MC_Shapes == {{"extra"}, {"answer", "authority"}}
MC_Steps == {700}
MC_MaxTime == 6300
MC_Symmetry == Permutations(MC_Clients)
=============================================================================
