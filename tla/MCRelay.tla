------------------------------ MODULE MCRelay ------------------------------
(***************************************************************************)
(* Relay with two clients answered from one or two responses at the same    *)
(* time, two fixed resolvers that may both match, and subnets of two        *)
(* clients and of the relay itself, with and without the mask ECS is        *)
(* restored with.                                                           *)
(***************************************************************************)
EXTENDS Relay, TLC

CONSTANTS c1, c2, f1, f2
MC_Clients == {c1, c2}
MC_Fixed == {f1, f2}
MC_Subnets == {[addr |-> "a", mask |-> 24], [addr |-> "a", mask |-> 32],
               [addr |-> "b", mask |-> 24]}
MC_Symmetry == Permutations(MC_Clients) \cup Permutations(MC_Fixed)
=============================================================================
