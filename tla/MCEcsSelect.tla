---------------------------- MODULE MCEcsSelect ----------------------------
(***************************************************************************)
(* EcsSelect over two countries that may be jailed (one with two addresses  *)
(* in different states), an address GeoIP does not know and a private one:  *)
(* up to three places in a list, with two jailed ones side by side.         *)
(***************************************************************************)
EXTENDS EcsSelect, TLC

CONSTANTS a1, a2, b1, u1, p1,   \* addresses
          A, B,                 \* countries
          S1, S2                \* states

MC_Addr == {a1, a2, b1, u1, p1}
MC_Countries == {A, B, NoPlace}
MC_States == {S1, S2, NoPlace}
MC_Country == a1 :> A @@ a2 :> A @@ b1 :> B @@ u1 :> NoPlace @@ p1 :> NoPlace
MC_State == a1 :> S1 @@ a2 :> S2 @@ b1 :> S1 @@ u1 :> NoPlace @@ p1 :> NoPlace
MC_Public == {a1, a2, b1, u1}
MC_Headers == {<<>>, <<b1>>, <<a2, b1, a2>>, <<u1, p1>>, <<NoIP, a1>>}
MC_Defaults == {<<>>, <<a1>>, <<b1, a1>>, <<a2, u1>>}
=============================================================================
