----------------------------- MODULE MCServices -----------------------------
(***************************************************************************)
(* Services with two public addresses and a private one, lists in which     *)
(* primary and secondary overlap or are not addresses at all, and listen    *)
(* addresses of each kind before and after a listener.                      *)
(***************************************************************************)
EXTENDS Services

CONSTANTS a, b, p, e1, e2
MC_Addr == {a, b, p}
MC_Public == {a, b}
MC_CheckIPs == {e1, e2}
MC_JsonCheckIPs == {e1}
L(d1, d2, n1, n2) == [doh1st |-> d1, doh2nd |-> d2, dns1st |-> n1, dns2nd |-> n2]
MC_Lists == {
  L(<<>>, <<>>, <<>>, <<>>),
  L(<<a>>, <<b>>, <<>>, <<a>>),
  L(<<a>>, <<b, p>>, <<a, a>>, <<>>),
  L(<<NoIP, p, a, b>>, <<b>>, <<b>>, <<b>>)}
MC_Listens == {<<>>, <<"udp", "tcp">>, <<"udp", "unparsable">>, <<"unusable", "tcp">>}
=============================================================================
