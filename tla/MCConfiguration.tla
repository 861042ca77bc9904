-------------------------- MODULE MCConfiguration --------------------------
(***************************************************************************)
(* Configuration over every pair of these service configurations: endpoint  *)
(* lists with blanks, without an endpoint, and with one of each kind; fixed  *)
(* entries that compile, that do not, and several that do not; one that its   *)
(* goroutine does not survive; and jails whose bad entries stand first, in    *)
(* between and last.                                                         *)
(***************************************************************************)
EXTENDS Configuration

CONSTANTS x, y, us, cn
MC_Regexes == {x, y}
MC_Codes == {us, cn}

Svc(proto, upstream, fallback, entries) ==
  [enabled |-> TRUE, proto |-> proto, upstream |-> upstream, fallback |-> fallback,
   fixed |-> entries, fatal |-> FALSE]
F(regex, server) == [regex |-> regex, server |-> server]
J(regex, codes) == [regex |-> regex, codes |-> codes]

Off == [Svc("doh", <<"live">>, <<>>, <<>>) EXCEPT !.enabled = FALSE]
HTTP == {
  Svc("doh", <<Blank, "live">>, <<>>, <<>>),
  Svc("other", <<Blank>>, <<"dead", Blank>>, <<F(x, "live")>>),
  [Svc("doh_json", <<"live">>, <<>>, <<>>) EXCEPT !.fatal = TRUE],
  Svc("doh_json", <<>>, <<>>, <<F(Invalid, "live"), F(x, "dead"), F(Invalid, "unusable")>>)}
TCP == {
  Svc("dns53", <<>>, <<>>, <<>>),
  Svc("dns53", <<"unusable", "live", Blank>>, <<"live">>, <<F(x, "live"), F(y, "live")>>),
  Svc("dns53", <<"live">>, <<Blank>>, <<F(Invalid, "live"), F(Invalid, "live"), F(y, "live")>>),
  Svc("dns53", <<"live">>, <<>>, <<F(x, "unusable")>>),
  Svc("dns53", <<"live", "dead">>, <<>>, <<>>),
  Svc("dns53", <<"live", "unparsable">>, <<>>, <<>>),
  Svc("dns53", <<"unusable">>, <<>>, <<>>),
  Svc("dns53", <<"live">>, <<"dead">>, <<>>)}

MC_Jails == {
  <<>>,
  <<J(Invalid, <<us>>), J(x, <<us, Blank, cn>>)>>,
  <<J(x, <<cn>>), J(Invalid, <<us, cn>>), J(y, <<Blank>>), J(y, <<us, us>>)>>}

MC_Configs ==
  [cache : BOOLEAN, backend : {"internal", "redis", ""}, jail : MC_Jails,
   svc : [Services -> {Off} \cup HTTP \cup TCP]]
=============================================================================
