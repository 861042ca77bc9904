----------------------------- MODULE EcsSelect -----------------------------
(***************************************************************************)
(* From a client's query to the ECS IPs that are asked upstream: the list   *)
(* the handlers build (doDohResponse in doh_handler.go, ServeDNS in         *)
(* dns53_handler.go) and what CommonResolverQuery (utils.go) keeps of it,   *)
(* one loop iteration per step: the first IP of each country is kept, the   *)
(* cache key is built from the countries and states kept, and the           *)
(* countries in whose jail the name is are removed.                         *)
(*                                                                         *)
(* An address is a value with a country and a state (the GeoIP lookup,      *)
(* geoip.go) and is public or private; NoIP is a string that is no IP, and  *)
(* NoPlace the country and the state of an address GeoIP does not know.     *)
(***************************************************************************)
EXTENDS Naturals, Sequences, SequencesExt

CONSTANTS
  Addr,           \* addresses
  NoIP,
  Countries,      \* countries, NoPlace included
  States,         \* states, NoPlace included
  NoPlace,
  Country,        \* GeoIPCountryStateCity
  State,
  Public,         \* the addresses that are not IsPrivateIP
  Headers,        \* lists X-EDNS-Client-Subnet may hold
  Defaults        \* lists DefaultECSIPs may hold

ASSUME AddrAssumption ==
  /\ NoIP \notin Addr
  /\ NoPlace \in Countries /\ NoPlace \in States
  /\ Country \in [Addr -> Countries] /\ State \in [Addr -> States]
  /\ Public \in SUBSET Addr
  /\ Headers \subseteq Seq(Addr \cup {NoIP}) /\ Defaults \subseteq Seq(Public)

VARIABLES
  query,          \* what arrived: the service, the question type, the addresses it carries
  config,         \* IPv6Answer, UseClientIP, DefaultECSIPs and the jails the name is in
  pc,
  list,           \* tryEcsIPs_, then ecsIPStrArr_
  i,              \* loop index of the loop under way
  ips,            \* ips_
  codes,          \* countryCodes_
  key             \* countryStateArr_, the part of the cache key about places

vars == <<query, config, pc, list, i, ips, codes, key>>
inputs == <<query, config>>

Init ==
  /\ query \in [svc : {"doh", "dns53"}, type : {"A", "AAAA", "TXT"},
                ecs : Addr \cup {NoIP}, header : Headers, client : Addr \cup {NoIP}]
  /\ query.svc = "dns53" => query.header = <<>> /\ query.client = NoIP
  /\ config \in [ipv6 : BOOLEAN, useClient : BOOLEAN, defaults : Defaults,
                 jails : SUBSET (Countries \ {NoPlace})]
  /\ pc = "received"
  /\ list = <<>> /\ i = 1
  /\ ips = <<>> /\ codes = <<>> /\ key = <<>>

-----------------------------------------------------------------------------
(* The handlers *)

\* AAAA is answered empty, without a query, unless configured otherwise.
Refused == query.type = "AAAA" /\ ~config.ipv6

AnswerEmpty ==
  /\ pc = "received" /\ Refused
  /\ pc' = "empty"
  /\ UNCHANGED <<inputs, list, i, ips, codes, key>>

\* The subnet of the request itself.
RequestECS == IF query.ecs \in Public THEN <<query.ecs>> ELSE <<>>

Start ==
  /\ pc = "received" /\ ~Refused
  /\ list' = RequestECS
  /\ pc' = "header"
  /\ UNCHANGED <<inputs, i, ips, codes, key>>

\* Each IP of the custom header that is neither there yet nor private.
TakeHeader ==
  /\ pc = "header" /\ i <= Len(query.header)
  /\ LET a == query.header[i] IN
       list' = IF a \in Public /\ ~Contains(list, a) THEN Append(list, a) ELSE list
  /\ i' = i + 1
  /\ UNCHANGED <<inputs, pc, ips, codes, key>>

\* The client's address.  IsPrivateIP(nil) is false, so a client address that
\* does not parse is appended as well and skipped later.
WithClient(l) ==
  IF /\ query.svc = "doh" /\ config.useClient
     /\ query.client \in Public \cup {NoIP} /\ ~Contains(l, query.client)
  THEN Append(l, query.client) ELSE l

MUT_WithDefaults(l) == config.defaults \o l
WithDefaults(l) == l \o config.defaults

HeaderEnds ==
  /\ pc = "header" /\ i > Len(query.header)
  /\ list' = WithDefaults(WithClient(list))
  /\ pc' = "parse"
  /\ i' = 1
  /\ UNCHANGED <<inputs, ips, codes, key>>

-----------------------------------------------------------------------------
(* CommonResolverQuery *)

Place(a) == <<Country[a], State[a]>>

MUT_KeyPartSwapped(a) == <<State[a], Country[a]>>
MUT_KeyPart(a) == <<Country[a], NoPlace>>
KeyPart(a) == Place(a)

Known(a) == Contains(codes, Country[a])

\* The first IP of a country is kept, a later one is skipped.
Parse ==
  /\ pc = "parse" /\ i <= Len(list)
  /\ LET a == list[i] IN
       IF a = NoIP \/ Known(a)
       THEN UNCHANGED <<ips, codes, key>>
       ELSE /\ ips' = Append(ips, a)
            /\ codes' = Append(codes, Country[a])
            /\ key' = Append(key, KeyPart(a))
  /\ i' = i + 1
  /\ UNCHANGED <<inputs, pc, list>>

\* The cache is looked up here; a miss goes on to the jail loop.
ParseEnds ==
  /\ pc = "parse" /\ i > Len(list)
  /\ pc' = "jail"
  /\ i' = 1
  /\ UNCHANGED <<inputs, list, ips, codes, key>>

MUT_Unchecked == i < Len(codes)
Unchecked == i <= Len(codes)

JailKeep ==
  /\ pc = "jail" /\ Unchecked
  /\ codes[i] \notin config.jails
  /\ i' = i + 1
  /\ UNCHANGED <<inputs, pc, list, ips, codes, key>>

\* The entry at i is cut out, the next one moves to i, and the loop goes on
\* at i + 1.
MUT_Cut(s) == RemoveAt(s, Len(s))
Cut(s) == RemoveAt(s, i)

JailCut ==
  /\ pc = "jail" /\ Unchecked
  /\ codes[i] \in config.jails
  /\ ips' = Cut(ips)
  /\ codes' = RemoveAt(codes, i)
  /\ i' = i + 1
  /\ UNCHANGED <<inputs, pc, list, key>>

\* resolveWithECSIPs: one query without ECS, or one per IP that is left.
SingleQuery == ips = <<>> \/ query.type = "TXT"

Dispatch ==
  /\ pc = "jail" /\ ~Unchecked
  /\ pc' = IF SingleQuery THEN "single" ELSE "fanout"
  /\ UNCHANGED <<inputs, list, i, ips, codes, key>>

-----------------------------------------------------------------------------

Ended == pc \in {"empty", "single", "fanout"}
Terminated == Ended /\ UNCHANGED vars

Next ==
  \/ AnswerEmpty
  \/ Start \/ TakeHeader \/ HeaderEnds
  \/ Parse \/ ParseEnds
  \/ JailKeep \/ JailCut
  \/ Dispatch
  \/ Terminated

Spec == Init /\ [][Next]_vars

-----------------------------------------------------------------------------
(* Properties *)

\* What arrives and how the server is configured.
InputsOK ==
  /\ query.svc \in {"doh", "dns53"} /\ query.type \in {"A", "AAAA", "TXT"}
  /\ query.ecs \in Addr \cup {NoIP} /\ query.client \in Addr \cup {NoIP}
  /\ query.header \in Seq(Addr \cup {NoIP})
  /\ config.ipv6 \in BOOLEAN /\ config.useClient \in BOOLEAN
  /\ config.defaults \in Seq(Public)
  /\ config.jails \in SUBSET (Countries \ {NoPlace})

\* Type invariant.
TypeOK ==
  /\ InputsOK
  /\ pc \in {"received", "empty", "header", "parse", "jail", "single", "fanout"}
  /\ list \in Seq(Addr \cup {NoIP})
  /\ i \in Nat \ {0}
  /\ ips \in Seq(Addr) /\ codes \in Seq(Countries) /\ key \in Seq(Countries \X States)

\* The country an answer is checked against is the country of the very IP it
\* was asked for: the two lists stay aligned through both loops.
Aligned ==
  /\ Len(ips) = Len(codes)
  /\ \A k \in 1..Len(ips) : codes[k] = Country[ips[k]]

\* No two queries of one lookup are about the same country.
OneQueryPerCountry == IsInjective(codes)

\* Everything that will be asked lies in a place the cache key names, so an
\* answer is reused only for clients at the same places.
KeyCoversQuery ==
  \A k \in 1..Len(ips) : \E j \in 1..Len(key) : key[j] = Place(ips[k])

\* A lookup for a name drops only what it must: a country in whose jail the
\* name is not keeps the first IP the list gave for it.
UnjailedKept ==
  pc \in {"single", "fanout"} =>
    \A k \in 1..Len(list) :
      (list[k] # NoIP /\ Country[list[k]] \notin config.jails) =>
        \E j \in 1..k : /\ list[j] # NoIP
                        /\ Country[list[j]] = Country[list[k]]
                        /\ Contains(ips, list[j])

\* The client's own subnet comes before any default of the server, whatever
\* the jail loop removed, so its answer wins the fan-out.
ClientSubnetFirst ==
  (pc = "fanout" /\ query.ecs \in Public /\ Country[query.ecs] \notin config.jails) =>
    ips # <<>> /\ Head(ips) = query.ecs

\* What the jail loop lets through: a jailed country survives only right
\* behind a country that was cut, the loop's index having stepped over it.
OnlyShadowedSurvive ==
  pc \in {"single", "fanout"} =>
    \A k \in 1..Len(key) :
      (key[k][1] \in config.jails /\ Contains(codes, key[k][1])) =>
        /\ k > 1
        /\ key[k - 1][1] \in config.jails
        /\ ~Contains(codes, key[k - 1][1])

\* config-example.yml:48 "when query name matched name_regex, will skip the
\* query with ecs ips that have specified geo country codes".
JailedNeverAsked ==
  pc = "fanout" => \A k \in 1..Len(ips) : Country[ips[k]] \notin config.jails
=============================================================================
