------------------------------- MODULE Relay -------------------------------
(***************************************************************************)
(* Clients that ask for the same name at once: Answer (dnsmsg_answerer.go)  *)
(* chooses the resolvers and makes the reply out of what they return, and   *)
(* the handlers (doh_handler.go, dns53_handler.go) put the ECS option right *)
(* before they send it.  A resolver may return the very object another      *)
(* client is being answered from (its cache), so messages live at           *)
(* locations: one per upstream response and one per client for its copy.    *)
(*                                                                         *)
(* A message is the part of it the handlers change: an OPT record or not,   *)
(* and the ECS options in it, of which nothing keeps upstream from sending  *)
(* several.  Queries that panic are left to Configuration.                  *)
(***************************************************************************)
EXTENDS Naturals, FiniteSets, Sequences

CONSTANTS
  Clients,
  Fixed,          \* the keys of FixedResolvers
  Subnets,        \* subnets of requests and responses: [addr, mask]
  NoSubnet,
  ForcedMask,     \* what ChangeECSInDnsMsg writes: 24 for IPv4, 56 for IPv6
  MaxECS,         \* bound on the ECS options of a message
  MaxMsgs         \* bound on the upstream responses

ASSUME RelayAssumption ==
  /\ NoSubnet \notin Subnets
  /\ \A s \in Subnets : [addr |-> s.addr, mask |-> ForcedMask] \in Subnets
  /\ MaxMsgs \in Nat /\ MaxECS \in Nat \ {0}
  /\ Clients \cap (1..MaxMsgs) = {}
  /\ Fixed \cap {"primary", "fallback"} = {}

Resolvers == Fixed \cup {"primary", "fallback"}
Objects == 1..MaxMsgs
Options == UNION {[1..k -> Subnets] : k \in 0..MaxECS}
Message == {m \in [opt : BOOLEAN, ecs : Options] : m.ecs # <<>> => m.opt}
Empty == [opt |-> FALSE, ecs |-> <<>>]

\* A request asks for the name, or for its AAAA records although IPv6 answers are
\* off, or carries no question, or (over DoH) is no DNS message.
Requests == {"name", "unwanted", "questionless", "undecodable"}

VARIABLES
  matched,        \* the fixed resolvers whose expression matches the name
  hasFallback,    \* FallbackResolver # nil
  request,        \* what each client sends
  pc,
  ecs,            \* ecs_: the subnet in each client's request
  todo,           \* matching fixed resolvers the loop has still to come to
  asked, failed,  \* the resolvers asked for each client, those that failed
  src,            \* rsvRsp_: the response each client is answered from, or 0
  out,            \* where the reply being made lives
  heap,           \* the messages: upstream responses and clients' copies
  owner,          \* the resolver each upstream response came from
  original,       \* what upstream sent
  reply           \* what each client was sent

vars == <<matched, hasFallback, request, pc, ecs, todo, asked, failed, src, out, heap, owner,
          original, reply>>
config == <<matched, hasFallback, request, ecs>>

Init ==
  /\ matched \in SUBSET Fixed
  /\ hasFallback \in BOOLEAN
  /\ request \in [Clients -> Requests]
  /\ pc = [c \in Clients |-> "arrived"]
  /\ ecs \in [Clients -> Subnets \cup {NoSubnet}]
  /\ todo = [c \in Clients |-> matched]
  /\ asked = [c \in Clients |-> {}] /\ failed = [c \in Clients |-> {}]
  /\ src = [c \in Clients |-> 0]
  /\ out = [c \in Clients |-> c]
  /\ heap = [l \in Objects \cup Clients |-> Empty]
  /\ owner = <<>>
  /\ original = <<>>
  /\ reply = [c \in Clients |-> Empty]

-----------------------------------------------------------------------------
(* A request arrives: the DoH handlers drop what they cannot decode, without a *)
(* body; both handlers answer an unwanted question empty; and Answer begins    *)
(* with the question.                                                          *)

First(r) ==
  IF r = "undecodable" THEN "ignored"
  ELSE IF r = "unwanted" THEN "empty"
  ELSE IF r = "questionless" THEN "error" ELSE "fixed"

Arrive(c) ==
  /\ pc[c] = "arrived"
  /\ pc' = [pc EXCEPT ![c] = First(request[c])]
  /\ UNCHANGED <<config, todo, asked, failed, src, out, heap, owner, original, reply>>

-----------------------------------------------------------------------------
(* One call of Query: an error, a response of its own, or a cached one *)

QueryFails(c, r) ==
  /\ asked' = [asked EXCEPT ![c] = @ \cup {r}]
  /\ failed' = [failed EXCEPT ![c] = @ \cup {r}]
  /\ UNCHANGED <<config, out, heap, owner, original, reply>>

QuerySucceeds(c, r) ==
  /\ asked' = [asked EXCEPT ![c] = @ \cup {r}]
  /\ \/ \E i \in DOMAIN owner :
          /\ owner[i] = r
          /\ src' = [src EXCEPT ![c] = i]
          /\ UNCHANGED <<heap, owner, original>>
     \/ LET i == Cardinality(DOMAIN owner) + 1 IN
          /\ i <= MaxMsgs
          /\ \E m \in Message :
               /\ heap' = [heap EXCEPT ![i] = m]
               /\ original' = [j \in 1..i |-> IF j = i THEN m ELSE original[j]]
          /\ owner' = [j \in 1..i |-> IF j = i THEN r ELSE owner[j]]
          /\ src' = [src EXCEPT ![c] = i]
  /\ UNCHANGED <<config, failed, out, reply>>

-----------------------------------------------------------------------------
(* Answer *)

\* for n, r := range FixedResolvers: every matching one is asked, in the random
\* order of the map; the last response stays, the first error ends the query.
AskFixed(c) ==
  /\ pc[c] = "fixed"
  /\ \E r \in todo[c] :
       /\ QuerySucceeds(c, r)
       /\ todo' = [todo EXCEPT ![c] = @ \ {r}]
  /\ UNCHANGED pc

MUT_AfterFixedError == "primary"
AfterFixedError == "error"

FixedFails(c) ==
  /\ pc[c] = "fixed"
  /\ \E r \in todo[c] : QueryFails(c, r)
  /\ pc' = [pc EXCEPT ![c] = AfterFixedError]
  /\ UNCHANGED <<todo, src>>

FixedEnds(c) ==
  /\ pc[c] = "fixed" /\ todo[c] = {}
  /\ pc' = [pc EXCEPT ![c] = IF src[c] # 0 THEN "compose" ELSE "primary"]
  /\ UNCHANGED <<config, todo, asked, failed, src, out, heap, owner, original, reply>>

AskPrimary(c) ==
  /\ pc[c] = "primary"
  /\ \/ /\ QuerySucceeds(c, "primary")
        /\ pc' = [pc EXCEPT ![c] = "compose"]
     \/ /\ QueryFails(c, "primary")
        /\ pc' = [pc EXCEPT ![c] = IF hasFallback THEN "fallback" ELSE "error"]
        /\ UNCHANGED src
  /\ UNCHANGED todo

MUT_AfterFallback(ok) == "error"
AfterFallback(ok) == IF ok THEN "compose" ELSE "error"

AskFallback(c) ==
  /\ pc[c] = "fallback"
  /\ \/ /\ QuerySucceeds(c, "fallback")
        /\ pc' = [pc EXCEPT ![c] = AfterFallback(TRUE)]
     \/ /\ QueryFails(c, "fallback")
        /\ pc' = [pc EXCEPT ![c] = AfterFallback(FALSE)]
        /\ UNCHANGED src
  /\ UNCHANGED todo

\* SetReply, the sections of the response, and Copy: the reply is the client's.
MUT_ReplyLocation(c) == src[c]
ReplyLocation(c) == c

Compose(c) ==
  /\ pc[c] = "compose"
  /\ heap' = [heap EXCEPT ![c] = heap[src[c]]]
  /\ out' = [out EXCEPT ![c] = ReplyLocation(c)]
  /\ pc' = [pc EXCEPT ![c] = "restore"]
  /\ UNCHANGED <<config, todo, asked, failed, src, owner, original, reply>>

-----------------------------------------------------------------------------
(* The handlers *)

\* RemoveECSInDnsMsg takes one option out, the last: its break leaves the switch,
\* not the loop.
MUT_WithoutECS(m) == m
WithoutECS(m) ==
  [m EXCEPT !.ecs = IF @ = <<>> THEN <<>> ELSE SubSeq(@, 1, Len(@) - 1)]

\* ChangeECSInDnsMsg: the first option gets the given address and a mask of its
\* own; without one it becomes the first, in a new OPT record if need be.
MUT_WithECS(m, s) == [m EXCEPT !.ecs = IF @ = <<>> THEN <<s>> ELSE [@ EXCEPT ![1] = s]]
WithECS(m, s) ==
  LET own == [addr |-> s.addr, mask |-> ForcedMask] IN
  [opt |-> TRUE, ecs |-> IF m.ecs = <<>> THEN <<own>> ELSE [m.ecs EXCEPT ![1] = own]]

Restore(c) ==
  /\ pc[c] = "restore"
  /\ heap' = [heap EXCEPT ![out[c]] =
                IF ecs[c] = NoSubnet THEN WithoutECS(@) ELSE WithECS(@, ecs[c])]
  /\ pc' = [pc EXCEPT ![c] = "send"]
  /\ UNCHANGED <<config, todo, asked, failed, src, out, owner, original, reply>>

Send(c) ==
  /\ pc[c] = "send"
  /\ reply' = [reply EXCEPT ![c] = heap[out[c]]]
  /\ pc' = [pc EXCEPT ![c] = "sent"]
  /\ UNCHANGED <<config, todo, asked, failed, src, out, heap, owner, original>>

\* responseEmpty: the request comes back, status 500 over DoH, REFUSED over
\* dns53.
SendError(c) ==
  /\ pc[c] = "error"
  /\ pc' = [pc EXCEPT ![c] = "refused"]
  /\ UNCHANGED <<config, todo, asked, failed, src, out, heap, owner, original, reply>>

-----------------------------------------------------------------------------

Terminated ==
  /\ \A c \in Clients : pc[c] \in {"sent", "refused", "empty", "ignored"}
  /\ UNCHANGED vars

Next ==
  \/ \E c \in Clients :
       \/ Arrive(c) \/ AskFixed(c) \/ FixedFails(c) \/ FixedEnds(c)
       \/ AskPrimary(c) \/ AskFallback(c)
       \/ Compose(c) \/ Restore(c) \/ Send(c) \/ SendError(c)
  \/ Terminated

Spec == Init /\ [][Next]_vars

-----------------------------------------------------------------------------
(* Properties *)

\* Type invariant.
TypeOK ==
  /\ matched \subseteq Fixed /\ hasFallback \in BOOLEAN
  /\ request \in [Clients -> Requests]
  /\ pc \in [Clients -> {"arrived", "fixed", "primary", "fallback", "compose", "restore",
                         "send", "error", "sent", "refused", "empty", "ignored"}]
  /\ ecs \in [Clients -> Subnets \cup {NoSubnet}]
  /\ todo \in [Clients -> SUBSET matched]
  /\ asked \in [Clients -> SUBSET Resolvers] /\ failed \in [Clients -> SUBSET Resolvers]
  /\ src \in [Clients -> {0} \cup DOMAIN owner]
  /\ \A c \in Clients : pc[c] \in {"compose", "restore", "send", "sent"} => src[c] # 0
  /\ out \in [Clients -> Objects \cup Clients]
  /\ heap \in [Objects \cup Clients -> Message]
  /\ DOMAIN owner = DOMAIN original /\ DOMAIN owner \subseteq Objects
  /\ reply \in [Clients -> Message]

\* A name with a fixed resolver goes nowhere else, not even when that resolver
\* fails; another one goes to the fallback only after the primary failed; and a
\* request that is not for the name goes to nobody.
PinnedToFixed ==
  \A c \in Clients :
    /\ request[c] # "name" => asked[c] = {}
    /\ matched # {} => asked[c] \subseteq matched
    /\ "fallback" \in asked[c] => "primary" \in failed[c]

\* A client gets an error only if it asked nothing, or each resolver that could
\* have answered it was asked and failed, or a fixed resolver of the name did; one
\* that gets an answer gets it from a resolver that did not fail for it.
ErrorMeansFailed ==
  \A c \in Clients :
    /\ pc[c] = "refused" =>
         \/ request[c] = "questionless"
         \/ failed[c] \cap matched # {}
         \/ failed[c] = {"primary"} \cup (IF hasFallback THEN {"fallback"} ELSE {})
    /\ pc[c] = "sent" => owner[src[c]] \notin failed[c]

\* The first subnet a reply carries is its client's own, if that sent one.  There
\* is no other, neither the one the relay asked with nor that of another client
\* answered from the same cached response at the same time, unless upstream sent
\* several: then what is left is of that response, and never another client's.
OwnSubnet ==
  \A c \in Clients :
    pc[c] = "sent" =>
      LET given == reply[c].ecs
          sent == original[src[c]].ecs IN
      /\ ecs[c] # NoSubnet => given # <<>> /\ given[1].addr = ecs[c].addr
      /\ \A k \in DOMAIN given :
           ecs[c] = NoSubnet \/ k > 1 =>
             Len(sent) > 1 /\ \E j \in DOMAIN sent : given[k] = sent[j]

\* Answering leaves the responses the cache holds as upstream sent them.
CachedIntact == \A i \in DOMAIN owner : heap[i] = original[i]
=============================================================================
