--------------------------- MODULE ResolverCache ---------------------------
(***************************************************************************)
(* The life of an upstream response in a resolver's cache, for one cache    *)
(* key: CommonResolverQuery (utils.go) looks the key up, resolves on a      *)
(* miss and stores what it got; Answer (dnsmsg_answerer.go) copies the      *)
(* shared response and AdjustDnsMsgTtl (utils.go) takes its age off every   *)
(* TTL of the copy.  Several clients ask at once: a client may be held      *)
(* up between any two of its steps, and misses do not wait for each other.  *)
(*                                                                         *)
(* Time is in milliseconds; the code stamps responses with the Unix time in *)
(* whole seconds.  A response is a TTL for each kind of record it has: the  *)
(* records that count for its cache lifetime (answer, authority) and those  *)
(* that do not (extra).                                                     *)
(***************************************************************************)
EXTENDS Naturals, Integers, Sequences

CONSTANTS
  Clients,
  Ttls,           \* TTLs of upstream records, in seconds
  Shapes,         \* the sets of kinds of records a response may have
  Cap,            \* the maximal cache ttl, 3600 in the code
  Steps,          \* how much time may pass at once, in milliseconds
  MaxTime,        \* bound on the clock
  MaxResponses    \* bound on the number of upstream responses

Kinds == {"answer", "authority", "extra"}

ASSUME ParametersAssumption ==
  /\ Ttls \subseteq Nat
  /\ Shapes \subseteq SUBSET Kinds
  /\ Cap \in Nat
  /\ Steps \subseteq Nat \ {0}
  /\ MaxTime \in Nat /\ MaxResponses \in Nat

VARIABLES
  now,            \* milliseconds
  rsps,           \* responses upstream gave, the shared objects of the program
  cache,          \* what the key maps to
  pc,             \* where each client's query is
  holds,          \* the response each client has in hand, and how it got it
  reply           \* the message the last step answered, if it answered one

vars == <<now, rsps, cache, pc, holds, reply>>

Second == 1000
Unix(t) == t \div Second

NoReply == [rsp |-> 0]
NoEntry == [rsp |-> 0, stored |-> 0, expires |-> 0]
NoHold == [rsp |-> 0, source |-> "none", at |-> 0, stored |-> 0]

Init ==
  /\ now \in {d % Second : d \in Steps}
  /\ rsps = <<>>
  /\ cache = NoEntry
  /\ pc = [c \in Clients |-> "idle"]
  /\ holds = [c \in Clients |-> NoHold]
  /\ reply = NoReply

-----------------------------------------------------------------------------
(* Lifetimes *)

\* ObtainMinimalTTL: over the answer and authority records, 0 if none.
Counted(r) == {r.ttl[k] : k \in DOMAIN r.ttl \ {"extra"}}
MinimalTTL(r) ==
  IF Counted(r) = {} THEN 0 ELSE CHOOSE t \in Counted(r) : \A u \in Counted(r) : t <= u

MUT_Cacheable(r) == MinimalTTL(r) >= 0
Cacheable(r) == MinimalTTL(r) > 1

Lifetime(r) == IF MinimalTTL(r) > Cap THEN Cap ELSE MinimalTTL(r)

\* AdjustDnsMsgTtl on one record.
MUT_Adjusted(ttl, elapsed) == IF elapsed < 2 THEN ttl ELSE ttl - elapsed
Adjusted(ttl, elapsed) ==
  IF elapsed < 2 THEN ttl
  ELSE IF ttl < elapsed THEN 0 ELSE ttl - elapsed

-----------------------------------------------------------------------------
(* The query of one client *)

Live == cache.rsp # 0 /\ now <= cache.expires

\* SkipTtlExtensionOnHit(true): a hit does not touch the entry.
MUT_AfterHit == [cache EXCEPT !.expires = now + Lifetime(rsps[cache.rsp]) * Second]
AfterHit == cache

Hit(c) ==
  /\ pc[c] = "idle" /\ Live
  /\ holds' = [holds EXCEPT ![c] =
                 [rsp |-> cache.rsp, source |-> "cache", at |-> now, stored |-> cache.stored]]
  /\ pc' = [pc EXCEPT ![c] = "ready"]
  /\ cache' = AfterHit
  /\ reply' = NoReply
  /\ UNCHANGED <<now, rsps>>

Miss(c) ==
  /\ pc[c] = "idle" /\ ~Live
  /\ pc' = [pc EXCEPT ![c] = "resolving"]
  /\ reply' = NoReply
  /\ UNCHANGED <<now, rsps, cache, holds>>

\* An upstream response is stamped when it arrives.  The client keeps it while
\* the fan-out still waits for the IPs before it in the list.
Arrive(c) ==
  /\ pc[c] = "resolving" /\ Len(rsps) < MaxResponses
  /\ \E s \in Shapes : \E t \in [s -> Ttls] :
       rsps' = Append(rsps, [ttl |-> t, cur |-> t, born |-> now, stamp |-> Unix(now), by |-> c])
  /\ holds' = [holds EXCEPT ![c] =
                 [rsp |-> Len(rsps) + 1, source |-> "upstream", at |-> now, stored |-> 0]]
  /\ pc' = [pc EXCEPT ![c] = "gathered"]
  /\ reply' = NoReply
  /\ UNCHANGED <<now, cache>>

\* A failed resolve leaves the cache as it is and answers an error.
Fail(c) ==
  /\ pc[c] = "resolving"
  /\ pc' = [pc EXCEPT ![c] = "idle"]
  /\ reply' = NoReply
  /\ UNCHANGED <<now, rsps, cache, holds>>

\* SetCache, whatever the entry holds by now, or nothing for a short TTL.
Store(c) ==
  /\ pc[c] = "gathered"
  /\ LET r == rsps[holds[c].rsp] IN
       cache' = IF Cacheable(r)
                THEN [rsp |-> holds[c].rsp, stored |-> now,
                      expires |-> now + Lifetime(r) * Second]
                ELSE cache
  /\ pc' = [pc EXCEPT ![c] = "ready"]
  /\ reply' = NoReply
  /\ UNCHANGED <<now, rsps, holds>>

\* dnsRsp = tmpDnsRsp_.Copy(): the shared response keeps its TTLs.
MUT_SharedAfter(r, adjusted) == [r EXCEPT !.cur = adjusted]
SharedAfter(r, adjusted) == r

Answer(c) ==
  /\ pc[c] = "ready"
  /\ LET i == holds[c].rsp
         elapsed == Unix(now) - rsps[i].stamp
         adjusted == [k \in DOMAIN rsps[i].cur |-> Adjusted(rsps[i].cur[k], elapsed)]
     IN  /\ reply' = [rsp |-> i, to |-> c, ttl |-> adjusted, at |-> now]
         /\ rsps' = [rsps EXCEPT ![i] = SharedAfter(rsps[i], adjusted)]
  /\ pc' = [pc EXCEPT ![c] = "idle"]
  /\ holds' = [holds EXCEPT ![c] = NoHold]
  /\ UNCHANGED <<now, cache>>

Tick ==
  /\ \E d \in Steps : now + d <= MaxTime /\ now' = now + d
  /\ reply' = NoReply
  /\ UNCHANGED <<rsps, cache, pc, holds>>

Next ==
  \/ \E c \in Clients : Hit(c) \/ Miss(c) \/ Arrive(c) \/ Fail(c) \/ Store(c) \/ Answer(c)
  \/ Tick

Spec == Init /\ [][Next]_vars

-----------------------------------------------------------------------------
(* Properties *)

IsTtls(f) == \E s \in Shapes : f \in [s -> Nat]

IsResponse(r) ==
  /\ DOMAIN r = {"ttl", "cur", "born", "stamp", "by"}
  /\ IsTtls(r.ttl) /\ IsTtls(r.cur)
  /\ r.born \in Nat /\ r.stamp \in Nat /\ r.by \in Clients

\* Type invariant.
TypeOK ==
  /\ now \in Nat
  /\ \A i \in 1..Len(rsps) : IsResponse(rsps[i])
  /\ Len(rsps) <= MaxResponses
  /\ cache \in [rsp : 0..Len(rsps), stored : Nat, expires : Nat]
  /\ pc \in [Clients -> {"idle", "resolving", "gathered", "ready"}]
  /\ holds \in [Clients -> [rsp : 0..Len(rsps), source : {"none", "cache", "upstream"},
                            at : Nat, stored : Nat]]
  /\ \A c \in Clients : pc[c] \in {"gathered", "ready"} <=> holds[c].rsp # 0
  /\ reply.rsp \in 0..Len(rsps)
  /\ reply.rsp # 0 => reply.to \in Clients /\ IsTtls(reply.ttl) /\ reply.at \in Nat

EndsInTime(at, given, r, k) ==
  /\ at + given * Second > r.born + r.ttl[k] * Second - Second
  /\ given # 0 => at + given * Second < r.born + r.ttl[k] * Second + 2 * Second

\* A TTL given to a client ends, counted from the moment it is given, less than
\* two seconds after and less than one second before the instant upstream set,
\* unless that instant is past and the TTL given is 0.  It holds for every
\* record, however often and by however many clients the response was served
\* before, and whatever held the query up on its way.
TtlHonest ==
  reply.rsp # 0 =>
    \A k \in DOMAIN rsps[reply.rsp].ttl :
      EndsInTime(reply.at, reply.ttl[k], rsps[reply.rsp], k)

\* A cached response is handed out no longer than its own lifetime and the cap
\* allow from the moment it was stored, however often it was hit meanwhile.
CappedLife ==
  \A c \in Clients :
    holds[c].source = "cache" =>
      /\ holds[c].at - holds[c].stored <= MinimalTTL(rsps[holds[c].rsp]) * Second
      /\ holds[c].at - holds[c].stored <= Cap * Second

\* A response without answer or authority records, or one that says it is valid
\* for at most a second, is for the client that asked, and for no other.
ShortLivedNotShared ==
  reply.rsp # 0 =>
    (MinimalTTL(rsps[reply.rsp]) <= 1 => reply.to = rsps[reply.rsp].by)
=============================================================================
