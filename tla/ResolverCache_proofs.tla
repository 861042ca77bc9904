------------------------ MODULE ResolverCache_proofs ------------------------
(***************************************************************************)
(* Proofs about ResolverCache for any number of clients and responses, any  *)
(* TTLs, any cap and any clock: the TTLs clients are given are honest, an   *)
(* entry is not handed out beyond its life, and a short-lived response goes *)
(* to the client that asked for it only.                                    *)
(*                                                                         *)
(* The invariant says what each holder of a response knows of it: the       *)
(* response is as it arrived, with the stamp of its arrival; the entry      *)
(* expires a lifetime after it was stored; a client that took the response  *)
(* from the cache found it cacheable and not expired, and one that has it   *)
(* from upstream asked for it.                                              *)
(***************************************************************************)
EXTENDS ResolverCache, TLAPS

TtlMaps == UNION {[s -> Nat] : s \in Shapes}
Responses == [ttl : TtlMaps, cur : TtlMaps, born : Nat, stamp : Nat, by : Clients]

TypeInv == rsps \in Seq(Responses) /\ TypeOK

\* A response in memory is the one that arrived.
StampInv ==
  \A i \in 1..Len(rsps) :
    /\ rsps[i].cur = rsps[i].ttl
    /\ rsps[i].stamp = Unix(rsps[i].born)
    /\ rsps[i].born <= now

\* The entry is cacheable and expires with its lifetime.
EntryInv ==
  cache.rsp # 0 =>
    /\ Cacheable(rsps[cache.rsp])
    /\ cache.expires = cache.stored + Lifetime(rsps[cache.rsp]) * Second

\* What a client knows of the response it has in hand.
FromCache(c) ==
  holds[c].source = "cache" =>
    /\ holds[c].rsp # 0
    /\ Cacheable(rsps[holds[c].rsp])
    /\ holds[c].at <= holds[c].stored + Lifetime(rsps[holds[c].rsp]) * Second

FromUpstream(c) ==
  holds[c].source = "upstream" =>
    /\ holds[c].rsp # 0
    /\ rsps[holds[c].rsp].by = c

HoldInv ==
  \A c \in Clients :
    /\ FromCache(c)
    /\ FromUpstream(c)
    /\ pc[c] \in {"gathered", "ready"} => holds[c].source # "none"

\* An answer goes to the one that asked, or is of a response that is cacheable.
ReplyInv ==
  /\ TtlHonest
  /\ reply.rsp # 0 =>
       reply.to = rsps[reply.rsp].by \/ Cacheable(rsps[reply.rsp])

IInv == TypeInv /\ StampInv /\ EntryInv /\ HoldInv /\ ReplyInv

-----------------------------------------------------------------------------
(* Lemmas about lifetimes and time *)

\* The type of what a response says: at most one TTL for each kind.
LEMMA TtlMapsFacts ==
  ASSUME NEW f \in TtlMaps
  PROVE  /\ DOMAIN f \subseteq Kinds
         /\ DOMAIN f \in Shapes
         /\ \A k \in DOMAIN f : f[k] \in Nat
         /\ IsTtls(f)
<1>1. PICK s \in Shapes : f \in [s -> Nat]
  BY DEF TtlMaps
<1>2. s \subseteq Kinds
  BY <1>1, ParametersAssumption DEF ParametersAssumption
<1> QED
  BY <1>1, <1>2 DEF IsTtls

\* The minimal TTL is a minimum, and a lifetime exceeds neither it nor the cap.
LEMMA LifetimeFacts ==
  ASSUME NEW r \in Responses
  PROVE  /\ MinimalTTL(r) \in Nat
         /\ Lifetime(r) \in Nat
         /\ Lifetime(r) <= MinimalTTL(r)
         /\ Lifetime(r) <= Cap
<1> DEFINE D == DOMAIN r.ttl \ {"extra"}
<1>1. r.ttl \in TtlMaps
  BY DEF Responses
<1>2. D \subseteq {"answer", "authority"} /\ \A k \in D : r.ttl[k] \in Nat
  BY <1>1, TtlMapsFacts DEF Kinds
<1>3. Counted(r) = {r.ttl[k] : k \in D}
  BY DEF Counted
<1>4. Counted(r) \subseteq Nat
  BY <1>2, <1>3
<1>5. ASSUME Counted(r) # {}
      PROVE  \E t \in Counted(r) : \A u \in Counted(r) : t <= u
  <2>1. ASSUME NEW k \in D, D = {k}
        PROVE  \E t \in Counted(r) : \A u \in Counted(r) : t <= u
    <3>1. Counted(r) = {r.ttl[k]} /\ r.ttl[k] \in Nat
      BY <2>1, <1>2, <1>3
    <3> QED
      BY <3>1
  <2>3. CASE D = {"answer", "authority"}
    <3>1. Counted(r) = {r.ttl["answer"], r.ttl["authority"]}
      BY <2>3, <1>3
    <3>2. r.ttl["answer"] \in Nat /\ r.ttl["authority"] \in Nat
      BY <2>3, <1>2
    <3>3. r.ttl["answer"] <= r.ttl["authority"] \/ r.ttl["authority"] <= r.ttl["answer"]
      BY <3>2
    <3> QED
      BY <3>1, <3>2, <3>3
  <2>4. D # {}
    BY <1>3, <1>5
  <2> QED
    <3>1. D = {"answer"} \/ D = {"authority"} \/ D = {"answer", "authority"}
      BY <1>2, <2>4
    <3> QED
      BY <3>1, <2>1, <2>3
<1>6. MinimalTTL(r) \in Nat
  BY <1>4, <1>5 DEF MinimalTTL
<1> QED
  BY <1>6, ParametersAssumption DEF Lifetime, ParametersAssumption

\* Whole seconds lag a time by less than a second.
LEMMA UnixFacts ==
  ASSUME NEW t \in Nat
  PROVE  /\ Unix(t) \in Nat
         /\ Unix(t) * Second <= t
         /\ t < Unix(t) * Second + Second
BY DEF Unix, Second

\* The age in whole seconds, taken off a TTL, ends it less than a second
\* early and, while anything is left of it, less than two seconds late.
LEMMA AdjustedFacts ==
  ASSUME NEW ttl \in Nat, NEW b \in Nat, NEW t \in Nat, b <= t
  PROVE  /\ Adjusted(ttl, Unix(t) - Unix(b)) \in Nat
         /\ t + Adjusted(ttl, Unix(t) - Unix(b)) * Second > b + ttl * Second - Second
         /\ Adjusted(ttl, Unix(t) - Unix(b)) # 0 =>
              t + Adjusted(ttl, Unix(t) - Unix(b)) * Second < b + ttl * Second + 2 * Second
<1> DEFINE e == Unix(t) - Unix(b)
           a == Adjusted(ttl, e)
<1>1. /\ Unix(t) \in Nat /\ Unix(b) \in Nat
      /\ Unix(t) * 1000 <= t /\ t < Unix(t) * 1000 + 1000
      /\ Unix(b) * 1000 <= b /\ b < Unix(b) * 1000 + 1000
  BY UnixFacts DEF Second
<1>2. /\ e \in Nat
      /\ t - b < e * 1000 + 1000
      /\ t - b > e * 1000 - 1000
  BY <1>1
<1> HIDE DEF e
<1>3. CASE e < 2
  <2>1. a = ttl
    BY <1>3 DEF Adjusted
  <2> QED
    BY <1>2, <1>3, <2>1 DEF Second, e
<1>4. CASE e >= 2 /\ ttl < e
  <2>1. a = 0
    BY <1>4, <1>2 DEF Adjusted
  <2> QED
    BY <1>2, <1>4, <2>1 DEF Second, e
<1>5. CASE e >= 2 /\ ttl >= e
  <2>1. a = ttl - e
    BY <1>5, <1>2 DEF Adjusted
  <2> QED
    BY <1>2, <1>5, <2>1 DEF Second, e
<1> QED
  BY <1>2, <1>3, <1>4, <1>5

-----------------------------------------------------------------------------
(* Steps *)

\* The first state: nobody holds anything.
LEMMA InitIInv == Init => IInv
<1> SUFFICES ASSUME Init PROVE IInv
  OBVIOUS
<1>1. now \in Nat
  <2>1. PICK d \in Steps : now = d % 1000
    BY DEF Init, Second
  <2>2. d \in Nat
    BY <2>1, ParametersAssumption DEF ParametersAssumption
  <2> QED
    BY <2>1, <2>2
<1>2. rsps \in Seq(Responses) /\ Len(rsps) = 0
  BY DEF Init
<1>3. TypeInv
  BY <1>1, <1>2, ParametersAssumption
  DEF Init, TypeInv, TypeOK, ParametersAssumption, NoEntry, NoHold, NoReply
<1>4. StampInv
  BY <1>2 DEF StampInv
<1>5. EntryInv
  BY DEF Init, EntryInv, NoEntry
<1>6. HoldInv
  BY DEF Init, HoldInv, FromCache, FromUpstream, NoHold
<1>7. ReplyInv
  BY DEF Init, ReplyInv, TtlHonest, NoReply
<1> QED
  BY <1>3, <1>4, <1>5, <1>6, <1>7 DEF IInv

\* The responses have the types TypeOK says they have.
LEMMA ResponsesTyped ==
  ASSUME NEW q \in Seq(Responses)
  PROVE  \A i \in 1..Len(q) : q[i] \in Responses /\ IsResponse(q[i])
<1> SUFFICES ASSUME NEW i \in 1..Len(q)
             PROVE  q[i] \in Responses /\ IsResponse(q[i])
  OBVIOUS
<1>1. q[i] \in Responses
  OBVIOUS
<1>2. IsTtls(q[i].ttl) /\ IsTtls(q[i].cur)
  BY <1>1, TtlMapsFacts DEF Responses
<1> QED
  BY <1>1, <1>2 DEF Responses, IsResponse

\* A step that leaves the responses alone and answers nobody keeps what is
\* known of responses and answers.
LEMMA QuietStep ==
  ASSUME IInv, UNCHANGED rsps, reply' = NoReply, now' \in Nat, now' >= now
  PROVE  StampInv' /\ ReplyInv'
<1>1. StampInv'
  <2> SUFFICES ASSUME NEW i \in 1..Len(rsps)
               PROVE  /\ rsps[i].cur = rsps[i].ttl
                      /\ rsps[i].stamp = Unix(rsps[i].born)
                      /\ rsps[i].born <= now'
    BY DEF StampInv
  <2>1. rsps[i].born \in Nat /\ now \in Nat
    BY DEF IInv, TypeInv, TypeOK, IsResponse
  <2> QED
    BY <2>1 DEF IInv, StampInv
<1>2. ReplyInv'
  BY DEF ReplyInv, TtlHonest, NoReply
<1> QED
  BY <1>1, <1>2

\* A hit gives the client an entry that has not expired.
LEMMA HitIInv ==
  ASSUME IInv, NEW c \in Clients, Hit(c)
  PROVE  IInv'
<1> USE DEF IInv
<1>1. /\ cache.rsp \in 1..Len(rsps) /\ cache.stored \in Nat /\ cache.expires \in Nat
      /\ now \in Nat /\ now <= cache.expires
      /\ UNCHANGED <<now, rsps, cache>> /\ reply' = NoReply
  BY DEF Hit, Live, AfterHit, TypeInv, TypeOK
<1>2. /\ holds' = [holds EXCEPT ![c] = [rsp |-> cache.rsp, source |-> "cache",
                                      at |-> now, stored |-> cache.stored]]
      /\ pc' = [pc EXCEPT ![c] = "ready"]
  BY DEF Hit
<1>3. TypeInv'
  BY <1>1, <1>2 DEF TypeInv, TypeOK, NoReply
<1>4. StampInv' /\ ReplyInv'
  BY <1>1, QuietStep
<1>5. EntryInv'
  BY <1>1 DEF EntryInv
<1>6. HoldInv'
  <2>1. /\ Cacheable(rsps[cache.rsp])
        /\ now <= cache.stored + Lifetime(rsps[cache.rsp]) * Second
    BY <1>1 DEF EntryInv
  <2>2. FromCache(c)' /\ FromUpstream(c)' /\ holds'[c].source # "none"
    BY <1>1, <1>2, <2>1 DEF FromCache, FromUpstream, TypeInv, TypeOK
  <2>3. ASSUME NEW d \in Clients, d # c
        PROVE  /\ FromCache(d)' /\ FromUpstream(d)'
               /\ pc'[d] \in {"gathered", "ready"} => holds'[d].source # "none"
    <3>1. holds'[d] = holds[d] /\ pc'[d] = pc[d]
      BY <1>2, <2>3 DEF TypeInv, TypeOK
    <3> QED
      BY <1>1, <3>1 DEF HoldInv, FromCache, FromUpstream
  <2> QED
    BY <2>2, <2>3 DEF HoldInv
<1> QED
  BY <1>3, <1>4, <1>5, <1>6

\* A miss and a failed resolve change where the client is and nothing else.
LEMMA MissFailIInv ==
  ASSUME IInv, NEW c \in Clients, Miss(c) \/ Fail(c)
  PROVE  IInv'
<1> USE DEF IInv
<1>1. /\ pc' \in [Clients -> {"idle", "resolving", "gathered", "ready"}]
      /\ UNCHANGED <<now, rsps, cache, holds>> /\ reply' = NoReply
      /\ pc[c] \notin {"gathered", "ready"} /\ pc'[c] \notin {"gathered", "ready"}
      /\ \A d \in Clients : d # c => pc'[d] = pc[d]
  BY DEF Miss, Fail, TypeInv, TypeOK
<1>2. TypeInv'
  BY <1>1 DEF TypeInv, TypeOK, NoReply
<1>3. now \in Nat /\ now' >= now
  BY <1>1 DEF TypeInv, TypeOK
<1>4. StampInv' /\ ReplyInv'
  BY <1>1, <1>3, QuietStep
<1>5. EntryInv'
  BY <1>1 DEF EntryInv
<1>6. HoldInv'
  BY <1>1 DEF HoldInv, FromCache, FromUpstream
<1> QED
  BY <1>2, <1>4, <1>5, <1>6

\* Time passes.
LEMMA TickIInv ==
  ASSUME IInv, Tick
  PROVE  IInv'
<1> USE DEF IInv
<1>1. now \in Nat /\ now' \in Nat /\ now' >= now
  BY ParametersAssumption DEF Tick, TypeInv, TypeOK, ParametersAssumption
<1>2. UNCHANGED <<rsps, cache, pc, holds>> /\ reply' = NoReply
  BY DEF Tick
<1>3. TypeInv'
  BY <1>1, <1>2 DEF TypeInv, TypeOK, NoReply
<1>4. StampInv' /\ ReplyInv'
  BY <1>1, <1>2, QuietStep
<1>5. EntryInv' /\ HoldInv'
  BY <1>2 DEF EntryInv, HoldInv, FromCache, FromUpstream
<1> QED
  BY <1>3, <1>4, <1>5

\* A response that arrives leaves those before it where they are.
LEMMA ArriveIInv ==
  ASSUME IInv, NEW c \in Clients, Arrive(c)
  PROVE  IInv'
<1> USE DEF IInv
<1> DEFINE n == Len(rsps)
<1>1. PICK s \in Shapes : \E t \in [s -> Ttls] :
        rsps' = Append(rsps, [ttl |-> t, cur |-> t, born |-> now,
                              stamp |-> Unix(now), by |-> c])
  BY DEF Arrive
<1>2. PICK t \in [s -> Ttls] :
        rsps' = Append(rsps, [ttl |-> t, cur |-> t, born |-> now,
                              stamp |-> Unix(now), by |-> c])
  BY <1>1
<1> DEFINE new == [ttl |-> t, cur |-> t, born |-> now, stamp |-> Unix(now), by |-> c]
<1>3. now \in Nat /\ Unix(now) \in Nat /\ n \in Nat /\ n < MaxResponses
      /\ MaxResponses \in Nat
  BY UnixFacts, ParametersAssumption DEF TypeInv, TypeOK, Arrive, ParametersAssumption
<1>4. t \in TtlMaps
  <2>1. t \in [s -> Nat]
    BY <1>2, ParametersAssumption DEF ParametersAssumption
  <2> QED
    BY <2>1 DEF TtlMaps
<1>5. new \in Responses
  BY <1>3, <1>4 DEF Responses
<1>6. /\ rsps' \in Seq(Responses)
      /\ Len(rsps') = n + 1
      /\ \A i \in 1..n : rsps'[i] = rsps[i]
      /\ rsps'[n + 1] = new
  BY <1>2, <1>5 DEF TypeInv
<1> HIDE DEF new
<1>7. /\ UNCHANGED <<now, cache>> /\ reply' = NoReply
      /\ holds' = [holds EXCEPT ![c] = [rsp |-> n + 1, source |-> "upstream",
                                      at |-> now, stored |-> 0]]
      /\ pc' = [pc EXCEPT ![c] = "gathered"]
  BY DEF Arrive
<1>8. TypeInv'
  <2>1. \A i \in 1..Len(rsps') : IsResponse(rsps'[i])
    BY <1>6, ResponsesTyped
  <2>2. cache' \in [rsp : 0..Len(rsps'), stored : Nat, expires : Nat]
    BY <1>3, <1>6, <1>7 DEF TypeInv, TypeOK
  <2>3. holds' \in [Clients -> [rsp : 0..Len(rsps'), source : {"none", "cache", "upstream"},
                               at : Nat, stored : Nat]]
    <3>1. \A h \in [rsp : 0..n, source : {"none", "cache", "upstream"},
                    at : Nat, stored : Nat] :
            h \in [rsp : 0..Len(rsps'), source : {"none", "cache", "upstream"},
                  at : Nat, stored : Nat]
      BY <1>3, <1>6
    <3> QED
      BY <3>1, <1>3, <1>6, <1>7 DEF TypeInv, TypeOK
  <2>4. /\ pc' \in [Clients -> {"idle", "resolving", "gathered", "ready"}]
        /\ \A d \in Clients : pc'[d] \in {"gathered", "ready"} <=> holds'[d].rsp # 0
    BY <1>3, <1>7 DEF TypeInv, TypeOK
  <2>5. reply'.rsp = 0
    BY <1>7 DEF NoReply
  <2> QED
    BY <1>3, <1>6, <1>7, <2>1, <2>2, <2>3, <2>4, <2>5 DEF TypeInv, TypeOK
<1>9. StampInv'
  <2> SUFFICES ASSUME NEW i \in 1..n + 1
               PROVE  /\ rsps'[i].cur = rsps'[i].ttl
                      /\ rsps'[i].stamp = Unix(rsps'[i].born)
                      /\ rsps'[i].born <= now
    BY <1>6, <1>7 DEF StampInv
  <2>1. CASE i = n + 1
    BY <2>1, <1>3, <1>6 DEF new
  <2>2. CASE i \in 1..n
    BY <2>2, <1>6 DEF StampInv
  <2> QED
    BY <1>3, <2>1, <2>2
<1>10. EntryInv'
  <2>1. cache.rsp \in 0..n
    BY DEF TypeInv, TypeOK
  <2> QED
    BY <1>3, <1>6, <1>7, <2>1 DEF EntryInv
<1>11. HoldInv'
  <2>1. FromCache(c)' /\ FromUpstream(c)' /\ holds'[c].source # "none"
    BY <1>3, <1>6, <1>7 DEF FromCache, FromUpstream, TypeInv, TypeOK, new
  <2>2. ASSUME NEW d \in Clients, d # c
        PROVE  /\ FromCache(d)' /\ FromUpstream(d)'
               /\ pc'[d] \in {"gathered", "ready"} => holds'[d].source # "none"
    <3>1. holds'[d] = holds[d] /\ pc'[d] = pc[d] /\ holds[d].rsp \in 0..n
      BY <1>7, <2>2 DEF TypeInv, TypeOK
    <3>2. holds[d].rsp # 0 => rsps'[holds[d].rsp] = rsps[holds[d].rsp]
      BY <1>3, <1>6, <3>1
    <3> QED
      BY <3>1, <3>2 DEF HoldInv, FromCache, FromUpstream
  <2> QED
    BY <2>1, <2>2 DEF HoldInv
<1>12. ReplyInv'
  BY <1>7 DEF ReplyInv, TtlHonest, NoReply
<1> QED
  BY <1>8, <1>9, <1>10, <1>11, <1>12

\* What is stored is cacheable, and the entry expires with its lifetime.
LEMMA StoreIInv ==
  ASSUME IInv, NEW c \in Clients, Store(c)
  PROVE  IInv'
<1> USE DEF IInv
<1> DEFINE i == holds[c].rsp
<1>1. /\ i \in 1..Len(rsps) /\ now \in Nat /\ pc[c] = "gathered"
      /\ UNCHANGED <<now, rsps, holds>> /\ reply' = NoReply
      /\ pc' = [pc EXCEPT ![c] = "ready"]
  BY DEF Store, TypeInv, TypeOK
<1>2. rsps[i] \in Responses /\ Lifetime(rsps[i]) \in Nat
  BY <1>1, ResponsesTyped, LifetimeFacts DEF TypeInv
<1>3. \/ /\ Cacheable(rsps[i])
         /\ cache' = [rsp |-> i, stored |-> now,
                      expires |-> now + Lifetime(rsps[i]) * Second]
      \/ cache' = cache
  BY DEF Store
<1>4. TypeInv'
  <2>1. now + Lifetime(rsps[i]) * Second \in Nat
    BY <1>1, <1>2 DEF Second
  <2>2. cache' \in [rsp : 0..Len(rsps), stored : Nat, expires : Nat]
    BY <1>1, <1>3, <2>1 DEF TypeInv, TypeOK
  <2> QED
    BY <1>1, <2>2 DEF TypeInv, TypeOK, NoReply
<1>5. StampInv' /\ ReplyInv'
  BY <1>1, QuietStep
<1>6. EntryInv'
  BY <1>1, <1>3 DEF EntryInv
<1>7. HoldInv'
  BY <1>1 DEF HoldInv, FromCache, FromUpstream, TypeInv, TypeOK
<1> QED
  BY <1>4, <1>5, <1>6, <1>7

\* An answer is a copy with the response's age taken off.
LEMMA AnswerIInv ==
  ASSUME IInv, NEW c \in Clients, Answer(c)
  PROVE  IInv'
<1> USE DEF IInv
<1> DEFINE i == holds[c].rsp
           held == rsps[i]
           elapsed == Unix(now) - held.stamp
           adjusted == [k \in DOMAIN held.cur |-> Adjusted(held.cur[k], elapsed)]
<1>1. /\ i \in 1..Len(rsps) /\ now \in Nat /\ pc[c] = "ready"
      /\ rsps \in Seq(Responses)
      /\ UNCHANGED <<now, cache>>
      /\ pc' = [pc EXCEPT ![c] = "idle"]
      /\ holds' = [holds EXCEPT ![c] = NoHold]
      /\ reply' = [rsp |-> i, to |-> c, ttl |-> adjusted, at |-> now]
  BY DEF Answer, TypeInv, TypeOK
<1>2. rsps' = rsps
  BY <1>1 DEF Answer, SharedAfter
<1>3. held \in Responses /\ held.ttl \in TtlMaps /\ held.born \in Nat
  BY <1>1, ResponsesTyped DEF Responses
<1>4. held.cur = held.ttl /\ held.stamp = Unix(held.born) /\ held.born <= now
  BY <1>1 DEF StampInv
<1>5. \A k \in DOMAIN held.ttl :
        adjusted[k] \in Nat /\ EndsInTime(now, adjusted[k], held, k)
  <2> SUFFICES ASSUME NEW k \in DOMAIN held.ttl
               PROVE  adjusted[k] \in Nat /\ EndsInTime(now, adjusted[k], held, k)
    OBVIOUS
  <2>1. adjusted[k] = Adjusted(held.ttl[k], Unix(now) - Unix(held.born))
    BY <1>4
  <2>2. held.ttl[k] \in Nat
    BY <1>3, TtlMapsFacts
  <2> QED
    BY <1>1, <1>3, <1>4, <2>1, <2>2, AdjustedFacts DEF EndsInTime
<1>6. IsTtls(adjusted)
  <2>1. adjusted \in [DOMAIN held.ttl -> Nat] /\ DOMAIN held.ttl \in Shapes
    BY <1>3, <1>4, <1>5, TtlMapsFacts
  <2> QED
    BY <2>1 DEF IsTtls
<1> HIDE DEF adjusted
<1>7. TypeInv'
  <2>1. /\ pc' \in [Clients -> {"idle", "resolving", "gathered", "ready"}]
        /\ holds' \in [Clients -> [rsp : 0..Len(rsps), source : {"none", "cache", "upstream"},
                                  at : Nat, stored : Nat]]
        /\ \A d \in Clients : pc'[d] \in {"gathered", "ready"} <=> holds'[d].rsp # 0
    BY <1>1 DEF TypeInv, TypeOK, NoHold
  <2>2. /\ reply'.rsp \in 0..Len(rsps)
        /\ reply'.to \in Clients /\ IsTtls(reply'.ttl) /\ reply'.at \in Nat
    BY <1>1, <1>6
  <2> QED
    BY <1>1, <1>2, <2>1, <2>2 DEF TypeInv, TypeOK
<1>8. StampInv' /\ EntryInv'
  BY <1>1, <1>2 DEF StampInv, EntryInv
<1>9. HoldInv'
  <2>1. FromCache(c)' /\ FromUpstream(c)' /\ pc'[c] \notin {"gathered", "ready"}
    BY <1>1 DEF FromCache, FromUpstream, NoHold, TypeInv, TypeOK
  <2>2. ASSUME NEW d \in Clients, d # c
        PROVE  /\ FromCache(d)' /\ FromUpstream(d)'
               /\ pc'[d] \in {"gathered", "ready"} => holds'[d].source # "none"
    <3>1. holds'[d] = holds[d] /\ pc'[d] = pc[d]
      BY <1>1, <2>2 DEF TypeInv, TypeOK
    <3> QED
      BY <1>2, <3>1 DEF HoldInv, FromCache, FromUpstream
  <2> QED
    BY <2>1, <2>2 DEF HoldInv
<1>10. ReplyInv'
  <2>1. /\ reply'.rsp = i /\ reply'.to = c /\ reply'.ttl = adjusted
        /\ reply'.at = now /\ rsps'[i] = held
    BY <1>1, <1>2
  <2>2. TtlHonest'
    BY <2>1, <1>5 DEF TtlHonest
  <2>3. holds[c].source \in {"cache", "upstream"}
    BY <1>1 DEF HoldInv, TypeInv, TypeOK
  <2>4. c = held.by \/ Cacheable(held)
    BY <2>3 DEF HoldInv, FromCache, FromUpstream
  <2> QED
    BY <2>1, <2>2, <2>4 DEF ReplyInv
<1> QED
  BY <1>7, <1>8, <1>9, <1>10

-----------------------------------------------------------------------------
(* Theorems *)

\* Every step keeps the invariant.
LEMMA NextIInv == IInv /\ [Next]_vars => IInv'
<1> SUFFICES ASSUME IInv, [Next]_vars PROVE IInv'
  OBVIOUS
<1>1. CASE UNCHANGED vars
  BY <1>1 DEF vars, IInv, TypeInv, TypeOK, StampInv, EntryInv, HoldInv, FromCache,
              FromUpstream, ReplyInv, TtlHonest
<1>2. CASE Tick
  BY <1>2, TickIInv
<1>3. ASSUME NEW c \in Clients,
             Hit(c) \/ Miss(c) \/ Arrive(c) \/ Fail(c) \/ Store(c) \/ Answer(c)
      PROVE  IInv'
  BY <1>3, HitIInv, MissFailIInv, ArriveIInv, StoreIInv, AnswerIInv
<1> QED
  BY <1>1, <1>2, <1>3 DEF Next

\* The invariant says what the properties say.
LEMMA IInvSuffices == IInv => TypeOK /\ TtlHonest /\ CappedLife /\ ShortLivedNotShared
<1> SUFFICES ASSUME IInv
             PROVE  TypeOK /\ TtlHonest /\ CappedLife /\ ShortLivedNotShared
  OBVIOUS
<1>1. TypeOK /\ TtlHonest
  BY DEF IInv, TypeInv, ReplyInv
<1>2. CappedLife
  <2> SUFFICES ASSUME NEW c \in Clients, holds[c].source = "cache"
               PROVE  /\ holds[c].at - holds[c].stored
                            <= MinimalTTL(rsps[holds[c].rsp]) * Second
                      /\ holds[c].at - holds[c].stored <= Cap * Second
    BY DEF CappedLife
  <2> DEFINE r == rsps[holds[c].rsp]
  <2>1. /\ holds[c].rsp \in 1..Len(rsps)
        /\ holds[c].at \in Nat /\ holds[c].stored \in Nat
        /\ holds[c].at <= holds[c].stored + Lifetime(r) * Second
    BY DEF IInv, TypeInv, TypeOK, HoldInv, FromCache
  <2>2. r \in Responses
    BY <2>1, ResponsesTyped DEF IInv, TypeInv
  <2>3. /\ MinimalTTL(r) \in Nat /\ Lifetime(r) \in Nat /\ Cap \in Nat
        /\ Lifetime(r) <= MinimalTTL(r) /\ Lifetime(r) <= Cap
    BY <2>2, LifetimeFacts, ParametersAssumption DEF ParametersAssumption
  <2> HIDE DEF r
  <2>4. /\ holds[c].at - holds[c].stored <= MinimalTTL(r) * Second
        /\ holds[c].at - holds[c].stored <= Cap * Second
    BY <2>1, <2>3 DEF Second
  <2> QED
    BY <2>4 DEF r
<1>3. ShortLivedNotShared
  <2> SUFFICES ASSUME reply.rsp # 0, MinimalTTL(rsps[reply.rsp]) <= 1
               PROVE  reply.to = rsps[reply.rsp].by
    BY DEF ShortLivedNotShared
  <2>1. reply.rsp \in 1..Len(rsps)
    BY DEF IInv, TypeInv, TypeOK
  <2>2. MinimalTTL(rsps[reply.rsp]) \in Nat
    BY <2>1, ResponsesTyped, LifetimeFacts DEF IInv, TypeInv
  <2>3. ~Cacheable(rsps[reply.rsp])
    BY <2>2 DEF Cacheable
  <2> QED
    BY <2>3 DEF IInv, ReplyInv
<1> QED
  BY <1>1, <1>2, <1>3

\* The invariant holds in every state a run reaches.
LEMMA Invariance == Spec => []IInv
<1>1. Init => IInv
  BY InitIInv
<1>2. IInv /\ [Next]_vars => IInv'
  BY NextIInv
<1> QED
  BY <1>1, <1>2, PTL DEF Spec

\* Every state of the cache and of its clients is well formed.
THEOREM TypeCorrect == Spec => []TypeOK
<1>1. IInv => TypeOK
  BY IInvSuffices
<1> QED
  BY <1>1, Invariance, PTL

\* CommonResolverQuery, Answer and AdjustDnsMsgTtl give honest TTLs: each ends
\* less than a second before and less than two seconds after the instant
\* upstream set, or is 0, for any number of clients and of hits.
THEOREM HonestTtls == Spec => []TtlHonest
<1>1. IInv => TtlHonest
  BY IInvSuffices
<1> QED
  BY <1>1, Invariance, PTL

\* An entry is handed out no longer than its response's minimal TTL and the
\* cap allow, however often it is hit.
THEOREM LivesCapped == Spec => []CappedLife
<1>1. IInv => CappedLife
  BY IInvSuffices
<1> QED
  BY <1>1, Invariance, PTL

\* A response CommonResolverQuery does not cache answers one client only.
THEOREM ShortLivedPrivate == Spec => []ShortLivedNotShared
<1>1. IInv => ShortLivedNotShared
  BY IInvSuffices
<1> QED
  BY <1>1, Invariance, PTL
=============================================================================
