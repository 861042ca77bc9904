--------------------------- MODULE Relay_proofs ---------------------------
(***************************************************************************)
(* Proofs about Relay for any clients, fixed resolvers, subnets and number  *)
(* of responses: which resolvers a name is taken to, what an error means,   *)
(* whose subnet a reply carries, and that cached responses stay as they     *)
(* are.                                                                     *)
(*                                                                         *)
(* The invariant has a part about the resolvers, which says for each place  *)
(* in Answer what was asked and failed so far, and a part about the         *)
(* messages: a client writes to its own location only.                      *)
(***************************************************************************)
EXTENDS Relay, FiniteSetTheorems, SequenceTheorems, TLAPS

\* Responses are numbered as they come.
CountInv == \E n \in 0..MaxMsgs : DOMAIN owner = 1..n

Failed(c) ==
  \/ request[c] = "questionless"
  \/ failed[c] \cap matched # {}
  \/ failed[c] = {"primary"} \cup (IF hasFallback THEN {"fallback"} ELSE {})

\* What was asked, and what failed, where the client's query is.
ResolverInv(c) ==
  /\ request[c] # "name" =>
       asked[c] = {} /\ pc[c] \in {"arrived", "error", "refused", "empty", "ignored"}
  /\ matched # {} => asked[c] \subseteq matched
  /\ "fallback" \in asked[c] => "primary" \in failed[c]
  /\ pc[c] = "arrived" => failed[c] = {} /\ asked[c] = {} /\ src[c] = 0 /\ todo[c] = matched
  /\ pc[c] = "fixed" => failed[c] = {} /\ (src[c] = 0 => todo[c] = matched)
  /\ pc[c] = "primary" => matched = {} /\ failed[c] = {}
  /\ pc[c] = "fallback" => matched = {} /\ failed[c] = {"primary"} /\ hasFallback
  /\ pc[c] \in {"compose", "restore", "send", "sent"} => owner[src[c]] \notin failed[c]
  /\ pc[c] \in {"error", "refused"} => Failed(c)

\* The subnets of a message are right for the client, given those upstream sent.
RightSubnet(m, sent, c) ==
  /\ ecs[c] # NoSubnet => m.ecs # <<>> /\ m.ecs[1].addr = ecs[c].addr
  /\ \A k \in DOMAIN m.ecs :
       ecs[c] = NoSubnet \/ k > 1 =>
         Len(sent) > 1 /\ \E j \in DOMAIN sent : m.ecs[k] = sent[j]

\* A client's message is a copy of the response, and then the reply made of it.
MessageInv(c) ==
  /\ out[c] = c
  /\ pc[c] = "restore" => heap[c] = original[src[c]]
  /\ pc[c] = "send" => RightSubnet(heap[c], original[src[c]].ecs, c)
  /\ pc[c] = "sent" => RightSubnet(reply[c], original[src[c]].ecs, c)

IInv ==
  /\ TypeOK /\ CountInv /\ CachedIntact
  /\ \A c \in Clients : ResolverInv(c) /\ MessageInv(c)

PCs == {"arrived", "fixed", "primary", "fallback", "compose", "restore", "send", "error",
        "sent", "refused", "empty", "ignored"}

-----------------------------------------------------------------------------
(* Steps *)

\* The first state: nothing was asked.
LEMMA InitIInv == Init => IInv
<1> SUFFICES ASSUME Init PROVE IInv
  OBVIOUS
<1>1. Empty \in Message
  <2>1. 0 \in 0..MaxECS /\ <<>> \in [1..0 -> Subnets]
    BY RelayAssumption DEF RelayAssumption
  <2>2. <<>> \in Options
    BY <2>1 DEF Options
  <2> QED BY <2>2 DEF Empty, Message
<1>2. DOMAIN owner = {} /\ DOMAIN original = {} /\ DOMAIN owner = 1..0
  BY DEF Init
<1>3. TypeOK
  BY <1>1, <1>2 DEF Init, TypeOK
<1>4. CountInv /\ CachedIntact
  BY <1>2, RelayAssumption DEF CountInv, CachedIntact, RelayAssumption
<1>5. ASSUME NEW c \in Clients PROVE ResolverInv(c) /\ MessageInv(c)
  BY DEF Init, ResolverInv, MessageInv
<1> QED
  BY <1>3, <1>4, <1>5 DEF IInv

\* A Query that succeeds returns a response of the resolver's, old or new, and
\* leaves the responses before it and the clients' messages alone.
LEMMA QueryFacts ==
  ASSUME IInv, NEW c \in Clients, NEW r, QuerySucceeds(c, r)
  PROVE  /\ \E i \in DOMAIN owner' : src' = [src EXCEPT ![c] = i] /\ owner'[i] = r
         /\ asked' = [asked EXCEPT ![c] = @ \cup {r}]
         /\ UNCHANGED <<config, failed, out, reply>>
         /\ CountInv' /\ CachedIntact'
         /\ DOMAIN owner' = DOMAIN original' /\ DOMAIN owner' \subseteq Objects
         /\ \A j \in DOMAIN owner :
              j \in DOMAIN owner' /\ owner'[j] = owner[j] /\ original'[j] = original[j]
         /\ heap' \in [Objects \cup Clients -> Message]
         /\ \A d \in Clients : heap'[d] = heap[d]
<1> USE DEF IInv
<1>1. /\ asked' = [asked EXCEPT ![c] = @ \cup {r}]
      /\ UNCHANGED <<config, failed, out, reply>>
  BY DEF QuerySucceeds
<1>2. CASE \E i \in DOMAIN owner :
             /\ owner[i] = r
             /\ src' = [src EXCEPT ![c] = i]
             /\ UNCHANGED <<heap, owner, original>>
  BY <1>1, <1>2 DEF TypeOK, CountInv, CachedIntact
<1>3. CASE ~\E i \in DOMAIN owner :
             /\ owner[i] = r
             /\ src' = [src EXCEPT ![c] = i]
             /\ UNCHANGED <<heap, owner, original>>
  <2>1. PICK n \in 0..MaxMsgs : DOMAIN owner = 1..n
    BY DEF CountInv
  <2>2. Cardinality(DOMAIN owner) = n /\ n \in Nat
    <3>1. n \in Nat /\ n \in Int /\ 1 \in Int
      BY RelayAssumption DEF RelayAssumption
    <3>2. Cardinality(1..n) = IF 1 > n THEN 0 ELSE n - 1 + 1
      BY <3>1, FS_Interval, Zenon
    <3>3. Cardinality(1..n) = n
      BY <3>1, <3>2
    <3> QED
      BY <2>1, <3>1, <3>3
  <2> DEFINE i == n + 1
  <2>3. PICK m \in Message :
          /\ i <= MaxMsgs
          /\ heap' = [heap EXCEPT ![i] = m]
          /\ original' = [j \in 1..i |-> IF j = i THEN m ELSE original[j]]
          /\ owner' = [j \in 1..i |-> IF j = i THEN r ELSE owner[j]]
          /\ src' = [src EXCEPT ![c] = i]
    BY <1>3, <2>2 DEF QuerySucceeds
  <2>4. i \in Objects /\ \A j \in 1..i : j = i \/ j \in 1..n
    BY <2>2, <2>3, RelayAssumption DEF Objects, RelayAssumption
  <2>5. \A d \in Clients : d # i
    BY <2>4, RelayAssumption DEF RelayAssumption, Objects
  <2>6. /\ heap \in [Objects \cup Clients -> Message]
        /\ DOMAIN original = 1..n
        /\ \A j \in 1..n : heap[j] = original[j]
        /\ 1..n \subseteq Objects
    BY <2>1 DEF TypeOK, CachedIntact
  <2> HIDE DEF i
  <2>7. CachedIntact'
    BY <2>3, <2>4, <2>6 DEF CachedIntact
  <2>8. CountInv'
    BY <2>2, <2>3, RelayAssumption DEF CountInv, i, RelayAssumption
  <2>9. i \in 1..i /\ \A j \in 1..n : j \in 1..i /\ j # i
    BY <2>2 DEF i
  <2>10. DOMAIN owner' = DOMAIN original' /\ DOMAIN owner' \subseteq Objects
    BY <2>3, <2>4, <2>6
  <2>11. \A j \in DOMAIN owner :
           j \in DOMAIN owner' /\ owner'[j] = owner[j] /\ original'[j] = original[j]
    BY <2>1, <2>3, <2>9
  <2>12. /\ heap' \in [Objects \cup Clients -> Message]
         /\ \A d \in Clients : heap'[d] = heap[d]
    BY <2>3, <2>4, <2>5, <2>6
  <2>13. i \in DOMAIN owner' /\ owner'[i] = r
    BY <2>3, <2>9
  <2> QED
    BY <1>1, <2>3, <2>7, <2>8, <2>10, <2>11, <2>12, <2>13
<1> QED
  BY <1>2, <1>3

\* A step of one client leaves what is known of the others as it is.
LEMMA OtherClients ==
  ASSUME IInv, NEW c \in Clients, NEW d \in Clients, c # d,
         UNCHANGED config,
         pc'[d] = pc[d], todo'[d] = todo[d], asked'[d] = asked[d], failed'[d] = failed[d],
         src'[d] = src[d], out'[d] = out[d], heap'[d] = heap[d], reply'[d] = reply[d],
         \A j \in DOMAIN owner : owner'[j] = owner[j] /\ original'[j] = original[j]
  PROVE  ResolverInv(d)' /\ MessageInv(d)'
<1>1. ResolverInv(d) /\ MessageInv(d)
  BY DEF IInv
<1>2. pc[d] \in {"compose", "restore", "send", "sent"} => src[d] \in DOMAIN owner
  BY DEF IInv, TypeOK
<1>3. ResolverInv(d)'
  BY <1>1, <1>2 DEF ResolverInv, Failed, config
<1>4. MessageInv(d)'
  BY <1>1, <1>2 DEF MessageInv, RightSubnet, config
<1> QED
  BY <1>3, <1>4

\* A resolver that answers leaves the client with its response.
LEMMA SuccessIInv ==
  ASSUME IInv, NEW c \in Clients, NEW r \in Resolvers, QuerySucceeds(c, r),
         \/ /\ pc[c] = "fixed" /\ r \in todo[c] /\ pc' = pc
            /\ todo' = [todo EXCEPT ![c] = @ \ {r}]
         \/ /\ pc[c] \in {"primary", "fallback"} /\ r = pc[c]
            /\ pc' = [pc EXCEPT ![c] = "compose"] /\ todo' = todo
  PROVE  IInv'
<1> USE DEF IInv
<1>1. PICK i \in DOMAIN owner' : src' = [src EXCEPT ![c] = i] /\ owner'[i] = r
  BY QueryFacts
<1>2. /\ asked' = [asked EXCEPT ![c] = @ \cup {r}]
      /\ UNCHANGED <<config, failed, out, reply>>
      /\ CountInv' /\ CachedIntact'
      /\ DOMAIN owner' = DOMAIN original' /\ DOMAIN owner' \subseteq Objects
      /\ \A j \in DOMAIN owner :
              j \in DOMAIN owner' /\ owner'[j] = owner[j] /\ original'[j] = original[j]
      /\ heap' \in [Objects \cup Clients -> Message]
      /\ \A d \in Clients : heap'[d] = heap[d]
  BY QueryFacts
<1>3. i # 0
  BY <1>2, RelayAssumption DEF Objects, RelayAssumption
<1>4. TypeOK'
  <2>1. src' \in [Clients -> {0} \cup DOMAIN owner']
    BY <1>1, <1>2 DEF TypeOK
  <2>2. pc' \in [Clients -> PCs] /\ todo' \in [Clients -> SUBSET matched]
    BY DEF TypeOK, PCs
  <2>3. \A d \in Clients : pc'[d] \in {"compose", "restore", "send", "sent"} => src'[d] # 0
    BY <1>1, <1>3 DEF TypeOK
  <2>4. asked' \in [Clients -> SUBSET Resolvers]
    BY <1>2 DEF TypeOK
  <2> QED
    BY <1>2, <2>1, <2>2, <2>3, <2>4 DEF TypeOK, PCs, config
<1>5. ResolverInv(c)'
  <2>1. ResolverInv(c) /\ todo[c] \subseteq matched
    BY DEF TypeOK
  <2>2. asked'[c] = asked[c] \cup {r} /\ src'[c] = i /\ failed' = failed /\ matched' = matched
    BY <1>1, <1>2 DEF TypeOK, config
  <2>3. CASE pc[c] = "fixed"
    <3>1. r \in matched /\ r # "fallback" /\ pc'[c] = "fixed" /\ request' = request
      BY <1>2, <2>1, <2>3, RelayAssumption DEF TypeOK, RelayAssumption, config
    <3> QED
      BY <1>3, <2>1, <2>2, <2>3, <3>1 DEF ResolverInv
  <2>4. CASE pc[c] \in {"primary", "fallback"}
    <3>1. pc'[c] = "compose" /\ r = pc[c] /\ owner'[src'[c]] = r /\ request' = request
      BY <1>1, <1>2, <2>4 DEF TypeOK, config
    <3> QED
      BY <1>3, <2>1, <2>2, <2>4, <3>1 DEF ResolverInv
  <2> QED
    BY <2>3, <2>4
<1>6. MessageInv(c)'
  BY <1>2 DEF MessageInv, RightSubnet, TypeOK, config
<1>7. ASSUME NEW d \in Clients, d # c
      PROVE  ResolverInv(d)' /\ MessageInv(d)'
  <2>1. /\ pc'[d] = pc[d] /\ todo'[d] = todo[d] /\ asked'[d] = asked[d]
        /\ src'[d] = src[d]
    BY <1>1, <1>2, <1>7 DEF TypeOK
  <2> QED
    BY <1>2, <1>7, <2>1, OtherClients
<1> QED
  BY <1>2, <1>4, <1>5, <1>6, <1>7

\* A resolver that fails leaves the client with the next one or an error.
LEMMA FailureIInv ==
  ASSUME IInv, NEW c \in Clients, NEW r \in Resolvers, QueryFails(c, r),
         UNCHANGED <<todo, src>>,
         \/ /\ pc[c] = "fixed" /\ r \in todo[c]
            /\ pc' = [pc EXCEPT ![c] = "error"]
         \/ /\ pc[c] = "primary" /\ r = "primary"
            /\ pc' = [pc EXCEPT ![c] = IF hasFallback THEN "fallback" ELSE "error"]
         \/ /\ pc[c] = "fallback" /\ r = "fallback"
            /\ pc' = [pc EXCEPT ![c] = "error"]
  PROVE  IInv'
<1> USE DEF IInv
<1>1. /\ asked' = [asked EXCEPT ![c] = @ \cup {r}]
      /\ failed' = [failed EXCEPT ![c] = @ \cup {r}]
      /\ UNCHANGED <<config, out, heap, owner, original, reply>>
  BY DEF QueryFails
<1>2. TypeOK'
  <2>1. pc' \in [Clients -> PCs]
    BY DEF TypeOK, PCs
  <2>2. \A d \in Clients : pc'[d] \in {"compose", "restore", "send", "sent"} => src'[d] # 0
    BY DEF TypeOK
  <2>3. asked' \in [Clients -> SUBSET Resolvers] /\ failed' \in [Clients -> SUBSET Resolvers]
    BY <1>1 DEF TypeOK
  <2> QED
    BY <1>1, <2>1, <2>2, <2>3 DEF TypeOK, PCs, config
<1>3. CountInv' /\ CachedIntact'
  BY <1>1 DEF CountInv, CachedIntact
<1>4. ResolverInv(c)'
  <2>1. ResolverInv(c) /\ todo[c] \subseteq matched
    BY DEF TypeOK
  <2>2. /\ asked'[c] = asked[c] \cup {r} /\ failed'[c] = failed[c] \cup {r}
        /\ matched' = matched /\ hasFallback' = hasFallback /\ request' = request
        /\ src' = src /\ owner' = owner
    BY <1>1 DEF TypeOK, config
  <2>3. CASE pc[c] = "fixed"
    <3>1. pc'[c] = "error" /\ r \in matched /\ r # "fallback"
      BY <2>1, <2>3, RelayAssumption DEF TypeOK, RelayAssumption
    <3> QED
      BY <2>1, <2>2, <3>1 DEF ResolverInv, Failed
  <2>4. CASE pc[c] = "primary"
    <3>1. r = "primary" /\ pc'[c] = IF hasFallback THEN "fallback" ELSE "error"
      BY <2>4 DEF TypeOK
    <3>2. matched = {} /\ failed[c] = {}
      BY <2>1, <2>4 DEF ResolverInv
    <3>3. CASE hasFallback
      BY <2>2, <3>1, <3>2, <3>3 DEF ResolverInv
    <3>4. CASE ~hasFallback
      BY <2>2, <3>1, <3>2, <3>4 DEF ResolverInv, Failed
    <3> QED
      BY <3>3, <3>4
  <2>5. CASE pc[c] = "fallback"
    <3>1. r = "fallback" /\ pc'[c] = "error"
      BY <2>5 DEF TypeOK
    <3>2. matched = {} /\ failed[c] = {"primary"} /\ hasFallback
      BY <2>1, <2>5 DEF ResolverInv
    <3> QED
      BY <2>2, <3>1, <3>2 DEF ResolverInv, Failed
  <2> QED
    BY <2>3, <2>4, <2>5
<1>5. MessageInv(c)'
  BY <1>1 DEF MessageInv, RightSubnet, TypeOK, config
<1>6. ASSUME NEW d \in Clients, d # c
      PROVE  ResolverInv(d)' /\ MessageInv(d)'
  <2>1. pc'[d] = pc[d] /\ asked'[d] = asked[d] /\ failed'[d] = failed[d]
    BY <1>1, <1>6 DEF TypeOK
  <2> QED
    BY <1>1, <1>6, <2>1, OtherClients
<1> QED
  BY <1>2, <1>3, <1>4, <1>5, <1>6

\* Steps of a handler and of Answer that call no resolver and write no message.
LEMMA LocalIInv ==
  ASSUME IInv, NEW c \in Clients, Arrive(c) \/ FixedEnds(c) \/ Send(c) \/ SendError(c)
  PROVE  IInv'
<1> USE DEF IInv
<1>1. /\ UNCHANGED <<config, todo, asked, failed, src, out, heap, owner, original>>
      /\ pc' \in [Clients -> PCs]
      /\ \A d \in Clients : d # c => pc'[d] = pc[d] /\ reply'[d] = reply[d]
      /\ reply' \in [Clients -> Message]
  <2>1. heap[out[c]] \in Message
    BY DEF TypeOK
  <2> QED
    BY <2>1 DEF Arrive, First, Requests, FixedEnds, Send, SendError, TypeOK, PCs
<1>2. /\ pc[c] = "fixed" => todo[c] = {} /\ pc'[c] = IF src[c] # 0 THEN "compose" ELSE "primary"
      /\ pc[c] = "send" => pc'[c] = "sent" /\ reply'[c] = heap[c]
      /\ pc[c] = "error" => pc'[c] = "refused"
      /\ pc[c] = "arrived" => pc'[c] = First(request[c])
      /\ pc[c] \in {"arrived", "fixed", "send", "error"}
  BY DEF Arrive, FixedEnds, Send, SendError, TypeOK, MessageInv
<1>3. TypeOK'
  <2>1. request[c] \in Requests
    BY DEF TypeOK
  <2> QED
    BY <1>1, <1>2, <2>1 DEF TypeOK, PCs, config, First, Requests
<1>4. CountInv' /\ CachedIntact'
  BY <1>1 DEF CountInv, CachedIntact
<1>5. ResolverInv(c)'
  <2>1. ResolverInv(c) /\ request[c] \in Requests
    BY DEF TypeOK
  <2>2. CASE pc[c] = "arrived"
    BY <1>1, <1>2, <2>1, <2>2 DEF ResolverInv, Failed, config, First, Requests
  <2>3. CASE pc[c] # "arrived"
    BY <1>1, <1>2, <2>1, <2>3 DEF ResolverInv, Failed, config
  <2> QED
    BY <2>2, <2>3
<1>6. MessageInv(c)'
  <2>1. MessageInv(c)
    OBVIOUS
  <2>2. CASE pc[c] = "send"
    <3>1. RightSubnet(heap[c], original[src[c]].ecs, c)
      BY <2>1, <2>2 DEF MessageInv
    <3>2. pc'[c] = "sent" /\ reply'[c] = heap[c] /\ out' = out
          /\ ecs' = ecs /\ original' = original /\ src' = src
      BY <1>1, <1>2, <2>2 DEF config
    <3>3. RightSubnet(reply[c], original[src[c]].ecs, c)'
      BY <3>1, <3>2 DEF RightSubnet
    <3> QED
      BY <2>1, <3>2, <3>3 DEF MessageInv
  <2>3. CASE pc[c] # "send"
    <3>1. pc'[c] \notin {"restore", "send", "sent"}
      BY <1>2, <2>3 DEF First, Requests, TypeOK
    <3> QED
      BY <1>1, <2>1, <3>1 DEF MessageInv
  <2> QED
    BY <2>2, <2>3
<1>7. ASSUME NEW d \in Clients, d # c
      PROVE  ResolverInv(d)' /\ MessageInv(d)'
  BY <1>1, <1>7, OtherClients
<1> QED
  BY <1>3, <1>4, <1>5, <1>6, <1>7

\* The options of a message are a sequence, and any short one may be.
LEMMA OptionsAreSeqs ==
  /\ \A s \in Options : s \in Seq(Subnets) /\ Len(s) \in 0..MaxECS
  /\ \A s \in Seq(Subnets) : Len(s) <= MaxECS => s \in Options
<1>1. ASSUME NEW s \in Options PROVE s \in Seq(Subnets) /\ Len(s) \in 0..MaxECS
  <2>1. PICK k \in 0..MaxECS : s \in [1..k -> Subnets]
    BY DEF Options
  <2>2. k \in Nat
    BY RelayAssumption DEF RelayAssumption
  <2> QED
    BY <2>1, <2>2
<1>2. ASSUME NEW s \in Seq(Subnets), Len(s) <= MaxECS PROVE s \in Options
  <2>1. Len(s) \in 0..MaxECS /\ s \in [1..Len(s) -> Subnets]
    BY <1>2, RelayAssumption DEF RelayAssumption
  <2> QED
    BY <2>1 DEF Options
<1> QED
  BY <1>1, <1>2

\* What the handlers make of a copy of a response is right for the client.
LEMMA RestoreFacts ==
  ASSUME NEW m \in Message, NEW c \in Clients, ecs[c] \in Subnets \cup {NoSubnet}
  PROVE  LET new == IF ecs[c] = NoSubnet THEN WithoutECS(m) ELSE WithECS(m, ecs[c]) IN
         new \in Message /\ RightSubnet(new, m.ecs, c)
<1>1. /\ m.ecs \in Options /\ m.ecs \in Seq(Subnets) /\ Len(m.ecs) \in Nat /\ Len(m.ecs) <= MaxECS
      /\ m.opt \in BOOLEAN /\ (m.ecs # <<>> => m.opt) /\ DOMAIN m.ecs = 1..Len(m.ecs)
      /\ m = [opt |-> m.opt, ecs |-> m.ecs] /\ MaxECS \in Nat \ {0}
  BY OptionsAreSeqs, RelayAssumption DEF Message, RelayAssumption
<1>2. CASE ecs[c] = NoSubnet
  <2> DEFINE short == IF m.ecs = <<>> THEN <<>> ELSE SubSeq(m.ecs, 1, Len(m.ecs) - 1)
  <2>1. WithoutECS(m) = [opt |-> m.opt, ecs |-> short]
    BY <1>1 DEF WithoutECS
  <2>2. /\ short \in Seq(Subnets) /\ Len(short) <= MaxECS
        /\ m.ecs = <<>> => short = <<>>
        /\ Len(m.ecs) <= 1 => DOMAIN short = {}
        /\ \A k \in DOMAIN short : k \in DOMAIN m.ecs /\ short[k] = m.ecs[k]
    <3>1. CASE m.ecs = <<>>
      BY <1>1, <3>1
    <3>2. CASE m.ecs # <<>>
      <4>1. /\ Len(m.ecs) \in Nat \ {0} /\ Len(m.ecs) - 1 \in Nat
            /\ 1 \in Int /\ Len(m.ecs) - 1 \in Int
        BY <1>1, <3>2, EmptySeq
      <4>2. /\ short \in Seq(Subnets) /\ Len(short) = Len(m.ecs) - 1
            /\ \A k \in 1..(Len(m.ecs) - 1) : short[k] = m.ecs[k]
        <5> DEFINE n == Len(m.ecs) - 1
        <5>1. \A k \in 1..n : m.ecs[k] \in Subnets
          BY <1>1, <4>1
        <5>2. short = SubSeq(m.ecs, 1, n)
          BY <3>2
        <5>3. n \in Nat /\ n \in Int /\ 1 \in Int
          BY <4>1
        <5> HIDE DEF n, short
        <5>4. /\ SubSeq(m.ecs, 1, n) \in Seq(Subnets)
              /\ Len(SubSeq(m.ecs, 1, n)) = IF 1 <= n THEN n - 1 + 1 ELSE 0
              /\ \A k \in 1..(n - 1 + 1) : SubSeq(m.ecs, 1, n)[k] = m.ecs[1 + k - 1]
          BY <5>1, <5>3, SubSeqProperties
        <5>5. Len(short) = n /\ \A k \in 1..n : short[k] = m.ecs[k]
          BY <5>2, <5>3, <5>4
        <5> QED BY <5>2, <5>4, <5>5 DEF n
      <4>3. DOMAIN short = 1..(Len(m.ecs) - 1)
        BY <4>2
      <4> QED
        BY <1>1, <3>2, <4>1, <4>2, <4>3
    <3> QED BY <3>1, <3>2
  <2> HIDE DEF short
  <2>3. WithoutECS(m) \in Message
    BY <1>1, <2>1, <2>2, OptionsAreSeqs DEF Message
  <2>4. RightSubnet([opt |-> m.opt, ecs |-> short], m.ecs, c)
    BY <1>1, <1>2, <2>2 DEF RightSubnet
  <2> QED
    BY <1>2, <2>1, <2>3, <2>4
<1>3. CASE ecs[c] \in Subnets
  <2> DEFINE own == [addr |-> ecs[c].addr, mask |-> ForcedMask]
             full == IF m.ecs = <<>> THEN <<own>> ELSE [m.ecs EXCEPT ![1] = own]
  <2>0. own \in Subnets /\ own.addr = ecs[c].addr /\ ecs[c] # NoSubnet
    BY <1>3, RelayAssumption DEF RelayAssumption
  <2>1. WithECS(m, ecs[c]) = [opt |-> TRUE, ecs |-> full]
    BY DEF WithECS
  <2> HIDE DEF own
  <2>2. /\ full \in Seq(Subnets) /\ Len(full) <= MaxECS /\ full # <<>> /\ full[1] = own
        /\ Len(m.ecs) <= 1 => DOMAIN full = {1}
        /\ \A k \in DOMAIN full : k > 1 => k \in DOMAIN m.ecs /\ full[k] = m.ecs[k]
    <3>1. CASE m.ecs = <<>>
      <4>1. full = <<own>> /\ DOMAIN full = {1}
        BY <3>1
      <4> QED
        BY <1>1, <2>0, <4>1
    <3>2. CASE m.ecs # <<>>
      <4>1. Len(m.ecs) \in Nat \ {0} /\ 1 \in 1..Len(m.ecs)
        BY <1>1, <3>2, EmptySeq
      <4>2. /\ full \in Seq(Subnets) /\ Len(full) = Len(m.ecs) /\ DOMAIN full = 1..Len(m.ecs)
            /\ full[1] = own
            /\ \A k \in 1..Len(m.ecs) : k > 1 => full[k] = m.ecs[k]
        BY <1>1, <2>0, <3>2, <4>1
      <4> QED
        BY <1>1, <4>1, <4>2
    <3> QED BY <3>1, <3>2
  <2> HIDE DEF full
  <2>3. WithECS(m, ecs[c]) \in Message
    BY <1>1, <2>1, <2>2, OptionsAreSeqs DEF Message
  <2>4. RightSubnet([opt |-> TRUE, ecs |-> full], m.ecs, c)
    <3>1. ASSUME NEW k \in DOMAIN full, k > 1
          PROVE  Len(m.ecs) > 1 /\ \E j \in DOMAIN m.ecs : full[k] = m.ecs[j]
      <4>1. k \in DOMAIN m.ecs /\ full[k] = m.ecs[k]
        BY <2>2, <3>1
      <4> QED
        BY <1>1, <3>1, <4>1
    <3> QED
      BY <2>0, <2>2, <3>1 DEF RightSubnet
  <2> QED
    BY <2>0, <2>1, <2>3, <2>4
<1> QED
  BY <1>2, <1>3

\* Composing and restoring write to the client's own location.
LEMMA WriteIInv ==
  ASSUME IInv, NEW c \in Clients, Compose(c) \/ Restore(c)
  PROVE  IInv'
<1> USE DEF IInv
<1>1. c \notin Objects /\ out[c] = c /\ src[c] \in Objects
  <2>1. src[c] # 0
    BY DEF Compose, Restore, TypeOK
  <2> QED
    BY <2>1, RelayAssumption DEF TypeOK, RelayAssumption, Objects, MessageInv
<1>2. PICK m \in Message :
        /\ heap' = [heap EXCEPT ![c] = m]
        /\ pc[c] = "compose" => m = original[src[c]]
        /\ pc[c] = "restore" => RightSubnet(m, original[src[c]].ecs, c)
  <2>1. CASE Compose(c)
    <3>1. src[c] \in DOMAIN owner /\ heap[src[c]] = original[src[c]] /\ heap[src[c]] \in Message
      BY <1>1, <2>1 DEF Compose, TypeOK, CachedIntact
    <3> QED
      BY <1>1, <2>1, <3>1 DEF Compose
  <2>2. CASE Restore(c)
    <3>1. heap[c] \in Message /\ ecs[c] \in Subnets \cup {NoSubnet} /\ heap[c] = original[src[c]]
      BY <2>2 DEF TypeOK, Restore, MessageInv
    <3>2. PICK m \in Message :
            /\ m = IF ecs[c] = NoSubnet THEN WithoutECS(heap[c]) ELSE WithECS(heap[c], ecs[c])
            /\ RightSubnet(m, heap[c].ecs, c)
      BY <3>1, RestoreFacts
    <3> QED
      BY <1>1, <2>2, <3>1, <3>2 DEF Restore
  <2> QED
    BY <2>1, <2>2
<1>3. /\ UNCHANGED <<config, todo, asked, failed, src, owner, original, reply>>
      /\ out' = out
      /\ \/ pc[c] = "compose" /\ pc' = [pc EXCEPT ![c] = "restore"]
         \/ pc[c] = "restore" /\ pc' = [pc EXCEPT ![c] = "send"]
  <2>1. out \in [Clients -> Objects \cup Clients]
    BY DEF TypeOK
  <2> QED
    BY <1>1, <2>1 DEF Compose, Restore, ReplyLocation
<1>4. TypeOK'
  <2>1. pc' \in [Clients -> PCs] /\ heap' \in [Objects \cup Clients -> Message]
    BY <1>2, <1>3 DEF TypeOK, PCs
  <2>2. \A d \in Clients : pc'[d] \in {"compose", "restore", "send", "sent"} => src[d] # 0
    BY <1>3 DEF TypeOK
  <2> QED
    BY <1>3, <2>1, <2>2 DEF TypeOK, PCs, config
<1>5. CountInv' /\ CachedIntact'
  BY <1>1, <1>2, <1>3 DEF CountInv, CachedIntact, TypeOK
<1>6. ResolverInv(c)'
  <2>1. ResolverInv(c) /\ pc'[c] \in {"restore", "send"}
    BY <1>3 DEF TypeOK
  <2> QED
    BY <1>3, <2>1 DEF ResolverInv, config
<1>7. MessageInv(c)'
  BY <1>1, <1>2, <1>3 DEF MessageInv, RightSubnet, TypeOK, config
<1>8. ASSUME NEW d \in Clients, d # c
      PROVE  ResolverInv(d)' /\ MessageInv(d)'
  <2>1. pc'[d] = pc[d] /\ heap'[d] = heap[d]
    BY <1>2, <1>3, <1>8 DEF TypeOK
  <2> QED
    BY <1>3, <1>8, <2>1, OtherClients
<1> QED
  BY <1>4, <1>5, <1>6, <1>7, <1>8

\* Every step keeps the invariant.
LEMMA NextIInv == IInv /\ [Next]_vars => IInv'
<1> SUFFICES ASSUME IInv, [Next]_vars PROVE IInv'
  OBVIOUS
<1>1. CASE UNCHANGED vars
  BY <1>1 DEF vars, IInv, TypeOK, CountInv, CachedIntact, ResolverInv, Failed, MessageInv,
              RightSubnet
<1>2. ASSUME NEW c \in Clients, AskFixed(c) \/ FixedFails(c)
      PROVE  IInv'
  <2>1. todo[c] \subseteq Resolvers
    BY DEF IInv, TypeOK, Resolvers
  <2> QED
    BY <1>2, <2>1, SuccessIInv, FailureIInv DEF AskFixed, FixedFails, AfterFixedError
<1>3. ASSUME NEW c \in Clients, AskPrimary(c)
      PROVE  IInv'
  <2>1. "primary" \in Resolvers
    BY DEF Resolvers
  <2> QED
    BY <1>3, <2>1, SuccessIInv, FailureIInv DEF AskPrimary
<1>4. ASSUME NEW c \in Clients, AskFallback(c)
      PROVE  IInv'
  <2>1. "fallback" \in Resolvers
    BY DEF Resolvers
  <2> QED
    BY <1>4, <2>1, SuccessIInv, FailureIInv DEF AskFallback, AfterFallback
<1>5. ASSUME NEW c \in Clients,
             Arrive(c) \/ FixedEnds(c) \/ Compose(c) \/ Restore(c) \/ Send(c) \/ SendError(c)
      PROVE  IInv'
  BY <1>5, LocalIInv, WriteIInv
<1>6. CASE Terminated
  BY <1>1, <1>6 DEF Terminated
<1> QED
  BY <1>1, <1>2, <1>3, <1>4, <1>5, <1>6 DEF Next

-----------------------------------------------------------------------------
(* Theorems *)

\* The invariant holds in every state a run reaches.
LEMMA Invariance == Spec => []IInv
<1>1. Init => IInv
  BY InitIInv
<1>2. IInv /\ [Next]_vars => IInv'
  BY NextIInv
<1> QED
  BY <1>1, <1>2, PTL DEF Spec

\* Every state of the clients, the resolvers and the messages is well formed.
THEOREM TypeCorrect == Spec => []TypeOK
<1>1. IInv => TypeOK
  BY DEF IInv
<1> QED
  BY <1>1, Invariance, PTL

\* Answer never takes a name that has a fixed resolver anywhere else.
THEOREM FixedStayFixed == Spec => []PinnedToFixed
<1>1. IInv => PinnedToFixed
  BY DEF IInv, ResolverInv, PinnedToFixed
<1> QED
  BY <1>1, Invariance, PTL

\* Answer gives up only when all that may answer have failed, and answers from
\* one that has not.
THEOREM ErrorsAreFailures == Spec => []ErrorMeansFailed
<1>1. IInv => ErrorMeansFailed
  BY DEF IInv, ResolverInv, Failed, ErrorMeansFailed
<1> QED
  BY <1>1, Invariance, PTL

\* The handlers put each client's own subnet first or, without one, leave none, and
\* never another client's: only an upstream that sends several leaves one of them.
THEOREM OwnSubnets == Spec => []OwnSubnet
<1>1. IInv => OwnSubnet
  BY DEF IInv, MessageInv, RightSubnet, OwnSubnet
<1> QED
  BY <1>1, Invariance, PTL

\* No handler writes to a response others are answered from.
THEOREM CacheIntact == Spec => []CachedIntact
<1>1. IInv => CachedIntact
  BY DEF IInv
<1> QED
  BY <1>1, Invariance, PTL
=============================================================================
