------------------------ MODULE Dns53Upstream_proofs ------------------------
(***************************************************************************)
(* Proofs about Dns53Upstream for any number of workers, endpoints, slots,  *)
(* queries and faults: no slot of the pool is lost or shared, and a worker  *)
(* is never given the reply to another query; and the queries never all     *)
(* wait for one another.                                                    *)
(*                                                                         *)
(* Both rest on what is on the way on a connection: nothing, unless its     *)
(* worker waits for a reply, when it is that worker's one query or the      *)
(* reply to it, or has failed, when the connection goes no further.         *)
(***************************************************************************)
EXTENDS Dns53Upstream, TLAPS

\* Nothing is on its way on the connection.
Clear(s) == asked[s] = <<>> /\ replies[s] = <<>>

\* The worker's query, or the reply to it, is all that is on its way.
OneOnTheWay(w) ==
  \/ asked[mine[w]] = <<query[w]>> /\ replies[mine[w]] = <<>>
  \/ asked[mine[w]] = <<>> /\ replies[mine[w]] = <<query[w]>>

WorkerInv(w) ==
  /\ mine[w] = NoSlot <=> pc[w] \in {"ready", "get"}
  /\ mine[w] # NoSlot => slot[mine[w]] = w
  /\ pc[w] # "ready" => query[w] \in Queries
  /\ pc[w] \in {"dial", "bump", "connect", "write", "done"} => Clear(mine[w])
  /\ pc[w] = "read" => OneOnTheWay(w)
  /\ pc[w] = "done" => got[w] = query[w].serial

SlotInv(s) ==
  /\ slot[s] \in Workers => mine[slot[s]] = s
  /\ slot[s] \notin Workers => Clear(s)

LinkInv == (\A w \in Workers : WorkerInv(w)) /\ (\A s \in Slots : SlotInv(s))
IInv == TypeOK /\ LinkInv

PCs == {"ready", "get", "dial", "bump", "connect", "write", "read", "failed", "done"}

\* The indices of the round robin.
LEMMA TurnFacts ==
  ASSUME NEW n \in Nat
  PROVE  n % NumEndpoints \in Endpoints
BY PoolAssumption DEF PoolAssumption, Endpoints

\* The first state: the idle connections are new.
LEMMA InitIInv == Init => IInv
<1> SUFFICES ASSUME Init PROVE IInv
  OBVIOUS
<1>1. NumIdle \in Nat /\ NumSlots \in Nat /\ MaxQueries \in Nat /\ MaxFaults \in Nat
  BY PoolAssumption DEF PoolAssumption
<1>2. turn \in Endpoints /\ 0 \in Endpoints
  <2>1. turn \in Endpoints
    BY <1>1, TurnFacts DEF Init
  <2>2. 0 \in Endpoints
    BY PoolAssumption DEF Endpoints, PoolAssumption
  <2> QED
    BY <2>1, <2>2
<1>3. peer \in [Slots -> Endpoints]
  <2>1. \A s \in Slots : (s - 1) % NumEndpoints \in Endpoints
    BY <1>1, TurnFacts DEF Slots
  <2> QED
    BY <1>2, <2>1 DEF Init
<1>4. TypeOK
  BY <1>1, <1>2, <1>3 DEF Init, TypeOK
<1>5. LinkInv
  BY PoolAssumption DEF Init, LinkInv, WorkerInv, SlotInv, Clear, PoolAssumption
<1> QED
  BY <1>4, <1>5 DEF IInv

-----------------------------------------------------------------------------
(* Steps *)

\* A step of a worker on one slot, its own or one nobody has, does not disturb
\* the other workers nor the other slots.
LEMMA LocalStep ==
  ASSUME IInv, NEW w \in Workers, NEW s \in Slots,
         slot[s] = w \/ slot[s] \notin Workers,
         mine[w] \in {NoSlot, s},
         \A v \in Workers \ {w} :
           pc'[v] = pc[v] /\ mine'[v] = mine[v] /\ query'[v] = query[v] /\ got'[v] = got[v],
         \A t \in Slots \ {s} :
           slot'[t] = slot[t] /\ asked'[t] = asked[t] /\ replies'[t] = replies[t],
         WorkerInv(w)', SlotInv(s)'
  PROVE  LinkInv'
<1>1. ASSUME NEW v \in Workers \ {w}
      PROVE  WorkerInv(v)'
  <2>1. mine[v] \in Slots \cup {NoSlot} /\ NoSlot \notin Slots
    BY DEF IInv, TypeOK, NoSlot, Slots
  <2>2. WorkerInv(v)
    BY DEF IInv, LinkInv
  <2>3. mine[v] # NoSlot => mine[v] \in Slots \ {s}
    BY <2>1, <2>2 DEF WorkerInv
  <2> QED
    BY <2>1, <2>2, <2>3 DEF WorkerInv, Clear, OneOnTheWay
<1>2. ASSUME NEW t \in Slots \ {s}
      PROVE  SlotInv(t)'
  <2>1. SlotInv(t) /\ NoSlot \notin Slots
    BY DEF IInv, LinkInv, NoSlot, Slots
  <2>2. slot[t] # w
    BY <2>1 DEF SlotInv
  <2> QED
    BY <2>1, <2>2 DEF SlotInv, Clear
<1> QED
  BY <1>1, <1>2 DEF LinkInv

\* A lookup begins with a query of its own.
LEMMA BeginIInv ==
  ASSUME IInv, NEW w \in Workers, Begin(w)
  PROVE  IInv'
<1> USE DEF IInv
<1>1. issued + 1 \in 1..MaxQueries /\ MaxQueries \in Nat /\ issued \in Nat
  BY PoolAssumption DEF Begin, TypeOK, PoolAssumption
<1>2. PICK q \in Queries : query' = [query EXCEPT ![w] = q]
  BY <1>1 DEF Begin, Queries
<1>3. TypeOK'
  BY <1>1, <1>2 DEF Begin, TypeOK, net
<1>4. WorkerInv(w)'
  BY <1>2 DEF Begin, LinkInv, WorkerInv, TypeOK
<1>5. mine[w] = NoSlot
  BY DEF Begin, LinkInv, WorkerInv
<1>6. ASSUME NEW v \in Workers \ {w}
      PROVE  WorkerInv(v)'
  BY <1>2 DEF Begin, net, LinkInv, WorkerInv, TypeOK, Clear, OneOnTheWay
<1>7. \A s \in Slots : SlotInv(s)'
  BY DEF Begin, net, LinkInv, SlotInv, Clear
<1> QED
  BY <1>3, <1>4, <1>6, <1>7 DEF LinkInv

\* Get hands out a slot nobody has.
LEMMA GetIInv ==
  ASSUME IInv, NEW w \in Workers, GetIdle(w) \/ GetFree(w)
  PROVE  IInv'
<1> USE DEF IInv
<1>1. PICK s \in Slots :
        /\ slot[s] \in {"idle", "free"}
        /\ slot' = [slot EXCEPT ![s] = w]
        /\ mine' = [mine EXCEPT ![w] = s]
  BY DEF GetIdle, GetFree
<1>2. /\ pc[w] = "get"
      /\ pc' = [pc EXCEPT ![w] = "write"] \/ pc' = [pc EXCEPT ![w] = "dial"]
      /\ UNCHANGED <<net, turn, seen, dest, query, got, issued, faults>>
  BY DEF GetIdle, GetFree
<1>3. TypeOK'
  BY <1>1, <1>2 DEF TypeOK, net
<1>4. slot[s] \notin Workers /\ Clear(s) /\ mine[w] = NoSlot
  BY <1>1, <1>2, PoolAssumption DEF LinkInv, SlotInv, WorkerInv, PoolAssumption
<1>5. WorkerInv(w)' /\ SlotInv(s)'
  BY <1>1, <1>2, <1>4
  DEF TypeOK, LinkInv, WorkerInv, SlotInv, Clear, net, NoSlot, Slots
<1>6. LinkInv'
  BY <1>1, <1>2, <1>4, <1>5, LocalStep DEF TypeOK, net
<1> QED
  BY <1>3, <1>6

\* A worker that has a slot steps on it.
LEMMA OwnSlot ==
  ASSUME IInv, NEW w \in Workers, pc[w] \notin {"ready", "get"}
  PROVE  mine[w] \in Slots /\ slot[mine[w]] = w /\ mine[w] # NoSlot
BY DEF IInv, LinkInv, WorkerInv, TypeOK

\* Dialling takes the worker to a connection with nothing on its way, or back to
\* the pool with the slot free.
LEMMA DialIInv ==
  ASSUME IInv, NEW w \in Workers,
         TakeTurn(w) \/ BumpTurn(w) \/ Connect(w) \/ DialFails(w) \/ RereadTurn(w)
  PROVE  IInv'
<1> USE DEF IInv
<1>1. pc[w] \in {"dial", "bump", "connect"}
  BY DEF TakeTurn, BumpTurn, RereadTurn, Connect, DialFails
<1>2. PICK s \in Slots : s = mine[w] /\ slot[s] = w /\ s # NoSlot /\ Clear(s)
  BY <1>1, OwnSlot DEF LinkInv, WorkerInv
<1>3. /\ UNCHANGED <<epUp, asked, replies, query, got, issued, faults>>
      /\ \/ /\ pc' = [pc EXCEPT ![w] = "bump"] \/ pc' = [pc EXCEPT ![w] = "connect"]
              \/ pc' = [pc EXCEPT ![w] = "write"]
            /\ UNCHANGED <<slot, mine>>
         \/ UNCHANGED <<pc, slot, mine>>
         \/ /\ pc' = [pc EXCEPT ![w] = "get"]
            /\ slot' = [slot EXCEPT ![s] = "free"]
            /\ mine' = [mine EXCEPT ![w] = NoSlot]
  BY <1>2 DEF TakeTurn, BumpTurn, RereadTurn, Connect, DialFails, net
<1>4. TypeOK'
  <2>1. turn' \in Endpoints /\ seen' \in [Workers -> Endpoints]
    <3>1. /\ turn \in Endpoints /\ seen \in [Workers -> Endpoints] /\ 0 \in Endpoints
      BY PoolAssumption DEF TypeOK, Endpoints, PoolAssumption
    <3>2. NextTurn(seen[w]) \in Endpoints
      <4>1. seen[w] + 1 \in Nat
        BY <3>1 DEF Endpoints
      <4> QED BY <4>1, TurnFacts DEF NextTurn
    <3>3. /\ turn' = turn \/ turn' = NextTurn(seen[w])
          /\ \/ seen' = seen \/ seen' = [seen EXCEPT ![w] = turn]
             \/ seen' = [seen EXCEPT ![w] = 0]
      BY DEF TakeTurn, BumpTurn, RereadTurn, Connect, DialFails
    <3> QED
      BY <3>1, <3>2, <3>3
  <2>2. /\ dest' \in [Workers -> Endpoints]
        /\ peer' \in [Slots -> Endpoints] /\ alive' \in [Slots -> BOOLEAN]
    <3>1. /\ dest' = dest \/ dest' = [dest EXCEPT ![w] = turn]
          /\ peer' = peer \/ peer' = [peer EXCEPT ![s] = dest[w]]
          /\ alive' = alive \/ alive' = [alive EXCEPT ![s] = TRUE]
      BY <1>2 DEF TakeTurn, BumpTurn, RereadTurn, Connect, DialFails, net
    <3>2. turn \in Endpoints /\ dest \in [Workers -> Endpoints]
          /\ peer \in [Slots -> Endpoints] /\ alive \in [Slots -> BOOLEAN]
          /\ dest[w] \in Endpoints
      BY DEF TypeOK
    <3>3. dest' \in [Workers -> Endpoints]
      BY <3>1, <3>2
    <3>4. peer' \in [Slots -> Endpoints]
      BY <3>1, <3>2
    <3>5. alive' \in [Slots -> BOOLEAN]
      BY <3>1, <3>2
    <3> QED
      BY <3>3, <3>4, <3>5
  <2>3. slot' \in [Slots -> {"free", "idle"} \cup Workers]
    BY <1>3 DEF TypeOK
  <2>4. pc' \in [Workers -> PCs]
    BY <1>3 DEF TypeOK, PCs
  <2>5. mine' \in [Workers -> Slots \cup {NoSlot}]
    BY <1>3 DEF TypeOK
  <2> QED
    BY <1>3, <2>1, <2>2, <2>3, <2>4, <2>5 DEF TypeOK, PCs
<1>5. "free" \notin Workers
  BY PoolAssumption DEF PoolAssumption
<1>6. WorkerInv(w)' /\ SlotInv(s)'
  BY <1>1, <1>2, <1>3, <1>5 DEF TypeOK, LinkInv, WorkerInv, SlotInv, Clear
<1>7. LinkInv'
  BY <1>2, <1>3, <1>6, LocalStep DEF TypeOK
<1> QED
  BY <1>4, <1>7

\* A query is written to a connection with nothing on its way.
LEMMA WriteIInv ==
  ASSUME IInv, NEW w \in Workers, Write(w)
  PROVE  IInv'
<1> USE DEF IInv
<1>1. pc[w] = "write"
  BY DEF Write
<1>2. PICK s \in Slots : s = mine[w] /\ slot[s] = w /\ s # NoSlot /\ Clear(s)
  BY <1>1, OwnSlot DEF LinkInv, WorkerInv
<1>3. /\ UNCHANGED <<epUp, peer, alive, replies, turn, seen, slot, mine, dest, query, got,
                     issued, faults>>
      /\ \/ asked' = [asked EXCEPT ![s] = <<query[w]>>] /\ pc' = [pc EXCEPT ![w] = "read"]
         \/ asked' = asked /\ pc' = [pc EXCEPT ![w] = "failed"]
  BY <1>2 DEF Write, Clear, TypeOK
<1>4. TypeOK'
  <2>1. query[w] \in Queries
    BY <1>1 DEF LinkInv, WorkerInv
  <2>2. asked' \in [Slots -> Seq(Queries)]
    <3>1. <<query[w]>> \in Seq(Queries) /\ asked \in [Slots -> Seq(Queries)]
      BY <2>1 DEF TypeOK
    <3> QED
      BY <1>3, <3>1
  <2>3. pc' \in [Workers -> PCs]
    BY <1>3 DEF TypeOK, PCs
  <2> QED
    BY <1>3, <2>2, <2>3 DEF TypeOK, PCs
<1>5. WorkerInv(w)' /\ SlotInv(s)'
  BY <1>1, <1>2, <1>3 DEF TypeOK, LinkInv, WorkerInv, SlotInv, Clear, OneOnTheWay
<1>6. LinkInv'
  BY <1>2, <1>3, <1>5, LocalStep DEF TypeOK
<1> QED
  BY <1>4, <1>6

\* The reply that is read is the one to the worker's query.
LEMMA ReadIInv ==
  ASSUME IInv, NEW w \in Workers, Read(w)
  PROVE  IInv'
<1> USE DEF IInv
<1>1. pc[w] = "read"
  BY DEF Read
<1>2. PICK s \in Slots : s = mine[w] /\ slot[s] = w /\ s # NoSlot
  BY <1>1, OwnSlot
<1>3. query[w] \in Queries /\ asked[s] = <<>> /\ replies[s] = <<query[w]>>
  BY <1>1, <1>2 DEF Read, LinkInv, WorkerInv, OneOnTheWay
<1>4. Head(replies[s]) = query[w] /\ Tail(replies[s]) = <<>>
  BY <1>3
<1>5. /\ UNCHANGED <<epUp, peer, alive, asked, turn, seen, slot, mine, dest, query, issued, faults>>
      /\ replies' = [replies EXCEPT ![s] = <<>>]
      /\ got' = [got EXCEPT ![w] = query[w].serial]
      /\ pc' = [pc EXCEPT ![w] = "done"]
  BY <1>2, <1>4 DEF Read
<1>6. query[w].serial \in 0..MaxQueries
  BY <1>3, PoolAssumption DEF Queries, PoolAssumption
<1>7. TypeOK'
  BY <1>2, <1>5, <1>6 DEF TypeOK
<1>8. WorkerInv(w)' /\ SlotInv(s)'
  BY <1>1, <1>2, <1>3, <1>5 DEF TypeOK, LinkInv, WorkerInv, SlotInv, Clear
<1>9. LinkInv'
  BY <1>2, <1>5, <1>8, LocalStep DEF TypeOK
<1> QED
  BY <1>7, <1>9

\* A worker whose exchange failed gives up the connection, with whatever is on
\* its way.
LEMMA FailIInv ==
  ASSUME IInv, NEW w \in Workers, ReadFails(w) \/ Discard(w)
  PROVE  IInv'
<1> USE DEF IInv
<1>1. pc[w] \in {"read", "failed"}
  BY DEF ReadFails, Discard
<1>2. PICK s \in Slots : s = mine[w] /\ slot[s] = w /\ s # NoSlot
  BY <1>1, OwnSlot
<1>3. CASE ReadFails(w)
  <2>1. /\ UNCHANGED <<net, turn, seen, slot, mine, dest, query, got, issued>>
        /\ pc' = [pc EXCEPT ![w] = "failed"]
    BY <1>3 DEF ReadFails
  <2>2. faults' \in 0..MaxFaults
    BY <1>3, PoolAssumption DEF ReadFails, TypeOK, PoolAssumption
  <2>3. TypeOK'
    BY <2>1, <2>2 DEF TypeOK, net
  <2>4. WorkerInv(w)' /\ SlotInv(s)'
    BY <1>1, <1>2, <2>1 DEF TypeOK, LinkInv, WorkerInv, SlotInv, Clear, net
  <2>5. LinkInv'
    BY <1>2, <2>1, <2>4, LocalStep DEF TypeOK, net
  <2> QED
    BY <2>3, <2>5
<1>4. CASE Discard(w)
  <2>1. /\ slot' = [slot EXCEPT ![s] = "free"]
        /\ asked' = [asked EXCEPT ![s] = <<>>]
        /\ replies' = [replies EXCEPT ![s] = <<>>]
        /\ alive' = [alive EXCEPT ![s] = FALSE]
        /\ mine' = [mine EXCEPT ![w] = NoSlot]
        /\ pc' = [pc EXCEPT ![w] = "get"]
        /\ UNCHANGED <<epUp, peer, turn, seen, dest, query, got, issued, faults>>
    BY <1>2, <1>4 DEF Discard, Discarded
  <2>2. TypeOK'
    BY <1>2, <2>1 DEF TypeOK
  <2>3. WorkerInv(w)' /\ SlotInv(s)'
    BY <1>1, <1>2, <2>1, PoolAssumption
    DEF TypeOK, LinkInv, WorkerInv, SlotInv, Clear, PoolAssumption
  <2>4. LinkInv'
    BY <1>2, <2>1, <2>3, LocalStep DEF TypeOK
  <2> QED
    BY <2>2, <2>4
<1> QED
  BY <1>3, <1>4

\* A connection is given back with nothing on its way.
LEMMA FinishIInv ==
  ASSUME IInv, NEW w \in Workers, Finish(w)
  PROVE  IInv'
<1> USE DEF IInv
<1>1. pc[w] = "done"
  BY DEF Finish
<1>2. PICK s \in Slots : s = mine[w] /\ slot[s] = w /\ s # NoSlot /\ Clear(s)
  BY <1>1, OwnSlot DEF LinkInv, WorkerInv
<1>3. /\ slot' = [slot EXCEPT ![s] = "idle"]
      /\ mine' = [mine EXCEPT ![w] = NoSlot]
      /\ pc' = [pc EXCEPT ![w] = "ready"]
      /\ UNCHANGED <<net, turn, seen, dest, query, got, issued, faults>>
  BY <1>2 DEF Finish
<1>4. TypeOK'
  BY <1>2, <1>3 DEF TypeOK, net
<1>5. WorkerInv(w)' /\ SlotInv(s)'
  BY <1>2, <1>3, PoolAssumption
  DEF TypeOK, LinkInv, WorkerInv, SlotInv, Clear, net, PoolAssumption
<1>6. LinkInv'
  BY <1>2, <1>3, <1>5, LocalStep DEF TypeOK, net
<1> QED
  BY <1>4, <1>6

\* An endpoint answers what was asked on a connection, in order.
LEMMA ReplyIInv ==
  ASSUME IInv, NEW s \in Slots, Reply(s)
  PROVE  IInv'
<1> USE DEF IInv
<1>1. /\ asked[s] # <<>> /\ asked[s] \in Seq(Queries) /\ replies[s] \in Seq(Queries)
      /\ replies' = [replies EXCEPT ![s] = Append(replies[s], Head(asked[s]))]
      /\ asked' = [asked EXCEPT ![s] = Tail(asked[s])]
      /\ UNCHANGED <<epUp, peer, alive, turn, seen, slot, pc, mine, dest, query, got, issued, faults>>
  BY DEF Reply, TypeOK
<1>2. TypeOK'
  <2>1. Head(asked[s]) \in Queries /\ Tail(asked[s]) \in Seq(Queries)
    BY <1>1
  <2>2. Append(replies[s], Head(asked[s])) \in Seq(Queries)
    BY <1>1, <2>1
  <2> QED
    BY <1>1, <2>1, <2>2 DEF TypeOK
<1>3. slot[s] \in Workers /\ mine[slot[s]] = s
  BY <1>1 DEF LinkInv, SlotInv, Clear
<1>4. ASSUME NEW v \in Workers PROVE WorkerInv(v)'
  <2>1. WorkerInv(v)
    BY DEF LinkInv
  <2>2. CASE mine[v] # s
    BY <1>1, <2>1, <2>2 DEF WorkerInv, Clear, OneOnTheWay, TypeOK
  <2>3. CASE mine[v] = s
    <3>1. pc[v] \in {"read", "failed"}
      BY <1>1, <2>1, <2>3 DEF WorkerInv, Clear, TypeOK, NoSlot, Slots
    <3>2. CASE pc[v] = "failed"
      BY <1>1, <2>1, <3>2 DEF WorkerInv
    <3>3. CASE pc[v] = "read"
      <4>1. asked[s] = <<query[v]>> /\ replies[s] = <<>>
        BY <1>1, <2>1, <2>3, <3>3 DEF WorkerInv, OneOnTheWay
      <4>2. asked'[s] = <<>> /\ replies'[s] = <<query[v]>>
        BY <1>1, <4>1 DEF TypeOK
      <4> QED
        BY <1>1, <2>1, <2>3, <3>3, <4>2 DEF WorkerInv, OneOnTheWay
    <3> QED
      BY <3>1, <3>2, <3>3
  <2> QED
    BY <2>2, <2>3
<1>5. ASSUME NEW t \in Slots PROVE SlotInv(t)'
  BY <1>1, <1>3 DEF LinkInv, SlotInv, Clear, TypeOK
<1> QED
  BY <1>2, <1>4, <1>5 DEF LinkInv

\* Connections break and endpoints go and come: nobody's links change.
LEMMA NetworkIInv ==
  ASSUME IInv,
         \/ \E s \in Slots : Drop(s)
         \/ \E e \in Endpoints : GoesDown(e) \/ ComesBack(e)
  PROVE  IInv'
<1> USE DEF IInv
<1>1. UNCHANGED <<asked, replies, turn, seen, slot, pc, mine, dest, query, got, issued, peer>>
  BY DEF Drop, GoesDown, ComesBack
<1>2. /\ epUp' \in SUBSET Endpoints
      /\ alive' = alive \/ \E s \in Slots : alive' = [alive EXCEPT ![s] = FALSE]
      /\ faults' = faults \/ (faults < MaxFaults /\ faults' = faults + 1)
  BY DEF Drop, GoesDown, ComesBack, TypeOK
<1>3. TypeOK'
  <2>1. alive' \in [Slots -> BOOLEAN]
    BY <1>2 DEF TypeOK
  <2>2. faults' \in 0..MaxFaults
    BY <1>2, PoolAssumption DEF TypeOK, PoolAssumption
  <2> QED
    BY <1>1, <1>2, <2>1, <2>2 DEF TypeOK
<1>4. LinkInv'
  BY <1>1 DEF LinkInv, WorkerInv, SlotInv, Clear, OneOnTheWay
<1> QED
  BY <1>3, <1>4

\* Every step keeps the invariant.
LEMMA NextIInv == IInv /\ [Next]_vars => IInv'
<1> SUFFICES ASSUME IInv, [Next]_vars PROVE IInv'
  OBVIOUS
<1>1. CASE UNCHANGED vars
  BY <1>1 DEF vars, net, IInv, TypeOK, LinkInv, WorkerInv, SlotInv, Clear, OneOnTheWay
<1>2. ASSUME NEW w \in Workers, Begin(w) \/ RereadTurn(w) \/ Step(w)
      PROVE  IInv'
  BY <1>2, BeginIInv, GetIInv, DialIInv, WriteIInv, ReadIInv, FailIInv, FinishIInv
  DEF Step, Exchange
<1>3. CASE Network
  BY <1>3, ReplyIInv, NetworkIInv DEF Network
<1>4. CASE Terminated
  BY <1>1, <1>4 DEF Terminated
<1> QED
  BY <1>1, <1>2, <1>3, <1>4 DEF Next

-----------------------------------------------------------------------------
(* Theorems *)

\* The invariant holds in every state a run reaches.
LEMMA Invariance == Spec => []IInv
<1>1. Init => IInv
  BY InitIInv
<1>2. IInv /\ [Next]_vars => IInv'
  BY NextIInv
<1> QED
  BY <1>1, <1>2, PTL DEF Spec

\* Every state of the pool, its workers and its connections is well formed.
THEOREM TypeCorrect == Spec => []TypeOK
<1>1. IInv => TypeOK
  BY DEF IInv
<1> QED
  BY <1>1, Invariance, PTL

\* doQueryUpstream never takes another query's reply for its own, although ids
\* repeat and a reply may come after its reader has given up.
THEOREM OwnAnswers == Spec => []AnswersOwnQuery
<1>1. IInv => AnswersOwnQuery
  BY DEF IInv, LinkInv, WorkerInv, AnswersOwnQuery
<1> QED
  BY <1>1, Invariance, PTL

\* doQueryUpstream returns every connection it was given, and no two queries
\* are on one.
THEOREM NoSlotLost == Spec => []SlotsAccounted
<1>1. IInv => SlotsAccounted
  BY DEF IInv, LinkInv, WorkerInv, SlotInv, SlotsAccounted
<1> QED
  BY <1>1, Invariance, PTL
-----------------------------------------------------------------------------
(* Refinement: Begin asks, Read of the query's own reply answers, Finish     *)
(* collects, everything else stutters: a failed exchange is not seen.        *)

LEMMA InitRefines == Init => Contract!Init
  BY DEF Init, Contract!Init, Asked, Returned

\* A worker that neither begins nor reads nor finishes shows nothing new.
LEMMA InnerStep ==
  ASSUME UNCHANGED <<query, got>>,
         \A w \in Workers :
           /\ pc'[w] = "ready" <=> pc[w] = "ready"
           /\ pc'[w] = "done" <=> pc[w] = "done"
  PROVE  UNCHANGED <<Asked, Returned>>
BY DEF Asked, Returned

\* Every step is a step of the contract or leaves its view unchanged.
LEMMA NextRefines ==
  ASSUME IInv, IInv', [Next]_vars
  PROVE  [Contract!Next]_(Contract!cvars)
<1> USE DEF Contract!cvars
<1>1. ASSUME NEW w \in Workers, Begin(w) PROVE Contract!Ask(w)
  <2>1. PICK id \in Ids : query' = [query EXCEPT ![w] = [serial |-> issued + 1, id |-> id]]
    BY <1>1 DEF Begin
  <2>2. issued + 1 \in 1..MaxQueries /\ pc' = [pc EXCEPT ![w] = "get"] /\ pc[w] = "ready" /\ got' = got
    BY <1>1, PoolAssumption DEF Begin, IInv, TypeOK, PoolAssumption
  <2>3. Asked[w] = {} /\ Asked' = [Asked EXCEPT ![w] = {issued + 1}]
    BY <2>1, <2>2 DEF Asked, IInv, TypeOK
  <2>4. Returned' = Returned
    BY <2>2 DEF Returned, IInv, TypeOK
  <2> QED
    BY <2>2, <2>3, <2>4 DEF Contract!Ask
<1>2. ASSUME NEW w \in Workers, Read(w), pc'[w] = "done" PROVE Contract!Answer(w)
  <2>1. /\ pc[w] = "read" /\ UNCHANGED query
        /\ pc' = [pc EXCEPT ![w] = "done"] /\ \A v \in Workers \ {w} : got'[v] = got[v]
    BY <1>2 DEF Read, IInv, TypeOK
  <2>2. got'[w] = query[w].serial
    BY <1>2, <2>1 DEF IInv, LinkInv, WorkerInv
  <2>3. Asked' = Asked /\ query[w].serial \in Asked[w] /\ Returned[w] = {}
    BY <2>1 DEF Asked, Returned, IInv, TypeOK
  <2>4. Returned' = [Returned EXCEPT ![w] = {Response(query[w].serial)}]
    BY <2>1, <2>2 DEF Returned, IInv, TypeOK
  <2>5. Response(query[w].serial) = Contract!Response(query[w].serial, "whole", "whole", FALSE)
    BY DEF Response, Contract!Response
  <2> QED
    BY <2>3, <2>4, <2>5 DEF Contract!Answer
<1>3. ASSUME NEW w \in Workers, Finish(w) PROVE Contract!Collect(w)
  <2>1. pc[w] = "done" /\ pc' = [pc EXCEPT ![w] = "ready"] /\ UNCHANGED <<query, got>>
    BY <1>3 DEF Finish
  <2>2. Returned[w] # {} /\ Returned' = [Returned EXCEPT ![w] = {}]
    BY <2>1 DEF Returned, IInv, TypeOK
  <2>3. Asked' = [Asked EXCEPT ![w] = {}]
    BY <2>1 DEF Asked, IInv, TypeOK
  <2> QED
    BY <2>2, <2>3 DEF Contract!Collect
<1>4. ASSUME NEW w \in Workers, Read(w), pc'[w] # "done" PROVE UNCHANGED <<Asked, Returned>>
  <2>1. pc[w] = "read" /\ pc' = [pc EXCEPT ![w] = "failed"] /\ UNCHANGED <<query, got>>
    BY <1>4 DEF Read, IInv, TypeOK
  <2> QED
    BY <2>1, InnerStep DEF IInv, TypeOK
<1>5. ASSUME NEW w \in Workers,
             \/ GetIdle(w) \/ GetFree(w) \/ TakeTurn(w) \/ BumpTurn(w)
             \/ Connect(w) \/ DialFails(w) \/ Write(w) \/ ReadFails(w) \/ Discard(w)
      PROVE  UNCHANGED <<Asked, Returned>>
  <2>1. /\ UNCHANGED <<query, got>> /\ pc[w] \notin {"ready", "done"}
        /\ \E p \in PCs \ {"ready", "done"} : pc' = [pc EXCEPT ![w] = p]
    BY <1>5 DEF GetIdle, GetFree, TakeTurn, BumpTurn, Connect, DialFails, Write, ReadFails,
                Discard, PCs
  <2> QED
    BY <2>1, InnerStep DEF IInv, TypeOK, PCs
<1>6. ASSUME NEW w \in Workers, RereadTurn(w) PROVE UNCHANGED <<Asked, Returned>>
  BY <1>6, InnerStep DEF RereadTurn
<1>7. CASE Network
  BY <1>7, InnerStep DEF Network, Reply, Drop, GoesDown, ComesBack
<1>8. CASE UNCHANGED vars
  BY <1>8, InnerStep DEF vars
<1> QED
  BY <1>1, <1>2, <1>3, <1>4, <1>5, <1>6, <1>7, <1>8
  DEF Next, Step, Exchange, Terminated, Contract!Next

\* For any number of workers, slots and endpoints, and under whatever faults,
\* doQueryUpstream keeps the contract of Resolve.
THEOREM Dns53ImplementsResolver == Spec => ImplementsResolver
<1>1. IInv /\ IInv' /\ [Next]_vars => [Contract!Next]_(Contract!cvars)
  BY NextRefines
<1> QED
  BY <1>1, InitRefines, Invariance, PTL DEF Spec, ImplementsResolver, Contract!Spec

-----------------------------------------------------------------------------
(* The safety part of Completes: the pool is never stuck.  What GoesOn names *)
(* are the guards of Step(w), and of the Reply a reader waits for.           *)

ReplyDue(s) == alive[s] /\ peer[s] \in epUp /\ asked[s] # <<>>

GoesOn(w) ==
  \/ pc[w] = "get" /\ \E s \in Slots : slot[s] \in {"idle", "free"}
  \/ pc[w] \in {"dial", "bump", "connect", "write", "failed", "done"}
  \/ pc[w] = "read" /\ (replies[mine[w]] # <<>> \/ Silent(mine[w]) \/ ReplyDue(mine[w]))

\* A query in doQueryUpstream can go on: it has a step to take, its reply is there
\* or due, or nobody will send one and its deadline passes.  Only in the pool's Get
\* may it have to wait, and then every connection is with a query that can go on:
\* no set of queries waits for one another, whatever failed before.
PoolNeverStuck ==
  \A w \in Workers : pc[w] # "ready" =>
    \/ GoesOn(w)
    \/ /\ pc[w] = "get"
       /\ \A s \in Slots : \E v \in Workers : slot[s] = v /\ pc[v] # "get" /\ GoesOn(v)

THEOREM PoolNeverStuckTheorem == Spec => []PoolNeverStuck
<1>1. IInv => PoolNeverStuck
  <2> SUFFICES ASSUME IInv PROVE PoolNeverStuck
    OBVIOUS
  <2>0. \A w \in Workers : pc[w] \in PCs
    BY DEF IInv, TypeOK, PCs
  \* Whoever has a connection can go on.
  <2>1. ASSUME NEW w \in Workers, pc[w] \notin {"ready", "get"} PROVE GoesOn(w)
    <3>1. CASE pc[w] # "read"
      BY <2>0, <2>1, <3>1 DEF GoesOn, PCs
    <3>2. CASE pc[w] = "read"
      <4>1. /\ mine[w] \in Slots /\ OneOnTheWay(w)
            /\ alive[mine[w]] \in BOOLEAN
        BY <3>2 DEF IInv, TypeOK, LinkInv, WorkerInv
      <4>2. CASE replies[mine[w]] = <<query[w]>>
        BY <3>2, <4>2 DEF GoesOn
      <4>3. CASE asked[mine[w]] = <<query[w]>>
        BY <3>2, <4>1, <4>3 DEF GoesOn, ReplyDue, Silent
      <4> QED
        BY <4>1, <4>2, <4>3 DEF OneOnTheWay
    <3> QED BY <3>1, <3>2
  \* A slot nobody can take is with somebody who has a connection.
  <2>2. ASSUME NEW s \in Slots, slot[s] \notin {"idle", "free"}
        PROVE  slot[s] \in Workers /\ pc[slot[s]] \notin {"ready", "get"}
    <3>1. slot[s] \in Workers
      BY <2>2 DEF IInv, TypeOK
    <3>2. mine[slot[s]] = s
      BY <3>1 DEF IInv, LinkInv, SlotInv
    <3>3. s # NoSlot
      BY PoolAssumption DEF PoolAssumption, Slots, NoSlot
    <3> QED
      BY <3>1, <3>2, <3>3 DEF IInv, LinkInv, WorkerInv
  <2> SUFFICES ASSUME NEW w \in Workers, pc[w] = "get", \A s \in Slots : slot[s] \notin {"idle", "free"}
               PROVE  \A s \in Slots : \E v \in Workers : slot[s] = v /\ pc[v] # "get" /\ GoesOn(v)
    BY <2>0, <2>1 DEF PoolNeverStuck, GoesOn, PCs
  <2> QED
    BY <2>1, <2>2
<1> QED
  BY <1>1, Invariance, PTL
=============================================================================
