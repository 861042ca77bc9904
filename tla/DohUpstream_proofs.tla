------------------------- MODULE DohUpstream_proofs -------------------------
(***************************************************************************)
(* Proofs about DohUpstream for any number of workers, endpoints and        *)
(* queries: the index of the round robin stays in bounds whatever races for *)
(* it, calls that do not race rotate, and both resolvers keep the contract  *)
(* of Resolve.                                                              *)
(***************************************************************************)
EXTENDS DohUpstream, TLAPS

\* A worker has a query from Ask to Collect, and a result from its return on.
CallInv ==
  \A w \in Workers :
    /\ pc[w] = "ready" <=> query[w] = {}
    /\ pc[w] = "returned" <=> result[w] # {}

\* While the last turn was taken by a call on its own: either it has not written
\* the index yet and nobody else is there, or the index is one further.
TurnInv ==
  calm =>
    /\ \A w \in Workers : Taking(w) =>
         /\ turn = last /\ seen[w] = last
         /\ \A v \in Workers : Taking(v) => v = w
    /\ (\A w \in Workers : ~Taking(w)) => turn = (last + 1) % n

IInv == TypeOK /\ CallInv /\ TurnInv

Results == {Error} \cup
  [error : {FALSE}, to : Queries, answer : {"whole", "absent"},
   ns : {"whole", "absent"}, extra : {"whole", "absent"}, holed : BOOLEAN]

PCs == {"ready", "asked", "turn", "send", "returned", "panicked"}

\* The successor of an index is an index.
LEMMA TurnFacts ==
  ASSUME NEW m \in Nat \ {0}, NEW i \in 0..(m - 1)
  PROVE  (i + 1) % m \in 0..(m - 1)
OBVIOUS

\* After the last index comes the first.
LEMMA WrapFacts ==
  ASSUME NEW m \in Nat \ {0}
  PROVE  ((m - 1) + 1) % m = 0
OBVIOUS

\* The first turn is that of endpoint 0, as after the last endpoint.
LEMMA InitIInv == Init => IInv
<1> SUFFICES ASSUME Init PROVE IInv
  OBVIOUS
<1>1. n \in Nat \ {0} /\ n \in 1..MaxEndpoints
  BY UpstreamAssumption DEF UpstreamAssumption, Init
<1>2. 0 \in Endpoints /\ n - 1 \in Endpoints
  BY <1>1 DEF Endpoints
<1>3. TypeOK
  BY <1>1, <1>2 DEF Init, TypeOK
<1>4. TurnInv
  BY <1>1, WrapFacts DEF Init, TurnInv, Taking
<1>5. CallInv
  BY DEF Init, CallInv
<1> QED
  BY <1>3, <1>4, <1>5 DEF IInv

-----------------------------------------------------------------------------
(* Steps *)

\* What a call returns is a result, and leaves the round robin alone.
LEMMA ReturnIInv ==
  ASSUME IInv, NEW w \in Workers, NEW what \in Results, Return(w, what),
         ~Taking(w), pc[w] # "ready",
         UNCHANGED <<fixed, up, rotation, query>>
  PROVE  IInv'
<1> USE DEF IInv, fixed, rotation, Return
<1>1. TypeOK'
  <2>1. result \in [Workers -> SUBSET Results]
    BY DEF TypeOK, Results
  <2>2. result' \in [Workers -> SUBSET Results]
    BY <2>1
  <2>3. pc' \in [Workers -> PCs]
    BY DEF TypeOK, PCs
  <2> QED
    BY <2>2, <2>3 DEF TypeOK, Endpoints, Results, PCs
<1>2. CallInv'
  BY DEF CallInv, TypeOK, Taking
<1>3. TurnInv'
  BY DEF TurnInv, TypeOK, Taking
<1> QED
  BY <1>1, <1>2, <1>3

\* A call begins, and ends.
LEMMA AskIInv ==
  ASSUME IInv, NEW w \in Workers, Ask(w) \/ Collect(w)
  PROVE  IInv'
<1> USE DEF IInv, fixed, rotation
<1>1. CASE Ask(w)
  <2>1. TypeOK'
    BY <1>1 DEF TypeOK, Endpoints, Ask
  <2>2. CallInv'
    BY <1>1 DEF CallInv, TypeOK, Taking, Ask
  <2>3. TurnInv'
    BY <1>1 DEF TurnInv, TypeOK, Taking, Ask
  <2> QED
    BY <2>1, <2>2, <2>3
<1>2. CASE Collect(w)
  <2>1. TypeOK'
    BY <1>2 DEF TypeOK, Endpoints, Collect
  <2>2. CallInv'
    BY <1>2 DEF CallInv, TypeOK, Taking, Collect
  <2>3. TurnInv'
    BY <1>2 DEF TurnInv, TypeOK, Taking, Collect
  <2> QED
    BY <2>1, <2>2, <2>3
<1> QED
  BY <1>1, <1>2

\* A turn at a single endpoint, or the first read of the index.
LEMMA TakeIInv ==
  ASSUME IInv, NEW w \in Workers, OnlyEndpoint(w) \/ TakeTurn(w)
  PROVE  IInv'
<1> USE DEF IInv, fixed
<1>1. CASE OnlyEndpoint(w)
  <2>1. 0 \in Endpoints
    BY <1>1 DEF OnlyEndpoint, Endpoints
  <2>2. TypeOK'
    BY <1>1, <2>1 DEF TypeOK, Endpoints, OnlyEndpoint
  <2>3. CallInv'
    BY <1>1 DEF CallInv, TypeOK, Taking, OnlyEndpoint
  <2>4. TurnInv'
    BY <1>1 DEF TurnInv, TypeOK, Taking, OnlyEndpoint
  <2> QED
    BY <2>2, <2>3, <2>4
<1>2. CASE TakeTurn(w)
  <2>1. TypeOK'
    BY <1>2 DEF TypeOK, Endpoints, TakeTurn
  <2>2. CallInv'
    BY <1>2 DEF CallInv, TypeOK, Taking, TakeTurn
  <2>3. TurnInv'
    BY <1>2 DEF TurnInv, TypeOK, Taking, TakeTurn
  <2> QED
    BY <2>1, <2>2, <2>3
<1> QED
  BY <1>1, <1>2

\* The index is read again, or written.
LEMMA StoreIInv ==
  ASSUME IInv, NEW w \in Workers, RereadTurn(w) \/ StoreTurn(w)
  PROVE  IInv'
<1> USE DEF IInv, fixed
<1>1. CASE RereadTurn(w)
  <2>1. TypeOK'
    BY <1>1 DEF TypeOK, Endpoints, RereadTurn
  <2>2. CallInv'
    BY <1>1 DEF CallInv, TypeOK, Taking, RereadTurn
  <2>3. TurnInv'
    BY <1>1 DEF TurnInv, TypeOK, Taking, RereadTurn
  <2> QED
    BY <2>1, <2>2, <2>3
<1>2. CASE StoreTurn(w)
  <2>1. n \in Nat \ {0} /\ seen[w] \in 0..(n - 1)
    BY UpstreamAssumption DEF UpstreamAssumption, TypeOK, Endpoints
  <2>2. NextTurn(seen[w]) \in 0..(n - 1)
    BY <2>1, TurnFacts DEF NextTurn
  <2>3. TypeOK'
    BY <1>2, <2>2 DEF TypeOK, Endpoints, StoreTurn
  <2>4. CallInv'
    BY <1>2 DEF CallInv, TypeOK, Taking, StoreTurn
  <2>5. TurnInv'
    <3>1. calm => seen[w] = last /\ \A v \in Workers : Taking(v) => v = w
      BY <1>2 DEF TurnInv, StoreTurn
    <3>2. \A v \in Workers : Taking(v)' => v # w /\ Taking(v)
      BY <1>2 DEF TypeOK, Taking, StoreTurn
    <3>3. turn' = (seen[w] + 1) % n /\ UNCHANGED <<calm, last, n, seen>>
      BY <1>2 DEF StoreTurn, NextTurn
    <3> QED
      BY <3>1, <3>2, <3>3 DEF TurnInv
  <2> QED
    BY <2>3, <2>4, <2>5
<1> QED
  BY <1>1, <1>2

\* The documents that are accepted make results.
LEMMA ResponseFacts ==
  ASSUME NEW q \in Queries, NEW doc \in Documents
  PROVE  /\ Response(q, doc) \in Results
         /\ Accepted(doc) => doc.answer = TRUE
  BY DEF Documents, Response, Section, Results, Accepted, Whole

\* A request is made, or not, and something comes back, or not.
LEMMA SendIInv ==
  ASSUME IInv, NEW w \in Workers,
         PackFails(w) \/ SendFails(w) \/ Receive(w) \/ NullPanics(w)
  PROVE  IInv'
<1>1. Error \in Results
  BY DEF Results
<1>2. CASE PackFails(w) \/ SendFails(w)
  BY <1>1, <1>2, ReturnIInv DEF PackFails, SendFails, Taking
<1>3. CASE Receive(w)
  <2>1. PICK doc \in Documents, q \in query[w] :
          Return(w, IF Accepted(doc) THEN Response(q, doc) ELSE Error)
    BY <1>3 DEF Receive
  <2>2. q \in Queries
    BY DEF IInv, TypeOK
  <2>3. (IF Accepted(doc) THEN Response(q, doc) ELSE Error) \in Results
    BY <1>1, <2>2, ResponseFacts
  <2> QED
    BY <1>3, <2>1, <2>3, ReturnIInv DEF Receive, Sent, Taking
<1>4. CASE NullPanics(w)
  <2> USE DEF IInv, NullPanics, Sent, fixed, rotation
  <2>1. TypeOK'
    BY <1>4 DEF TypeOK, Endpoints
  <2>2. CallInv'
    BY <1>4 DEF CallInv, TypeOK, Taking
  <2>3. TurnInv'
    BY <1>4 DEF TurnInv, TypeOK, Taking
  <2> QED
    BY <2>1, <2>2, <2>3
<1> QED
  BY <1>2, <1>3, <1>4

\* Endpoints come and go.
LEMMA ToggleIInv ==
  ASSUME IInv, NEW e \in Endpoints, Toggle(e)
  PROVE  IInv'
<1> USE DEF IInv, Toggle, fixed, rotation
<1>1. TypeOK'
  BY DEF TypeOK, Endpoints
<1>2. CallInv' /\ TurnInv'
  BY DEF CallInv, TurnInv, Taking
<1> QED
  BY <1>1, <1>2

LEMMA NextIInv == IInv /\ [Next]_vars => IInv'
<1> SUFFICES ASSUME IInv, [Next]_vars PROVE IInv'
  OBVIOUS
<1>1. ASSUME NEW w \in Workers, Step(w) PROVE IInv'
  BY <1>1, AskIInv, TakeIInv, StoreIInv, SendIInv DEF Step, Compute
<1>2. CASE UNCHANGED vars
  BY <1>2 DEF vars, IInv, TypeOK, CallInv, TurnInv, Taking, Endpoints
<1> QED
  BY <1>1, <1>2, ToggleIInv DEF Next

-----------------------------------------------------------------------------
(* Theorems *)

\* nextEndpoint never indexes past its list, and every call is well typed, for
\* any number of workers and endpoints.
THEOREM TypeCorrect == Spec => []TypeOK
<1>1. IInv => TypeOK
  BY DEF IInv
<1> QED
  BY <1>1, InitIInv, NextIInv, PTL DEF Spec

\* Calls that do not race for nextEndpoint go to one endpoint after the other.
THEOREM Rotation == Spec => []TurnsRotate
<1>1. IInv => TurnsRotate
  BY DEF IInv, TurnInv, TurnsRotate
<1> QED
  BY <1>1, InitIInv, NextIInv, PTL DEF Spec

-----------------------------------------------------------------------------
(* Refinement: a call is asked from Ask to Collect; it returns by PackFails, *)
(* SendFails or Receive.                                                     *)

LEMMA InitRefines == Init => Contract!Init
  BY DEF Init, Contract!Init

\* Every step is a step of the contract or leaves its view unchanged.
LEMMA NextRefines ==
  ASSUME IInv, [Next]_vars
  PROVE  [Contract!Next]_(Contract!cvars)
<1> USE DEF fixed, rotation, Contract!cvars
<1>1. ASSUME NEW w \in Workers, Ask(w) PROVE Contract!Ask(w)
  BY <1>1 DEF Ask, IInv, CallInv, Contract!Ask
<1>2. ASSUME NEW w \in Workers, pc[w] \notin {"ready", "returned"}, Return(w, Error),
             UNCHANGED query
      PROVE  Contract!Fail(w)
  BY <1>2 DEF Return, IInv, CallInv, Contract!Fail, Error, Contract!Error
<1>3. ASSUME NEW w \in Workers, PackFails(w) \/ SendFails(w) PROVE Contract!Fail(w)
  BY <1>2, <1>3 DEF PackFails, SendFails
<1>4. ASSUME NEW w \in Workers, Receive(w) PROVE Contract!Fail(w) \/ Contract!Answer(w)
  <2>1. PICK doc \in Documents, q \in query[w] :
          Return(w, IF Accepted(doc) THEN Response(q, doc) ELSE Error)
    BY <1>4 DEF Receive
  <2>2. CASE ~Accepted(doc)
    BY <1>2, <1>4, <2>1, <2>2 DEF Receive, Sent
  <2>3. CASE Accepted(doc)
    <3>1. doc.answer = TRUE /\ q \in Queries
      BY <2>3, ResponseFacts DEF IInv, TypeOK
    <3>2. Section(doc.ns) \in {"whole", "absent"} /\ Section(doc.extra) \in {"whole", "absent"}
          /\ doc.holed \in BOOLEAN
      BY <2>1 DEF Section, Documents
    <3>3. Response(q, doc) = Contract!Response(q, Section(doc.ns), Section(doc.extra), doc.holed)
      BY <3>1 DEF Response, Section, Contract!Response
    <3>4. result' = [result EXCEPT ![w] = {Response(q, doc)}] /\ result[w] = {} /\ UNCHANGED query
      BY <1>4, <2>1, <2>3 DEF Return, Receive, Sent, IInv, CallInv
    <3> QED
      BY <3>2, <3>3, <3>4 DEF Contract!Answer
  <2> QED
    BY <2>2, <2>3
<1>5. ASSUME NEW w \in Workers, Collect(w) PROVE Contract!Collect(w)
  BY <1>5 DEF Collect, IInv, CallInv, Contract!Collect
<1>6. ASSUME NEW w \in Workers,
             \/ OnlyEndpoint(w) \/ TakeTurn(w) \/ RereadTurn(w) \/ StoreTurn(w) \/ NullPanics(w)
      PROVE  UNCHANGED <<query, result>>
  BY <1>6 DEF OnlyEndpoint, TakeTurn, RereadTurn, StoreTurn, NullPanics
<1>7. ASSUME NEW e \in Endpoints, Toggle(e) PROVE UNCHANGED <<query, result>>
  BY <1>7 DEF Toggle
<1>8. CASE UNCHANGED vars
  BY <1>8 DEF vars
<1> QED
  BY <1>1, <1>3, <1>4, <1>5, <1>6, <1>7, <1>8 DEF Next, Step, Compute, Contract!Next

\* Whatever the endpoints send, and however calls interleave, both DoH resolvers
\* keep the contract of Resolve.
THEOREM DohImplementsResolver == Spec => ImplementsResolver
<1>1. IInv /\ [Next]_vars => [Contract!Next]_(Contract!cvars)
  BY NextRefines
<1> QED
  BY <1>1, InitRefines, InitIInv, NextIInv, PTL DEF Spec, ImplementsResolver, Contract!Spec
=============================================================================
