---------------------------- MODULE DohUpstream ----------------------------
(***************************************************************************)
(* The DoH resolvers' way to their upstreams: Resolve of the message        *)
(* resolver (resolver_doh_dnsmsg.go) and of the JSON resolver               *)
(* (resolver_doh_json.go).  Many calls are under way at once, one goroutine *)
(* (worker) each.  A call takes its turn at the endpoints, sends one HTTP   *)
(* request and returns what it makes of the reply; it never tries another   *)
(* endpoint, and without a total timeout it may wait for ever.              *)
(*                                                                         *)
(* What an endpoint sends is a document (a DNS message or a JSON object)    *)
(* whose sections parse or do not, the JSON value null, or something else.  *)
(* A JSON document is holed if dns.NewRR makes nothing of some record, which *)
(* is nil and no error.                                                     *)
(* The HTTP client and the endpoints are external.                          *)
(***************************************************************************)
EXTENDS Naturals

CONSTANTS
  Workers,
  Queries,
  Malformed,     \* queries whose name neither packs nor makes a URL
  MaxEndpoints

ASSUME UpstreamAssumption ==
  /\ Malformed \subseteq Queries
  /\ MaxEndpoints \in Nat \ {0}

VARIABLES
  kind,         \* "msg" or "json": which of the two resolvers this is
  n,            \* len(rsv.endpoints)
  up,           \* the endpoints that answer, and answer well
  turn,         \* initV_ of nextEndpoint
  pc,           \* of each worker: where it is
  seen, dest,   \* of each worker: the index as last read, its endpoint
  query,        \* of each worker: the query of its call, {} between calls
  result,       \* of each worker: what its call returned, {} before
  last, calm    \* history: the last turn taken; nobody else was taking one then

vars == <<kind, n, up, turn, pc, seen, dest, query, result, last, calm>>
fixed == <<kind, n>>
rotation == <<turn, seen, dest, last, calm>>

Endpoints == 0..(n - 1)

Section(parses) == IF parses THEN "whole" ELSE "absent"
Error == [error |-> TRUE]
Response(q, doc) ==
  [error |-> FALSE, to |-> q,
   answer |-> Section(doc.answer), ns |-> Section(doc.ns), extra |-> Section(doc.extra),
   holed |-> doc.holed]

Documents == [answer : BOOLEAN, ns : BOOLEAN, extra : BOOLEAN, holed : BOOLEAN]
Whole == [answer |-> TRUE, ns |-> TRUE, extra |-> TRUE, holed |-> FALSE]

Init ==
  /\ kind \in {"msg", "json"}
  /\ n \in 1..MaxEndpoints
  /\ up = Endpoints
  /\ turn = 0
  /\ pc = [w \in Workers |-> "ready"]
  /\ seen = [w \in Workers |-> 0]
  /\ dest = [w \in Workers |-> 0]
  /\ query = [w \in Workers |-> {}]
  /\ result = [w \in Workers |-> {}]
  /\ last = n - 1
  /\ calm = TRUE

-----------------------------------------------------------------------------
(* A call of Resolve *)

Return(w, what) ==
  /\ result' = [result EXCEPT ![w] = {what}]
  /\ pc' = [pc EXCEPT ![w] = "returned"]

Ask(w) ==
  /\ pc[w] = "ready"
  /\ \E q \in Queries : query' = [query EXCEPT ![w] = {q}]
  /\ pc' = [pc EXCEPT ![w] = "asked"]
  /\ UNCHANGED <<fixed, up, rotation, result>>

\* The message is packed before an endpoint is chosen; the JSON resolver has
\* nothing to pack.
PackFails(w) ==
  /\ pc[w] = "asked" /\ kind = "msg" /\ query[w] \subseteq Malformed
  /\ Return(w, Error)
  /\ UNCHANGED <<fixed, up, rotation, query>>

Packed(w) == kind = "json" \/ ~(query[w] \subseteq Malformed)

\* nextEndpoint.  A single endpoint is always the one.
OnlyEndpoint(w) ==
  /\ pc[w] = "asked" /\ Packed(w) /\ n = 1
  /\ dest' = [dest EXCEPT ![w] = 0]
  /\ pc' = [pc EXCEPT ![w] = "send"]
  /\ UNCHANGED <<fixed, up, turn, seen, query, result, last, calm>>

Taking(v) == pc[v] = "turn"

\* Otherwise the index is read for the endpoint ...
TakeTurn(w) ==
  /\ pc[w] = "asked" /\ Packed(w) /\ n > 1
  /\ dest' = [dest EXCEPT ![w] = turn]
  /\ seen' = [seen EXCEPT ![w] = turn]
  /\ last' = turn
  /\ calm' = (\A v \in Workers : ~Taking(v))
  /\ pc' = [pc EXCEPT ![w] = "turn"]
  /\ UNCHANGED <<fixed, up, turn, query, result>>

\* ... may be read again for its increment, or not (nothing orders the two reads
\* with those of other calls, so the compiler may keep the first) ...
RereadTurn(w) ==
  /\ Taking(w)
  /\ seen[w] # turn
  /\ seen' = [seen EXCEPT ![w] = turn]
  /\ UNCHANGED <<fixed, up, turn, pc, dest, query, result, last, calm>>

MUT_PastTheEnd(i) == i + 1
MUT_Stays(i) == i
MUT_SkipsOne(i) == (i + 2) % n
NextTurn(i) == (i + 1) % n

\* ... and is written.
StoreTurn(w) ==
  /\ Taking(w)
  /\ turn' = NextTurn(seen[w])
  /\ pc' = [pc EXCEPT ![w] = "send"]
  /\ UNCHANGED <<fixed, up, seen, dest, query, result, last, calm>>

\* url.Parse rejects a name the JSON resolver put into the URL, or the endpoint
\* itself; the client fails to connect; the status is 400 or more; the body ends
\* early or is no document.  An endpoint that is up does nothing of this.
SendFails(w) ==
  /\ pc[w] = "send"
  /\ dest[w] \notin up \/ query[w] \subseteq Malformed
  /\ Return(w, Error)
  /\ UNCHANGED <<fixed, up, rotation, query>>

\* The message resolver unpacks a message as a whole.  The JSON resolver insists
\* on the answer's records; records of the other sections that do not parse are
\* logged, and NsV and ExtraV then return nothing of their section.  It passes a
\* record that is nil on.
MUT_AnyAnswer(doc) == kind = "json" \/ doc = Whole
Accepted(doc) == IF kind = "json" THEN doc.answer ELSE doc = Whole

Sent(w) == pc[w] = "send" /\ ~(query[w] \subseteq Malformed)

Receive(w) ==
  /\ Sent(w)
  /\ \E doc \in Documents, q \in query[w] :
       /\ dest[w] \in up => doc = Whole
       /\ Return(w, IF Accepted(doc) THEN Response(q, doc) ELSE Error)
  /\ UNCHANGED <<fixed, up, rotation, query>>

\* Decoding null into &jsonRsp_ makes the pointer nil, and the next line reads
\* its Status: the call panics.  In a goroutine of the fan-out that is the end
\* of the process; a call made by a DoH handler itself ends with a 500.
NullPanics(w) ==
  /\ Sent(w) /\ kind = "json" /\ dest[w] \notin up
  /\ pc' = [pc EXCEPT ![w] = "panicked"]
  /\ UNCHANGED <<fixed, up, rotation, query, result>>

Collect(w) ==
  /\ pc[w] = "returned"
  /\ query' = [query EXCEPT ![w] = {}]
  /\ result' = [result EXCEPT ![w] = {}]
  /\ pc' = [pc EXCEPT ![w] = "ready"]
  /\ UNCHANGED <<fixed, up, rotation>>

-----------------------------------------------------------------------------
(* The endpoints *)

Toggle(e) ==
  /\ up' = IF e \in up THEN up \ {e} ELSE up \cup {e}
  /\ UNCHANGED <<fixed, rotation, pc, query, result>>

-----------------------------------------------------------------------------

Compute(w) ==
  \/ PackFails(w) \/ OnlyEndpoint(w) \/ TakeTurn(w) \/ StoreTurn(w) \/ Collect(w)

Step(w) ==
  \/ Ask(w) \/ Compute(w) \/ RereadTurn(w)
  \/ SendFails(w) \/ Receive(w) \/ NullPanics(w)

Next ==
  \/ \E w \in Workers : Step(w)
  \/ \E e \in Endpoints : Toggle(e)

Spec == Init /\ [][Next]_vars

\* The Go scheduler runs every worker, and an endpoint that is up and stays up
\* answers.  One that is down may leave a call waiting for ever.
Fairness ==
  \A w \in Workers :
    WF_vars(Compute(w)) /\ WF_vars(dest[w] \in up /\ (SendFails(w) \/ Receive(w)))

FairSpec == Spec /\ Fairness

-----------------------------------------------------------------------------
(* Properties *)

\* Type invariant; the round robin's index always names an endpoint.
TypeOK ==
  /\ kind \in {"msg", "json"} /\ n \in 1..MaxEndpoints
  /\ up \in SUBSET Endpoints
  /\ turn \in Endpoints /\ last \in Endpoints /\ calm \in BOOLEAN
  /\ pc \in [Workers -> {"ready", "asked", "turn", "send", "returned", "panicked"}]
  /\ seen \in [Workers -> Endpoints] /\ dest \in [Workers -> Endpoints]
  /\ query \in [Workers -> SUBSET Queries]
  /\ result \in [Workers -> SUBSET ({Error} \cup
       [error : {FALSE}, to : Queries, answer : {"whole", "absent"},
        ns : {"whole", "absent"}, extra : {"whole", "absent"}, holed : BOOLEAN])]

\* Both resolvers keep the contract of Resolve, whatever the endpoints send: a
\* response without the records of its answer is never passed on as an answer.
Contract == INSTANCE ResolverCall WITH Callers <- Workers, asked <- query, returned <- result
ImplementsResolver == Contract!Spec

\* Calls that do not race for the index rotate: if nobody else was taking a turn
\* when the last one was taken, and nobody is now, the next call is sent to the
\* endpoint after the last one's.
TurnsRotate ==
  n > 1 /\ calm /\ (\A w \in Workers : ~Taking(w)) => turn = (last + 1) % n

Race == \E w, v \in Workers : w # v /\ Taking(w) /\ Taking(v)
Answered(w) == \E r \in result[w] : ~r.error

\* One endpoint that works is enough for the service as a whole: if some endpoint
\* stays up, calls with a well-formed name go on being sent, and no two race for
\* the index, then again and again a call is answered, although each call tries
\* one endpoint only and the others may all fail.
ServedInTurn ==
  (\E e \in 0..(MaxEndpoints - 1) : <>[](e \in up /\ ~Race))
    /\ []<><<\E w \in Workers : pc[w] = "asked" /\ pc'[w] \in {"turn", "send"}>>_vars
    /\ <>[](\A w \in Workers : query[w] \intersect Malformed = {})
  => []<>(\E w \in Workers : Answered(w))
=============================================================================
