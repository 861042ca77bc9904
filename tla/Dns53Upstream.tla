--------------------------- MODULE Dns53Upstream ---------------------------
(***************************************************************************)
(* The dns53 resolver's way to its upstream: doQueryUpstream and the        *)
(* connection pool of newConnPool4Resolver (resolver_dns53_dnsmsg.go).      *)
(* Several queries are under way at once, one goroutine (worker) each; a    *)
(* worker takes an idle connection or dials the next endpoint, exchanges    *)
(* one message, and starts over on any error, for ever.  Endpoints go down  *)
(* and come back, connections are dropped, and a reply may arrive after its *)
(* reader has timed out.                                                    *)
(*                                                                         *)
(* The pool (github.com/buraksezer/connpool) is external: a fixed number of *)
(* slots, each free, idle or in the hands of one worker.  So is the message *)
(* exchange of github.com/miekg/dns: over TCP it takes the first reply on   *)
(* the connection and fails if its id is not the query's.                   *)
(***************************************************************************)
EXTENDS Naturals, Sequences, FiniteSets

CONSTANTS
  Workers,
  NumEndpoints,   \* len(dialParams_)
  NumSlots,       \* capacity of the pool, len(dialParams_)*128 in the code
  NumIdle,        \* connections dialled at startup, len(dialParams_)*8
  Ids,            \* message ids
  MaxQueries,     \* bound on the queries asked
  MaxFaults       \* bound on drops, late replies and endpoints going down

ASSUME PoolAssumption ==
  /\ NumEndpoints \in Nat \ {0}
  /\ NumSlots \in Nat \ {0} /\ NumIdle \in 0..NumSlots
  /\ Workers # {} /\ {"free", "idle"} \cap Workers = {}
  /\ MaxQueries \in Nat /\ MaxFaults \in Nat

Endpoints == 0..(NumEndpoints - 1)
Slots == 1..NumSlots
NoSlot == 0
Queries == [serial : 1..MaxQueries, id : Ids]
NoQuery == [serial |-> 0]
\* A message is unpacked as a whole or not at all.
Response(q) ==
  [error |-> FALSE, to |-> q, answer |-> "whole", ns |-> "whole", extra |-> "whole",
   holed |-> FALSE]

VARIABLES
  epUp,           \* the endpoints that accept and answer
  turn, seen,     \* initV_ of nextDailParams_; as each worker last read it
  slot,           \* "free", "idle" or the worker the connection is with
  peer,           \* the endpoint of the connection in each slot
  alive,          \* the connection has not been closed by the other side
  asked,          \* queries written to a connection and not yet replied to
  replies,        \* replies on their way to the reader
  pc, mine, dest, \* of each worker: where it is, its slot, the endpoint to dial
  query, got,     \* of each worker: what it asks, the query its reply is for
  issued,         \* queries begun
  faults          \* faults so far

net == <<epUp, peer, alive, asked, replies>>
vars == <<net, turn, seen, slot, pc, mine, dest, query, got, issued, faults>>

Init ==
  /\ epUp = Endpoints
  /\ turn = NumIdle % NumEndpoints
  /\ seen = [w \in Workers |-> 0]
  /\ slot = [s \in Slots |-> IF s <= NumIdle THEN "idle" ELSE "free"]
  /\ peer = [s \in Slots |-> IF s <= NumIdle THEN (s - 1) % NumEndpoints ELSE 0]
  /\ alive = [s \in Slots |-> s <= NumIdle]
  /\ asked = [s \in Slots |-> <<>>]
  /\ replies = [s \in Slots |-> <<>>]
  /\ pc = [w \in Workers |-> "ready"]
  /\ mine = [w \in Workers |-> NoSlot]
  /\ dest = [w \in Workers |-> 0]
  /\ query = [w \in Workers |-> NoQuery]
  /\ got = [w \in Workers |-> 0]
  /\ issued = 0
  /\ faults = 0

-----------------------------------------------------------------------------
(* A worker *)

\* A lookup calls Resolve, which builds a message with an id of its own.
Begin(w) ==
  /\ pc[w] = "ready" /\ issued < MaxQueries
  /\ \E id \in Ids : query' = [query EXCEPT ![w] = [serial |-> issued + 1, id |-> id]]
  /\ issued' = issued + 1
  /\ pc' = [pc EXCEPT ![w] = "get"]
  /\ UNCHANGED <<net, turn, seen, slot, mine, dest, got, faults>>

\* netConnPool.Get: an idle connection if there is one.
GetIdle(w) ==
  /\ pc[w] = "get"
  /\ \E s \in Slots :
       /\ slot[s] = "idle"
       /\ slot' = [slot EXCEPT ![s] = w]
       /\ mine' = [mine EXCEPT ![w] = s]
  /\ pc' = [pc EXCEPT ![w] = "write"]
  /\ UNCHANGED <<net, turn, seen, dest, query, got, issued, faults>>

\* Otherwise a free slot is taken for a new connection; if there is none the
\* worker waits in Get.
GetFree(w) ==
  /\ pc[w] = "get"
  /\ \A s \in Slots : slot[s] # "idle"
  /\ \E s \in Slots :
       /\ slot[s] = "free"
       /\ slot' = [slot EXCEPT ![s] = w]
       /\ mine' = [mine EXCEPT ![w] = s]
  /\ pc' = [pc EXCEPT ![w] = "dial"]
  /\ UNCHANGED <<net, turn, seen, dest, query, got, issued, faults>>

\* nextDailParams_ reads initV_ for the endpoint ...
TakeTurn(w) ==
  /\ pc[w] = "dial"
  /\ dest' = [dest EXCEPT ![w] = turn]
  /\ seen' = [seen EXCEPT ![w] = turn]
  /\ pc' = [pc EXCEPT ![w] = "bump"]
  /\ UNCHANGED <<net, turn, slot, mine, query, got, issued, faults>>

\* ... may read it again for the increment, or not (nothing orders the two reads with
\* those of other workers, so the compiler may keep the first) ...
RereadTurn(w) ==
  /\ pc[w] = "bump" /\ seen[w] # turn
  /\ seen' = [seen EXCEPT ![w] = turn]
  /\ UNCHANGED <<net, turn, slot, pc, mine, dest, query, got, issued, faults>>

MUT_NextTurn(i) == i + 1
MUT_SameTurn(i) == i
NextTurn(i) == (i + 1) % NumEndpoints

\* ... and writes it, and forgets what it read.
BumpTurn(w) ==
  /\ pc[w] = "bump"
  /\ turn' = NextTurn(seen[w])
  /\ seen' = [seen EXCEPT ![w] = 0]
  /\ pc' = [pc EXCEPT ![w] = "connect"]
  /\ UNCHANGED <<net, slot, mine, dest, query, got, issued, faults>>

Connect(w) ==
  /\ pc[w] = "connect" /\ dest[w] \in epUp
  /\ peer' = [peer EXCEPT ![mine[w]] = dest[w]]
  /\ alive' = [alive EXCEPT ![mine[w]] = TRUE]
  /\ pc' = [pc EXCEPT ![w] = "write"]
  /\ UNCHANGED <<epUp, asked, replies, turn, seen, slot, mine, dest, query, got, issued, faults>>

\* Get returns the dial's error and the loop continues.
DialFails(w) ==
  /\ pc[w] = "connect" /\ dest[w] \notin epUp
  /\ slot' = [slot EXCEPT ![mine[w]] = "free"]
  /\ mine' = [mine EXCEPT ![w] = NoSlot]
  /\ pc' = [pc EXCEPT ![w] = "get"]
  /\ UNCHANGED <<net, turn, seen, dest, query, got, issued, faults>>

\* ExchangeWithConn writes the query, or fails on a closed connection.  A name that
\* does not pack would fail here for ever; queries are asked with names that do.
Write(w) ==
  /\ pc[w] = "write"
  /\ IF alive[mine[w]]
     THEN /\ asked' = [asked EXCEPT ![mine[w]] = Append(@, query[w])]
          /\ pc' = [pc EXCEPT ![w] = "read"]
     ELSE /\ pc' = [pc EXCEPT ![w] = "failed"]
          /\ UNCHANGED asked
  /\ UNCHANGED <<epUp, peer, alive, replies, turn, seen, slot, mine, dest, query, got, issued, faults>>

\* It reads the first reply: the query's own by its id, or an error.  One that does
\* not unpack would be one more error.
Read(w) ==
  /\ pc[w] = "read"
  /\ LET s == mine[w] IN
       /\ replies[s] # <<>>
       /\ replies' = [replies EXCEPT ![s] = Tail(@)]
       /\ IF Head(replies[s]).id = query[w].id
          THEN /\ got' = [got EXCEPT ![w] = Head(replies[s]).serial]
               /\ pc' = [pc EXCEPT ![w] = "done"]
          ELSE /\ pc' = [pc EXCEPT ![w] = "failed"]
               /\ UNCHANGED got
  /\ UNCHANGED <<epUp, peer, alive, asked, turn, seen, slot, mine, dest, query, issued, faults>>

\* The read's deadline passes, or the connection turns out to be closed.  With
\* a peer that is there this is a fault: its reply is late.
Silent(s) == ~alive[s] \/ peer[s] \notin epUp
ReadFails(w) ==
  /\ pc[w] = "read"
  /\ replies[mine[w]] = <<>>
  /\ \/ Silent(mine[w]) /\ UNCHANGED faults
     \/ ~Silent(mine[w]) /\ faults < MaxFaults /\ faults' = faults + 1
  /\ pc' = [pc EXCEPT ![w] = "failed"]
  /\ UNCHANGED <<net, turn, seen, slot, mine, dest, query, got, issued>>

\* MarkUnusable and Close: the pool closes the connection and frees the slot.
MUT_DiscardedUsable(w) == "idle"
MUT_DiscardedOpen(w) == w
Discarded(w) == "free"

Discard(w) ==
  /\ pc[w] = "failed"
  /\ LET s == mine[w] IN
       /\ slot' = [slot EXCEPT ![s] = Discarded(w)]
       /\ IF Discarded(w) = "free"
          THEN /\ asked' = [asked EXCEPT ![s] = <<>>]
               /\ replies' = [replies EXCEPT ![s] = <<>>]
               /\ alive' = [alive EXCEPT ![s] = FALSE]
          ELSE UNCHANGED <<asked, replies, alive>>
  /\ mine' = [mine EXCEPT ![w] = NoSlot]
  /\ pc' = [pc EXCEPT ![w] = "get"]
  /\ UNCHANGED <<epUp, peer, turn, seen, dest, query, got, issued, faults>>

\* Close without MarkUnusable gives the connection back to the pool.
Finish(w) ==
  /\ pc[w] = "done"
  /\ slot' = [slot EXCEPT ![mine[w]] = "idle"]
  /\ mine' = [mine EXCEPT ![w] = NoSlot]
  /\ pc' = [pc EXCEPT ![w] = "ready"]
  /\ UNCHANGED <<net, turn, seen, dest, query, got, issued, faults>>

-----------------------------------------------------------------------------
(* The network *)

Reply(s) ==
  /\ alive[s] /\ peer[s] \in epUp /\ asked[s] # <<>>
  /\ replies' = [replies EXCEPT ![s] = Append(@, Head(asked[s]))]
  /\ asked' = [asked EXCEPT ![s] = Tail(@)]
  /\ UNCHANGED <<epUp, peer, alive, turn, seen, slot, pc, mine, dest, query, got, issued, faults>>

Drop(s) ==
  /\ faults < MaxFaults /\ alive[s]
  /\ alive' = [alive EXCEPT ![s] = FALSE]
  /\ faults' = faults + 1
  /\ UNCHANGED <<epUp, peer, asked, replies, turn, seen, slot, pc, mine, dest, query, got, issued>>

GoesDown(e) ==
  /\ faults < MaxFaults /\ e \in epUp
  /\ epUp' = epUp \ {e}
  /\ faults' = faults + 1
  /\ UNCHANGED <<peer, alive, asked, replies, turn, seen, slot, pc, mine, dest, query, got, issued>>

ComesBack(e) ==
  /\ e \in Endpoints \ epUp
  /\ epUp' = epUp \cup {e}
  /\ UNCHANGED <<peer, alive, asked, replies, turn, seen, slot, pc, mine, dest, query, got, issued, faults>>

-----------------------------------------------------------------------------

Exchange(w) == Write(w) \/ Read(w) \/ ReadFails(w) \/ Discard(w) \/ Finish(w)
Step(w) ==
  \/ GetIdle(w) \/ GetFree(w)
  \/ TakeTurn(w) \/ BumpTurn(w) \/ Connect(w) \/ DialFails(w)
  \/ Exchange(w)

Network ==
  \/ \E s \in Slots : Reply(s) \/ Drop(s)
  \/ \E e \in Endpoints : GoesDown(e) \/ ComesBack(e)

Terminated ==
  /\ issued = MaxQueries /\ \A w \in Workers : pc[w] = "ready"
  /\ UNCHANGED vars

Next ==
  \/ \E w \in Workers : Begin(w) \/ RereadTurn(w) \/ Step(w)
  \/ Network
  \/ Terminated

Spec == Init /\ [][Next]_vars

\* The Go scheduler runs every worker, deadlines pass, and an endpoint that is
\* up answers what it was asked.  Nothing makes an endpoint come back.
Fairness ==
  /\ \A w \in Workers : WF_vars(Step(w))
  /\ \A s \in Slots : WF_vars(Reply(s))

FairSpec == Spec /\ Fairness

-----------------------------------------------------------------------------
(* Properties *)

\* Type invariant.
TypeOK ==
  /\ epUp \in SUBSET Endpoints
  /\ turn \in Endpoints /\ seen \in [Workers -> Endpoints]
  /\ slot \in [Slots -> {"free", "idle"} \cup Workers]
  /\ peer \in [Slots -> Endpoints]
  /\ alive \in [Slots -> BOOLEAN]
  /\ asked \in [Slots -> Seq(Queries)] /\ replies \in [Slots -> Seq(Queries)]
  /\ pc \in [Workers -> {"ready", "get", "dial", "bump", "connect", "write", "read", "failed", "done"}]
  /\ mine \in [Workers -> Slots \cup {NoSlot}]
  /\ dest \in [Workers -> Endpoints]
  /\ query \in [Workers -> Queries \cup {NoQuery}]
  /\ got \in [Workers -> 0..MaxQueries]
  /\ issued \in 0..MaxQueries
  /\ faults \in 0..MaxFaults

\* A worker is never given the reply to another query, be it a late reply to
\* what an earlier user of the connection asked under the same message id.
AnswersOwnQuery ==
  \A w \in Workers : pc[w] = "done" => got[w] = query[w].serial

\* The resolver keeps the contract of Resolve: under whatever faults, a call that
\* returns returns the whole response to its own query.
Asked == [w \in Workers |-> IF pc[w] = "ready" THEN {} ELSE {query[w].serial}]
Returned == [w \in Workers |-> IF pc[w] = "done" THEN {Response(got[w])} ELSE {}]
Contract == INSTANCE ResolverCall WITH
  Callers <- Workers, Queries <- 1..MaxQueries, asked <- Asked, returned <- Returned
ImplementsResolver == Contract!Spec

\* Every slot of the pool in use is in use by exactly one worker that is busy
\* with it: whatever went wrong, no slot is lost and none is shared.
SlotsAccounted ==
  /\ \A w \in Workers :
       mine[w] = NoSlot <=> pc[w] \in {"ready", "get"}
  /\ \A w \in Workers : mine[w] # NoSlot => slot[mine[w]] = w
  /\ \A s \in Slots : slot[s] \in Workers => mine[slot[s]] = s

\* Two workers are between reading and writing the round robin's index.
Race == \E w, v \in Workers : w # v /\ pc[w] = "bump" /\ pc[v] = "bump"

\* If from some time on some endpoint is up, and no two workers race for the
\* round robin's index unless all are up, every query is answered: neither an
\* endpoint that stays down, nor the connections broken before, nor the workers
\* ahead in the pool hold it up for ever.
Completes ==
  <>[](epUp # {} /\ (Race => epUp = Endpoints)) => \A w \in Workers : []<>(pc[w] = "ready")
=============================================================================
