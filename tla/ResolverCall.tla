---------------------------- MODULE ResolverCall ----------------------------
(***************************************************************************)
(* What a caller of Resolve is promised (resolver_i.go): a call that        *)
(* returns, returns an error or the response to its own query, with the     *)
(* whole answer section; each of the other sections is whole or absent,     *)
(* never a part of it.  A response may be holed: a record of one of its       *)
(* sections is nil, which its user must expect.  A call need not return.      *)
(***************************************************************************)
CONSTANTS
  Callers,
  Queries

VARIABLES
  asked,     \* of each caller: the query of its call, as a set of at most one
  returned   \* of each caller: what its call returned, as a set of at most one

Error == [error |-> TRUE]
Response(q, ns, extra, holed) ==
  [error |-> FALSE, to |-> q, answer |-> "whole", ns |-> ns, extra |-> extra,
   holed |-> holed]

cvars == <<asked, returned>>

Init ==
  /\ asked = [c \in Callers |-> {}]
  /\ returned = [c \in Callers |-> {}]

Ask(c) ==
  /\ asked[c] = {}
  /\ \E q \in Queries : asked' = [asked EXCEPT ![c] = {q}]
  /\ UNCHANGED returned

Fail(c) ==
  /\ asked[c] # {} /\ returned[c] = {}
  /\ returned' = [returned EXCEPT ![c] = {Error}]
  /\ UNCHANGED asked

Answer(c) ==
  /\ returned[c] = {}
  /\ \E q \in asked[c], ns, extra \in {"whole", "absent"}, holed \in BOOLEAN :
       returned' = [returned EXCEPT ![c] = {Response(q, ns, extra, holed)}]
  /\ UNCHANGED asked

Collect(c) ==
  /\ returned[c] # {}
  /\ asked' = [asked EXCEPT ![c] = {}]
  /\ returned' = [returned EXCEPT ![c] = {}]

Next == \E c \in Callers : Ask(c) \/ Fail(c) \/ Answer(c) \/ Collect(c)

Spec == Init /\ [][Next]_cvars
=============================================================================
