----------------------------- MODULE EcsLookup -----------------------------
(***************************************************************************)
(* What a multi-location address lookup promises its caller                *)
(* (resolveWithECSIPs, utils.go): each ECS IP of an ordered list gets its   *)
(* own upstream query; the caller receives the response of the FIRST IP of  *)
(* the list whose answer lies in that IP's country, whatever the order in   *)
(* which upstream answers; when there is none, some other response; and an  *)
(* error only when every query failed (utils.go:274).  A query that panics  *)
(* takes the caller with it.  No goroutine, channel or flag appears here:   *)
(* FanOut is the implementation.                                            *)
(***************************************************************************)
EXTENDS Naturals

CONSTANT N        \* number of ECS IPs

VARIABLES
  outcome,        \* outcome[i]: what upstream said for the i-th IP
  answered,       \* the caller has its result
  result          \* index of the response returned, 0 for an error

avars == <<outcome, answered, result>>

NotMatching == {"mismatch", "err"}

Init ==
  /\ outcome = [i \in 1..N |-> "none"]
  /\ answered = FALSE
  /\ result = 0

Upstream(i) ==
  /\ outcome[i] = "none"
  /\ \E v \in {"match", "mismatch", "err", "panic"} : outcome' = [outcome EXCEPT ![i] = v]
  /\ UNCHANGED <<answered, result>>

Alive == \A j \in 1..N : outcome[j] # "panic"

ReturnFirstMatch(i) ==
  /\ ~answered /\ Alive
  /\ outcome[i] = "match"
  /\ \A j \in 1..(i - 1) : outcome[j] \in NotMatching
  /\ answered' = TRUE
  /\ result' = i
  /\ UNCHANGED outcome

\* The responses without a record in the country of their IP.
Others == {j \in 1..N : outcome[j] = "mismatch"}

ReturnOther ==
  /\ ~answered
  /\ \A j \in 1..N : outcome[j] \in NotMatching
  /\ answered' = TRUE
  /\ result' \in IF Others = {} THEN {0} ELSE Others
  /\ UNCHANGED outcome

Next ==
  \/ \E i \in 1..N : Upstream(i) \/ ReturnFirstMatch(i)
  \/ ReturnOther

Spec == Init /\ [][Next]_avars
=============================================================================
