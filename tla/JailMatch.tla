----------------------------- MODULE JailMatch -----------------------------
(***************************************************************************)
(* IsNameInJailOfCountry (config.go): is a name matched by one of the       *)
(* regular expressions listed for a country?  One goroutine per expression  *)
(* reports into the buffered channel chRet_, a collector goroutine reads it *)
(* until the first match or until everybody has reported, and the caller    *)
(* waits on chFinal_.  The flag ret_ is shared without synchronisation.     *)
(*                                                                         *)
(* The contents of chRet_ are the set of the expressions whose report is    *)
(* buffered: the reports are single Booleans sent by goroutines in an       *)
(* arbitrary order, so every order of receiving them is one of the code's.  *)
(***************************************************************************)
EXTENDS Naturals, FiniteSets

CONSTANT Regexps                    \* the compiled expressions of the configuration
ASSUME RegexpsAssumption == IsFiniteSet(Regexps)

VARIABLES
  listed,         \* regexps_ = NamesInJailConfig[countryCode], {} if no such key
  matching,       \* those of them that match the name
  worker,         \* pc of the goroutine of each expression
  chRet,          \* the reports buffered in chRet_
  seen,           \* loop index i of the collector
  ret,            \* ret_
  collector,      \* pc of the collector goroutine
  main,           \* the caller: "wait" on chFinal_, then "returned"
  result          \* what it returned

matchVars == <<listed, matching, worker, chRet, seen, ret, collector, main, result>>

Capacity == Cardinality(listed)

\* The expressions whose match can be reported: those of this country alone.
MUT_Matchable == Regexps
Matchable == listed

MatchInit ==
  /\ listed \in SUBSET Regexps
  /\ matching \in SUBSET Matchable
  /\ worker = [r \in listed |-> "check"]
  /\ chRet = {}
  /\ seen = 0
  /\ ret = FALSE
  /\ collector = IF listed = {} THEN "absent" ELSE "recv"
  /\ main = IF listed = {} THEN "returned" ELSE "wait"
  /\ result = FALSE

-----------------------------------------------------------------------------
(* The goroutine of one expression *)

\* if ret_ { return }, after the match has been computed.
ReadRet(r) ==
  /\ worker[r] = "check"
  /\ worker' = [worker EXCEPT ![r] = IF ret THEN "quit" ELSE "send"]
  /\ UNCHANGED <<listed, matching, chRet, seen, ret, collector, main, result>>

\* chRet_ <- matched_ blocks while the buffer is full.
Report(r) ==
  /\ worker[r] = "send"
  /\ Cardinality(chRet) < Capacity
  /\ chRet' = chRet \cup {r}
  /\ worker' = [worker EXCEPT ![r] = "sent"]
  /\ UNCHANGED <<listed, matching, seen, ret, collector, main, result>>

-----------------------------------------------------------------------------
(* The collector *)

\* for i := 0; i < len(regexps_); i++
MUT_MoreToCome == seen + 1 < Cardinality(listed)
MoreToCome == seen < Cardinality(listed)

\* <-chRet_ is false: next i.
CollectFalse ==
  /\ collector = "recv" /\ MoreToCome
  /\ \E r \in chRet \ matching : chRet' = chRet \ {r}
  /\ seen' = seen + 1
  /\ UNCHANGED <<listed, matching, worker, ret, collector, main, result>>

\* <-chRet_ is true: ret_ is set in the next step.
CollectTrue ==
  /\ collector = "recv" /\ MoreToCome
  /\ \E r \in chRet \cap matching : chRet' = chRet \ {r}
  /\ collector' = "setret"
  /\ UNCHANGED <<listed, matching, worker, seen, ret, main, result>>

SetRet ==
  /\ collector = "setret"
  /\ ret' = TRUE
  /\ collector' = "drain"
  /\ UNCHANGED <<listed, matching, worker, chRet, seen, main, result>>

DrainOne ==
  /\ collector = "drain"
  /\ \E r \in chRet : chRet' = chRet \ {r}
  /\ UNCHANGED <<listed, matching, worker, seen, ret, collector, main, result>>

\* default: nothing is buffered now; a late report stays in the buffer.
MUT_AfterDrain == "recv"
AfterDrain == "final"

DrainEmpty ==
  /\ collector = "drain"
  /\ chRet = {}
  /\ collector' = AfterDrain
  /\ UNCHANGED <<listed, matching, worker, chRet, seen, ret, main, result>>

LoopEnds ==
  /\ collector = "recv" /\ ~MoreToCome
  /\ collector' = "final"
  /\ UNCHANGED <<listed, matching, worker, chRet, seen, ret, main, result>>

\* chFinal_ <- true meets <-chFinal_, and the caller returns ret_.
Return ==
  /\ collector = "final" /\ main = "wait"
  /\ collector' = "done"
  /\ main' = "returned"
  /\ result' = ret
  /\ UNCHANGED <<listed, matching, worker, chRet, seen, ret>>

-----------------------------------------------------------------------------

AllEnded == \A r \in listed : worker[r] \in {"sent", "quit"}

Terminated ==
  /\ main = "returned" /\ AllEnded
  /\ UNCHANGED matchVars

Collect == CollectFalse \/ CollectTrue \/ SetRet \/ DrainOne \/ DrainEmpty \/ LoopEnds \/ Return

MatchNext ==
  \/ \E r \in listed : ReadRet(r) \/ Report(r)
  \/ Collect
  \/ Terminated

MatchSpec == MatchInit /\ [][MatchNext]_matchVars

\* The Go scheduler runs every runnable goroutine, and matching terminates.
Fairness ==
  /\ WF_matchVars(Collect)
  /\ \A r \in Regexps : WF_matchVars(r \in listed /\ (ReadRet(r) \/ Report(r)))

FairSpec == MatchSpec /\ Fairness

-----------------------------------------------------------------------------
(* Properties *)

\* Type invariant.
MatchTypeOK ==
  /\ listed \in SUBSET Regexps
  /\ matching \in SUBSET listed
  /\ worker \in [listed -> {"check", "send", "sent", "quit"}]
  /\ chRet \in SUBSET listed
  /\ seen \in 0..Cardinality(listed)
  /\ ret \in BOOLEAN
  /\ collector \in {"absent", "recv", "setret", "drain", "final", "done"}
  /\ main \in {"wait", "returned"}
  /\ result \in BOOLEAN

\* The verdict is that of the sequential definition, "some listed expression
\* matches", although goroutines that see ret_ set leave without a report and
\* the collector discards the reports it drains.
VerdictCorrect == main = "returned" => (result <=> matching # {})

\* The buffer always has room for a goroutine about to report, whatever the
\* collector is doing: none is held up by a collector that stopped reading.
ReportNeverBlocks ==
  (\E r \in listed : worker[r] = "send") => Cardinality(chRet) < Capacity

\* The caller always gets its verdict, and every goroutine ends: the collector
\* is never left waiting for the report of a goroutine that has left, nor a
\* goroutine for a collector that has.
GoroutinesEnd == <>(main = "returned" /\ AllEnded)
=============================================================================
