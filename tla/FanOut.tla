------------------------------- MODULE FanOut -------------------------------
(***************************************************************************)
(* resolveWithECSIPs (utils.go) from the point where it fans out: one       *)
(* goroutine and one unbuffered channel per ECS IP, a caller that receives  *)
(* from the channels in the order of the list, and the cleanup goroutine    *)
(* ("closer") started when a matching response ends the wait early.  The    *)
(* flag resultChanArrClosed_ is shared without synchronisation: each read   *)
(* and each write of it is a step of its own.                               *)
(*                                                                          *)
(* A panic in any of these goroutines is not recovered (gin's recovery      *)
(* covers the handler goroutine only), so it ends the process: `crashed`    *)
(* disables every action.                                                   *)
(***************************************************************************)
EXTENDS Naturals

CONSTANT N                          \* len(ecsIPs), not 0 past the early return
ASSUME NAssumption == N \in Nat \ {0}

IPs == 1..N

\* What Resolve and the country check of the goroutine come to: a response with
\* a record in the expected country, a response without one, an error, or a panic
\* of Resolve itself (the JSON resolver's, on the reply null).
MUT_Verdicts == {"match", "mismatch", "err", "panic", "nilrsp"}
Verdicts == {"match", "mismatch", "err", "panic"}

VARIABLES
  worker,         \* pc of the goroutine of each IP
  outcome,        \* verdict each goroutine reached, "none" while resolving
  main,           \* the caller: "wait" in the receive loop, then "returned"
  next,           \* loop index i of the receive loop
  last,           \* lastResult_: index of the response held, 0 for nil
  closedFlag,     \* resultChanArrClosed_
  closer,         \* pc of the cleanup goroutine
  cidx,           \* the channel the cleanup goroutine is at
  chanClosed,     \* which channels have been closed
  crashed         \* a goroutine panicked

vars == <<worker, outcome, main, next, last, closedFlag, closer, cidx,
          chanClosed, crashed>>

Init ==
  /\ worker = [i \in IPs |-> "resolving"]
  /\ outcome = [i \in IPs |-> "none"]
  /\ main = "wait"
  /\ next = 1
  /\ last = 0
  /\ closedFlag = FALSE
  /\ closer = "absent"
  /\ cidx = 1
  /\ chanClosed = [i \in IPs |-> FALSE]
  /\ crashed = FALSE

-----------------------------------------------------------------------------
(* The goroutine of one IP *)

Resolve(i) ==
  /\ ~crashed
  /\ worker[i] = "resolving"
  /\ \E v \in Verdicts :
       /\ outcome' = [outcome EXCEPT ![i] = v]
       /\ worker' = [worker EXCEPT ![i] = IF v = "panic" THEN "panicked" ELSE "check"]
       /\ crashed' = (v = "panic")
  /\ UNCHANGED <<main, next, last, closedFlag, closer, cidx, chanClosed>>

\* if !resultChanArrClosed_ : the same guard stands before each of the sends.
MustSend(i) == ~closedFlag

ReadFlag(i) ==
  /\ ~crashed
  /\ worker[i] = "check"
  /\ worker' = [worker EXCEPT ![i] = IF MustSend(i) THEN "send" ELSE "done"]
  /\ UNCHANGED <<outcome, main, next, last, closedFlag, closer, cidx, chanClosed, crashed>>

\* resultChan <- ... : a send on a closed channel panics; on an open one the
\* goroutine parks until somebody receives.
Send(i) ==
  /\ ~crashed
  /\ worker[i] = "send"
  /\ IF chanClosed[i]
     THEN crashed' = TRUE /\ UNCHANGED worker
     ELSE worker' = [worker EXCEPT ![i] = "parked"] /\ UNCHANGED crashed
  /\ UNCHANGED <<outcome, main, next, last, closedFlag, closer, cidx, chanClosed>>

-----------------------------------------------------------------------------
(* The caller *)

\* r := <-resultChanArr_[i] takes the channels strictly in list order.
MUT_Awaited(i) == next \in IPs
Awaited(i) == i = next

MUT_IsMatch(i) == outcome[i] # "err"
IsMatch(i) == outcome[i] = "match"

\* lastResult_ = rsp : the nil Rsp of a failed query overwrites what is held.
LastResult(i) == IF outcome[i] = "err" THEN 0 ELSE i

MUT_StartCloser == closer' = closer
StartCloser == closer' = "setflag"

Receive(i) ==
  /\ ~crashed
  /\ main = "wait"
  /\ Awaited(i)
  /\ worker[i] = "parked"
  /\ worker' = [worker EXCEPT ![i] = "done"]
  /\ last' = LastResult(i)
  /\ \/ /\ IsMatch(i)
        /\ main' = "returned"
        /\ StartCloser
        /\ UNCHANGED next
     \/ /\ ~IsMatch(i)
        /\ next' = next + 1
        /\ UNCHANGED <<main, closer>>
  /\ UNCHANGED <<outcome, closedFlag, cidx, chanClosed, crashed>>

\* The loop ended without a match: return lastResult_, or an error if nil.
GiveUp ==
  /\ ~crashed
  /\ main = "wait"
  /\ next = N + 1
  /\ main' = "returned"
  /\ UNCHANGED <<worker, outcome, next, last, closedFlag, closer, cidx, chanClosed, crashed>>

-----------------------------------------------------------------------------
(* The cleanup goroutine *)

SetFlag ==
  /\ ~crashed
  /\ closer = "setflag"
  /\ closedFlag' = TRUE
  /\ closer' = "poll"
  /\ UNCHANGED <<worker, outcome, main, next, last, cidx, chanClosed, crashed>>

\* case _ = <-c : a parked sender is let go, its result is dropped.
PollReceives ==
  /\ ~crashed
  /\ closer = "poll"
  /\ cidx \in IPs
  /\ worker[cidx] = "parked"
  /\ worker' = [worker EXCEPT ![cidx] = "done"]
  /\ cidx' = cidx + 1
  /\ UNCHANGED <<outcome, main, next, last, closedFlag, closer, chanClosed, crashed>>

\* default : nobody is parked NOW; close(c) is a later step.
PollEmpty ==
  /\ ~crashed
  /\ closer = "poll"
  /\ cidx \in IPs
  /\ worker[cidx] # "parked"
  /\ closer' = "close"
  /\ UNCHANGED <<worker, outcome, main, next, last, closedFlag, cidx, chanClosed, crashed>>

\* close(c) makes a sender that parked meanwhile panic.
CloseChan ==
  /\ ~crashed
  /\ closer = "close"
  /\ chanClosed' = [chanClosed EXCEPT ![cidx] = TRUE]
  /\ crashed' = (worker[cidx] = "parked")
  /\ closer' = "poll"
  /\ cidx' = cidx + 1
  /\ UNCHANGED <<worker, outcome, main, next, last, closedFlag>>

CloserEnds ==
  /\ ~crashed
  /\ closer = "poll"
  /\ cidx = N + 1
  /\ closer' = "ended"
  /\ UNCHANGED <<worker, outcome, main, next, last, closedFlag, cidx, chanClosed, crashed>>

-----------------------------------------------------------------------------

AllDone == \A i \in IPs : worker[i] = "done"

\* Nothing is left to run: the lookup is over or the process is gone.
Terminated ==
  /\ crashed \/ (main = "returned" /\ AllDone /\ closer \in {"absent", "ended"})
  /\ UNCHANGED vars

Sched(i) == ReadFlag(i) \/ Send(i) \/ Receive(i)
CloserStep == SetFlag \/ PollReceives \/ PollEmpty \/ CloseChan \/ CloserEnds

Next ==
  \/ \E i \in IPs : Resolve(i) \/ Sched(i)
  \/ GiveUp
  \/ CloserStep
  \/ Terminated

Spec == Init /\ [][Next]_vars

\* The Go scheduler runs every runnable goroutine.  Nothing is assumed of
\* Resolve: an upstream call may never return.
Fairness ==
  /\ \A i \in IPs : WF_vars(ReadFlag(i)) /\ WF_vars(Send(i)) /\ WF_vars(Receive(i))
  /\ WF_vars(GiveUp)
  /\ WF_vars(CloserStep)

FairSpec == Spec /\ Fairness

-----------------------------------------------------------------------------
(* Properties *)

\* Type invariant.
TypeOK ==
  /\ worker \in [IPs -> {"resolving", "check", "send", "parked", "done", "panicked"}]
  /\ outcome \in [IPs -> {"none", "match", "mismatch", "err", "panic"}]
  /\ main \in {"wait", "returned"}
  /\ next \in 1..(N + 1)
  /\ last \in 0..N
  /\ closedFlag \in BOOLEAN
  /\ closer \in {"absent", "setflag", "poll", "close", "ended"}
  /\ cidx \in 1..(N + 1)
  /\ closer = "close" => cidx \in IPs
  /\ chanClosed \in [IPs -> BOOLEAN]
  /\ crashed \in BOOLEAN

\* The result is a function of the upstream outcomes and the list order, never
\* of the scheduling: the first IP with a matching response wins even when
\* later ones answered long before (utils.go, the receive loop).  Without a match
\* it is what the last query of the list came to.
FirstMatchWins ==
  main = "returned" =>
    \/ /\ last \in IPs
       /\ outcome[last] = "match"
       /\ \A j \in 1..(last - 1) : outcome[j] \in {"mismatch", "err"}
    \/ /\ \A j \in IPs : outcome[j] \in {"mismatch", "err"}
       /\ last = LastResult(N)

\* Some goroutine's Resolve panicked.
ResolvePanicked == \E i \in IPs : outcome[i] = "panic"

\* Any other panic is the fan-out's own, and needs a lookup that already returned
\* a matching response AND a goroutine after it in the list that passed the flag
\* check before the flag was set: unless a Resolve panics, a lookup without a match
\* can never bring the process down.
SendPanicNeedsStraggler ==
  crashed /\ ~ResolvePanicked =>
    /\ main = "returned" /\ last \in IPs /\ outcome[last] = "match"
    /\ \E i \in IPs : i > last /\ worker[i] \in {"send", "parked"} /\ chanClosed[i]

\* utils.go:274 "If all resolves are failed, return nil": a lookup fails only if
\* every query did.
FailsOnlyIfAllFail ==
  main = "returned" /\ last = 0 => \A i \in IPs : outcome[i] = "err"

\* The returns that break it: a usable response was received and lost again.
LostResponse == main = "returned" /\ last = 0 /\ \E i \in IPs : outcome[i] = "mismatch"

\* But for these, FanOut implements EcsLookup: channels, flag and cleanup are
\* invisible in what the caller gets.
Answered == main = "returned" /\ ~LostResponse
Lookup == INSTANCE EcsLookup WITH
            answered <- Answered, result <- IF Answered THEN last ELSE 0
ImplementsLookup == Lookup!Spec

\* Once every upstream call has returned, the caller gets its result, and no
\* goroutine stays blocked on its channel for ever: the early return leaks nothing.
NoGoroutineLeak ==
  (\A i \in IPs : outcome[i] # "none") ~> ((main = "returned" /\ AllDone) \/ crashed)

\* utils.go:256 "close the channel to indicate that the goroutine is done":
\* a goroutine whose channel is closed has no send left to make.
ClosedMeansDone ==
  ~(\E i \in IPs : chanClosed[i] /\ worker[i] \in {"send", "parked"})
=============================================================================
