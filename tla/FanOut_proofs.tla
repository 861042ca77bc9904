---------------------------- MODULE FanOut_proofs ----------------------------
(***************************************************************************)
(* Proofs about FanOut for every number N of ECS IPs: type correctness, the *)
(* result is the first match of the list, a panic of its own needs an early *)
(* return and a straggler, and FanOut implements EcsLookup except where it  *)
(* loses a response.                                                        *)
(*                                                                         *)
(* The inductive invariant splits on the caller: while it waits, nobody has *)
(* touched the flag or a channel and exactly the IPs before `next` are      *)
(* done, none of them a match; once it has returned, the result is frozen   *)
(* and only goroutines behind a match can still be alive.                   *)
(*                                                                         *)
(* The last section is about the end of the goroutines: none that is parked *)
(* is forgotten, somebody can move until all have ended, and each step      *)
(* lowers a rank.                                                           *)
(***************************************************************************)
EXTENDS FanOut, TLAPS

\* A goroutine has no verdict exactly while it is resolving.
VerdictInv == \A i \in IPs : outcome[i] = "none" <=> worker[i] = "resolving"

\* A Resolve that panics takes the process with it.
PanicInv == \A i \in IPs : outcome[i] = "panic" => crashed /\ worker[i] = "panicked"

\* While the caller waits there has been no cleanup, and the loop index
\* separates the IPs received (all without a match) from the others.
WaitInv ==
  main = "wait" =>
    /\ ~closedFlag /\ closer = "absent"
    /\ crashed => ResolvePanicked
    /\ \A i \in IPs : ~chanClosed[i]
    /\ \A i \in 1..(next - 1) : worker[i] = "done" /\ outcome[i] \in {"mismatch", "err"}
    /\ \A i \in IPs : i >= next => worker[i] # "done"
    /\ next > 1 => last = LastResult(next - 1)
    /\ next = 1 => last = 0

\* After the return: either a match was found at `last` and everything up to
\* it is done, or every goroutine is done and no cleanup ever starts.
ReturnInv ==
  main = "returned" =>
    \/ /\ last \in IPs
       /\ outcome[last] = "match"
       /\ \A j \in 1..(last - 1) : outcome[j] \in {"mismatch", "err"}
       /\ \A j \in 1..last : worker[j] = "done"
    \/ /\ \A j \in IPs : outcome[j] \in {"mismatch", "err"} /\ worker[j] = "done"
       /\ last = LastResult(N)
       /\ ~crashed /\ closer = "absent"

IInv ==
  TypeOK /\ VerdictInv /\ PanicInv /\ WaitInv /\ ReturnInv /\ SendPanicNeedsStraggler

-----------------------------------------------------------------------------

\* The initial state is well typed.
LEMMA InitTypeOK == Init => TypeOK
<1> SUFFICES ASSUME Init PROVE TypeOK
  OBVIOUS
<1>1. 1 \in 1..(N + 1) /\ 0 \in 0..N
  BY NAssumption DEF NAssumption
<1> QED
  BY <1>1 DEF Init, TypeOK

\* Every step keeps the state well typed.
LEMMA NextTypeOK == TypeOK /\ [Next]_vars => TypeOK'
<1> SUFFICES ASSUME TypeOK, [Next]_vars PROVE TypeOK'
  OBVIOUS
<1> USE NAssumption DEF NAssumption, TypeOK, IPs
<1>1. ASSUME NEW i \in IPs, Resolve(i) PROVE TypeOK'
  BY <1>1 DEF Resolve, Verdicts
<1>2. ASSUME NEW i \in IPs, ReadFlag(i) PROVE TypeOK'
  BY <1>2 DEF ReadFlag
<1>3. ASSUME NEW i \in IPs, Send(i) PROVE TypeOK'
  BY <1>3 DEF Send
<1>4. ASSUME NEW i \in IPs, Receive(i) PROVE TypeOK'
  <2>1. next = i /\ last' \in 0..N /\ worker' \in [IPs -> {"resolving", "check", "send", "parked", "done", "panicked"}]
    BY <1>4 DEF Receive, Awaited, LastResult
  <2>2. CASE IsMatch(i)
    BY <1>4, <2>1, <2>2 DEF Receive, StartCloser
  <2>3. CASE ~IsMatch(i)
    BY <1>4, <2>1, <2>3 DEF Receive
  <2> QED BY <2>2, <2>3
<1>5. CASE GiveUp
  BY <1>5 DEF GiveUp
<1>6. CASE SetFlag
  BY <1>6 DEF SetFlag
<1>7. CASE PollReceives
  BY <1>7 DEF PollReceives
<1>8. CASE PollEmpty
  BY <1>8 DEF PollEmpty
<1>9. CASE CloseChan
  BY <1>9 DEF CloseChan
<1>10. CASE CloserEnds
  BY <1>10 DEF CloserEnds
<1>11. CASE UNCHANGED vars
  BY <1>11 DEF vars
<1> QED
  BY <1>1, <1>2, <1>3, <1>4, <1>5, <1>6, <1>7, <1>8, <1>9, <1>10, <1>11
  DEF Next, Sched, CloserStep, Terminated

\* No goroutine is ever in a state its channel or its verdict contradicts.
THEOREM TypeCorrect == Spec => []TypeOK
  BY InitTypeOK, NextTypeOK, PTL DEF Spec

-----------------------------------------------------------------------------

\* The invariant holds initially.
LEMMA InitIInv == Init => IInv
<1> SUFFICES ASSUME Init PROVE IInv
  OBVIOUS
<1>1. 1..(1 - 1) = {}
  OBVIOUS
<1>2. VerdictInv /\ PanicInv /\ ReturnInv /\ SendPanicNeedsStraggler
  BY DEF Init, VerdictInv, PanicInv, ReturnInv, SendPanicNeedsStraggler
<1>3. WaitInv
  BY <1>1 DEF Init, WaitInv
<1> QED
  BY <1>2, <1>3, InitTypeOK DEF IInv

\* A goroutine that resolves keeps the invariant: it was not done, so it is
\* behind the loop index, or behind the match.
LEMMA ResolveIInv ==
  ASSUME IInv, TypeOK', NEW i \in IPs, Resolve(i)
  PROVE  IInv'
<1> USE NAssumption DEF NAssumption, IPs
<1>1. PICK v \in Verdicts :
        /\ outcome' = [outcome EXCEPT ![i] = v]
        /\ worker' = [worker EXCEPT ![i] = IF v = "panic" THEN "panicked" ELSE "check"]
        /\ crashed' = (v = "panic")
  BY DEF Resolve
<1>2. /\ UNCHANGED <<main, next, last, closedFlag, closer, cidx, chanClosed>>
      /\ worker[i] = "resolving" /\ outcome[i] = "none" /\ ~crashed
      /\ outcome'[i] = v /\ \A j \in IPs : j # i => outcome'[j] = outcome[j]
      /\ worker'[i] \in {"check", "panicked"} /\ \A j \in IPs : j # i => worker'[j] = worker[j]
  BY <1>1 DEF Resolve, IInv, TypeOK, VerdictInv
<1>3. VerdictInv'
  BY <1>1, <1>2 DEF IInv, VerdictInv, Verdicts
<1>4. PanicInv'
  BY <1>1, <1>2 DEF IInv, TypeOK, PanicInv
<1>5. crashed' => ResolvePanicked'
  BY <1>1, <1>2 DEF ResolvePanicked
<1>6. WaitInv'
  <2>1. ASSUME main = "wait"
        PROVE  /\ \A j \in 1..(next - 1) : j \in IPs /\ j # i
               /\ \A j \in IPs : j >= next => worker'[j] # "done"
    BY <1>2, <2>1 DEF IInv, TypeOK, WaitInv
  <2>2. ASSUME main = "wait", next > 1 PROVE LastResult(next - 1)' = LastResult(next - 1)
    <3>1. next' = next /\ next - 1 \in 1..(next - 1)
      BY <1>2, <2>2 DEF IInv, TypeOK
    <3>2. outcome'[next - 1] = outcome[next - 1]
      BY <1>2, <2>1, <2>2, <3>1
    <3> QED
      BY <3>1, <3>2 DEF LastResult
  <2> QED
    BY <1>2, <1>5, <2>1, <2>2 DEF IInv, TypeOK, WaitInv
<1>7. ReturnInv'
  BY <1>2 DEF IInv, TypeOK, ReturnInv
<1>8. SendPanicNeedsStraggler'
  BY <1>5 DEF SendPanicNeedsStraggler
<1> QED
  BY <1>3, <1>4, <1>6, <1>7, <1>8 DEF IInv

\* The flag check and the send of a goroutine keep the invariant.
LEMMA WorkerIInv ==
  ASSUME IInv, TypeOK', NEW i \in IPs, ReadFlag(i) \/ Send(i)
  PROVE  IInv'
<1> USE NAssumption DEF NAssumption, IPs
<1>1. outcome' = outcome /\ main' = main /\ next' = next /\ last' = last /\ ~crashed
      /\ closedFlag' = closedFlag /\ closer' = closer /\ chanClosed' = chanClosed
  BY DEF ReadFlag, Send
<1>2. VerdictInv' /\ PanicInv'
  BY <1>1 DEF IInv, TypeOK, VerdictInv, PanicInv, ReadFlag, Send
<1>3. WaitInv'
  BY <1>1 DEF IInv, TypeOK, WaitInv, ReadFlag, Send, MustSend, LastResult
<1>4. ReturnInv'
  BY <1>1 DEF IInv, TypeOK, ReturnInv, ReadFlag, Send, LastResult
<1>5. SendPanicNeedsStraggler'
  <2>1. CASE ~crashed'
    BY <2>1 DEF SendPanicNeedsStraggler
  <2>2. CASE crashed'
    <3>1. worker[i] = "send" /\ chanClosed[i] /\ worker' = worker
      BY <2>2 DEF ReadFlag, Send
    <3>2. main = "returned"
      BY <3>1 DEF IInv, TypeOK, WaitInv
    <3> QED
      BY <1>1, <3>1, <3>2 DEF IInv, TypeOK, ReturnInv, SendPanicNeedsStraggler
  <2> QED BY <2>1, <2>2
<1> QED
  BY <1>2, <1>3, <1>4, <1>5 DEF IInv

\* A receive either freezes the result at the first match or extends the
\* prefix of IPs known not to match.
LEMMA ReceiveIInv ==
  ASSUME IInv, TypeOK', NEW i \in IPs, Receive(i)
  PROVE  IInv'
<1> USE NAssumption DEF NAssumption, IPs
<1>1. /\ main = "wait" /\ next = i /\ worker[i] = "parked" /\ ~crashed
      /\ last' = LastResult(i) /\ outcome' = outcome /\ closedFlag' = closedFlag
      /\ chanClosed' = chanClosed /\ crashed' = crashed
      /\ worker' = [worker EXCEPT ![i] = "done"]
  BY DEF Receive, Awaited
<1>2. outcome[i] \in {"match", "mismatch", "err"}
  BY <1>1 DEF IInv, TypeOK, VerdictInv, PanicInv
<1>3. VerdictInv' /\ PanicInv'
  BY <1>1 DEF IInv, TypeOK, VerdictInv, PanicInv
<1>4. SendPanicNeedsStraggler'
  BY <1>1 DEF SendPanicNeedsStraggler
<1>5. CASE IsMatch(i)
  <2>1. main' = "returned" /\ next' = next /\ last' = i /\ outcome[i] = "match"
    BY <1>1, <1>5 DEF Receive, IsMatch, LastResult
  <2>2. WaitInv'
    BY <2>1 DEF WaitInv
  <2>3. ReturnInv'
    BY <1>1, <2>1 DEF IInv, TypeOK, WaitInv, ReturnInv
  <2> QED
    BY <1>3, <1>4, <2>2, <2>3 DEF IInv
<1>6. CASE ~IsMatch(i)
  <2>1. main' = main /\ next' = next + 1 /\ closer' = closer
    BY <1>1, <1>6 DEF Receive
  <2>2. outcome[i] \in {"mismatch", "err"}
    BY <1>2, <1>6 DEF IsMatch
  <2>3. WaitInv'
    BY <1>1, <2>1, <2>2 DEF IInv, TypeOK, WaitInv, LastResult
  <2>4. ReturnInv'
    BY <1>1, <2>1 DEF ReturnInv
  <2> QED
    BY <1>3, <1>4, <2>3, <2>4 DEF IInv
<1> QED
  BY <1>5, <1>6

\* Giving up happens after all N receives, so every goroutine is done.
LEMMA GiveUpIInv ==
  ASSUME IInv, TypeOK', GiveUp
  PROVE  IInv'
<1> USE NAssumption DEF NAssumption, IPs
<1>1. /\ main = "wait" /\ next = N + 1 /\ main' = "returned" /\ ~crashed
      /\ UNCHANGED <<worker, outcome, next, last, closedFlag, closer, cidx, chanClosed, crashed>>
  BY DEF GiveUp
<1>2. VerdictInv' /\ PanicInv' /\ WaitInv'
  BY <1>1 DEF IInv, VerdictInv, PanicInv, WaitInv
<1>4. SendPanicNeedsStraggler'
  BY <1>1 DEF GiveUp, SendPanicNeedsStraggler
<1>3. ReturnInv'
  BY <1>1 DEF IInv, TypeOK, WaitInv, ReturnInv, LastResult
<1> QED
  BY <1>2, <1>3, <1>4 DEF IInv

\* The cleanup goroutine exists only behind a match, and the goroutines it
\* lets go or panics are behind it in the list.
LEMMA CloserIInv ==
  ASSUME IInv, TypeOK', CloserStep
  PROVE  IInv'
<1> USE NAssumption DEF NAssumption, IPs
<1>1. /\ closer # "absent" /\ ~crashed
      /\ UNCHANGED <<outcome, main, next, last>>
      /\ \/ worker' = worker
         \/ cidx \in IPs /\ worker[cidx] = "parked" /\ worker' = [worker EXCEPT ![cidx] = "done"]
  BY DEF CloserStep, SetFlag, PollReceives, PollEmpty, CloseChan, CloserEnds
<1>2. main = "returned"
  BY <1>1 DEF IInv, TypeOK, WaitInv
<1>3. /\ last \in IPs /\ outcome[last] = "match"
      /\ \A j \in 1..(last - 1) : outcome[j] \in {"mismatch", "err"}
      /\ \A j \in 1..last : worker[j] = "done"
  BY <1>1, <1>2 DEF IInv, ReturnInv
<1>4. VerdictInv' /\ PanicInv'
  BY <1>1 DEF IInv, TypeOK, VerdictInv, PanicInv
<1>5. WaitInv' /\ ReturnInv'
  BY <1>1, <1>2, <1>3 DEF IInv, TypeOK, WaitInv, ReturnInv
<1>6. SendPanicNeedsStraggler'
  <2>1. CASE ~crashed'
    BY <2>1 DEF SendPanicNeedsStraggler
  <2>2. CASE crashed'
    <3>1. CloseChan
      BY <1>1, <2>2 DEF CloserStep, SetFlag, PollReceives, PollEmpty, CloserEnds
    <3>2. cidx \in IPs /\ worker[cidx] = "parked" /\ worker' = worker /\ chanClosed'[cidx]
      BY <2>2, <3>1 DEF CloseChan, IInv, TypeOK
    <3>3. cidx > last
      BY <1>3, <3>2 DEF IInv, TypeOK
    <3> QED
      BY <1>1, <1>2, <1>3, <3>2, <3>3 DEF SendPanicNeedsStraggler
  <2> QED BY <2>1, <2>2
<1> QED
  BY <1>4, <1>5, <1>6 DEF IInv

\* The invariant is inductive.
LEMMA NextIInv == IInv /\ [Next]_vars => IInv'
<1> SUFFICES ASSUME IInv, [Next]_vars PROVE IInv'
  OBVIOUS
<1>1. TypeOK'
  BY NextTypeOK DEF IInv
<1>2. CASE UNCHANGED vars
  BY <1>2 DEF vars, IInv, TypeOK, VerdictInv, PanicInv, WaitInv, ReturnInv,
              SendPanicNeedsStraggler, ResolvePanicked, LastResult
<1> QED
  BY <1>1, <1>2, ResolveIInv, WorkerIInv, ReceiveIInv, GiveUpIInv, CloserIInv
  DEF Next, Sched, Terminated

\* The result is the first match of the list, or the last response when there
\* is none, for every number of ECS IPs and every schedule.
THEOREM FirstMatchWinsTheorem == Spec => []FirstMatchWins
<1>1. IInv => FirstMatchWins
  BY DEF IInv, ReturnInv, FirstMatchWins
<1> QED
  BY <1>1, InitIInv, NextIInv, PTL DEF Spec

\* Unless a Resolve panics, only a straggler behind a match can bring the process
\* down.
THEOREM SendPanicNeedsStragglerTheorem == Spec => []SendPanicNeedsStraggler
<1>1. IInv => SendPanicNeedsStraggler
  BY DEF IInv
<1> QED
  BY <1>1, InitIInv, NextIInv, PTL DEF Spec

-----------------------------------------------------------------------------
(* Refinement: Resolve is Upstream, the receive of a match is                *)
(* ReturnFirstMatch, giving up is ReturnOther unless it loses a response,    *)
(* everything else stutters.                                                 *)

\* The initial state maps to an initial state of EcsLookup.
LEMMA InitRefines == Init => Lookup!Init
  BY DEF Init, Lookup!Init, Answered, IPs

\* What the caller has does not depend on goroutines, channels and flag.
LEMMA InvisibleSteps ==
  ASSUME UNCHANGED <<outcome, main, last>>
  PROVE  UNCHANGED Lookup!avars
  BY DEF Lookup!avars, Answered, LostResponse

\* Every step of FanOut is a step of EcsLookup or leaves its view unchanged.
LEMMA NextRefines ==
  ASSUME IInv, IInv', [Next]_vars
  PROVE  [Lookup!Next]_(Lookup!avars)
<1> USE NAssumption DEF NAssumption, IPs
<1>0. main = "wait" => ~Answered
  BY DEF Answered
<1>1. ASSUME NEW i \in IPs, Resolve(i) PROVE Lookup!Next \/ UNCHANGED Lookup!avars
  <2>1. PICK v \in {"match", "mismatch", "err", "panic"} :
          outcome[i] = "none" /\ outcome' = [outcome EXCEPT ![i] = v]
    BY <1>1 DEF Resolve, Verdicts, IInv, VerdictInv
  <2>2. main' = main /\ last' = last
    BY <1>1 DEF Resolve
  <2>3. ASSUME main = "returned" PROVE Answered /\ Answered'
    <3>1. last \in IPs
      BY <2>1, <2>3 DEF IInv, ReturnInv
    <3> QED
      BY <2>2, <2>3, <3>1 DEF Answered, LostResponse
  <2>4. Answered' = Answered
    BY <2>2, <2>3, <1>0 DEF Answered, IInv, TypeOK
  <2>5. Lookup!Upstream(i)
    BY <2>1, <2>2, <2>4 DEF Lookup!Upstream
  <2> QED BY <2>5 DEF Lookup!Next
<1>2. ASSUME NEW i \in IPs, Receive(i), IsMatch(i) PROVE Lookup!Next
  <2>1. /\ main = "wait" /\ next = i /\ main' = "returned" /\ last' = i /\ outcome' = outcome
        /\ outcome[i] = "match" /\ ~crashed
    BY <1>2 DEF Receive, Awaited, IsMatch, LastResult
  <2>2. \A j \in 1..(i - 1) : outcome[j] \in {"mismatch", "err"}
    BY <2>1 DEF IInv, WaitInv
  <2>3. Lookup!Alive
    BY <2>1 DEF IInv, PanicInv, Lookup!Alive
  <2>4. Answered'
    BY <2>1 DEF Answered, LostResponse
  <2>5. Lookup!ReturnFirstMatch(i)
    BY <1>0, <2>1, <2>2, <2>3, <2>4 DEF Lookup!ReturnFirstMatch, Lookup!NotMatching
  <2> QED BY <2>5 DEF Lookup!Next
<1>3. ASSUME NEW i \in IPs, Receive(i), ~IsMatch(i) PROVE UNCHANGED Lookup!avars
  BY <1>3 DEF Receive, Lookup!avars, Answered
<1>4. CASE GiveUp
  <2>1. /\ main = "wait" /\ main' = "returned" /\ last' = last /\ outcome' = outcome
    BY <1>4 DEF GiveUp
  <2>2. (\A j \in 1..N : outcome[j] \in {"mismatch", "err"}) /\ last = LastResult(N)
    BY <1>4 DEF GiveUp, IInv, TypeOK, WaitInv
  <2>3. CASE LostResponse'
    BY <1>0, <2>1, <2>3 DEF Answered, Lookup!avars
  <2>4. CASE ~LostResponse'
    <3>1. Answered'
      BY <2>1, <2>4 DEF Answered
    <3>2. last \in IF Lookup!Others = {} THEN {0} ELSE Lookup!Others
      <4>1. CASE outcome[N] = "mismatch"
        BY <2>2, <4>1 DEF LastResult, Lookup!Others
      <4>2. CASE outcome[N] = "err"
        <5>1. last = 0
          BY <2>2, <4>2 DEF LastResult
        <5>2. Lookup!Others = {}
          BY <2>1, <2>4, <5>1 DEF LostResponse, Lookup!Others
        <5> QED BY <5>1, <5>2
      <4> QED BY <2>2, <4>1, <4>2
    <3>3. Lookup!ReturnOther
      BY <1>0, <2>1, <2>2, <3>1, <3>2 DEF Lookup!ReturnOther, Lookup!NotMatching
    <3> QED BY <3>3 DEF Lookup!Next
  <2> QED BY <2>3, <2>4
<1>5. ASSUME NEW i \in IPs, ReadFlag(i) \/ Send(i) PROVE UNCHANGED Lookup!avars
  BY <1>5, InvisibleSteps DEF ReadFlag, Send
<1>6. CASE CloserStep
  BY <1>6, InvisibleSteps DEF CloserStep, SetFlag, PollReceives, PollEmpty, CloseChan, CloserEnds
<1>7. CASE UNCHANGED vars
  BY <1>7, InvisibleSteps DEF vars
<1> QED
  BY <1>1, <1>2, <1>3, <1>4, <1>5, <1>6, <1>7 DEF Next, Sched, Terminated

\* For every N, what the caller of the fan-out sees is EcsLookup, unless a response
\* is lost to a failure of the last query: no schedule of goroutines, sends, flag
\* reads and cleanup can change it.
THEOREM FanOutImplementsLookup == Spec => ImplementsLookup
<1>1. Spec => []IInv
  BY InitIInv, NextIInv, PTL DEF Spec
<1>2. IInv /\ IInv' /\ [Next]_vars => [Lookup!Next]_(Lookup!avars)
  BY NextRefines
<1> QED
  BY <1>1, <1>2, InitRefines, PTL DEF Spec, ImplementsLookup, Lookup!Spec

-----------------------------------------------------------------------------
(* What the liveness of the fan-out rests on: as long as there is something   *)
(* left to do, and every upstream call has returned, somebody can move, and   *)
(* each move is one of finitely many.  That movable goroutines are moved is    *)
(* the fairness of the scheduler.                                             *)

\* Where the cleanup goroutine is: before its first channel until it has set the
\* flag, past the last one when it has ended.  Every channel it has passed is
\* closed, or its sender was let go.
CleanupInv ==
  /\ closer \in {"absent", "setflag"} => cidx = 1
  /\ closer = "ended" => cidx = N + 1
  /\ \A i \in IPs : i < cidx => worker[i] = "done" \/ chanClosed[i]
  /\ \A i \in IPs : chanClosed[i] /\ worker[i] = "parked" => crashed
  /\ main = "returned" /\ closer = "absent" => AllDone
  /\ \A i \in IPs : worker[i] = "panicked" => crashed

\* A sender that is parked waits for a receiver that is still to come to its
\* channel: the caller, or the cleanup goroutine of utils.go:255.
NobodyForgotten ==
  ~crashed =>
    \A i \in IPs :
      worker[i] = "parked" =>
        \/ main = "wait" /\ next <= i
        \/ closer \in {"setflag", "poll", "close"} /\ cidx <= i

Over == main = "returned" /\ AllDone /\ closer \in {"absent", "ended"}

\* The guards of everything but Resolve.
SomeoneCanMove ==
  \/ \E i \in IPs : \/ worker[i] \in {"check", "send"}
                    \/ worker[i] = "parked" /\ main = "wait" /\ Awaited(i)
  \/ main = "wait" /\ next = N + 1
  \/ closer \in {"setflag", "poll", "close"}

\* Once every upstream call has returned, somebody can move until it is over.
NeverStuck ==
  (\A i \in IPs : outcome[i] # "none") /\ ~crashed /\ ~Over => SomeoneCanMove

\* How many steps each goroutine has left at most.
WorkerRank(i) ==
  CASE worker[i] = "resolving" -> 4 [] worker[i] = "check" -> 3 [] worker[i] = "send" -> 2
    [] worker[i] = "parked" -> 1 [] OTHER -> 0
CallerRank == IF main = "wait" THEN N + 2 - next ELSE 0
CloserRank ==
  CASE closer = "absent" -> 2 * N + 4 [] closer = "setflag" -> 2 * N + 3
    [] closer = "poll" -> 2 * (N + 1 - cidx) + 2 [] closer = "close" -> 2 * (N + 1 - cidx) + 1
    [] OTHER -> 0

\* Every step uses one up and gives nobody another, so that a lookup among N
\* locations takes at most 4N + (N + 1) + (2N + 4) steps, or one more to crash.
Descends ==
  /\ \A i \in IPs : WorkerRank(i)' <= WorkerRank(i)
  /\ CallerRank' <= CallerRank /\ CloserRank' <= CloserRank
  /\ \/ \E i \in IPs : WorkerRank(i)' < WorkerRank(i)
     \/ CallerRank' < CallerRank
     \/ CloserRank' < CloserRank
     \/ ~crashed /\ crashed'
EveryStepCounts == [][Descends]_vars

\* The initial state satisfies it: there is no cleanup goroutine.
LEMMA InitCleanup == Init => CleanupInv
  BY DEF Init, CleanupInv, IPs

\* Every step keeps it.
LEMMA NextCleanup == IInv /\ IInv' /\ CleanupInv /\ [Next]_vars => CleanupInv'
<1> SUFFICES ASSUME IInv, IInv', CleanupInv, [Next]_vars PROVE CleanupInv'
  OBVIOUS
<1> USE NAssumption DEF NAssumption, IPs
<1>1. ASSUME NEW i \in IPs, Resolve(i) \/ ReadFlag(i) PROVE CleanupInv'
  <2>1. /\ UNCHANGED <<main, next, closer, cidx, chanClosed>> /\ ~crashed
        /\ worker[i] \in {"resolving", "check"}
        /\ worker' = [worker EXCEPT ![i] = worker'[i]] /\ worker'[i] # "parked"
        /\ worker'[i] = "panicked" => crashed'
    BY <1>1 DEF Resolve, ReadFlag, IInv, TypeOK
  <2> QED
    BY <2>1 DEF IInv, TypeOK, CleanupInv, AllDone
<1>2. ASSUME NEW i \in IPs, Send(i) PROVE CleanupInv'
  BY <1>2 DEF Send, IInv, TypeOK, CleanupInv, AllDone
<1>3. ASSUME NEW i \in IPs, Receive(i) PROVE CleanupInv'
  <2>1. /\ main = "wait" /\ worker' = [worker EXCEPT ![i] = "done"]
        /\ UNCHANGED <<cidx, chanClosed, crashed>>
        /\ closer = "absent" /\ cidx = 1
        /\ closer' = "setflag" \/ (closer' = closer /\ main' = main)
    BY <1>3 DEF Receive, StartCloser, IInv, WaitInv, CleanupInv
  <2> QED
    BY <2>1 DEF IInv, TypeOK, CleanupInv
<1>4. CASE GiveUp
  <2>1. AllDone
    BY <1>4 DEF GiveUp, IInv, TypeOK, WaitInv, AllDone
  <2> QED
    BY <1>4, <2>1 DEF GiveUp, IInv, TypeOK, CleanupInv, AllDone
<1>5. CASE SetFlag \/ PollEmpty \/ CloserEnds
  BY <1>5 DEF SetFlag, PollEmpty, CloserEnds, IInv, TypeOK, CleanupInv
<1>6. CASE PollReceives
  BY <1>6 DEF PollReceives, IInv, TypeOK, CleanupInv
<1>7. CASE CloseChan
  <2>1. /\ closer = "close" /\ closer' = "poll" /\ cidx \in IPs /\ cidx' = cidx + 1
        /\ chanClosed' = [chanClosed EXCEPT ![cidx] = TRUE]
        /\ crashed' = (worker[cidx] = "parked") /\ ~crashed
        /\ UNCHANGED <<worker, main>>
    BY <1>7 DEF CloseChan, IInv, TypeOK
  <2>2. \A i \in IPs : chanClosed'[i] <=> (i = cidx \/ chanClosed[i])
    BY <2>1 DEF IInv, TypeOK
  <2>3. \A i \in IPs : i < cidx' => i < cidx \/ i = cidx
    BY <2>1
  <2> QED
    BY <2>1, <2>2, <2>3 DEF CleanupInv
<1>8. CASE UNCHANGED vars
  BY <1>8 DEF vars, CleanupInv, AllDone
<1> QED
  BY <1>1, <1>2, <1>3, <1>4, <1>5, <1>6, <1>7, <1>8 DEF Next, Sched, CloserStep, Terminated

LEMMA Cleanup == Spec => [](IInv /\ CleanupInv)
  BY InitIInv, NextIInv, InitCleanup, NextCleanup, PTL DEF Spec

\* No sender is forgotten, for any number of locations: the early return leaks
\* no goroutine that a receiver could have let go.
THEOREM NobodyForgottenTheorem == Spec => []NobodyForgotten
<1>1. IInv /\ CleanupInv => NobodyForgotten
  <2> SUFFICES ASSUME IInv, CleanupInv, ~crashed, NEW i \in IPs, worker[i] = "parked"
               PROVE  \/ main = "wait" /\ next <= i
                      \/ closer \in {"setflag", "poll", "close"} /\ cidx <= i
    BY DEF NobodyForgotten
  <2>1. CASE main = "wait"
    BY <2>1, NAssumption DEF NAssumption, IInv, TypeOK, WaitInv, IPs
  <2>2. CASE main = "returned"
    <3>1. closer # "absent" /\ ~(i < cidx)
      BY <2>2 DEF CleanupInv, AllDone
    <3> QED
      BY <3>1, NAssumption DEF NAssumption, IInv, TypeOK, CleanupInv, IPs
  <2> QED
    BY <2>1, <2>2 DEF IInv, TypeOK
<1> QED
  BY <1>1, Cleanup, PTL

\* A lookup whose upstream calls have returned never comes to a halt before its end.
THEOREM NeverStuckTheorem == Spec => []NeverStuck
<1>1. IInv /\ CleanupInv => NeverStuck
  <2> SUFFICES ASSUME IInv, CleanupInv, \A i \in IPs : outcome[i] # "none", ~SomeoneCanMove,
                      ~crashed
               PROVE  Over
    BY DEF NeverStuck
  <2>1. \A i \in IPs : worker[i] \in {"parked", "done"}
    <3>1. \A i \in IPs : worker[i] \notin {"resolving", "check", "send"}
      BY DEF IInv, VerdictInv, SomeoneCanMove
    <3>2. \A i \in IPs : worker[i] = "panicked" => crashed
      BY DEF CleanupInv
    <3> QED BY <3>1, <3>2 DEF IInv, TypeOK
  <2>2. main = "returned"
    <3> SUFFICES ASSUME main = "wait" PROVE FALSE
      BY DEF IInv, TypeOK
    <3>1. next \in IPs /\ worker[next] = "parked"
      BY <2>1, NAssumption DEF NAssumption, IInv, TypeOK, WaitInv, SomeoneCanMove, IPs
    <3> QED
      BY <3>1 DEF SomeoneCanMove, Awaited
  <2>3. closer \in {"absent", "ended"}
    BY DEF IInv, TypeOK, SomeoneCanMove
  <2>4. CASE closer = "absent"
    BY <2>2, <2>4 DEF CleanupInv, Over
  <2>5. CASE closer = "ended"
    <3>1. \A i \in IPs : i < cidx
      BY <2>5, NAssumption DEF NAssumption, CleanupInv, IPs
    <3>2. AllDone
      BY <2>1, <2>5, <3>1 DEF CleanupInv, AllDone
    <3> QED
      BY <2>2, <2>5, <3>2 DEF Over
  <2> QED
    BY <2>3, <2>4, <2>5
<1> QED
  BY <1>1, Cleanup, PTL

\* The ranks are natural numbers, before a step and after it.
LEMMA RankTypes ==
  ASSUME TypeOK, TypeOK'
  PROVE  /\ \A i \in IPs : WorkerRank(i) \in 0..4 /\ WorkerRank(i)' \in 0..4
         /\ CallerRank \in Nat /\ CloserRank \in Nat
         /\ CallerRank' \in Nat /\ CloserRank' \in Nat
<1> USE NAssumption DEF NAssumption
<1>1. \A i \in IPs : WorkerRank(i) \in 0..4 /\ WorkerRank(i)' \in 0..4
  BY DEF WorkerRank
<1>2. N + 1 - cidx \in Nat /\ N + 1 - cidx' \in Nat /\ N + 2 - next \in Nat /\ N + 2 - next' \in Nat
  <2>1. {cidx, cidx', next, next'} \subseteq 1..(N + 1)
    BY DEF TypeOK
  <2> QED BY <2>1
<1>3. CallerRank \in Nat /\ CallerRank' \in Nat
  BY <1>2 DEF CallerRank
<1>4. CloserRank \in Nat /\ CloserRank' \in Nat
  <2> DEFINE d == N + 1 - cidx
             e == N + 1 - cidx'
  <2>1. /\ 2 * d + 2 \in Nat /\ 2 * d + 1 \in Nat /\ 2 * e + 2 \in Nat /\ 2 * e + 1 \in Nat
        /\ 2 * N + 4 \in Nat /\ 2 * N + 3 \in Nat
    BY <1>2
  <2> QED BY <2>1 DEF CloserRank
<1> QED
  BY <1>1, <1>3, <1>4

\* No step is ever taken back: a fan-out ends after finitely many.
THEOREM EveryStepCountsTheorem == Spec => EveryStepCounts
<1>1. ASSUME IInv, IInv', CleanupInv, [Next]_vars PROVE [Descends]_vars
  <2> USE NAssumption DEF NAssumption, IPs
  <2>1. /\ \A i \in IPs : WorkerRank(i) \in 0..4 /\ WorkerRank(i)' \in 0..4
        /\ CallerRank \in Nat /\ CloserRank \in Nat
        /\ CallerRank' \in Nat /\ CloserRank' \in Nat
    BY <1>1, RankTypes DEF IInv
  <2>2. ASSUME worker' = worker PROVE \A i \in IPs : WorkerRank(i)' = WorkerRank(i)
    BY <2>2 DEF WorkerRank
  <2>3. ASSUME main' = main, next' = next PROVE CallerRank' = CallerRank
    BY <2>3 DEF CallerRank
  <2>4. ASSUME closer' = closer, cidx' = cidx PROVE CloserRank' = CloserRank
    BY <2>4 DEF CloserRank
  <2>5. ASSUME NEW i \in IPs, NEW w \in {"check", "send", "parked", "done", "panicked"},
               worker' = [worker EXCEPT ![i] = w],
               \/ worker[i] = "resolving"
               \/ worker[i] = "check" /\ w # "check"
               \/ worker[i] = "send" /\ w \in {"parked", "done"}
               \/ worker[i] = "parked" /\ w = "done"
        PROVE  /\ \A j \in IPs : WorkerRank(j)' <= WorkerRank(j)
               /\ WorkerRank(i)' < WorkerRank(i)
    <3>1. worker'[i] = w /\ \A j \in IPs : j # i => worker'[j] = worker[j]
      BY <1>1, <2>5 DEF IInv, TypeOK
    <3>2. \A j \in IPs : j # i => WorkerRank(j)' = WorkerRank(j)
      BY <3>1 DEF WorkerRank
    <3>3. WorkerRank(i)' < WorkerRank(i)
      BY <2>5, <3>1 DEF WorkerRank
    <3> QED
      BY <2>1, <3>2, <3>3
  <2>6. ASSUME NEW i \in IPs, Resolve(i) \/ ReadFlag(i) PROVE Descends
    <3>1. PICK w \in {"check", "send", "done", "panicked"} :
            /\ worker' = [worker EXCEPT ![i] = w]
            /\ worker[i] = "resolving" \/ (worker[i] = "check" /\ w # "check")
      BY <2>6 DEF Resolve, ReadFlag
    <3>2. main' = main /\ next' = next /\ closer' = closer /\ cidx' = cidx
      BY <2>6 DEF Resolve, ReadFlag
    <3>3. (\A j \in IPs : WorkerRank(j)' <= WorkerRank(j)) /\ WorkerRank(i)' < WorkerRank(i)
      BY <2>5, <3>1
    <3>4. CallerRank' = CallerRank /\ CloserRank' = CloserRank
      BY <2>3, <2>4, <3>2
    <3> QED
      BY <2>1, <3>3, <3>4 DEF Descends
  <2>7. ASSUME NEW i \in IPs, Send(i) PROVE Descends
    <3>1. main' = main /\ next' = next /\ closer' = closer /\ cidx' = cidx
      BY <2>7 DEF Send
    <3>2. CASE chanClosed[i]
      BY <2>1, <2>2, <2>3, <2>4, <2>7, <3>1, <3>2 DEF Send, Descends
    <3>3. CASE ~chanClosed[i]
      <4>1. worker[i] = "send" /\ worker' = [worker EXCEPT ![i] = "parked"]
        BY <2>7, <3>3 DEF Send
      <4>2. (\A j \in IPs : WorkerRank(j)' <= WorkerRank(j)) /\ WorkerRank(i)' < WorkerRank(i)
        BY <2>5, <4>1
      <4>3. CallerRank' = CallerRank /\ CloserRank' = CloserRank
        BY <2>3, <2>4, <3>1
      <4> QED
        BY <2>1, <4>2, <4>3 DEF Descends
    <3> QED BY <3>2, <3>3
  <2>8. ASSUME NEW i \in IPs, Receive(i) PROVE Descends
    <3>1. /\ worker[i] = "parked" /\ worker' = [worker EXCEPT ![i] = "done"]
          /\ main = "wait" /\ next \in IPs /\ cidx' = cidx /\ closer = "absent"
          /\ \/ main' = "returned" /\ closer' = "setflag"
             \/ main' = main /\ next' = next + 1 /\ closer' = closer
      BY <1>1, <2>8 DEF Receive, Awaited, StartCloser, IInv, WaitInv
    <3>2. CallerRank' <= CallerRank /\ CloserRank' <= CloserRank
      BY <1>1, <3>1 DEF IInv, TypeOK, CallerRank, CloserRank
    <3> QED
      BY <2>5, <3>1, <3>2 DEF Descends
  <2>9. CASE GiveUp
    <3>1. CallerRank' < CallerRank /\ worker' = worker /\ closer' = closer /\ cidx' = cidx
      BY <2>9 DEF GiveUp, CallerRank
    <3> QED
      BY <2>1, <2>2, <2>4, <3>1 DEF Descends
  <2>10. CASE PollReceives
    <3>1. /\ cidx \in IPs /\ worker[cidx] = "parked" /\ worker' = [worker EXCEPT ![cidx] = "done"]
          /\ main' = main /\ next' = next /\ closer = "poll" /\ closer' = closer /\ cidx' = cidx + 1
      BY <2>10 DEF PollReceives
    <3>2. CloserRank' <= CloserRank
      BY <3>1 DEF CloserRank
    <3>3. PICK k \in IPs : k = cidx
      BY <3>1
    <3>4. (\A j \in IPs : WorkerRank(j)' <= WorkerRank(j)) /\ WorkerRank(k)' < WorkerRank(k)
      BY <2>5, <3>1, <3>3
    <3>5. CallerRank' = CallerRank
      BY <2>3, <3>1
    <3> QED
      BY <2>1, <3>2, <3>4, <3>5 DEF Descends
  <2>11. CASE SetFlag \/ PollEmpty \/ CloseChan \/ CloserEnds
    <3>1. worker' = worker /\ main' = main /\ next' = next
      BY <2>11 DEF SetFlag, PollEmpty, CloseChan, CloserEnds
    <3>2. CloserRank' < CloserRank
      <4>1. CASE SetFlag
        BY <1>1, <4>1 DEF SetFlag, CleanupInv, CloserRank
      <4>2. CASE PollEmpty
        BY <4>2 DEF PollEmpty, CloserRank
      <4>3. CASE CloseChan
        BY <1>1, <4>3 DEF CloseChan, IInv, TypeOK, CloserRank
      <4>4. CASE CloserEnds
        BY <4>4 DEF CloserEnds, CloserRank
      <4> QED BY <2>11, <4>1, <4>2, <4>3, <4>4
    <3> QED
      BY <2>1, <2>2, <2>3, <3>1, <3>2 DEF Descends
  <2> QED
    BY <1>1, <2>6, <2>7, <2>8, <2>9, <2>10, <2>11 DEF Next, Sched, CloserStep, Terminated
<1> QED
  BY <1>1, Cleanup, PTL DEF Spec, EveryStepCounts
=============================================================================
