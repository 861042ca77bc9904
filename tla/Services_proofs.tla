-------------------------- MODULE Services_proofs --------------------------
(***************************************************************************)
(* Proofs about Services for every configuration: a handler's default ECS   *)
(* IPs are public and pairwise different, primary before secondary, and     *)
(* settled, as is the answerer, before the handler can be called; they are  *)
(* exactly what the loops walk or the exit IP; main leaves only after the   *)
(* services it started, and once none serves every step leads to the end.   *)
(*                                                                         *)
(* The invariant orders the start: a service runs only with its answerer    *)
(* set, a service still to be started is absent, and the dns53 service has  *)
(* listeners only after it has walked its lists and found its exit IP.      *)
(***************************************************************************)
EXTENDS Services, TLAPS

\* A service that runs has its answerer.
AnswererInv == \A s \in Services : pc[s] # "absent" => answerer[s]

\* The dns53 service, started last, is absent until then.
StartInv == main[1] = "start" => pc["dns53"] = "absent"

\* A listener is there only when the defaults are done.
ListenInv == lsn # <<>> => pc["dns53"] \in {"listen", "collect", "report", "ended"}

\* Where a service can be, as in TypeOK.
PCs == {"absent", "second", "first", "exitip", "get", "thirdparty", "blocked", "nilurl",
        "listen", "serving", "collect", "report", "ended"}

OrderInv == AnswererInv /\ StartInv /\ ListenInv
IInv == TypeOK /\ OrderInv /\ DefaultsUsable

-----------------------------------------------------------------------------
(* Lemmas about lists of defaults *)

UsableLists == {l \in Seq(Addr) : IsInjective(l) /\ \A j \in DOMAIN l : l[j] \in Public}

\* AppendDefault and InsertDefault take any string and keep a list usable.
LEMMA DefaultFacts ==
  ASSUME NEW l \in UsableLists, NEW a
  PROVE  AppendDefault(l, a) \in UsableLists /\ InsertDefault(l, a) \in UsableLists
<1>1. CASE ~Usable(l, a)
  BY <1>1 DEF AppendDefault, InsertDefault
<1>2. CASE Usable(l, a)
  <2>1. a \in Public /\ a \in Addr /\ \A i \in 1..Len(l) : l[i] # a
    BY <1>2, ServicesAssumption DEF Usable, Contains, ServicesAssumption
  <2>2. /\ l \in Seq(Addr) /\ \A i \in 1..Len(l) : l[i] \in Public
        /\ \A i, j \in 1..Len(l) : l[i] = l[j] => i = j
    BY DEF UsableLists, IsInjective
  <2>3. Append(l, a) \in UsableLists
    <3> DEFINE m == Append(l, a)
    <3>1. /\ m \in Seq(Addr) /\ DOMAIN m = 1..Len(l) + 1 /\ Len(l) \in Nat
          /\ \A i \in 1..Len(l) : m[i] = l[i]
          /\ m[Len(l) + 1] = a
      BY <2>1, <2>2
    <3> HIDE DEF m
    <3>2. \A i \in 1..Len(l) + 1 : i \in 1..Len(l) \/ i = Len(l) + 1
      BY <3>1
    <3>3. \A i \in DOMAIN m : m[i] \in Public
      BY <2>1, <2>2, <3>1, <3>2
    <3>4. \A i, j \in DOMAIN m : m[i] = m[j] => i = j
      BY <2>1, <2>2, <3>1, <3>2
    <3> QED
      BY <3>1, <3>3, <3>4 DEF m, UsableLists, IsInjective
  <2>4. <<a>> \o l \in UsableLists
    <3> DEFINE m == <<a>> \o l
    <3>1. /\ m \in Seq(Addr) /\ DOMAIN m = 1..Len(l) + 1 /\ Len(l) \in Nat
          /\ m[1] = a
          /\ \A i \in 2..Len(l) + 1 : m[i] = l[i - 1]
      BY <2>1, <2>2
    <3> HIDE DEF m
    <3>2. \A i \in 1..Len(l) + 1 : i = 1 \/ (i \in 2..Len(l) + 1 /\ i - 1 \in 1..Len(l))
      BY <3>1
    <3>3. \A i \in DOMAIN m : m[i] \in Public
      BY <2>1, <2>2, <3>1, <3>2
    <3>4. \A i, j \in DOMAIN m : m[i] = m[j] => i = j
      <4> SUFFICES ASSUME NEW i \in DOMAIN m, NEW j \in DOMAIN m, m[i] = m[j]
                   PROVE  i = j
        OBVIOUS
      <4>1. (i = 1 \/ m[i] # a) /\ (j = 1 \/ m[j] # a)
        BY <2>1, <3>1, <3>2
      <4>2. CASE i # 1 /\ j # 1
        <5>1. l[i - 1] = l[j - 1] /\ i - 1 \in 1..Len(l) /\ j - 1 \in 1..Len(l)
          BY <3>1, <3>2, <4>2
        <5>2. i - 1 = j - 1
          BY <5>1, <2>2
        <5> QED
          BY <5>2, <3>1
      <4> QED
        BY <3>1, <4>1, <4>2
    <3> QED
      BY <3>1, <3>3, <3>4 DEF m, UsableLists, IsInjective
  <2> QED
    BY <1>2, <2>3, <2>4 DEF AppendDefault, InsertDefault
<1> QED
  BY <1>1, <1>2

\* What TypeOK and DefaultsUsable say of the defaults, in one fact.
LEMMA DefaultsTyped ==
  (TypeOK => defaults \in [Services -> Seq(Addr)])
    /\ (defaults \in [Services -> UsableLists]
          <=> defaults \in [Services -> Seq(Addr)] /\ DefaultsUsable)
BY DEF TypeOK, UsableLists, DefaultsUsable

-----------------------------------------------------------------------------
(* Steps *)

\* The first state: nothing is started.
LEMMA InitIInv == Init => IInv
<1> SUFFICES ASSUME Init PROVE IInv
  OBVIOUS
<1>1. TypeOK
  BY DEF Init, TypeOK, Services
<1>2. OrderInv
  BY DEF Init, OrderInv, AnswererInv, StartInv, ListenInv, Services
<1>3. DefaultsUsable
  BY DEF Init, DefaultsUsable, Services, IsInjective
<1> QED
  BY <1>1, <1>2, <1>3 DEF IInv

\* A step that leaves the defaults usable, and types and order as they should be.
LEMMA Assemble ==
  ASSUME TypeOK', OrderInv', defaults' \in [Services -> UsableLists]
  PROVE  IInv'
BY DefaultsTyped DEF IInv, UsableLists, DefaultsUsable

LEMMA DefaultsNow ==
  ASSUME IInv
  PROVE  defaults \in [Services -> UsableLists]
BY DefaultsTyped DEF IInv

\* main starts a service with its answerer set.
LEMMA StartIInv ==
  ASSUME IInv, NEW s \in Services, Start(s)
  PROVE  IInv'
<1> USE DEF IInv
<1>1. TypeOK'
  <2>1. main' \in ({"start", "wait"} \X Services) \cup {<<"exit">>}
    BY DEF Start, AfterStart, Services
  <2>2. /\ answerer' \in [Services -> BOOLEAN]
        /\ pc' \in [Services -> PCs]
    BY DEF Start, AnswererFirst, TypeOK, PCs
  <2>3. UNCHANGED <<config, process, defaults, k, unasked, exitIP, lsn, sent, told>>
    BY DEF Start
  <2> QED
    BY <2>1, <2>2, <2>3 DEF TypeOK, config, PCs
<1>2. pc["dns53"] = "absent" /\ lsn = <<>>
  BY DEF Start, OrderInv, StartInv, ListenInv
<1>3. AnswererInv'
  BY DEF Start, AnswererFirst, OrderInv, AnswererInv, TypeOK, Services
<1>4. StartInv'
  BY <1>2 DEF Start, AfterStart, StartInv, TypeOK, Services
<1>5. ListenInv'
  BY <1>2 DEF Start, ListenInv
<1>6. defaults' \in [Services -> UsableLists]
  BY DefaultsNow DEF Start
<1> QED
  BY <1>1, <1>3, <1>4, <1>5, <1>6, Assemble DEF OrderInv

\* An iteration over a list of the configuration.
LEMMA SetupIInv ==
  ASSUME IInv, NEW s \in Services, Setup(s)
  PROVE  IInv'
<1> USE DEF IInv
<1>1. /\ pc[s] \in {"second", "first"}
      /\ pc' = pc \/ pc' = [pc EXCEPT ![s] = "first"] \/ pc' = [pc EXCEPT ![s] = "exitip"]
                 \/ pc' = [pc EXCEPT ![s] = "listen"]
      /\ k' = [k EXCEPT ![s] = @ + 1] \/ k' = [k EXCEPT ![s] = 1]
      /\ \/ defaults' = defaults
         \/ \E a : defaults' = [defaults EXCEPT ![s] = AppendDefault(defaults[s], a)]
         \/ \E a : defaults' = [defaults EXCEPT ![s] = InsertDefault(defaults[s], a)]
      /\ UNCHANGED <<config, process, main, answerer, unasked, exitIP, lsn, sent, told>>
  BY DEF Setup, AppendSecondary, InsertPrimary, Loop, AfterSecondary
<1>2. defaults' \in [Services -> UsableLists]
  BY <1>1, DefaultsNow, DefaultFacts
<1>3. TypeOK'
  <2>1. pc' \in [Services -> PCs]
    BY <1>1 DEF TypeOK, PCs
  <2>2. k' \in [Services -> Nat \ {0}]
    <3>1. k \in [Services -> Nat \ {0}]
      BY DEF TypeOK
    <3>2. k[s] + 1 \in Nat \ {0}
      BY <3>1
    <3> QED
      BY <1>1, <3>1, <3>2
  <2>3. defaults' \in [Services -> Seq(Addr)]
    BY <1>2 DEF UsableLists
  <2> QED
    BY <1>1, <2>1, <2>2, <2>3 DEF TypeOK, config, PCs
<1>4. OrderInv'
  BY <1>1 DEF OrderInv, AnswererInv, StartInv, ListenInv, TypeOK, Services
<1> QED
  BY <1>2, <1>3, <1>4, Assemble

\* What a check-IP service answers becomes a default if it is usable.
LEMMA ExitIPIInv ==
  ASSUME IInv, GetExitIP \/ AskCheckIP
  PROVE  IInv'
<1> USE DEF IInv
<1>1. /\ pc["dns53"] \in {"get", "thirdparty"}
      /\ pc' = pc \/ pc' = [pc EXCEPT !["dns53"] = "thirdparty"]
                 \/ pc' = [pc EXCEPT !["dns53"] = "listen"]
      /\ exitIP' \in Addr \cup {NoIP, None}
      /\ unasked' \in SUBSET CheckIPs
      /\ \/ defaults' = defaults
         \/ \E a : defaults' = [defaults EXCEPT !["dns53"] = InsertDefault(@, a)]
      /\ UNCHANGED <<config, process, main, answerer, k, lsn, sent, told>>
  BY DEF GetExitIP, AskCheckIP, Found, AfterGet, TypeOK
<1>2. defaults' \in [Services -> UsableLists]
  BY <1>1, DefaultsNow, DefaultFacts
<1>3. TypeOK'
  <2>1. pc' \in [Services -> PCs]
    BY <1>1 DEF TypeOK, PCs, Services
  <2>2. defaults' \in [Services -> Seq(Addr)]
    BY <1>2 DEF UsableLists
  <2> QED
    BY <1>1, <2>1, <2>2 DEF TypeOK, config, PCs
<1>4. OrderInv'
  BY <1>1 DEF OrderInv, AnswererInv, StartInv, ListenInv, TypeOK, Services
<1> QED
  BY <1>2, <1>3, <1>4, Assemble

\* Every other step leaves the answerers and the defaults alone, and none but
\* Listen adds a listener.
LEMMA OtherIInv ==
  ASSUME IInv,
         \/ Dns53Goes \/ NilURL \/ DohListens \/ DohStops \/ Exit \/ Signal
         \/ \E s \in Services : InitPanics(s) \/ Skip(s) \/ Report(s)
         \/ \E l \in DOMAIN lsn : ListenerStops(l)
  PROVE  IInv'
<1> USE DEF IInv
<1>1. UNCHANGED <<answerer, defaults, config>>
  BY DEF Dns53Goes, ParseUpstream, NoCheckIPLeft, Listen, AllListen, Collect, AllCollected,
         NilURL, DohListens, DohStops, Exit, Signal, InitPanics, Skip, Report, ListenerStops
<1>2. defaults' \in [Services -> UsableLists]
  BY <1>1, DefaultsNow
<1>3. ASSUME UNCHANGED <<config, answerer, defaults, main, unasked, exitIP, lsn, told>>,
             process' \in {"up", "exited", "killed", "panicked"},
             k' \in [Services -> Nat \ {0}],
             sent' \in [Services -> BOOLEAN],
             \E s \in Services, w \in PCs \ {"absent"} :
               /\ pc[s] # "absent" /\ pc' = [pc EXCEPT ![s] = w]
               /\ s = "dns53" /\ lsn # <<>> => w \in {"listen", "collect", "report", "ended"}
      PROVE  IInv'
  <2>1. TypeOK'
    BY <1>3 DEF TypeOK, config, PCs
  <2>2. OrderInv'
    BY <1>3 DEF OrderInv, AnswererInv, StartInv, ListenInv, TypeOK
  <2> QED
    BY <1>2, <2>1, <2>2, Assemble
<1>4. ASSUME UNCHANGED <<config, answerer, defaults, main, k, unasked, exitIP, lsn, told, sent, pc>>,
             process' \in {"up", "exited", "killed", "panicked"}
      PROVE  IInv'
  <2>1. TypeOK'
    BY <1>4 DEF TypeOK, config
  <2>2. OrderInv'
    BY <1>4 DEF OrderInv, AnswererInv, StartInv, ListenInv
  <2> QED
    BY <1>2, <2>1, <2>2, Assemble
<1>5. CASE ParseUpstream \/ NoCheckIPLeft \/ AllListen \/ AllCollected
  <2>1. k' \in [Services -> Nat \ {0}]
    BY <1>5 DEF ParseUpstream, NoCheckIPLeft, AllListen, AllCollected, TypeOK
  <2> QED
    BY <1>3, <1>5, <2>1
    DEF ParseUpstream, NoCheckIPLeft, AllListen, AllCollected, TypeOK, PCs, Services,
        OrderInv, ListenInv
<1>6. CASE DohListens \/ DohStops
  BY <1>3, <1>6 DEF DohListens, DohStops, TypeOK, PCs, Services
<1>7. CASE NilURL \/ Exit \/ Signal \/ \E s \in Services : InitPanics(s)
  BY <1>4, <1>7 DEF NilURL, Exit, Signal, InitPanics
<1>8. CASE Listen
  <2>1. pc' \in [Services -> PCs] /\ k' \in [Services -> Nat \ {0}]
    <3>1. /\ k \in [Services -> Nat \ {0}] /\ "dns53" \in Services
          /\ pc \in [Services -> PCs]
      BY DEF TypeOK, Services, PCs
    <3>2. k["dns53"] + 1 \in Nat \ {0}
      BY <3>1
    <3> QED
      BY <1>8, <3>1, <3>2 DEF Listen, PCs
  <2>2. lsn' \in Seq({"serving", "report", "ended"}) /\ sent' \in [Services -> BOOLEAN]
    BY <1>8 DEF Listen, TypeOK, Services
  <2>3. TypeOK'
    BY <1>1, <1>8, <2>1, <2>2 DEF Listen, TypeOK, config, PCs
  <2>4. pc["dns53"] = "listen" /\ (pc' = pc \/ pc' = [pc EXCEPT !["dns53"] = "report"])
    BY <1>8 DEF Listen
  <2>5. OrderInv'
    BY <1>1, <1>8, <2>4
    DEF Listen, OrderInv, AnswererInv, StartInv, ListenInv, TypeOK, Services
  <2> QED
    BY <1>2, <2>3, <2>5, Assemble
<1>9. CASE Collect
  <2>1. k' \in [Services -> Nat \ {0}]
    <3>1. k \in [Services -> Nat \ {0}]
      BY DEF TypeOK
    <3>2. k["dns53"] + 1 \in Nat \ {0}
      BY <3>1 DEF Services
    <3> QED
      BY <1>9, <3>1, <3>2 DEF Collect, ListenerSendsError
  <2>2. lsn' \in Seq({"serving", "report", "ended"}) /\ lsn # <<>>
    <3>1. lsn \in Seq({"serving", "report", "ended"}) /\ k["dns53"] \in Nat \ {0}
      BY DEF TypeOK, Services
    <3>2. lsn' = [lsn EXCEPT ![k["dns53"]] = "ended"] /\ k["dns53"] <= Len(lsn)
      BY <1>9 DEF Collect
    <3> QED
      BY <3>1, <3>2
  <2>3. TypeOK'
    BY <1>1, <1>9, <2>1, <2>2 DEF Collect, TypeOK, config
  <2>4. OrderInv'
    BY <1>1, <1>9, <2>2 DEF Collect, OrderInv, AnswererInv, StartInv, ListenInv
  <2> QED
    BY <1>2, <2>3, <2>4, Assemble
<1>10. ASSUME NEW s \in Services, Skip(s) \/ Report(s)
       PROVE  IInv'
  <2>1. main' \in ({"start", "wait"} \X Services) \cup {<<"exit">>} /\ main'[1] # "start"
    BY <1>10 DEF Skip, Report, AfterWait, Services
  <2>2. pc' \in [Services -> PCs] /\ told' \in [Services -> {"none", "nil", "error"}]
    <3>1. pc \in [Services -> PCs] /\ told \in [Services -> {"none", "nil", "error"}]
      BY DEF TypeOK, PCs
    <3>2. /\ pc' = pc \/ pc' = [pc EXCEPT ![s] = "ended"] \/ pc' = [pc EXCEPT ![s] = "nilurl"]
          /\ \/ told' = told \/ told' = [told EXCEPT ![s] = "error"]
             \/ told' = [told EXCEPT ![s] = "nil"]
      BY <1>10 DEF Skip, Report
    <3> QED
      BY <3>1, <3>2 DEF PCs
  <2>3. TypeOK'
    <3>1. UNCHANGED <<config, process, answerer, defaults, k, unasked, exitIP, lsn, sent>>
      BY <1>10 DEF Skip, Report
    <3> QED
      BY <2>1, <2>2, <3>1 DEF TypeOK, config, PCs
  <2>4. AnswererInv' /\ ListenInv'
    <3>1. /\ answerer' = answerer /\ lsn' = lsn
          /\ \/ pc' = pc
             \/ pc[s] = "report" /\ pc' = [pc EXCEPT ![s] = "ended"]
             \/ pc[s] = "blocked" /\ pc' = [pc EXCEPT ![s] = "nilurl"]
      BY <1>10 DEF Skip, Report
    <3>2. \A t \in Services : pc'[t] # "absent" => pc[t] # "absent"
      BY <3>1 DEF TypeOK
    <3>3. pc'["dns53"] = pc["dns53"] \/ pc'["dns53"] = "ended" \/ pc["dns53"] = "blocked"
      BY <3>1 DEF TypeOK, Services
    <3> QED
      BY <3>1, <3>2, <3>3 DEF OrderInv, AnswererInv, ListenInv
  <2> QED
    BY <1>2, <2>1, <2>3, <2>4, Assemble DEF OrderInv, StartInv
<1>11. ASSUME NEW l \in DOMAIN lsn, ListenerStops(l)
       PROVE  IInv'
  <2>1. lsn' \in Seq({"serving", "report", "ended"}) /\ lsn # <<>>
    BY <1>11 DEF ListenerStops, TypeOK
  <2>2. TypeOK'
    BY <1>1, <1>11, <2>1 DEF ListenerStops, TypeOK, config
  <2>3. OrderInv'
    BY <1>1, <1>11, <2>1 DEF ListenerStops, OrderInv, AnswererInv, StartInv, ListenInv
  <2> QED
    BY <1>2, <2>2, <2>3, Assemble
<1> QED
  BY <1>5, <1>6, <1>7, <1>8, <1>9, <1>10, <1>11 DEF Dns53Goes

\* Every step keeps the invariant.
LEMMA NextIInv == IInv /\ [Next]_vars => IInv'
<1> SUFFICES ASSUME IInv, [Next]_vars PROVE IInv'
  OBVIOUS
<1>1. CASE UNCHANGED vars
  BY <1>1 DEF vars, config, IInv, TypeOK, OrderInv, AnswererInv, StartInv, ListenInv,
              DefaultsUsable
<1>2. CASE MainGoes
  BY <1>2, StartIInv, OtherIInv DEF MainGoes
<1>3. ASSUME NEW s \in Services, InitPanics(s) \/ Setup(s)
      PROVE  IInv'
  BY <1>3, SetupIInv, OtherIInv
<1>4. CASE GetExitIP \/ AskCheckIP
  BY <1>4, ExitIPIInv
<1>5. CASE Dns53Goes \/ NilURL \/ DohListens \/ DohStops \/ Signal
  BY <1>5, OtherIInv
<1>6. ASSUME NEW l \in DOMAIN lsn, ListenerStops(l)
      PROVE  IInv'
  BY <1>6, OtherIInv
<1>7. CASE Terminated
  BY <1>1, <1>7 DEF Terminated
<1> QED
  BY <1>1, <1>2, <1>3, <1>4, <1>5, <1>6, <1>7 DEF Next

\* A step after which a handler can be called found its answerer there and left
\* its defaults alone.
LEMMA NextSettled ==
  IInv /\ [Next]_vars =>
    [\A s \in Services : Serving(s)' => answerer[s] /\ defaults'[s] = defaults[s]]_vars
<1> SUFFICES ASSUME IInv, Next, NEW s \in Services, Serving(s)'
             PROVE  answerer[s] /\ defaults'[s] = defaults[s]
  BY DEF vars
<1> USE DEF IInv
<1>1. lsn \in Seq({"serving", "report", "ended"})
  BY DEF TypeOK
<1>2. CASE UNCHANGED <<lsn, pc, defaults>>
  BY <1>1, <1>2 DEF Serving, OrderInv, AnswererInv, ListenInv, Services
<1>3. ASSUME NEW t \in Services, Start(t)
      PROVE  answerer[s] /\ defaults'[s] = defaults[s]
  <2>1. defaults' = defaults /\ lsn' = lsn
    BY <1>3 DEF Start
  <2>2. pc[s] # "absent"
    BY <1>1, <1>3, <2>1
    DEF Start, Serving, OrderInv, ListenInv, TypeOK, Services
  <2> QED
    BY <2>1, <2>2 DEF OrderInv, AnswererInv
<1>4. ASSUME NEW t \in Services, Setup(t)
      PROVE  answerer[s] /\ defaults'[s] = defaults[s]
  <2>1. /\ pc[t] \in {"second", "first"} /\ lsn' = lsn
        /\ pc'[t] # "serving"
        /\ \A u \in Services : u # t => pc'[u] = pc[u] /\ defaults'[u] = defaults[u]
    BY <1>4 DEF Setup, AppendSecondary, InsertPrimary, Loop, AfterSecondary, TypeOK
  <2>2. s # t
    BY <1>1, <2>1 DEF Serving, OrderInv, ListenInv, Services
  <2>3. pc[s] # "absent"
    BY <1>1, <2>1, <2>2 DEF Serving, OrderInv, ListenInv, Services
  <2> QED
    BY <2>1, <2>2, <2>3 DEF OrderInv, AnswererInv
<1>5. CASE GetExitIP \/ AskCheckIP
  <2>1. /\ pc["dns53"] \in {"get", "thirdparty"} /\ lsn' = lsn
        /\ pc'["doh"] = pc["doh"] /\ defaults'["doh"] = defaults["doh"]
    <3>1. /\ pc["dns53"] \in {"get", "thirdparty"} /\ lsn' = lsn
          /\ pc' = pc \/ \E w : pc' = [pc EXCEPT !["dns53"] = w]
          /\ defaults' = defaults \/ \E l : defaults' = [defaults EXCEPT !["dns53"] = l]
      BY <1>5 DEF GetExitIP, AskCheckIP, Found
    <3> QED
      BY <3>1 DEF TypeOK, Services
  <2>2. s = "doh" /\ pc["doh"] = "serving"
    BY <1>1, <2>1 DEF Serving, OrderInv, ListenInv, Services
  <2> QED
    BY <2>1, <2>2 DEF OrderInv, AnswererInv
<1>6. CASE DohListens \/ DohStops
  <2>1. /\ pc["doh"] \in {"listen", "serving"} /\ lsn' = lsn /\ defaults' = defaults
    BY <1>6 DEF DohListens, DohStops
  <2>2. pc[s] # "absent"
    BY <1>1, <2>1 DEF Serving, OrderInv, ListenInv, Services
  <2> QED
    BY <2>1, <2>2 DEF OrderInv, AnswererInv
<1>7. CASE Dns53Goes
  <2>1. /\ pc["dns53"] # "absent" /\ defaults' = defaults /\ pc'["doh"] = pc["doh"]
    <3>1. /\ pc["dns53"] \in {"exitip", "thirdparty", "listen", "collect"}
          /\ defaults' = defaults
          /\ pc' = pc \/ \E w : pc' = [pc EXCEPT !["dns53"] = w]
      BY <1>7 DEF Dns53Goes, ParseUpstream, NoCheckIPLeft, Listen, AllListen, Collect,
                  AllCollected
    <3> QED
      BY <3>1 DEF TypeOK, Services
  <2>2. pc[s] # "absent"
    BY <2>1 DEF Serving, Services
  <2> QED
    BY <2>1, <2>2 DEF OrderInv, AnswererInv
<1>8. ASSUME NEW l \in DOMAIN lsn, ListenerStops(l)
      PROVE  answerer[s] /\ defaults'[s] = defaults[s]
  <2>1. lsn # <<>> /\ defaults' = defaults /\ pc' = pc
    BY <1>1, <1>8 DEF ListenerStops
  <2>2. pc[s] # "absent"
    BY <2>1 DEF Serving, OrderInv, ListenInv, Services
  <2> QED
    BY <2>1, <2>2 DEF OrderInv, AnswererInv
<1>9. ASSUME NEW t \in Services, Report(t)
      PROVE  answerer[s] /\ defaults'[s] = defaults[s]
  <2>1. /\ pc[t] \in {"report", "blocked"} /\ lsn' = lsn /\ defaults' = defaults
        /\ \A u \in Services : u # t => pc'[u] = pc[u]
    BY <1>9 DEF Report, TypeOK
  <2>2. pc[s] # "absent"
    BY <1>1, <2>1 DEF Serving, OrderInv, ListenInv, Services
  <2> QED
    BY <2>1, <2>2 DEF OrderInv, AnswererInv
<1>10. ASSUME \/ NilURL \/ Exit \/ Signal \/ Terminated
              \/ \E t \in Services : InitPanics(t) \/ Skip(t)
       PROVE  UNCHANGED <<lsn, pc, defaults>>
  BY <1>10 DEF NilURL, Exit, Signal, Terminated, InitPanics, Skip, vars
<1> QED
  BY <1>2, <1>3, <1>4, <1>5, <1>6, <1>7, <1>8, <1>9, <1>10 DEF Next, MainGoes

\* The invariant holds in every state a run reaches.
LEMMA Invariance == Spec => []IInv
<1>1. Init => IInv
  BY InitIInv
<1>2. IInv /\ [Next]_vars => IInv'
  BY NextIInv
<1> QED
  BY <1>1, <1>2, PTL DEF Spec

-----------------------------------------------------------------------------
(* main waits for what it started *)

\* A service that is not enabled is never started, the first one not twice.
EnabledInv ==
  /\ \A s \in Services : pc[s] # "absent" => s \in cfg.enabled
  /\ main = <<"start", "doh">> => pc["doh"] = "absent"

\* main has left the wait for a service behind.
Passed(s) == main = <<"exit">> \/ (s = "doh" /\ main = <<"wait", "dns53">>)
PassedInv == \A s \in cfg.enabled : Passed(s) => pc[s] \in {"ended", "nilurl"}

\* The dns53 service collects its listeners in their order, and all of them
\* before its report, unless it gave up.
GaveUp == \E n \in DOMAIN cfg.listen : cfg.listen[n] = "unparsable"
CollectInv ==
  /\ pc["dns53"] = "collect" => \A l \in DOMAIN lsn : l < k["dns53"] => lsn[l] = "ended"
  /\ pc["dns53"] \in {"report", "ended"} => GaveUp \/ \A l \in DOMAIN lsn : lsn[l] # "serving"

ExitedInv == process = "exited" => main = <<"exit">>

EInv == EnabledInv /\ PassedInv /\ CollectInv /\ ExitedInv

\* No step moves a service that is not enabled or has reported its end.
LEMMA Moves ==
  ASSUME IInv, EInv, Next
  PROVE  /\ cfg' = cfg /\ lists' = lists
         /\ \A s \in Services :
              \/ pc'[s] = pc[s]
              \/ pc[s] = "absent" /\ s \in cfg.enabled /\ Start(s)
              \/ pc[s] \notin {"absent", "ended", "nilurl"} /\ pc'[s] # "absent"
<1>0. pc \in [Services -> PCs]
  BY DEF IInv, TypeOK, PCs
<1>1. CASE MainGoes
  <2>1. ASSUME NEW t \in Services, Start(t)
        PROVE  pc[t] = "absent"
    BY <2>1 DEF Start, IInv, OrderInv, StartInv, EInv, EnabledInv, Services
  <2> QED
    BY <1>0, <1>1, <2>1 DEF MainGoes, Start, Skip, Report, Exit, config
<1>2. ASSUME NEW t \in Services, InitPanics(t) \/ Setup(t)
      PROVE  /\ UNCHANGED config
             /\ \/ pc' = pc
                \/ pc[t] \in {"second", "first"} /\ \E w \in PCs \ {"absent"} : pc' = [pc EXCEPT ![t] = w]
  BY <1>2 DEF InitPanics, Setup, AppendSecondary, InsertPrimary, Loop, AfterSecondary, PCs
<1>3. ASSUME \/ GetExitIP \/ AskCheckIP \/ Dns53Goes \/ NilURL
             \/ \E l \in DOMAIN lsn : ListenerStops(l)
             \/ Signal
      PROVE  /\ UNCHANGED config
             /\ \/ pc' = pc
                \/ /\ pc["dns53"] \in {"exitip", "get", "thirdparty", "listen", "collect"}
                   /\ \E w \in PCs \ {"absent"} : pc' = [pc EXCEPT !["dns53"] = w]
  BY <1>3 DEF GetExitIP, AskCheckIP, Found, AfterGet, Dns53Goes, ParseUpstream, NoCheckIPLeft,
              Listen, AllListen, Collect, AllCollected, NilURL, ListenerStops, Signal, PCs
<1>4. ASSUME DohListens \/ DohStops
      PROVE  /\ UNCHANGED config /\ pc["doh"] \in {"listen", "serving"}
             /\ \E w \in PCs \ {"absent"} : pc' = [pc EXCEPT !["doh"] = w]
  BY <1>4 DEF DohListens, DohStops, PCs
<1>5. CASE Terminated
  BY <1>5 DEF Terminated, vars, config
<1> QED
  BY <1>0, <1>1, <1>2, <1>3, <1>4, <1>5 DEF Next, config, Services

\* main passes a service that is not enabled or that reports.
LEMMA NextPassed ==
  ASSUME IInv, EInv, Next
  PROVE  PassedInv'
<1> SUFFICES ASSUME NEW s \in cfg.enabled, Passed(s)'
             PROVE  pc'[s] \in {"ended", "nilurl"}
  BY Moves DEF PassedInv
<1>0. s \in Services /\ pc \in [Services -> PCs]
  BY DEF IInv, TypeOK, PCs
<1>1. CASE Passed(s)
  BY <1>0, <1>1, Moves DEF EInv, PassedInv
<1>2. CASE ~Passed(s)
  <2>1. main' # main
    BY <1>2 DEF Passed
  <2>2. PICK t \in Services : Start(t) \/ Skip(t) \/ Report(t)
    BY <2>1 DEF Next, MainGoes, Exit, InitPanics, Setup, AppendSecondary, InsertPrimary, Loop,
                GetExitIP, AskCheckIP, Dns53Goes, ParseUpstream, NoCheckIPLeft, Listen, AllListen,
                Collect, AllCollected, NilURL, DohListens, DohStops, ListenerStops, Signal,
                Terminated, vars
  <2>3. t = "doh" \/ t = "dns53"
    BY DEF Services
  <2>4. ~Start(t)
    BY <2>3 DEF Start, AfterStart, Passed
  <2>5. main = <<"wait", t>> /\ main' = AfterWait(t)
    BY <2>2, <2>4 DEF Skip, Report
  <2>6. s = t
    BY <1>0, <1>2, <2>3, <2>5 DEF AfterWait, Passed, Services
  <2> QED
    BY <1>0, <2>2, <2>4, <2>6 DEF Skip, Report
<1> QED
  BY <1>1, <1>2

\* What is collected has ended.
LEMMA NextCollect ==
  ASSUME IInv, EInv, Next
  PROVE  CollectInv'
<1>0. /\ lsn \in Seq({"serving", "report", "ended"}) /\ k["dns53"] \in Nat \ {0}
      /\ pc \in [Services -> PCs] /\ k \in [Services -> Nat \ {0}]
      /\ GaveUp' = GaveUp
  BY Moves DEF IInv, TypeOK, PCs, GaveUp, Services
<1> USE DEF EInv
<1>1. CASE UNCHANGED <<lsn, k>> /\ (pc' = pc \/ \E w : pc' = [pc EXCEPT !["doh"] = w])
  BY <1>0, <1>1 DEF CollectInv, Services
<1>2. ASSUME pc["dns53"] \notin {"collect", "report"}, UNCHANGED lsn,
             pc'["dns53"] \notin {"collect", "report", "ended"}
      PROVE  CollectInv'
  BY <1>2 DEF CollectInv
<1>3. ASSUME NEW t \in Services, Start(t)
      PROVE  CollectInv'
  <2>1. pc["dns53"] = "absent" /\ pc'["dns53"] \in {"absent", "second"} /\ lsn' = lsn
    BY <1>0, <1>3 DEF Start, IInv, OrderInv, StartInv, Services
  <2> QED
    BY <1>2, <2>1
<1>4. ASSUME NEW t \in Services, Setup(t)
      PROVE  CollectInv'
  <2>1. /\ pc[t] \in {"second", "first"} /\ lsn' = lsn
        /\ pc' = pc \/ \E w \in {"first", "exitip", "listen"} : pc' = [pc EXCEPT ![t] = w]
        /\ k' = [k EXCEPT ![t] = @ + 1] \/ k' = [k EXCEPT ![t] = 1]
    BY <1>4 DEF Setup, AppendSecondary, InsertPrimary, Loop, AfterSecondary
  <2>2. CASE t = "dns53"
    BY <1>0, <1>2, <2>1, <2>2
  <2>3. CASE t = "doh"
    BY <1>0, <2>1, <2>3 DEF CollectInv, Services
  <2> QED
    BY <2>2, <2>3 DEF Services
<1>5. CASE GetExitIP \/ AskCheckIP \/ ParseUpstream \/ NoCheckIPLeft
  <2>1. /\ pc["dns53"] \in {"get", "exitip", "thirdparty"} /\ lsn' = lsn
        /\ \/ pc' = pc
           \/ \E w \in {"thirdparty", "listen", "get", "blocked"} : pc' = [pc EXCEPT !["dns53"] = w]
    BY <1>5 DEF GetExitIP, AskCheckIP, Found, AfterGet, ParseUpstream, NoCheckIPLeft
  <2> QED
    BY <1>0, <1>2, <2>1 DEF Services
<1>6. CASE Listen
  <2>1. pc["dns53"] = "listen" /\ k["dns53"] \in DOMAIN cfg.listen
    <3>1. cfg.listen \in Seq(Entries)
      BY ServicesAssumption DEF IInv, TypeOK, ServicesAssumption
    <3> QED
      BY <1>0, <1>6, <3>1 DEF Listen
  <2>2. pc'["dns53"] = "listen" \/ (pc'["dns53"] = "report" /\ GaveUp)
    BY <1>0, <1>6, <2>1 DEF Listen, GaveUp, Services
  <2> QED
    BY <1>0, <2>2 DEF CollectInv
<1>7. CASE AllListen
  BY <1>0, <1>7 DEF AllListen, CollectInv, Services
<1>8. CASE Collect
  <2>1. /\ pc["dns53"] = "collect" /\ pc' = pc
        /\ lsn' = [lsn EXCEPT ![k["dns53"]] = "ended"] /\ k' = [k EXCEPT !["dns53"] = @ + 1]
    BY <1>8 DEF Collect, ListenerSendsError
  <2>2. k'["dns53"] = k["dns53"] + 1 /\ DOMAIN lsn' = DOMAIN lsn /\ DOMAIN lsn \subseteq Nat
    BY <1>0, <2>1 DEF Services
  <2>3. \A l \in DOMAIN lsn : l < k["dns53"] + 1 => l < k["dns53"] \/ l = k["dns53"]
    BY <1>0, <2>2
  <2> QED
    BY <1>0, <2>1, <2>2, <2>3 DEF CollectInv
<1>9. CASE AllCollected
  <2>1. \A l \in DOMAIN lsn : lsn[l] = "ended"
    BY <1>0, <1>9 DEF AllCollected, CollectInv
  <2> QED
    BY <1>0, <1>9, <2>1 DEF AllCollected, CollectInv, Services
<1>10. ASSUME NEW t \in Services, Skip(t) \/ Report(t)
       PROVE  CollectInv'
  BY <1>0, <1>10 DEF Skip, Report, CollectInv, Services
<1>11. ASSUME NEW l \in DOMAIN lsn, ListenerStops(l)
       PROVE  CollectInv'
  <2>1. /\ lsn[l] = "serving" /\ lsn' = [lsn EXCEPT ![l] = "report"]
        /\ pc' = pc /\ k' = k
    BY <1>11 DEF ListenerStops
  <2> QED
    BY <1>0, <2>1 DEF CollectInv
<1>12. CASE DohListens \/ DohStops
  BY <1>1, <1>12 DEF DohListens, DohStops
<1>13. CASE NilURL \/ Exit \/ Signal \/ Terminated \/ \E t \in Services : InitPanics(t)
  BY <1>1, <1>13 DEF NilURL, Exit, Signal, Terminated, InitPanics, vars
<1> QED
  BY <1>3, <1>4, <1>5, <1>6, <1>7, <1>8, <1>9, <1>10, <1>11, <1>12, <1>13
  DEF Next, MainGoes, Dns53Goes

\* Every step keeps the invariant of the wait.
LEMMA NextEInv == IInv /\ EInv /\ [Next]_vars => EInv'
<1> SUFFICES ASSUME IInv, EInv, [Next]_vars PROVE EInv'
  OBVIOUS
<1>1. CASE UNCHANGED vars
  BY <1>1 DEF vars, config, EInv, EnabledInv, PassedInv, Passed, CollectInv, GaveUp, ExitedInv
<1>2. CASE Next
  <2>1. \A s \in Services : pc'[s] # "absent" => s \in cfg'.enabled
    BY <1>2, Moves DEF EInv, EnabledInv
  <2>2. \/ main' = main
        \/ \E s \in Services : main' = AfterStart(s) \/ main' = AfterWait(s)
    BY <1>2 DEF Next, MainGoes, Start, Skip, Report, Exit, InitPanics, Setup, AppendSecondary,
                InsertPrimary, Loop, GetExitIP, AskCheckIP, Dns53Goes, ParseUpstream,
                NoCheckIPLeft, Listen, AllListen, Collect, AllCollected, NilURL, DohListens,
                DohStops, ListenerStops, Signal, Terminated, vars
  <2>3. main' = <<"start", "doh">> => pc'["doh"] = "absent"
    <3> SUFFICES ASSUME main' = <<"start", "doh">> PROVE pc'["doh"] = "absent"
      OBVIOUS
    <3>1. main = main' /\ pc["doh"] = "absent" /\ ~Start("doh")
      BY <2>2 DEF AfterStart, AfterWait, EInv, EnabledInv, Start
    <3> QED
      BY <1>2, <3>1, Moves DEF Services
  <2>4. ExitedInv'
    BY <1>2 DEF ExitedInv, EInv, Next, MainGoes, Start, Skip, Report, Exit, InitPanics, Setup,
                AppendSecondary, InsertPrimary, Loop, GetExitIP, AskCheckIP, Dns53Goes,
                ParseUpstream, NoCheckIPLeft, Listen, AllListen, Collect, AllCollected, NilURL,
                DohListens, DohStops, ListenerStops, Signal, Terminated, vars
  <2> QED
    BY <1>2, <2>1, <2>3, <2>4, NextPassed, NextCollect DEF EInv, EnabledInv
<1> QED
  BY <1>1, <1>2

LEMMA EInvariance == Spec => [](IInv /\ EInv)
<1>1. Init => EInv
  BY DEF Init, EInv, EnabledInv, PassedInv, Passed, CollectInv, ExitedInv, Services
<1> QED
  BY <1>1, NextEInv, Invariance, PTL DEF Spec

-----------------------------------------------------------------------------
(* Primary before secondary *)

\* In l, no element of S comes before one that is not in S.
Ordered(l, S) == \A i, j \in DOMAIN l : l[i] \notin S /\ l[j] \in S => i < j

\* The public addresses of a list up to an index are in l.
Walked(list, n, l) == \A i \in DOMAIN list : i < n /\ list[i] \in Public => list[i] \in ToSet(l)

\* The secondary list is walked first and gives nothing else than its addresses.
SecondInv ==
  \A s \in Services :
    /\ pc[s] = "absent" => defaults[s] = <<>> /\ k[s] = 1
    /\ pc[s] = "second" => /\ ToSet(defaults[s]) \subseteq SecondaryOf(s)
                           /\ Walked(Secondary(s), k[s], defaults[s])
    /\ pc[s] \notin {"absent", "second"} => SecondaryOf(s) \cap Public \subseteq ToSet(defaults[s])
    /\ Ordered(defaults[s], SecondaryOf(s))

\* Then comes the primary list, or the exit IP in its place.
FirstInv ==
  \A s \in Services :
    /\ pc[s] = "first" => ~ByExitIP(s) /\ Walked(Primary(s), k[s], defaults[s])
    /\ pc[s] \in {"exitip", "get", "thirdparty", "blocked", "nilurl"} => ByExitIP(s)
    /\ pc[s] \in {"listen", "serving", "collect", "report", "ended"} =>
         ByExitIP(s) \/ ToSet(Primary(s)) \cap Public \subseteq ToSet(defaults[s])

FoundInv == exitIP \in Public => exitIP \in ToSet(defaults["dns53"])

PInv == SecondInv /\ FirstInv /\ FoundInv

\* AppendDefault and InsertDefault lose nothing, and add the address if it is public.
LEMMA Added ==
  ASSUME NEW l \in UsableLists, NEW a
  PROVE  /\ ToSet(l) \subseteq ToSet(AppendDefault(l, a))
         /\ ToSet(AppendDefault(l, a)) \subseteq ToSet(l) \cup {a}
         /\ a \in Public => a \in ToSet(AppendDefault(l, a))
         /\ ToSet(l) \subseteq ToSet(InsertDefault(l, a))
         /\ ToSet(InsertDefault(l, a)) \subseteq ToSet(l) \cup {a}
         /\ a \in Public => a \in ToSet(InsertDefault(l, a))
<1>0. l \in Seq(Addr) /\ Len(l) \in Nat /\ DOMAIN l = 1..Len(l)
  BY DEF UsableLists
<1>1. CASE ~Usable(l, a)
  BY <1>0, <1>1 DEF AppendDefault, InsertDefault, Usable, Contains, ToSet
<1>2. CASE Usable(l, a)
  <2>0. a \in Addr
    BY <1>2, ServicesAssumption DEF Usable, ServicesAssumption
  <2>1. AppendDefault(l, a) = Append(l, a) /\ InsertDefault(l, a) = <<a>> \o l
    BY <1>2 DEF AppendDefault, InsertDefault
  <2>2. /\ DOMAIN Append(l, a) = 1..Len(l) + 1
        /\ \A i \in 1..Len(l) : Append(l, a)[i] = l[i]
        /\ Append(l, a)[Len(l) + 1] = a
    BY <1>0, <2>0
  <2>3. /\ DOMAIN (<<a>> \o l) = 1..Len(l) + 1
        /\ (<<a>> \o l)[1] = a
        /\ \A i \in 1..Len(l) : (<<a>> \o l)[i + 1] = l[i]
    BY <1>0, <2>0
  <2>4. ToSet(Append(l, a)) = ToSet(l) \cup {a}
    <3> DEFINE m == Append(l, a)
    <3>1. DOMAIN m = 1..Len(l) + 1 /\ (\A i \in 1..Len(l) : m[i] = l[i]) /\ m[Len(l) + 1] = a
      BY <2>2
    <3> HIDE DEF m
    <3>2. \A i \in 1..Len(l) + 1 : i \in 1..Len(l) \/ i = Len(l) + 1
      BY <1>0
    <3>3. \A i \in 1..Len(l) : i \in 1..Len(l) + 1
      BY <1>0
    <3>4. Len(l) + 1 \in 1..Len(l) + 1
      BY <1>0
    <3> QED
      BY <1>0, <3>1, <3>2, <3>3, <3>4 DEF ToSet, m
  <2>5. ToSet(<<a>> \o l) = ToSet(l) \cup {a}
    <3> DEFINE m == <<a>> \o l
    <3>1. DOMAIN m = 1..Len(l) + 1 /\ m[1] = a /\ \A i \in 1..Len(l) : m[i + 1] = l[i]
      BY <2>3
    <3> HIDE DEF m
    <3>2. \A i \in 1..Len(l) : i + 1 \in 1..Len(l) + 1
      BY <1>0
    <3>3. 1 \in 1..Len(l) + 1
      BY <1>0
    <3>4. ToSet(l) \subseteq ToSet(m) /\ a \in ToSet(m)
      BY <1>0, <3>1, <3>2, <3>3 DEF ToSet
    <3>5. \A j \in 1..Len(l) + 1 : j = 1 \/ (j - 1 \in 1..Len(l) /\ (j - 1) + 1 = j)
      BY <1>0
    <3>6. ToSet(m) \subseteq ToSet(l) \cup {a}
      <4> SUFFICES ASSUME NEW j \in DOMAIN m PROVE m[j] \in ToSet(l) \cup {a}
        BY DEF ToSet
      <4>1. j = 1 \/ (j - 1 \in 1..Len(l) /\ m[j] = l[j - 1])
        BY <3>1, <3>5
      <4> QED BY <1>0, <3>1, <4>1 DEF ToSet
    <3> QED
      BY <3>4, <3>6 DEF m
  <2> QED
    BY <2>1, <2>4, <2>5
<1> QED
  BY <1>1, <1>2

\* InsertDefault keeps a list ordered that has all of S that can be added.
LEMMA InsertOrdered ==
  ASSUME NEW l \in UsableLists, NEW a, NEW S, Ordered(l, S), S \cap Public \subseteq ToSet(l)
  PROVE  Ordered(InsertDefault(l, a), S)
<1>1. CASE ~Usable(l, a)
  BY <1>1 DEF InsertDefault
<1>2. CASE Usable(l, a)
  <2>0. l \in Seq(Addr) /\ Len(l) \in Nat /\ DOMAIN l = 1..Len(l) /\ a \in Addr /\ a \notin S
    BY <1>2, ServicesAssumption DEF UsableLists, Usable, Contains, ToSet, ServicesAssumption
  <2> DEFINE m == <<a>> \o l
  <2>1. DOMAIN m = 1..Len(l) + 1 /\ m[1] = a /\ \A i \in 2..Len(l) + 1 : m[i] = l[i - 1]
    BY <2>0
  <2>2. InsertDefault(l, a) = m
    BY <1>2 DEF InsertDefault
  <2> HIDE DEF m
  <2>3. Ordered(m, S)
    <3> SUFFICES ASSUME NEW i \in DOMAIN m, NEW j \in DOMAIN m, m[i] \notin S, m[j] \in S
                 PROVE  i < j
      BY DEF Ordered
    <3>1. i \in 1..Len(l) + 1 /\ j \in 2..Len(l) + 1
      BY <2>0, <2>1
    <3>2. CASE i = 1
      BY <2>0, <3>1, <3>2
    <3>3. CASE i # 1
      <4>1. i - 1 \in DOMAIN l /\ j - 1 \in DOMAIN l /\ l[i - 1] \notin S /\ l[j - 1] \in S
        BY <2>0, <2>1, <3>1, <3>3
      <4>2. i - 1 < j - 1
        BY <4>1 DEF Ordered
      <4> QED
        BY <3>1, <4>2
    <3> QED
      BY <3>2, <3>3
  <2> QED
    BY <2>2, <2>3
<1> QED
  BY <1>1, <1>2

\* A list all of whose elements are in S is ordered.
LEMMA AllOrdered ==
  ASSUME NEW l, NEW S, ToSet(l) \subseteq S
  PROVE  Ordered(l, S)
BY DEF Ordered, ToSet

\* The lists of the configuration are sequences, and stay what they are.
LEMMA ListsTyped ==
  ASSUME TypeOK, NEW s \in Services
  PROVE  /\ Secondary(s) \in Seq(Addr \cup {NoIP}) /\ Primary(s) \in Seq(Addr \cup {NoIP})
         /\ lists' = lists => Secondary(s)' = Secondary(s) /\ Primary(s)' = Primary(s)
BY ServicesAssumption DEF TypeOK, Secondary, Primary, ServicesAssumption

\* One more entry is walked, or all of them were.
LEMMA WalkStep ==
  ASSUME NEW T, NEW list \in Seq(T), NEW l, NEW n \in Nat
  PROVE  /\ \A m : n \in DOMAIN list /\ Walked(list, n, l) /\ ToSet(l) \subseteq ToSet(m)
                     /\ (list[n] \in Public => list[n] \in ToSet(m)) => Walked(list, n + 1, m)
         /\ n > Len(list) /\ Walked(list, n, l) => ToSet(list) \cap Public \subseteq ToSet(l)
         /\ Walked(list, 1, l)
<1>1. DOMAIN list = 1..Len(list) /\ Len(list) \in Nat
  OBVIOUS
<1>2. \A i \in DOMAIN list : i \in Nat /\ i >= 1 /\ (i < n + 1 => i < n \/ i = n)
  BY <1>1
<1>3. n > Len(list) => \A i \in DOMAIN list : i < n
  BY <1>1
<1>4. ASSUME NEW m, n \in DOMAIN list, Walked(list, n, l), ToSet(l) \subseteq ToSet(m),
             list[n] \in Public => list[n] \in ToSet(m)
      PROVE  Walked(list, n + 1, m)
  BY <1>2, <1>4 DEF Walked
<1>5. n > Len(list) /\ Walked(list, n, l) => ToSet(list) \cap Public \subseteq ToSet(l)
  BY <1>3 DEF Walked, ToSet
<1>6. Walked(list, 1, l)
  BY <1>2 DEF Walked
<1> QED
  BY <1>4, <1>5, <1>6

\* An iteration over the secondary list.
LEMMA SecondPInv ==
  ASSUME IInv, PInv, NEW s \in Services, AppendSecondary(s)
  PROVE  PInv'
<1> DEFINE list == Secondary(s)
           l == defaults[s]
<1>0. /\ l \in UsableLists /\ k[s] \in Nat \ {0} /\ list \in Seq(Addr \cup {NoIP})
      /\ defaults \in [Services -> UsableLists] /\ pc \in [Services -> PCs]
      /\ k \in [Services -> Nat \ {0}] /\ TypeOK
  BY DefaultsNow, ListsTyped DEF IInv, TypeOK, PCs
<1>1. /\ pc[s] = "second" /\ UNCHANGED <<cfg, lists, exitIP>>
      /\ \/ /\ k[s] <= Len(list) /\ pc' = pc
            /\ defaults' = [defaults EXCEPT ![s] = AppendDefault(l, list[k[s]])]
            /\ k' = [k EXCEPT ![s] = @ + 1]
         \/ /\ k[s] > Len(list) /\ UNCHANGED defaults
            /\ k' = [k EXCEPT ![s] = 1]
            /\ pc' = [pc EXCEPT ![s] = AfterSecondary(s)]
  BY <1>0 DEF AppendSecondary, Loop, config
<1>2. ToSet(l) \subseteq ToSet(list) /\ Walked(list, k[s], l) /\ Ordered(l, SecondaryOf(s))
  BY <1>1 DEF PInv, SecondInv, SecondaryOf
<1>3. /\ \A t \in Services : Secondary(t)' = Secondary(t) /\ Primary(t)' = Primary(t)
      /\ \A t \in Services : SecondaryOf(t)' = SecondaryOf(t) /\ ByExitIP(t)' = ByExitIP(t)
  BY <1>0, <1>1, ListsTyped DEF SecondaryOf, ByExitIP
<1>4. \A t \in Services : t # s => pc'[t] = pc[t] /\ k'[t] = k[t] /\ defaults'[t] = defaults[t]
  BY <1>0, <1>1
<1>5. CASE k[s] <= Len(list)
  <2> DEFINE a == list[k[s]]
             m == AppendDefault(l, a)
  <2>1. k[s] \in DOMAIN list
    BY <1>0, <1>5
  <2>2. pc' = pc /\ defaults'[s] = m /\ k'[s] = k[s] + 1
    BY <1>0, <1>1, <1>5
  <2>3. ToSet(l) \subseteq ToSet(m) /\ ToSet(m) \subseteq ToSet(list) /\ (a \in Public => a \in ToSet(m))
    <3>1. a \in ToSet(list)
      BY <2>1 DEF ToSet
    <3> QED
      BY <1>0, <1>2, <3>1, Added
  <2> HIDE DEF m
  <2>4. Walked(list, k[s] + 1, m)
    BY <1>0, <1>2, <2>1, <2>3, WalkStep
  <2>5. Ordered(m, SecondaryOf(s))
    BY <2>3, AllOrdered DEF SecondaryOf
  <2>6. SecondInv'
    BY <1>1, <1>3, <1>4, <2>2, <2>3, <2>4, <2>5 DEF PInv, SecondInv, SecondaryOf
  <2>7. FirstInv'
    BY <1>1, <1>3, <1>4, <2>2 DEF PInv, FirstInv
  <2>8. FoundInv'
    BY <1>1, <1>4, <2>2, <2>3 DEF PInv, FoundInv, Services
  <2> QED
    BY <2>6, <2>7, <2>8 DEF PInv
<1>6. CASE k[s] > Len(list)
  <2>1. /\ defaults' = defaults /\ k'[s] = 1
        /\ pc'[s] = IF ByExitIP(s) THEN "exitip" ELSE "first"
    BY <1>0, <1>1, <1>6 DEF AfterSecondary, ByExitIP
  <2>2. ToSet(list) \cap Public \subseteq ToSet(l)
    BY <1>0, <1>2, <1>6, WalkStep
  <2>3. Walked(Primary(s), 1, l)
    <3>1. Primary(s) \in Seq(Addr \cup {NoIP})
      BY <1>0, ListsTyped
    <3> QED
      BY <1>0, <3>1, WalkStep
  <2>4. SecondInv'
    BY <1>2, <1>3, <1>4, <2>1, <2>2 DEF PInv, SecondInv, SecondaryOf
  <2>5. FirstInv'
    BY <1>3, <1>4, <2>1, <2>3 DEF PInv, FirstInv
  <2> QED
    BY <1>1, <2>1, <2>4, <2>5 DEF PInv, FoundInv
<1> QED
  BY <1>0, <1>5, <1>6

\* An iteration over the primary list.
LEMMA FirstPInv ==
  ASSUME IInv, PInv, NEW s \in Services, InsertPrimary(s)
  PROVE  PInv'
<1> DEFINE list == Primary(s)
           l == defaults[s]
<1>0. /\ l \in UsableLists /\ k[s] \in Nat \ {0} /\ list \in Seq(Addr \cup {NoIP})
      /\ defaults \in [Services -> UsableLists] /\ pc \in [Services -> PCs]
      /\ k \in [Services -> Nat \ {0}] /\ TypeOK
  BY DefaultsNow, ListsTyped DEF IInv, TypeOK, PCs
<1>1. /\ pc[s] = "first" /\ UNCHANGED <<cfg, lists, exitIP>>
      /\ \/ /\ k[s] <= Len(list) /\ pc' = pc
            /\ defaults' = [defaults EXCEPT ![s] = InsertDefault(l, list[k[s]])]
            /\ k' = [k EXCEPT ![s] = @ + 1]
         \/ /\ k[s] > Len(list) /\ UNCHANGED defaults
            /\ k' = [k EXCEPT ![s] = 1]
            /\ pc' = [pc EXCEPT ![s] = "listen"]
  BY <1>0 DEF InsertPrimary, Loop, config
<1>2. /\ SecondaryOf(s) \cap Public \subseteq ToSet(l) /\ Ordered(l, SecondaryOf(s))
      /\ ~ByExitIP(s) /\ Walked(list, k[s], l)
  BY <1>1 DEF PInv, SecondInv, FirstInv
<1>3. /\ \A t \in Services : Secondary(t)' = Secondary(t) /\ Primary(t)' = Primary(t)
      /\ \A t \in Services : SecondaryOf(t)' = SecondaryOf(t) /\ ByExitIP(t)' = ByExitIP(t)
  BY <1>0, <1>1, ListsTyped DEF SecondaryOf, ByExitIP
<1>4. \A t \in Services : t # s => pc'[t] = pc[t] /\ k'[t] = k[t] /\ defaults'[t] = defaults[t]
  BY <1>0, <1>1
<1>5. CASE k[s] <= Len(list)
  <2> DEFINE a == list[k[s]]
             m == InsertDefault(l, a)
  <2>1. k[s] \in DOMAIN list
    BY <1>0, <1>5
  <2>2. pc' = pc /\ defaults'[s] = m /\ k'[s] = k[s] + 1
    BY <1>0, <1>1, <1>5
  <2>3. ToSet(l) \subseteq ToSet(m) /\ (a \in Public => a \in ToSet(m))
    BY <1>0, Added
  <2>4. Ordered(m, SecondaryOf(s))
    BY <1>0, <1>2, InsertOrdered
  <2> HIDE DEF m
  <2>5. Walked(list, k[s] + 1, m)
    BY <1>0, <1>2, <2>1, <2>3, WalkStep
  <2>6. SecondInv'
    BY <1>1, <1>2, <1>3, <1>4, <2>2, <2>3, <2>4 DEF PInv, SecondInv
  <2>7. FirstInv'
    BY <1>1, <1>2, <1>3, <1>4, <2>2, <2>5 DEF PInv, FirstInv
  <2>8. FoundInv'
    BY <1>1, <1>4, <2>2, <2>3 DEF PInv, FoundInv, Services
  <2> QED
    BY <2>6, <2>7, <2>8 DEF PInv
<1>6. CASE k[s] > Len(list)
  <2>1. defaults' = defaults /\ k'[s] = 1 /\ pc'[s] = "listen"
    BY <1>0, <1>1, <1>6
  <2>2. ToSet(list) \cap Public \subseteq ToSet(l)
    BY <1>0, <1>2, <1>6, WalkStep
  <2>3. SecondInv'
    BY <1>2, <1>3, <1>4, <2>1 DEF PInv, SecondInv
  <2>4. FirstInv'
    BY <1>3, <1>4, <2>1, <2>2 DEF PInv, FirstInv
  <2> QED
    BY <1>1, <2>1, <2>3, <2>4 DEF PInv, FoundInv
<1> QED
  BY <1>0, <1>5, <1>6

\* What a check-IP service answers comes before the secondary addresses.
LEMMA ExitIPPInv ==
  ASSUME IInv, PInv, GetExitIP \/ AskCheckIP
  PROVE  PInv'
<1> DEFINE s == "dns53"
           l == defaults[s]
<1>0. /\ s \in Services /\ l \in UsableLists /\ TypeOK
      /\ defaults \in [Services -> UsableLists] /\ pc \in [Services -> PCs]
  BY DefaultsNow DEF IInv, TypeOK, PCs, Services
<1>1. /\ pc[s] \in {"get", "thirdparty"} /\ UNCHANGED <<cfg, lists, k>>
      /\ \/ UNCHANGED <<exitIP, defaults, pc>>
         \/ /\ defaults' = [defaults EXCEPT ![s] = InsertDefault(@, exitIP')]
            /\ \E w \in {"thirdparty", "listen"} : pc' = [pc EXCEPT ![s] = w]
  BY DEF GetExitIP, AskCheckIP, Found, AfterGet, config
<1>2. /\ SecondaryOf(s) \cap Public \subseteq ToSet(l) /\ Ordered(l, SecondaryOf(s)) /\ ByExitIP(s)
  BY <1>0, <1>1 DEF PInv, SecondInv, FirstInv
<1>3. /\ \A t \in Services : Secondary(t)' = Secondary(t) /\ Primary(t)' = Primary(t)
      /\ \A t \in Services : SecondaryOf(t)' = SecondaryOf(t) /\ ByExitIP(t)' = ByExitIP(t)
  BY <1>0, <1>1, ListsTyped DEF SecondaryOf, ByExitIP
<1>4. CASE UNCHANGED <<exitIP, defaults, pc>>
  BY <1>1, <1>3, <1>4 DEF PInv, SecondInv, FirstInv, FoundInv
<1>5. CASE /\ defaults' = [defaults EXCEPT ![s] = InsertDefault(@, exitIP')]
           /\ \E w \in {"thirdparty", "listen"} : pc' = [pc EXCEPT ![s] = w]
  <2> DEFINE m == InsertDefault(l, exitIP')
  <2>1. /\ pc'[s] \in {"thirdparty", "listen"} /\ defaults'[s] = m
        /\ \A t \in Services : t # s => pc'[t] = pc[t] /\ defaults'[t] = defaults[t]
    BY <1>0, <1>5
  <2>2. ToSet(l) \subseteq ToSet(m) /\ (exitIP' \in Public => exitIP' \in ToSet(m))
    BY <1>0, Added
  <2>3. Ordered(m, SecondaryOf(s))
    BY <1>0, <1>2, InsertOrdered
  <2> HIDE DEF m
  <2>4. SecondInv'
    BY <1>1, <1>2, <1>3, <2>1, <2>2, <2>3 DEF PInv, SecondInv
  <2>5. FirstInv'
    BY <1>1, <1>2, <1>3, <2>1 DEF PInv, FirstInv
  <2> QED
    BY <2>1, <2>2, <2>4, <2>5 DEF PInv, FoundInv
<1> QED
  BY <1>1, <1>4, <1>5

\* A step that leaves the lists alone moves a service within the phase it is in.
LEMMA RestPInv ==
  ASSUME IInv, PInv, UNCHANGED <<cfg, lists, defaults, exitIP>>,
         \A s \in Services :
           \/ pc'[s] = pc[s] /\ (pc[s] \in {"absent", "second", "first"} => k'[s] = k[s])
           \/ pc[s] = "absent" /\ pc'[s] = "second" /\ k'[s] = k[s]
           \/ pc[s] \in {"listen", "serving", "collect", "report"}
                /\ pc'[s] \in {"listen", "serving", "collect", "report", "ended"}
           \/ pc[s] \in {"exitip", "thirdparty", "blocked"}
                /\ pc'[s] \in {"get", "thirdparty", "blocked", "nilurl", "listen"}
  PROVE  PInv'
<1>1. /\ \A t \in Services : Secondary(t)' = Secondary(t) /\ Primary(t)' = Primary(t)
      /\ \A t \in Services : SecondaryOf(t)' = SecondaryOf(t) /\ ByExitIP(t)' = ByExitIP(t)
  BY ListsTyped DEF SecondaryOf, ByExitIP, IInv
<1>2. \A t \in Services : pc[t] = "absent" => ToSet(defaults[t]) = {} /\ Walked(Secondary(t), k[t], defaults[t])
  <2> SUFFICES ASSUME NEW t \in Services, pc[t] = "absent"
               PROVE  ToSet(defaults[t]) = {} /\ Walked(Secondary(t), k[t], defaults[t])
    OBVIOUS
  <2>1. defaults[t] = <<>> /\ k[t] = 1 /\ Secondary(t) \in Seq(Addr \cup {NoIP})
    BY ListsTyped DEF PInv, SecondInv, IInv
  <2> QED
    BY <2>1, WalkStep DEF ToSet
<1>3. SecondInv'
  BY <1>1, <1>2 DEF PInv, SecondInv
<1>4. FirstInv'
  BY <1>1 DEF PInv, FirstInv
<1> QED
  BY <1>3, <1>4 DEF PInv, FoundInv

\* Every step keeps primary addresses before secondary ones.
LEMMA NextPInv == IInv /\ EInv /\ PInv /\ [Next]_vars => PInv'
<1> SUFFICES ASSUME IInv, EInv, PInv, [Next]_vars PROVE PInv'
  OBVIOUS
<1>0. pc \in [Services -> PCs] /\ k \in [Services -> Nat \ {0}]
  BY DEF IInv, TypeOK, PCs
<1>1. CASE UNCHANGED vars
  BY <1>1, RestPInv DEF vars, config
<1>2. ASSUME NEW t \in Services, Start(t)
      PROVE  PInv'
  <2>1. pc[t] = "absent"
    BY <1>2 DEF Start, IInv, OrderInv, StartInv, EInv, EnabledInv, Services
  <2> QED
    BY <1>0, <1>2, <2>1, RestPInv DEF Start, config
<1>3. ASSUME NEW t \in Services, Setup(t)
      PROVE  PInv'
  BY <1>3, SecondPInv, FirstPInv DEF Setup
<1>4. CASE GetExitIP \/ AskCheckIP
  BY <1>4, ExitIPPInv
<1>5. CASE Dns53Goes
  <2>1. /\ UNCHANGED <<cfg, lists, defaults, exitIP>>
        /\ k' = k \/ (pc["dns53"] \in {"listen", "collect"} /\ \E n : k' = [k EXCEPT !["dns53"] = n])
        /\ \/ pc' = pc
           \/ /\ pc["dns53"] \in {"exitip", "thirdparty"}
              /\ \E w \in {"get", "thirdparty", "blocked", "listen"} : pc' = [pc EXCEPT !["dns53"] = w]
           \/ /\ pc["dns53"] \in {"listen", "collect"}
              /\ \E w \in {"collect", "report"} : pc' = [pc EXCEPT !["dns53"] = w]
    BY <1>5 DEF Dns53Goes, ParseUpstream, NoCheckIPLeft, Listen, AllListen, Collect,
                AllCollected, config
  <2> QED
    BY <1>0, <2>1, RestPInv DEF Services
<1>6. CASE DohListens \/ DohStops
  BY <1>0, <1>6, RestPInv DEF DohListens, DohStops, config, Services
<1>7. ASSUME NEW t \in Services, Report(t)
      PROVE  PInv'
  BY <1>0, <1>7, RestPInv DEF Report, config
<1>8. CASE \/ NilURL \/ Exit \/ Signal
           \/ \E t \in Services : InitPanics(t) \/ Skip(t)
           \/ \E l \in DOMAIN lsn : ListenerStops(l)
  BY <1>8, RestPInv DEF NilURL, Exit, Signal, InitPanics, Skip, ListenerStops, config
<1>9. CASE Terminated
  BY <1>1, <1>9 DEF Terminated
<1> QED
  BY <1>1, <1>2, <1>3, <1>4, <1>5, <1>6, <1>7, <1>8, <1>9 DEF Next, MainGoes

LEMMA PInvariance == Spec => [](IInv /\ PInv)
<1>1. Init => PInv
  <2> SUFFICES ASSUME Init PROVE PInv
    OBVIOUS
  <2>1. \A s \in Services : pc[s] = "absent" /\ defaults[s] = <<>> /\ k[s] = 1
    BY DEF Init
  <2>2. SecondInv
    BY <2>1 DEF SecondInv, Ordered
  <2>3. exitIP \notin Public
    BY ServicesAssumption DEF Init, ServicesAssumption
  <2> QED
    BY <2>1, <2>2, <2>3 DEF PInv, FirstInv, FoundInv
<1> QED
  BY <1>1, NextPInv, EInvariance, PTL DEF Spec

-----------------------------------------------------------------------------
(* Nothing else than the lists and the exit IP *)

BeforeListen == {"absent", "second", "first", "exitip", "get", "thirdparty", "blocked", "nilurl"}

OnlyInv ==
  /\ \A s \in Services : ToSet(defaults[s]) \subseteq SecondaryOf(s) \cup PrimaryOf(s)
  /\ pc["dns53"] \in BeforeListen => exitIP = None

\* A step that adds no default and finds no exit IP.
LEMMA RestOnlyInv ==
  ASSUME IInv, OnlyInv, UNCHANGED <<cfg, lists, defaults, exitIP>>,
         pc'["dns53"] \in BeforeListen => pc["dns53"] \in BeforeListen
  PROVE  OnlyInv'
<1>1. \A t \in Services : SecondaryOf(t)' = SecondaryOf(t) /\ PrimaryOf(t)' = PrimaryOf(t)
  BY ListsTyped DEF SecondaryOf, PrimaryOf, ByExitIP, IInv
<1> QED
  BY <1>1 DEF OnlyInv

\* What an iteration adds is an entry of the list it is over.
LEMMA SetupOnlyInv ==
  ASSUME IInv, PInv, OnlyInv, NEW s \in Services, Setup(s)
  PROVE  OnlyInv'
<1>0. /\ defaults \in [Services -> UsableLists] /\ pc \in [Services -> PCs]
      /\ k[s] \in Nat \ {0} /\ TypeOK
  BY DefaultsNow DEF IInv, TypeOK, PCs
<1>1. /\ pc[s] \in {"second", "first"} /\ UNCHANGED <<cfg, lists, exitIP>>
      /\ \/ pc' = pc
         \/ \E w \in {"first", "exitip", "listen"} : pc' = [pc EXCEPT ![s] = w]
      /\ \/ defaults' = defaults
         \/ pc[s] = "second" /\ k[s] <= Len(Secondary(s))
              /\ defaults' = [defaults EXCEPT ![s] = AppendDefault(defaults[s], Secondary(s)[k[s]])]
         \/ pc[s] = "first" /\ k[s] <= Len(Primary(s))
              /\ defaults' = [defaults EXCEPT ![s] = InsertDefault(defaults[s], Primary(s)[k[s]])]
  BY DEF Setup, AppendSecondary, InsertPrimary, Loop, AfterSecondary, config
<1>2. \A t \in Services : SecondaryOf(t)' = SecondaryOf(t) /\ PrimaryOf(t)' = PrimaryOf(t)
  BY <1>0, <1>1, ListsTyped DEF SecondaryOf, PrimaryOf, ByExitIP
<1>3. pc'["dns53"] \in BeforeListen => pc["dns53"] \in BeforeListen
  BY <1>0, <1>1 DEF BeforeListen, Services
<1>4. ToSet(defaults'[s]) \subseteq SecondaryOf(s) \cup PrimaryOf(s)
  <2>0. /\ ToSet(defaults[s]) \subseteq SecondaryOf(s) \cup PrimaryOf(s)
        /\ defaults[s] \in UsableLists
    BY <1>0 DEF OnlyInv
  <2>1. CASE defaults' = defaults
    BY <2>0, <2>1
  <2>2. CASE /\ pc[s] = "second" /\ k[s] <= Len(Secondary(s))
             /\ defaults' = [defaults EXCEPT ![s] = AppendDefault(defaults[s], Secondary(s)[k[s]])]
    <3>1. k[s] \in DOMAIN Secondary(s)
      BY <1>0, <2>2, ListsTyped
    <3>2. Secondary(s)[k[s]] \in SecondaryOf(s)
      BY <3>1 DEF SecondaryOf, ToSet
    <3>3. defaults'[s] = AppendDefault(defaults[s], Secondary(s)[k[s]])
      BY <1>0, <2>2
    <3> QED
      BY <2>0, <3>2, <3>3, Added
  <2>3. CASE /\ pc[s] = "first" /\ k[s] <= Len(Primary(s))
             /\ defaults' = [defaults EXCEPT ![s] = InsertDefault(defaults[s], Primary(s)[k[s]])]
    <3>1. k[s] \in DOMAIN Primary(s)
      BY <1>0, <2>3, ListsTyped
    <3>2. Primary(s)[k[s]] \in PrimaryOf(s)
      BY <2>3, <3>1 DEF PInv, FirstInv, PrimaryOf, ToSet
    <3>3. defaults'[s] = InsertDefault(defaults[s], Primary(s)[k[s]])
      BY <1>0, <2>3
    <3> QED
      BY <2>0, <3>2, <3>3, Added
  <2> QED
    BY <1>1, <2>1, <2>2, <2>3
<1>5. \A t \in Services : t # s => defaults'[t] = defaults[t]
  BY <1>0, <1>1
<1> QED
  BY <1>1, <1>2, <1>3, <1>4, <1>5 DEF OnlyInv

\* The exit IP is found once, and is what is added.
LEMMA ExitIPOnlyInv ==
  ASSUME IInv, PInv, OnlyInv, GetExitIP \/ AskCheckIP
  PROVE  OnlyInv'
<1>0. /\ defaults \in [Services -> UsableLists] /\ pc \in [Services -> PCs] /\ TypeOK
      /\ "dns53" \in Services
  BY DefaultsNow DEF IInv, TypeOK, PCs, Services
<1>1. /\ pc["dns53"] \in {"get", "thirdparty"} /\ UNCHANGED <<cfg, lists>>
      /\ \/ UNCHANGED <<exitIP, defaults, pc>>
         \/ /\ defaults' = [defaults EXCEPT !["dns53"] = InsertDefault(@, exitIP')]
            /\ \/ pc' = [pc EXCEPT !["dns53"] = "listen"]
               \/ pc' = [pc EXCEPT !["dns53"] = "thirdparty"] /\ exitIP' = None
  BY DEF GetExitIP, AskCheckIP, Found, AfterGet, config
<1>2. CASE UNCHANGED <<exitIP, defaults, pc>>
  BY <1>1, <1>2, RestOnlyInv
<1>3. CASE /\ defaults' = [defaults EXCEPT !["dns53"] = InsertDefault(@, exitIP')]
           /\ \/ pc' = [pc EXCEPT !["dns53"] = "listen"]
              \/ pc' = [pc EXCEPT !["dns53"] = "thirdparty"] /\ exitIP' = None
  <2>1. /\ defaults["dns53"] \in UsableLists
        /\ defaults'["dns53"] = InsertDefault(defaults["dns53"], exitIP')
        /\ defaults'["doh"] = defaults["doh"] /\ "doh" \in Services
        /\ pc'["dns53"] \in BeforeListen => exitIP' = None
    BY <1>0, <1>3 DEF Services, BeforeListen
  <2>2. exitIP = None /\ ByExitIP("dns53")
    BY <1>0, <1>1 DEF OnlyInv, BeforeListen, PInv, FirstInv
  <2>3. /\ \A t \in Services : SecondaryOf(t)' = SecondaryOf(t)
        /\ PrimaryOf("doh")' = PrimaryOf("doh") /\ PrimaryOf("dns53")' = {exitIP'}
    BY <1>0, <1>1, <2>1, <2>2, ListsTyped DEF SecondaryOf, PrimaryOf, ByExitIP
  <2>4. ToSet(defaults["dns53"]) \subseteq SecondaryOf("dns53")
    <3>1. ToSet(defaults["dns53"]) \subseteq SecondaryOf("dns53") \cup {None}
      BY <1>0, <2>2 DEF OnlyInv, PrimaryOf
    <3>2. None \notin ToSet(defaults["dns53"])
      BY <2>1, ServicesAssumption DEF UsableLists, ToSet, ServicesAssumption
    <3> QED BY <3>1, <3>2
  <2>5. ToSet(defaults'["dns53"]) \subseteq SecondaryOf("dns53") \cup {exitIP'}
    BY <2>1, <2>4, Added
  <2> QED
    BY <2>1, <2>3, <2>5 DEF OnlyInv, Services
<1> QED
  BY <1>1, <1>2, <1>3

\* Every other step adds nothing.
LEMMA NextOnlyInv == IInv /\ EInv /\ PInv /\ OnlyInv /\ [Next]_vars => OnlyInv'
<1> SUFFICES ASSUME IInv, EInv, PInv, OnlyInv, [Next]_vars PROVE OnlyInv'
  OBVIOUS
<1>0. pc \in [Services -> PCs]
  BY DEF IInv, TypeOK, PCs
<1>1. CASE UNCHANGED vars
  BY <1>1, RestOnlyInv DEF vars, config
<1>2. ASSUME NEW t \in Services, Start(t) \/ Skip(t)
      PROVE  OnlyInv'
  <2>1. Start(t) => pc[t] = "absent"
    BY DEF Start, IInv, OrderInv, StartInv, EInv, EnabledInv, Services
  <2>2. pc'["dns53"] = pc["dns53"] \/ pc["dns53"] = "absent"
    BY <1>0, <1>2, <2>1 DEF Start, Skip, Services
  <2>3. UNCHANGED <<cfg, lists, defaults, exitIP>>
    BY <1>2 DEF Start, Skip, config
  <2> QED
    BY <2>2, <2>3, RestOnlyInv DEF BeforeListen
<1>3. ASSUME NEW t \in Services, Setup(t)
      PROVE  OnlyInv'
  BY <1>3, SetupOnlyInv
<1>4. CASE GetExitIP \/ AskCheckIP
  BY <1>4, ExitIPOnlyInv
<1>5. CASE Dns53Goes
  <2>1. /\ UNCHANGED <<cfg, lists, defaults, exitIP>>
        /\ \/ pc' = pc
           \/ pc["dns53"] \in {"exitip", "thirdparty"}
           \/ \E w \in {"collect", "report"} : pc' = [pc EXCEPT !["dns53"] = w]
    BY <1>5 DEF Dns53Goes, ParseUpstream, NoCheckIPLeft, Listen, AllListen, Collect,
                AllCollected, config
  <2> QED
    BY <1>0, <2>1, RestOnlyInv DEF Services, BeforeListen
<1>6. CASE DohListens \/ DohStops
  BY <1>0, <1>6, RestOnlyInv DEF DohListens, DohStops, config, Services
<1>7. ASSUME NEW t \in Services, Report(t)
      PROVE  OnlyInv'
  <2>1. /\ UNCHANGED <<cfg, lists, defaults, exitIP>>
        /\ \/ pc[t] = "report" /\ pc' = [pc EXCEPT ![t] = "ended"]
           \/ pc[t] = "blocked" /\ pc' = [pc EXCEPT ![t] = "nilurl"]
    BY <1>7 DEF Report, config
  <2>2. pc'["dns53"] \in BeforeListen => pc["dns53"] \in BeforeListen
    BY <1>0, <2>1 DEF Services, BeforeListen
  <2> QED
    BY <2>1, <2>2, RestOnlyInv
<1>8. CASE \/ NilURL \/ Exit \/ Signal
           \/ \E t \in Services : InitPanics(t)
           \/ \E l \in DOMAIN lsn : ListenerStops(l)
  BY <1>8, RestOnlyInv DEF NilURL, Exit, Signal, InitPanics, ListenerStops, config
<1>9. CASE Terminated
  BY <1>1, <1>9 DEF Terminated
<1> QED
  BY <1>1, <1>2, <1>3, <1>4, <1>5, <1>6, <1>7, <1>8, <1>9 DEF Next, MainGoes

LEMMA OnlyInvariance == Spec => [](IInv /\ PInv /\ OnlyInv)
<1>1. Init => OnlyInv
  <2> SUFFICES ASSUME Init PROVE OnlyInv
    OBVIOUS
  <2>1. \A s \in Services : ToSet(defaults[s]) = {}
    BY DEF Init, ToSet
  <2> QED
    BY <2>1 DEF OnlyInv, Init
<1> QED
  BY <1>1, NextOnlyInv, EInvariance, PInvariance, PTL DEF Spec

-----------------------------------------------------------------------------
(* Theorems *)

\* Every state of main and of the services is well formed.
THEOREM TypeCorrect == Spec => []TypeOK
<1>1. IInv => TypeOK
  BY DEF IInv
<1> QED
  BY <1>1, Invariance, PTL

\* The default ECS IPs serveDohSvc and serveDns53Svc build are public and there
\* once, whatever the configuration lists and check-IP services answer.
THEOREM UsableDefaults == Spec => []DefaultsUsable
<1>1. IInv => DefaultsUsable
  BY DEF IInv
<1> QED
  BY <1>1, Invariance, PTL

\* A handler that can be called has its answerer, and nobody writes the defaults
\* it reads without a lock.
THEOREM Settled == Spec => SettledBeforeServing
<1>1. IInv /\ [Next]_vars =>
        [\A s \in Services : Serving(s)' => answerer[s] /\ defaults'[s] = defaults[s]]_vars
  BY NextSettled
<1> QED
  BY <1>1, Invariance, PTL DEF Spec, SettledBeforeServing

\* main leaves only after every service it started has reported its end, and a
\* listener is cut off only by a service that gave up at a listen address.
THEOREM ExitAfterService == Spec => []ExitsWhenServed
<1>1. IInv /\ EInv => ExitsWhenServed
  <2> SUFFICES ASSUME IInv, EInv, process = "exited"
               PROVE  /\ \A s \in cfg.enabled : pc[s] \in {"ended", "nilurl"}
                      /\ ~Serving("doh")
                      /\ Serving("dns53") => GaveUp
    BY DEF ExitsWhenServed, GaveUp
  <2>1. \A s \in cfg.enabled : pc[s] \in {"ended", "nilurl"}
    BY DEF EInv, ExitedInv, PassedInv, Passed
  <2>2. \A s \in Services : pc[s] \in {"absent", "ended", "nilurl"}
    BY <2>1 DEF EInv, EnabledInv
  <2>3. ~Serving("doh")
    BY <2>2 DEF Serving, Services
  <2>4. Serving("dns53") => pc["dns53"] = "ended"
    BY <2>2 DEF Serving, Services, IInv, OrderInv, ListenInv, TypeOK
  <2> QED
    BY <2>1, <2>3, <2>4 DEF EInv, CollectInv, Serving
<1> QED
  BY <1>1, EInvariance, PTL

\* The ECS IP a service is given as its primary one, or its exit IP, comes before
\* every secondary one in what a query is asked with.
THEOREM PrimaryIsFirst == Spec => []PrimaryFirst
<1>1. IInv /\ PInv => PrimaryFirst
  <2> SUFFICES ASSUME IInv, PInv, NEW s \in Services, Serving(s),
                      NEW a \in (PrimaryOf(s) \ SecondaryOf(s)) \cap Public,
                      NEW b \in SecondaryOf(s) \cap Public
               PROVE  \E i, j \in DOMAIN defaults[s] :
                        i < j /\ defaults[s][i] = a /\ defaults[s][j] = b
    BY DEF PrimaryFirst
  <2>1. pc[s] \in {"listen", "serving", "collect", "report", "ended"}
    BY DEF Serving, Services, IInv, OrderInv, ListenInv, TypeOK
  <2>2. b \in ToSet(defaults[s])
    BY <2>1 DEF PInv, SecondInv
  <2>3. a \in ToSet(defaults[s])
    BY <2>1 DEF PInv, FirstInv, FoundInv, ByExitIP, PrimaryOf
  <2>4. PICK i, j \in DOMAIN defaults[s] : defaults[s][i] = a /\ defaults[s][j] = b
    BY <2>2, <2>3 DEF ToSet
  <2> QED
    BY <2>4 DEF PInv, SecondInv, Ordered
<1> QED
  BY <1>1, PInvariance, PTL

\* What a service asks with is what it walked or found, no more and no less: the
\* public addresses of the lists Primary and Secondary name, or the exit IP.
AskedWith ==
  \A s \in Services : Serving(s) =>
    ToSet(defaults[s]) = (PrimaryOf(s) \cup SecondaryOf(s)) \cap Public

THEOREM AskedWithTheorem == Spec => []AskedWith
<1>1. IInv /\ PInv /\ OnlyInv => AskedWith
  <2> SUFFICES ASSUME IInv, PInv, OnlyInv, NEW s \in Services, Serving(s)
               PROVE  ToSet(defaults[s]) = (PrimaryOf(s) \cup SecondaryOf(s)) \cap Public
    BY DEF AskedWith
  <2>1. pc[s] \in {"listen", "serving", "collect", "report", "ended"}
    BY DEF Serving, Services, IInv, OrderInv, ListenInv, TypeOK
  <2>2. SecondaryOf(s) \cap Public \subseteq ToSet(defaults[s])
    BY <2>1 DEF PInv, SecondInv
  <2>3. PrimaryOf(s) \cap Public \subseteq ToSet(defaults[s])
    BY <2>1 DEF PInv, FirstInv, FoundInv, ByExitIP, PrimaryOf
  <2>4. ToSet(defaults[s]) \subseteq Public
    BY DEF IInv, DefaultsUsable, ToSet
  <2> QED
    BY <2>2, <2>3, <2>4 DEF OnlyInv
<1> QED
  BY <1>1, OnlyInvariance, PTL

\* README.md:35 "Set dns53 secondary EDNS-Client-Subnet ip" and main.go:120 "Specify
\* primary EDNS-Client-Subnet ip": the public addresses given to a service are
\* among those it asks with.
Given(s) == IF s = "doh" THEN ToSet(lists.doh1st \o lists.doh2nd) ELSE ToSet(lists.dns2nd)
GivenAreUsed == \A s \in Services : Serving(s) => Given(s) \cap Public \subseteq ToSet(defaults[s])

\* It is false in general, as the guards of serveDohSvc and serveDns53Svc look at the
\* other service's lists (main.go:459, 498), and true when those lists have nothing
\* of their own.
ListsAgree ==
  /\ ToSet(lists.dns2nd) \cap Public \subseteq ToSet(lists.doh2nd)
  /\ lists.dns1st = <<>> => ToSet(lists.doh1st) \cap Public \subseteq ToSet(lists.doh2nd)

\* Then each service asks with every public address given to it.
THEOREM ListsAgreeSuffice == Spec => [](ListsAgree => GivenAreUsed)
<1>1. IInv /\ AskedWith => (ListsAgree => GivenAreUsed)
  <2> SUFFICES ASSUME IInv, AskedWith, ListsAgree, NEW s \in Services, Serving(s),
                      NEW a \in Given(s) \cap Public
               PROVE  a \in PrimaryOf(s) \cup SecondaryOf(s)
    BY DEF GivenAreUsed, AskedWith
  <2>0. /\ lists.doh1st \in Seq(Addr \cup {NoIP}) /\ lists.doh2nd \in Seq(Addr \cup {NoIP})
        /\ lists.dns2nd \in Seq(Addr \cup {NoIP})
    BY ServicesAssumption DEF IInv, TypeOK, ServicesAssumption
  <2>1. CASE s = "doh"
    <3>1. a \in ToSet(lists.doh1st) \/ a \in ToSet(lists.doh2nd)
      <4> DEFINE l == lists.doh1st
                 r == lists.doh2nd
      <4>1. PICK j \in DOMAIN (l \o r) : a = (l \o r)[j]
        BY <2>1 DEF Given, ToSet
      <4>2. l \in Seq(Addr \cup {NoIP}) /\ r \in Seq(Addr \cup {NoIP})
        BY <2>0
      <4> HIDE DEF l, r
      <4>3. /\ DOMAIN l = 1..Len(l) /\ DOMAIN r = 1..Len(r)
            /\ Len(l) \in Nat /\ Len(r) \in Nat /\ j \in 1..Len(l) + Len(r)
        BY <4>2
      <4>4. CASE j <= Len(l)
        <5>1. j \in DOMAIN l /\ a = l[j]
          BY <4>1, <4>2, <4>3, <4>4
        <5> QED BY <5>1 DEF ToSet, l
      <4>5. CASE j > Len(l)
        <5>1. j - Len(l) \in DOMAIN r /\ a = r[j - Len(l)]
          BY <4>1, <4>2, <4>3, <4>5
        <5> QED BY <5>1 DEF ToSet, r
      <4> QED BY <4>3, <4>4, <4>5
    <3> QED
      BY <2>1, <3>1 DEF ListsAgree, PrimaryOf, SecondaryOf, Primary, Secondary, ByExitIP
  <2>2. CASE s = "dns53"
    <3>1. a \in ToSet(lists.dns2nd) /\ lists.dns2nd # <<>> /\ a \in ToSet(lists.doh2nd)
      BY <2>0, <2>2 DEF Given, ListsAgree, ToSet
    <3> QED
      BY <2>2, <3>1 DEF SecondaryOf, Secondary
  <2> QED
    BY <2>1, <2>2 DEF Services
<1> QED
  BY <1>1, AskedWithTheorem, Invariance, PTL

-----------------------------------------------------------------------------
(* The safety part of WindsUp: once everything is over, main or the dns53    *)
(* service has a step to take, and every step takes the process nearer to    *)
(* its end.                                                                  *)

\* main waits for a service only until it has its report, and the dns53 service
\* for a listener.
WaitInv ==
  /\ \A s \in Services : pc[s] \in {"ended", "nilurl"} => Passed(s)
  /\ pc["dns53"] \notin {"collect", "report", "ended"} => \A l \in DOMAIN lsn : lsn[l] # "ended"
  /\ pc["dns53"] = "collect" => \A l \in DOMAIN lsn : l >= k["dns53"] => lsn[l] # "ended"
  /\ pc["dns53"] = "collect" => k["dns53"] <= Len(lsn) + 1
  /\ pc["doh"] # "collect"

MainGoesOn ==
  \/ main = <<"exit">>
  \/ \E s \in Services :
       main = <<"wait", s>> /\ (s \notin cfg.enabled \/ pc[s] \in {"report", "blocked"})
CollectGoesOn ==
  pc["dns53"] = "collect" /\ (k["dns53"] <= Len(lsn) => lsn[k["dns53"]] = "report")

\* The waits main has before it, and the receives the dns53 service has.
WaitsLeft == IF main = <<"wait", "doh">> THEN 2 ELSE IF main = <<"wait", "dns53">> THEN 1 ELSE 0
ReceivesLeft == IF pc["dns53"] = "collect" THEN Len(lsn) + 2 - k["dns53"] ELSE 0
Rank == WaitsLeft + ReceivesLeft

\* Steps that neither report nor touch the listeners.
LEMMA RestWaitInv ==
  ASSUME IInv, WaitInv, UNCHANGED <<main, lsn>>,
         \A s \in Services : pc'[s] \in {"ended", "nilurl"} => pc[s] \in {"ended", "nilurl"},
         pc'["doh"] # "collect",
         \/ pc'["dns53"] = pc["dns53"] /\ (pc["dns53"] = "collect" => k'["dns53"] = k["dns53"])
         \/ /\ pc["dns53"] \notin {"collect", "report", "ended"}
            /\ pc'["dns53"] # "ended" /\ (pc'["dns53"] = "collect" => k'["dns53"] = 1)
         \/ pc["dns53"] = "collect" /\ pc'["dns53"] = "report"
  PROVE  WaitInv'
<1>1. \A s \in Services : Passed(s)' = Passed(s)
  BY DEF Passed
<1>2. lsn \in Seq({"serving", "report", "ended"}) /\ Len(lsn) \in Nat
  BY DEF IInv, TypeOK
<1> QED
  BY <1>1, <1>2 DEF WaitInv

\* Every step keeps what is waited for.
LEMMA NextWaitInv == IInv /\ EInv /\ WaitInv /\ [Next]_vars => WaitInv'
<1> SUFFICES ASSUME IInv, EInv, WaitInv, [Next]_vars PROVE WaitInv'
  OBVIOUS
<1>0. /\ pc \in [Services -> PCs] /\ k \in [Services -> Nat \ {0}]
      /\ lsn \in Seq({"serving", "report", "ended"}) /\ Len(lsn) \in Nat
      /\ DOMAIN lsn = 1..Len(lsn) /\ "dns53" \in Services /\ "doh" \in Services
      /\ pc["doh"] # "collect"
  BY DEF IInv, TypeOK, PCs, Services, WaitInv
<1>1. CASE UNCHANGED vars
  BY <1>1, RestWaitInv DEF vars, WaitInv
<1>2. ASSUME NEW t \in Services, Start(t)
      PROVE  WaitInv'
  <2>1. /\ lsn = <<>> /\ lsn' = lsn /\ pc["dns53"] = "absent" /\ pc[t] = "absent"
        /\ pc' = pc \/ pc' = [pc EXCEPT ![t] = "second"]
    BY <1>2 DEF Start, IInv, OrderInv, StartInv, ListenInv, EInv, EnabledInv, Services
  <2>2. \A s \in Services : pc'[s] \notin {"ended", "nilurl"}
    <3>1. \A s \in Services : pc[s] \notin {"ended", "nilurl"}
      BY <1>2 DEF Start, WaitInv, Passed
    <3> QED BY <1>0, <2>1, <3>1
  <2>3. pc'["dns53"] # "collect" /\ pc'["doh"] # "collect"
    BY <1>0, <2>1
  <2>4. \A l \in DOMAIN lsn' : lsn'[l] # "ended"
    BY <2>1
  <2> QED
    BY <2>2, <2>3, <2>4 DEF WaitInv
<1>3. ASSUME NEW t \in Services, Setup(t)
      PROVE  WaitInv'
  <2>1. /\ pc[t] \in {"second", "first"} /\ UNCHANGED <<main, lsn>>
        /\ pc' = pc \/ \E w \in {"first", "exitip", "listen"} : pc' = [pc EXCEPT ![t] = w]
        /\ k' = [k EXCEPT ![t] = @ + 1] \/ k' = [k EXCEPT ![t] = 1]
    BY <1>3 DEF Setup, AppendSecondary, InsertPrimary, Loop, AfterSecondary
  <2> QED
    BY <1>0, <2>1, RestWaitInv DEF Services
<1>4. CASE GetExitIP \/ AskCheckIP \/ ParseUpstream \/ NoCheckIPLeft
  <2>1. /\ pc["dns53"] \in {"get", "exitip", "thirdparty"} /\ UNCHANGED <<main, lsn>>
        /\ \/ pc' = pc
           \/ \E w \in {"thirdparty", "listen", "get", "blocked"} : pc' = [pc EXCEPT !["dns53"] = w]
    BY <1>4 DEF GetExitIP, AskCheckIP, Found, AfterGet, ParseUpstream, NoCheckIPLeft
  <2> QED
    BY <1>0, <2>1, RestWaitInv
<1>5. CASE Listen
  <2>1. /\ pc["dns53"] = "listen" /\ main' = main
        /\ lsn' = lsn \/ lsn' = Append(lsn, "serving")
        /\ pc' = pc \/ pc' = [pc EXCEPT !["dns53"] = "report"]
    BY <1>5 DEF Listen
  <2>2. \A s \in Services : pc'[s] \in {"ended", "nilurl"} => pc[s] \in {"ended", "nilurl"}
    BY <1>0, <2>1
  <2>3. pc'["dns53"] \in {"listen", "report"} /\ pc'["doh"] # "collect"
    BY <1>0, <2>1
  <2>4. \A l \in DOMAIN lsn' : lsn'[l] # "ended"
    <3>1. \A l \in DOMAIN lsn : lsn[l] # "ended"
      BY <2>1 DEF WaitInv
    <3> QED BY <1>0, <2>1, <3>1
  <2> QED
    BY <2>1, <2>2, <2>3, <2>4 DEF WaitInv, Passed
<1>6. CASE AllListen
  BY <1>0, <1>6, RestWaitInv DEF AllListen
<1>7. CASE Collect
  <2>1. /\ pc["dns53"] = "collect" /\ pc' = pc /\ main' = main
        /\ k["dns53"] <= Len(lsn)
        /\ lsn' = [lsn EXCEPT ![k["dns53"]] = "ended"] /\ k' = [k EXCEPT !["dns53"] = @ + 1]
    BY <1>7 DEF Collect, ListenerSendsError
  <2>2. /\ k'["dns53"] = k["dns53"] + 1 /\ DOMAIN lsn' = DOMAIN lsn /\ Len(lsn') = Len(lsn)
        /\ k["dns53"] \in Nat
    BY <1>0, <2>1
  <2>3. \A l \in DOMAIN lsn : l >= k["dns53"] + 1 => l >= k["dns53"] /\ l # k["dns53"]
    BY <1>0, <2>2
  <2>4. \A l \in DOMAIN lsn' : l >= k'["dns53"] => lsn'[l] # "ended"
    BY <1>0, <2>1, <2>2, <2>3 DEF WaitInv
  <2>5. k'["dns53"] <= Len(lsn') + 1
    BY <1>0, <2>1, <2>2
  <2> QED
    BY <1>0, <2>1, <2>4, <2>5 DEF WaitInv, Passed
<1>8. CASE AllCollected
  BY <1>0, <1>8, RestWaitInv DEF AllCollected
<1>9. ASSUME NEW t \in Services, Skip(t) \/ Report(t)
      PROVE  WaitInv'
  <2>1. /\ main = <<"wait", t>> /\ main' = AfterWait(t) /\ UNCHANGED <<lsn, k>>
        /\ \/ pc' = pc
           \/ pc[t] = "report" /\ pc' = [pc EXCEPT ![t] = "ended"]
           \/ pc[t] = "blocked" /\ pc' = [pc EXCEPT ![t] = "nilurl"]
    BY <1>9 DEF Skip, Report
  <2>2. t = "doh" \/ t = "dns53"
    BY DEF Services
  <2>3. \A s \in Services : Passed(s) \/ s = t => Passed(s)'
    BY <2>1, <2>2 DEF Passed, AfterWait, Services
  <2>4. \A s \in Services : s # t => pc'[s] = pc[s]
    BY <1>0, <2>1
  <2>5. \A s \in Services : pc'[s] \in {"ended", "nilurl"} => Passed(s)'
    BY <2>3, <2>4 DEF WaitInv
  <2>6. /\ pc'["dns53"] \notin {"collect", "report", "ended"} =>
             pc["dns53"] \notin {"collect", "report", "ended"}
        /\ pc'["dns53"] = "collect" => pc["dns53"] = "collect"
        /\ pc'["doh"] # "collect"
    BY <1>0, <2>1
  <2> QED
    BY <2>1, <2>5, <2>6 DEF WaitInv
<1>10. ASSUME NEW l \in DOMAIN lsn, ListenerStops(l)
       PROVE  WaitInv'
  <2>1. /\ lsn[l] = "serving" /\ lsn' = [lsn EXCEPT ![l] = "report"]
        /\ UNCHANGED <<pc, k, main>>
    BY <1>10 DEF ListenerStops
  <2>2. DOMAIN lsn' = DOMAIN lsn /\ Len(lsn') = Len(lsn)
    BY <1>0, <2>1
  <2>3. \A m \in DOMAIN lsn : lsn'[m] = "ended" => lsn[m] = "ended"
    BY <1>0, <2>1
  <2> QED
    BY <2>1, <2>2, <2>3 DEF WaitInv, Passed
<1>11. CASE DohListens \/ DohStops
  BY <1>0, <1>11, RestWaitInv DEF DohListens, DohStops, Services
<1>12. CASE NilURL \/ Exit \/ Signal \/ \E t \in Services : InitPanics(t)
  BY <1>0, <1>12, RestWaitInv DEF NilURL, Exit, Signal, InitPanics
<1>13. CASE Terminated
  BY <1>1, <1>13 DEF Terminated
<1> QED
  BY <1>1, <1>2, <1>3, <1>4, <1>5, <1>6, <1>7, <1>8, <1>9, <1>10, <1>11, <1>12, <1>13
  DEF Next, MainGoes, Dns53Goes

LEMMA WaitInvariance == Spec => [](IInv /\ EInv /\ WaitInv)
<1>1. Init => WaitInv
  BY DEF Init, WaitInv, Services
<1> QED
  BY <1>1, NextWaitInv, EInvariance, PTL DEF Spec

\* When nothing serves any more, main can leave or pass the service it waits for,
\* or the dns53 service can take the report it waits for: nobody waits for a
\* receive or a send that does not come.
SomebodyGoesOn == Over /\ process = "up" => MainGoesOn \/ CollectGoesOn

THEOREM SomebodyGoesOnTheorem == Spec => []SomebodyGoesOn
<1>1. IInv /\ EInv /\ WaitInv => SomebodyGoesOn
  <2> SUFFICES ASSUME IInv, EInv, WaitInv, Over, ~MainGoesOn
               PROVE  CollectGoesOn
    BY DEF SomebodyGoesOn
  <2>1. PICK s \in Services : main = <<"wait", s>> /\ s \in cfg.enabled /\ pc[s] \notin {"report", "blocked"}
    BY DEF Over, MainGoesOn
  <2>2. pc[s] \in {"collect", "nilurl", "ended"}
    BY <2>1 DEF Over
  <2>3. ~Passed(s)
    BY <2>1 DEF Passed
  <2>4. pc[s] = "collect"
    BY <2>2, <2>3 DEF WaitInv
  <2>5. s = "dns53"
    BY <2>4 DEF Services, WaitInv
  <2>6. ASSUME k["dns53"] <= Len(lsn) PROVE lsn[k["dns53"]] = "report"
    <3>1. k["dns53"] \in DOMAIN lsn /\ k["dns53"] >= k["dns53"]
          /\ lsn[k["dns53"]] \in {"serving", "report", "ended"}
      BY <2>5, <2>6 DEF IInv, TypeOK
    <3> QED
      BY <2>4, <2>5, <3>1 DEF WaitInv, Over
  <2> QED
    BY <2>4, <2>5, <2>6 DEF CollectGoesOn
<1> QED
  BY <1>1, WaitInvariance, PTL

\* A sum of naturals decreases with one of them.
LEMMA RankFacts ==
  ASSUME NEW a \in Nat, NEW b \in Nat, NEW c \in Nat, NEW d \in Nat,
         (c < a /\ d = b) \/ (c = a /\ d < b)
  PROVE  a + b \in Nat /\ c + d \in Nat /\ c + d < a + b
OBVIOUS

\* Then every step either ends the process or leaves it over with fewer waits and
\* receives to go, so that it ends within as many steps, plus one, provided only
\* that steps are taken.
EveryStepCounts ==
  [][Over /\ process = "up" =>
       process' # "up" \/ (Over' /\ Rank \in Nat /\ Rank' \in Nat /\ Rank' < Rank)]_vars

THEOREM EveryStepCountsTheorem == Spec => EveryStepCounts
<1>1. ASSUME IInv, EInv, WaitInv, WaitInv', IInv', Next, Over, process = "up", process' = "up"
      PROVE  Over' /\ Rank \in Nat /\ Rank' \in Nat /\ Rank' < Rank
  <2>0. /\ pc \in [Services -> PCs] /\ k \in [Services -> Nat \ {0}]
        /\ lsn \in Seq({"serving", "report", "ended"}) /\ Len(lsn) \in Nat
        /\ "dns53" \in Services /\ "doh" \in Services
        /\ k["dns53"] \in Nat \ {0} /\ cfg.enabled \subseteq Services
    BY <1>1 DEF IInv, TypeOK, PCs, Services
  \* Who can take a step is main, or the dns53 service collecting.
  <2>1. main \in ({"wait"} \X Services) \cup {<<"exit">>}
    BY <1>1 DEF Over
  <2>2. \A s \in Services : pc[s] \in {"absent", "blocked", "nilurl", "collect", "report", "ended"}
    BY <1>1, <2>0 DEF Over, EInv, EnabledInv
  <2>3. \A s \in Services : ~Start(s) /\ ~InitPanics(s)
    BY <2>1 DEF Start, InitPanics
  <2>4. /\ \A s \in Services : ~Setup(s)
        /\ ~GetExitIP /\ ~AskCheckIP /\ ~ParseUpstream /\ ~NoCheckIPLeft /\ ~Listen /\ ~AllListen
        /\ ~DohListens /\ ~DohStops
    BY <2>0, <2>2
    DEF Setup, AppendSecondary, InsertPrimary, Loop, GetExitIP, AskCheckIP, ParseUpstream,
        NoCheckIPLeft, Listen, AllListen, DohListens, DohStops
  <2>5. \A l \in DOMAIN lsn : ~ListenerStops(l)
    BY <1>1 DEF Over, ListenerStops
  <2>6. ~Exit /\ ~Signal /\ ~NilURL /\ ~Terminated
    BY <1>1 DEF Exit, Signal, NilURL, Terminated
  <2>7. Collect \/ AllCollected \/ \E s \in Services : Skip(s) \/ Report(s)
    BY <1>1, <2>3, <2>4, <2>5, <2>6 DEF Next, MainGoes, Dns53Goes
  <2>8. /\ WaitsLeft \in Nat /\ WaitsLeft' \in Nat
        /\ ReceivesLeft \in Nat /\ ReceivesLeft' \in Nat
    <3>1. /\ k'["dns53"] \in Nat /\ Len(lsn') \in Nat
          /\ pc["dns53"] = "collect" => k["dns53"] <= Len(lsn) + 1
          /\ pc'["dns53"] = "collect" => k'["dns53"] <= Len(lsn') + 1
      BY <1>1, <2>0 DEF WaitInv, IInv, TypeOK
    <3> QED
      BY <2>0, <3>1 DEF WaitsLeft, ReceivesLeft
  <2>9. CASE Collect
    <3>1. /\ pc["dns53"] = "collect" /\ pc' = pc /\ main' = main /\ cfg' = cfg
          /\ k["dns53"] <= Len(lsn)
          /\ lsn' = [lsn EXCEPT ![k["dns53"]] = "ended"] /\ k' = [k EXCEPT !["dns53"] = @ + 1]
      BY <2>9 DEF Collect, ListenerSendsError, config
    <3>2. /\ k'["dns53"] = k["dns53"] + 1 /\ DOMAIN lsn' = DOMAIN lsn /\ Len(lsn') = Len(lsn)
      BY <2>0, <3>1
    <3>3. \A l \in DOMAIN lsn : lsn'[l] # "serving"
      BY <1>1, <2>0, <3>1 DEF Over
    <3>4. Over'
      BY <1>1, <3>1, <3>2, <3>3 DEF Over
    <3>5. WaitsLeft' = WaitsLeft /\ ReceivesLeft' < ReceivesLeft
      BY <2>0, <3>1, <3>2 DEF WaitsLeft, ReceivesLeft
    <3> QED
      BY <2>8, <3>4, <3>5, RankFacts DEF Rank
  <2>10. CASE AllCollected
    <3>1. /\ pc["dns53"] = "collect" /\ pc' = [pc EXCEPT !["dns53"] = "report"]
          /\ UNCHANGED <<main, cfg, lsn, k>>
      BY <2>10 DEF AllCollected, config
    <3>2. Over'
      BY <1>1, <2>0, <3>1 DEF Over
    <3>3. WaitsLeft' = WaitsLeft /\ ReceivesLeft' = 0 /\ ReceivesLeft > 0
      <4>1. pc'["dns53"] = "report" /\ k["dns53"] <= Len(lsn) + 1
        BY <1>1, <2>0, <3>1 DEF WaitInv
      <4> QED
        BY <2>0, <3>1, <4>1 DEF WaitsLeft, ReceivesLeft
    <3> QED
      BY <2>8, <3>2, <3>3, RankFacts DEF Rank
  <2>11. ASSUME NEW s \in Services, Skip(s) \/ Report(s)
         PROVE  Over' /\ Rank \in Nat /\ Rank' \in Nat /\ Rank' < Rank
    <3>1. /\ main = <<"wait", s>> /\ main' = AfterWait(s) /\ UNCHANGED <<cfg, lsn, k>>
          /\ \/ pc' = pc
             \/ pc[s] = "report" /\ pc' = [pc EXCEPT ![s] = "ended"]
             \/ pc[s] = "blocked" /\ pc' = [pc EXCEPT ![s] = "nilurl"]
      BY <2>11 DEF Skip, Report, config
    <3>2. s = "doh" \/ s = "dns53"
      BY DEF Services
    <3>3. main' \in ({"wait"} \X Services) \cup {<<"exit">>} /\ WaitsLeft' < WaitsLeft
      BY <3>1, <3>2 DEF AfterWait, WaitsLeft, Services
    <3>4. pc'["dns53"] = "collect" <=> pc["dns53"] = "collect"
      BY <2>0, <3>1
    <3>5. ReceivesLeft' = ReceivesLeft
      BY <3>1, <3>4 DEF ReceivesLeft
    <3>6. Over'
      <4>1. \A t \in cfg.enabled : pc'[t] \in {"blocked", "nilurl", "collect", "report", "ended"}
        BY <1>1, <2>0, <3>1 DEF Over
      <4> QED
        BY <1>1, <3>1, <3>3, <4>1 DEF Over
    <3> QED
      BY <2>8, <3>3, <3>5, <3>6, RankFacts DEF Rank
  <2> QED
    BY <2>7, <2>9, <2>10, <2>11
<1>2. IInv /\ EInv /\ WaitInv /\ (IInv /\ WaitInv)' /\ [Next]_vars =>
        [Over /\ process = "up" =>
           process' # "up" \/ (Over' /\ Rank \in Nat /\ Rank' \in Nat /\ Rank' < Rank)]_vars
  BY <1>1
<1> QED
  BY <1>2, WaitInvariance, PTL DEF Spec, EveryStepCounts
=============================================================================
