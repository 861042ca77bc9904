------------------------------ MODULE Services ------------------------------
(***************************************************************************)
(* The goroutines of the relay's life (main.go): main builds the answerers, *)
(* starts the services and waits for them one after the other; serveDohSvc  *)
(* and serveDns53Svc build their handler's default ECS IPs and serve; the   *)
(* dns53 service finds its exit IP first, starts one listener per listen    *)
(* address and collects how they end.  They meet on unbuffered channels.    *)
(*                                                                         *)
(* A list of a configuration holds addresses, of which some are public, and *)
(* strings that are no IP (NoIP).  None is the empty string.                *)
(***************************************************************************)
EXTENDS Naturals, Sequences, SequencesExt

CONSTANTS
  Addr,
  Public,         \* the addresses that are not IsPrivateIP
  NoIP, None,
  Lists,          \* values of 1st_ecs_ip and 2nd_ecs_ip of both services
  Listens,        \* values of dns53's listen
  CheckIPs,       \* checkIPEndpoints
  JsonCheckIPs    \* those of type json: what they answer is not validated

Entries == {"udp", "tcp", "unusable", "unparsable"}
Services == {"doh", "dns53"}

ASSUME ServicesAssumption ==
  /\ Public \subseteq Addr /\ NoIP \notin Addr /\ None \notin Addr
  /\ Lists \subseteq [doh1st : Seq(Addr \cup {NoIP}), doh2nd : Seq(Addr \cup {NoIP}),
                      dns1st : Seq(Addr \cup {NoIP}), dns2nd : Seq(Addr \cup {NoIP})]
  /\ Listens \subseteq Seq(Entries)
  /\ JsonCheckIPs \subseteq CheckIPs

VARIABLES
  cfg,            \* ExecConfig
  lists,          \* its 1st_ecs_ip and 2nd_ecs_ip
  process,        \* "up", or how it ended
  main,           \* pc of main
  pc,             \* of each service
  answerer,       \* RelayAnswerer and Dns53Answerer are set
  defaults,       \* DefaultECSIPs of each handler
  k,              \* loop index of each service
  unasked,        \* check-IP endpoints the loop has still to come to
  exitIP,         \* what was found out about the exit IP
  lsn,            \* the listeners: "serving", "report" or "ended"
  sent,           \* whether the service reports an error
  told            \* what main has logged: "none", "nil" or "error"

vars == <<cfg, lists, process, main, pc, answerer, defaults, k, unasked, exitIP, lsn,
          sent, told>>
config == <<cfg, lists>>

Init ==
  /\ cfg \in [enabled : SUBSET Services, proto : [Services -> {"http", "dns53"}],
              dohUsable : BOOLEAN,    \* the listen address, certificate and key
              useClientIP : BOOLEAN,  \* of dns53
              urlParses : BOOLEAN,    \* the upstream of dns53
              listen : Listens]
  /\ lists \in Lists
  /\ process = "up" /\ main = <<"start", "doh">>
  /\ pc = [s \in Services |-> "absent"]
  /\ answerer = [s \in Services |-> FALSE]
  /\ defaults = [s \in Services |-> <<>>]
  /\ k = [s \in Services |-> 1]
  /\ unasked = CheckIPs /\ exitIP = None
  /\ lsn = <<>>
  /\ sent = [s \in Services |-> FALSE]
  /\ told = [s \in Services |-> "none"]

-----------------------------------------------------------------------------
(* main: build and start *)

AfterStart(s) == IF s = "doh" THEN <<"start", "dns53">> ELSE <<"wait", "doh">>

MUT_AnswererFirst == FALSE
AnswererFirst == TRUE

Start(s) ==
  /\ process = "up" /\ main = <<"start", s>>
  /\ IF s \in cfg.enabled
     THEN /\ answerer' = [answerer EXCEPT ![s] = AnswererFirst]
          /\ pc' = [pc EXCEPT ![s] = "second"]
     ELSE UNCHANGED <<answerer, pc>>
  /\ main' = AfterStart(s)
  /\ UNCHANGED <<config, process, defaults, k, unasked, exitIP, lsn, sent, told>>

\* newConnPool4Resolver panics when no endpoint is usable or one cannot be
\* dialled, whatever already serves.
InitPanics(s) ==
  /\ process = "up" /\ main = <<"start", s>>
  /\ s \in cfg.enabled /\ cfg.proto[s] = "dns53"
  /\ process' = "panicked"
  /\ UNCHANGED <<config, main, pc, answerer, defaults, k, unasked, exitIP, lsn, sent, told>>

-----------------------------------------------------------------------------
(* The default ECS IPs of a handler *)

MUT_Usable(l, a) == ~Contains(l, a)
Usable(l, a) == a \in Public /\ ~Contains(l, a)

AppendDefault(l, a) == IF Usable(l, a) THEN Append(l, a) ELSE l

MUT_InsertDefault(l, a) == AppendDefault(l, a)
InsertDefault(l, a) == IF Usable(l, a) THEN <<a>> \o l ELSE l

\* The dns53 service walks the DoH list, and the DoH service walks its own only
\* if dns53 has one.
Secondary(s) ==
  IF s = "doh" THEN lists.doh2nd
  ELSE IF lists.dns2nd # <<>> THEN lists.doh2nd ELSE <<>>
Primary(s) ==
  IF s = "dns53" THEN lists.dns1st
  ELSE IF lists.dns1st # <<>> THEN lists.doh1st ELSE <<>>

\* One iteration of a loop over a list, or its end.
Loop(s, at, list, longer, after) ==
  /\ process = "up" /\ pc[s] = at
  /\ IF k[s] <= Len(list)
     THEN /\ defaults' = [defaults EXCEPT ![s] = longer]
          /\ k' = [k EXCEPT ![s] = @ + 1]
          /\ UNCHANGED pc
     ELSE /\ pc' = [pc EXCEPT ![s] = after]
          /\ k' = [k EXCEPT ![s] = 1]
          /\ UNCHANGED defaults
  /\ UNCHANGED <<config, process, main, answerer, unasked, exitIP, lsn, sent, told>>

AfterSecondary(s) == IF s = "dns53" /\ cfg.useClientIP THEN "exitip" ELSE "first"

AppendSecondary(s) ==
  Loop(s, "second", Secondary(s), AppendDefault(defaults[s], Secondary(s)[k[s]]),
       AfterSecondary(s))
InsertPrimary(s) ==
  Loop(s, "first", Primary(s), InsertDefault(defaults[s], Primary(s)[k[s]]), "listen")

-----------------------------------------------------------------------------
(* The exit IP of the dns53 service *)

\* An upstream URL that does not parse is sent to main, and the service goes on.
ParseUpstream ==
  /\ process = "up" /\ pc["dns53"] = "exitip"
  /\ pc' = [pc EXCEPT !["dns53"] =
              IF cfg.proto["dns53"] = "dns53" THEN "thirdparty"
              ELSE IF cfg.urlParses THEN "get" ELSE "blocked"]
  /\ UNCHANGED <<config, process, main, answerer, defaults, k, unasked, exitIP, lsn, sent, told>>

\* HTTPGetString of the upstream's /checkip: an error, or any body.
AfterGet(r) == IF r = None THEN "thirdparty" ELSE "listen"

Found(r, after) ==
  /\ exitIP' = r
  /\ defaults' = [defaults EXCEPT !["dns53"] = InsertDefault(@, r)]
  /\ pc' = [pc EXCEPT !["dns53"] = after]

GetExitIP ==
  /\ process = "up" /\ pc["dns53"] = "get"
  /\ \E r \in Addr \cup {NoIP, None} : Found(r, AfterGet(r))
  /\ UNCHANGED <<config, process, main, answerer, k, unasked, lsn, sent, told>>

\* GetExitIPByResolver, in the random order of the map: the first endpoint that
\* answers ends the search.
AskCheckIP ==
  /\ process = "up" /\ pc["dns53"] = "thirdparty"
  /\ \E e \in unasked :
       /\ unasked' = unasked \ {e}
       /\ \/ \E r \in Addr \cup (IF e \in JsonCheckIPs THEN {NoIP} ELSE {}) : Found(r, "listen")
          \/ UNCHANGED <<exitIP, defaults, pc>>
  /\ UNCHANGED <<config, process, main, answerer, k, lsn, sent, told>>

NoCheckIPLeft ==
  /\ process = "up" /\ pc["dns53"] = "thirdparty" /\ unasked = {}
  /\ pc' = [pc EXCEPT !["dns53"] = "listen"]
  /\ UNCHANGED <<config, process, main, answerer, defaults, k, unasked, exitIP, lsn, sent, told>>

-----------------------------------------------------------------------------
(* Serving *)

DohListens ==
  /\ process = "up" /\ pc["doh"] = "listen"
  /\ pc' = [pc EXCEPT !["doh"] = IF cfg.dohUsable THEN "serving" ELSE "report"]
  /\ sent' = [sent EXCEPT !["doh"] = ~cfg.dohUsable]
  /\ UNCHANGED <<config, process, main, answerer, defaults, k, unasked, exitIP, lsn, told>>

\* Run and RunTLS return only with an error.
DohStops ==
  /\ process = "up" /\ pc["doh"] = "serving"
  /\ pc' = [pc EXCEPT !["doh"] = "report"]
  /\ sent' = [sent EXCEPT !["doh"] = TRUE]
  /\ UNCHANGED <<config, process, main, answerer, defaults, k, unasked, exitIP, lsn, told>>

\* One listen address: a listener, nothing, or the end of the service.
Listen ==
  /\ process = "up" /\ pc["dns53"] = "listen" /\ k["dns53"] <= Len(cfg.listen)
  /\ LET entry == cfg.listen[k["dns53"]] IN
       /\ lsn' = IF entry \in {"udp", "tcp"} THEN Append(lsn, "serving") ELSE lsn
       /\ pc' = IF entry = "unparsable" THEN [pc EXCEPT !["dns53"] = "report"] ELSE pc
       /\ sent' = [sent EXCEPT !["dns53"] = entry = "unparsable"]
  /\ k' = [k EXCEPT !["dns53"] = @ + 1]
  /\ UNCHANGED <<config, process, main, answerer, defaults, unasked, exitIP, told>>

AllListen ==
  /\ process = "up" /\ pc["dns53"] = "listen" /\ k["dns53"] > Len(cfg.listen)
  /\ pc' = [pc EXCEPT !["dns53"] = "collect"]
  /\ k' = [k EXCEPT !["dns53"] = 1]
  /\ UNCHANGED <<config, process, main, answerer, defaults, unasked, exitIP, lsn, sent, told>>

\* ListenAndServe returns an error, which is logged; then c <- nil.
ListenerStops(l) ==
  /\ process = "up" /\ l \in DOMAIN lsn /\ lsn[l] = "serving"
  /\ lsn' = [lsn EXCEPT ![l] = "report"]
  /\ UNCHANGED <<config, process, main, pc, answerer, defaults, k, unasked, exitIP, sent, told>>

\* What a listener sends is nil.  An error would be followed by one more
\* receive from the same listener.
MUT_ListenerSendsError == TRUE
ListenerSendsError == FALSE

Collect ==
  /\ process = "up" /\ pc["dns53"] = "collect" /\ k["dns53"] <= Len(lsn)
  /\ lsn[k["dns53"]] = "report"
  /\ lsn' = [lsn EXCEPT ![k["dns53"]] = "ended"]
  /\ k' = IF ListenerSendsError THEN k ELSE [k EXCEPT !["dns53"] = @ + 1]
  /\ UNCHANGED <<config, process, main, pc, answerer, defaults, unasked, exitIP, sent, told>>

AllCollected ==
  /\ process = "up" /\ pc["dns53"] = "collect" /\ k["dns53"] > Len(lsn)
  /\ pc' = [pc EXCEPT !["dns53"] = "report"]
  /\ UNCHANGED <<config, process, main, answerer, defaults, k, unasked, exitIP, lsn, sent, told>>

-----------------------------------------------------------------------------
(* main: wait and exit *)

MUT_AfterWait(s) == <<"exit">>
AfterWait(s) == IF s = "doh" THEN <<"wait", "dns53">> ELSE <<"exit">>

Skip(s) ==
  /\ process = "up" /\ main = <<"wait", s>> /\ s \notin cfg.enabled
  /\ main' = AfterWait(s)
  /\ UNCHANGED <<config, process, pc, answerer, defaults, k, unasked, exitIP, lsn, sent, told>>

Report(s) ==
  /\ process = "up" /\ main = <<"wait", s>> /\ pc[s] \in {"report", "blocked"}
  /\ pc' = [pc EXCEPT ![s] = IF pc[s] = "report" THEN "ended" ELSE "nilurl"]
  /\ told' = [told EXCEPT ![s] = IF sent[s] \/ pc[s] = "blocked" THEN "error" ELSE "nil"]
  /\ main' = AfterWait(s)
  /\ UNCHANGED <<config, process, answerer, defaults, k, unasked, exitIP, lsn, sent>>

\* The service that sent the error of its URL uses the URL, which is nil.
NilURL ==
  /\ process = "up" /\ pc["dns53"] = "nilurl"
  /\ process' = "panicked"
  /\ UNCHANGED <<config, main, pc, answerer, defaults, k, unasked, exitIP, lsn, sent, told>>

Exit ==
  /\ process = "up" /\ main = <<"exit">>
  /\ process' = "exited"
  /\ UNCHANGED <<config, main, pc, answerer, defaults, k, unasked, exitIP, lsn, sent, told>>

\* SIGINT or SIGTERM.
Signal ==
  /\ process = "up"
  /\ process' = "killed"
  /\ UNCHANGED <<config, main, pc, answerer, defaults, k, unasked, exitIP, lsn, sent, told>>

-----------------------------------------------------------------------------

Setup(s) == AppendSecondary(s) \/ InsertPrimary(s)
Dns53Goes == ParseUpstream \/ NoCheckIPLeft \/ Listen \/ AllListen \/ Collect \/ AllCollected
MainGoes == (\E s \in Services : Start(s) \/ Skip(s) \/ Report(s)) \/ Exit

Terminated == process # "up" /\ UNCHANGED vars

Next ==
  \/ MainGoes
  \/ \E s \in Services : InitPanics(s) \/ Setup(s)
  \/ GetExitIP \/ AskCheckIP
  \/ Dns53Goes \/ NilURL
  \/ DohListens \/ DohStops
  \/ \E l \in DOMAIN lsn : ListenerStops(l)
  \/ Signal
  \/ Terminated

Spec == Init /\ [][Next]_vars

\* Every goroutine that can go on does.  Nothing is assumed of the HTTP calls
\* (the first has no timeout), of queries, or of a server's end.
FairSpec ==
  /\ Spec
  /\ WF_vars(MainGoes) /\ WF_vars(Dns53Goes) /\ WF_vars(DohListens)
  /\ \A s \in Services : WF_vars(Setup(s))

-----------------------------------------------------------------------------
(* Properties *)

\* Type invariant.
TypeOK ==
  /\ cfg.enabled \in SUBSET Services /\ cfg.listen \in Listens /\ lists \in Lists
  /\ process \in {"up", "exited", "killed", "panicked"}
  /\ main \in ({"start", "wait"} \X Services) \cup {<<"exit">>}
  /\ pc \in [Services -> {"absent", "second", "first", "exitip", "get", "thirdparty",
                          "blocked", "nilurl", "listen", "serving", "collect",
                          "report", "ended"}]
  /\ answerer \in [Services -> BOOLEAN]
  /\ defaults \in [Services -> Seq(Addr)]
  /\ k \in [Services -> Nat \ {0}]
  /\ unasked \in SUBSET CheckIPs /\ exitIP \in Addr \cup {NoIP, None}
  /\ lsn \in Seq({"serving", "report", "ended"})
  /\ sent \in [Services -> BOOLEAN]
  /\ told \in [Services -> {"none", "nil", "error"}]

Serving(s) ==
  IF s = "doh" THEN pc["doh"] = "serving" ELSE \E l \in DOMAIN lsn : lsn[l] = "serving"

\* Whatever the configuration lists and whatever a check-IP service answers, a
\* default is a public address and is there once: what a query is asked with.
DefaultsUsable ==
  \A s \in Services : IsInjective(defaults[s]) /\ \A j \in DOMAIN defaults[s] : defaults[s][j] \in Public

\* Handlers read DefaultECSIPs without a lock: it must not change, and the
\* answerer must be there, once a query can arrive.
SettledBeforeServing ==
  [][\A s \in Services : Serving(s)' => answerer[s] /\ defaults'[s] = defaults[s]]_vars

ByExitIP(s) == s = "dns53" /\ cfg.useClientIP
PrimaryOf(s) == IF ByExitIP(s) THEN {exitIP} ELSE ToSet(Primary(s))
SecondaryOf(s) == ToSet(Secondary(s))

\* A primary ECS IP, be it configured or the exit IP, comes before every
\* secondary one, unless it is one of them itself.
PrimaryFirst ==
  \A s \in Services : Serving(s) =>
    \A a \in (PrimaryOf(s) \ SecondaryOf(s)) \cap Public : \A b \in SecondaryOf(s) \cap Public :
      \E i, j \in DOMAIN defaults[s] : i < j /\ defaults[s][i] = a /\ defaults[s][j] = b

\* main leaves only after every service it started has reported its end, and cuts
\* off no listener, unless the service gave up at a later listen address.
ExitsWhenServed ==
  process = "exited" =>
    /\ \A s \in cfg.enabled : pc[s] \in {"ended", "nilurl"}
    /\ ~Serving("doh")
    /\ Serving("dns53") => \E n \in DOMAIN cfg.listen : cfg.listen[n] = "unparsable"

\* When nothing serves any more and nothing is about to, the process ends: no
\* report waits for ever for its receiver, nor main for a report.
Over ==
  /\ main \in ({"wait"} \X Services) \cup {<<"exit">>}
  /\ \A s \in cfg.enabled : pc[s] \in {"blocked", "nilurl", "collect", "report", "ended"}
  /\ \A l \in DOMAIN lsn : lsn[l] # "serving"
WindsUp == Over ~> process # "up"
=============================================================================
