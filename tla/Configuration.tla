--------------------------- MODULE Configuration ---------------------------
(***************************************************************************)
(* From the configuration to the resolvers queries are answered with: main  *)
(* reads a file or the flags, collects the names in jail, and for each       *)
(* enabled service, DoH first, builds its primary, fallback and fixed        *)
(* resolvers and launches it.  DoH may answer while dns53 is being built.    *)
(* A step may panic, because of the configuration, of what an upstream       *)
(* replies, or of the race at the end of a fan-out.  A panic of main, of a   *)
(* service that sets itself up, of a dns53 handler and of a goroutine of a   *)
(* fan-out ends the process; the DoH server recovers its handlers.           *)
(*                                                                         *)
(* An endpoint is what it turns out to be: live, dead (nobody listens),      *)
(* unusable (no address, no port, or not tcp) or unparsable; only the dns53  *)
(* protocol looks before it serves.                                          *)
(***************************************************************************)
EXTENDS Naturals, Sequences, SequencesExt

CONSTANTS
  Regexes,       \* the regular expressions that compile
  Invalid,       \* one that does not
  Codes,         \* the country codes
  Blank,         \* an element of a list that is white space only
  Configs        \* the configurations

Services == {"doh", "dns53"}
Kinds == {"live", "dead", "unusable", "unparsable"}

\* The ConfigModel of config.go, as far as the resolvers depend on it; lists are
\* split at their commas.
JailModel == [regex : Regexes \cup {Invalid}, codes : Seq(Codes \cup {Blank})]
FixedModel == [regex : Regexes \cup {Invalid}, server : Kinds]
ServiceModel ==
  [enabled : BOOLEAN, proto : {"doh", "doh_json", "dns53", "other"},
   upstream : Seq(Kinds \cup {Blank}), fallback : Seq(Kinds \cup {Blank}),
   fixed : Seq(FixedModel),
   fatal : BOOLEAN]    \* nothing its goroutine can set itself up with, see SetupPanics
ConfigModel ==
  [cache : BOOLEAN, backend : {"internal", "redis", ""}, jail : Seq(JailModel),
   svc : [Services -> ServiceModel]]

ASSUME ConfigurationAssumption ==
  /\ Invalid \notin Regexes /\ Blank \notin Codes \cup Kinds
  /\ Configs \subseteq ConfigModel

VARIABLES
  how,         \* where the configuration is from: "flags", "file" or "unreadable"
  conf,        \* ExecConfig, once read
  quad9,       \* what the default endpoints are
  at, svc, i,  \* main: its step, the service it builds, the next entry of a loop
  jail,        \* NamesInJailConfig: pairs of a code and an expression
  resolvers,   \* of each service: its resolvers
  launched,    \* the services whose goroutine was started
  up,          \* those that have not ended
  causes       \* history: what panics were due to

vars == <<how, conf, quad9, at, svc, i, jail, resolvers, launched, up, causes>>
given == <<how, conf, quad9>>

Mine == conf.svc[svc]
Enabled == {s \in Services : conf.svc[s].enabled}

\* Flags name neither jail nor fallback nor fixed resolvers.
FromFlags(c) ==
  c.jail = <<>> /\ \A s \in Services : c.svc[s].fallback = <<>> /\ c.svc[s].fixed = <<>>

Init ==
  /\ how \in {"flags", "file", "unreadable"} /\ conf \in Configs
  /\ how # "file" => FromFlags(conf)
  /\ quad9 \in {"live", "dead"}
  /\ at = "read" /\ svc = "doh" /\ i = 1
  /\ jail = {}
  /\ resolvers = [s \in Services |-> {}]
  /\ launched = {} /\ up = {} /\ causes = {}

Causes == {"configuration", "reply", "race"}

\* A panic that nothing recovers from.
Panic(why) ==
  /\ at' = "panicked" /\ up' = {}
  /\ causes' = causes \cup {why}
  /\ UNCHANGED <<given, svc, i, jail, resolvers, launched>>

-----------------------------------------------------------------------------
(* The configuration and the names in jail *)

\* A file that exists but cannot be read, or is not the YAML of a ConfigModel.
ReadFails == at = "read" /\ how = "unreadable" /\ Panic("configuration")

\* A file replaces every default, also of what it does not mention.  Without a
\* file, or with a path where there is none, the flags count.
Read ==
  /\ at = "read" /\ how # "unreadable"
  /\ at' = IF how = "file" THEN "jail" ELSE "primary"
  /\ UNCHANGED <<given, svc, i, jail, resolvers, launched, up, causes>>

\* The elements of a list that are not blank; their order decides nothing here.
Trimmed(list) == ToSet(list) \ {Blank}

\* An entry without a valid expression is skipped, and so is a blank code.
JailedBy(entry) ==
  {<<c, entry.regex>> : c \in IF entry.regex = Invalid THEN {} ELSE Trimmed(entry.codes)}

MUT_JailEntry ==
  /\ at = "jail" /\ i <= Len(conf.jail)
  /\ jail' = jail \cup JailedBy(conf.jail[i])
  /\ i' = IF conf.jail[i].regex = Invalid THEN Len(conf.jail) + 1 ELSE i + 1
  /\ UNCHANGED <<given, at, svc, resolvers, launched, up, causes>>
JailEntry ==
  /\ at = "jail" /\ i <= Len(conf.jail)
  /\ jail' = jail \cup JailedBy(conf.jail[i])
  /\ i' = i + 1
  /\ UNCHANGED <<given, at, svc, resolvers, launched, up, causes>>

JailDone ==
  /\ at = "jail" /\ i > Len(conf.jail)
  /\ at' = "primary" /\ i' = 1
  /\ UNCHANGED <<given, svc, jail, resolvers, launched, up, causes>>

-----------------------------------------------------------------------------
(* The resolvers of a service *)

Proto(s) ==
  IF conf.svc[s].proto \in {"doh_json", "dns53"} THEN conf.svc[s].proto ELSE "doh"

\* The pool of a dns53 resolver leaves out endpoints without a port and connects
\* to all others: it wants every endpoint to parse, one left, and all left to answer.
PoolFails(eps) ==
  \/ eps \cap {"unparsable", "dead"} # {}
  \/ eps \subseteq {"unusable"}

\* The redis backend has no store yet, and a backend left out is not internal.
MUT_Store(cached) == conf.cache /\ conf.backend = "internal"
Store(cached) == cached /\ conf.backend = "internal"

Resolver(role, key, eps, cached) ==
  [role |-> role, key |-> key, endpoints |-> eps, cached |-> cached, store |-> Store(cached)]

Construct(r) ==
  \/ Proto(svc) = "dns53" /\ PoolFails(r.endpoints) /\ Panic("configuration")
  \/ /\ Proto(svc) = "dns53" => ~PoolFails(r.endpoints)
     /\ resolvers' = [resolvers EXCEPT ![svc] =
          {o \in @ : <<o.role, o.key>> # <<r.role, r.key>>} \cup {r}]
     /\ at' = CASE r.role = "primary" -> "fallback" [] OTHER -> "fixed"
     /\ i' = IF r.role = "fixed" THEN i + 1 ELSE i
     /\ UNCHANGED <<given, svc, jail, launched, up, causes>>

MUT_UpstreamOr(default) == Trimmed(Mine.upstream)
UpstreamOr(default) ==
  IF Trimmed(Mine.upstream) = {} THEN default ELSE Trimmed(Mine.upstream)

BuildPrimary ==
  /\ at = "primary" /\ svc \in Enabled
  /\ Construct(Resolver("primary", 0, UpstreamOr({quad9}), conf.cache))

BuildFallback ==
  /\ at = "fallback" /\ Trimmed(Mine.fallback) # {}
  /\ Construct(Resolver("fallback", 0, Trimmed(Mine.fallback), conf.cache))

NoFallback ==
  /\ at = "fallback" /\ Trimmed(Mine.fallback) = {}
  /\ at' = "fixed"
  /\ UNCHANGED <<given, svc, i, jail, resolvers, launched, up, causes>>

\* Each entry has an expression of its own for its key, those that do not compile
\* share nil (0).  Fixed resolvers cache, whatever the configuration says.
Key(entry, k) == IF entry.regex = Invalid THEN 0 ELSE k

BuildFixed ==
  /\ at = "fixed" /\ i <= Len(Mine.fixed)
  /\ Construct(Resolver("fixed", Key(Mine.fixed[i], i), {Mine.fixed[i].server}, TRUE))

\* On to the next service, or to waiting for those that were launched.
Leave ==
  /\ at' = IF svc = "doh" THEN "primary" ELSE "wait"
  /\ svc' = "dns53" /\ i' = 1
  /\ UNCHANGED <<given, jail, resolvers, causes>>

Start ==
  /\ at = "fixed" /\ i > Len(Mine.fixed) /\ Leave
  /\ launched' = launched \cup {svc} /\ up' = up \cup {svc}

MUT_Disabled ==
  /\ at = "primary" /\ svc \notin Enabled
  /\ at' = "wait"
  /\ UNCHANGED <<given, svc, i, jail, resolvers, launched, up, causes>>
Disabled == at = "primary" /\ svc \notin Enabled /\ Leave /\ UNCHANGED <<launched, up>>

-----------------------------------------------------------------------------
(* The services: how they end, and their queries *)

\* A service ends by itself when its listen address, its certificate or one of its
\* listen URLs is no good, or when its server stops.
ServiceEnds(s) ==
  /\ s \in up /\ up' = up \ {s}
  /\ UNCHANGED <<given, at, svc, i, jail, resolvers, launched, causes>>

\* It cannot set itself up: the path of DoH is one the router refuses, as it
\* refuses /checkip a second time, or the upstream dns53 is to find its exit IP
\* with is no URL, and is used as one.  No query ever reaches it.
SetupPanics(s) == s \in up /\ conf.svc[s].fatal /\ Panic("configuration")

HandlerPanics(s, why) ==
  \/ s = "dns53" /\ Panic(why)
  \/ /\ s = "doh" /\ causes' = causes \cup {why}
     /\ UNCHANGED <<given, at, svc, i, jail, resolvers, launched, up>>

\* A query matches its name against the keys of all fixed resolvers, in no
\* particular order, unless one that matches fails first; it looks into the cache
\* of a resolver it asks.
Trips(r) == (r.role = "fixed" /\ r.key = 0) \/ (r.cached /\ ~r.store)

\* Whatever the configuration: a JSON upstream may reply null, which the handler or
\* a goroutine of the fan-out dereferences, or a record that converts into nil, which
\* the handler copies (see DohUpstream); and a goroutine of the fan-out may send on a
\* channel that the cleanup closes after it looked (see FanOut).
QueryPanics(s) ==
  /\ s \in up /\ ~conf.svc[s].fatal
  /\ \/ (\E r \in resolvers[s] : Trips(r)) /\ HandlerPanics(s, "configuration")
     \/ Proto(s) = "doh_json" /\ (HandlerPanics(s, "reply") \/ Panic("reply"))
     \/ Panic("race")

-----------------------------------------------------------------------------

Main ==
  \/ ReadFails \/ Read \/ JailEntry \/ JailDone \/ BuildPrimary \/ BuildFallback
  \/ NoFallback \/ BuildFixed \/ Start \/ Disabled

Next == Main \/ \E s \in Services : ServiceEnds(s) \/ SetupPanics(s) \/ QueryPanics(s)

\* main runs; nothing it does here waits for a peer for ever (a dial times out).
Spec == Init /\ [][Next]_vars /\ WF_vars(Main)

-----------------------------------------------------------------------------
(* Properties *)

\* Type invariant; every resolver has an endpoint, which nextEndpoint relies on.
TypeOK ==
  /\ how \in {"flags", "file", "unreadable"} /\ conf \in Configs /\ quad9 \in Kinds
  /\ at \in {"read", "jail", "primary", "fallback", "fixed", "wait", "panicked"}
  /\ svc \in Services /\ i \in Nat \ {0}
  /\ jail \subseteq Codes \X Regexes
  /\ resolvers \in [Services -> SUBSET
       [role : {"primary", "fallback", "fixed"}, key : Nat,
        endpoints : (SUBSET Kinds) \ {{}}, cached : BOOLEAN, store : BOOLEAN]]
  /\ launched \subseteq Services /\ up \subseteq launched /\ causes \subseteq Causes

Compiled(s) == {k \in DOMAIN conf.svc[s].fixed : conf.svc[s].fixed[k].regex \in Regexes}
Playing(s, role) == {r \in resolvers[s] : r.role = role}

\* One bad entry costs nothing but itself.  A service that is up knows every name
\* that the well-formed entries jail and no other, has one primary, has a fallback
\* exactly if one is named, and a fixed resolver of its own, with the right server,
\* for every fixed entry whose expression compiles.
AsWritten ==
  \A s \in up :
    /\ \A c \in Codes, x \in Regexes :
         <<c, x>> \in jail <=>
           \E k \in DOMAIN conf.jail :
             conf.jail[k].regex = x /\ \E m \in DOMAIN conf.jail[k].codes :
                                         conf.jail[k].codes[m] = c
    /\ \E p \in resolvers[s] : Playing(s, "primary") = {p}
    /\ Playing(s, "fallback") = {}
         <=> \A m \in DOMAIN conf.svc[s].fallback : conf.svc[s].fallback[m] = Blank
    /\ \A k \in Compiled(s) :
         \E r \in Playing(s, "fixed") :
           r.key = k /\ r.endpoints = {conf.svc[s].fixed[k].server}

Lists(s) ==
  {IF ToSet(conf.svc[s].upstream) \subseteq {Blank} THEN {quad9}
   ELSE ToSet(conf.svc[s].upstream),
   ToSet(conf.svc[s].fallback)} \cup {{e.server} : e \in ToSet(conf.svc[s].fixed)}

\* What a configuration needs to be safe to run, none of which main checks: every
\* fixed expression compiles; its services can set themselves up; if anything is
\* cached, the backend is internal, and fixed resolvers cache even if the cache is
\* off; and a dns53 upstream parses, answers or is left out, and each list that is
\* given has one that answers.
Sound ==
  /\ how # "unreadable"
  /\ \A s \in Enabled :
       /\ ~conf.svc[s].fatal
       /\ Compiled(s) = DOMAIN conf.svc[s].fixed
       /\ conf.cache \/ conf.svc[s].fixed # <<>> => conf.backend = "internal"
       /\ Proto(s) = "dns53" =>
            \A list \in Lists(s) :
              /\ list \subseteq {"live", "unusable", Blank}
              /\ "live" \in list \/ list \subseteq {Blank}

\* A sound configuration is never what panics, neither at startup nor in a query, of
\* either of the services, which share a process.  It does not survive everything:
\* what an upstream replies and the race of the fan-out may end it, but only once a
\* service was launched.
SoundNeverToBlame ==
  Sound => "configuration" \notin causes /\ (at = "panicked" => launched # {})

\* With a sound configuration main launches every enabled service and waits for
\* them, unless a query to the one already launched ends the process before.
SoundLaunchesAll ==
  Sound ~> \/ at = "wait" /\ launched = Enabled
           \/ at = "panicked" /\ causes \cap {"reply", "race"} # {}
=============================================================================
