------------------------ MODULE Configuration_proofs ------------------------
(***************************************************************************)
(* Proofs about Configuration for every set of configurations of the type   *)
(* the code reads, and, at the end, about JailMatch for every finite set of *)
(* expressions and about both together: from the entries of a file to the   *)
(* verdict of a query.                                                      *)
(*                                                                         *)
(* The inductive invariant of Configuration follows main: which entries of   *)
(* the jail have been read, and, of the service being built, which           *)
(* resolvers exist; a service that is up has them all.                       *)
(***************************************************************************)
EXTENDS Configuration, JailMatch, FiniteSetTheorems, TLAPS

\* The first n entries of the jail have been read, the well-formed ones entered.
JailRead(n) ==
  \A c \in Codes, x \in Regexes :
    <<c, x>> \in jail <=>
      \E k \in 1..n : conf.jail[k].regex = x /\ c \in ToSet(conf.jail[k].codes)

JailInv ==
  /\ how # "file" => conf.jail = <<>>
  /\ at = "read" => jail = {} /\ i = 1
  /\ at = "jail" => i <= Len(conf.jail) + 1 /\ JailRead(i - 1)
  /\ at \in {"primary", "fallback", "fixed", "wait"} => JailRead(Len(conf.jail))

PrimaryBuilt(s) == \E p \in resolvers[s] : Playing(s, "primary") = {p}
FallbackBuilt(s) == Playing(s, "fallback") = {} <=> Trimmed(conf.svc[s].fallback) = {}
FixedBuilt(s, n) ==
  /\ \A r \in Playing(s, "fixed") : r.key <= n
  /\ \A k \in Compiled(s) :
       k <= n => \E r \in Playing(s, "fixed") :
                   r.key = k /\ r.endpoints = {conf.svc[s].fixed[k].server}
Complete(s) ==
  PrimaryBuilt(s) /\ FallbackBuilt(s) /\ FixedBuilt(s, Len(conf.svc[s].fixed))

\* Where main is says what of its service exists; nothing of the next one does.
BuildInv ==
  /\ \A s \in up : Complete(s) /\ (s = svc => at = "wait")
  /\ svc = "doh" => resolvers["dns53"] = {} /\ at # "wait"
  /\ at \in {"read", "jail"} => svc = "doh"
  /\ at \in {"read", "jail", "primary"} => resolvers[svc] = {}
  /\ at = "primary" => i = 1
  /\ at \in {"fallback", "fixed"} => svc \in Enabled /\ PrimaryBuilt(svc)
  /\ at = "fallback" => i = 1 /\ \A r \in resolvers[svc] : r.role = "primary"
  /\ at = "fixed" =>
       /\ FallbackBuilt(svc) /\ FixedBuilt(svc, i - 1)
       /\ i <= Len(conf.svc[svc].fixed) + 1
  /\ at = "panicked" => up = {}

\* What a resolver can trip over comes from the configuration.
ResolverInv ==
  \A s \in Services : \A r \in resolvers[s] :
    /\ s \in Enabled
    /\ r.cached => conf.cache \/ conf.svc[s].fixed # <<>>
    /\ r.store <=> r.cached /\ conf.backend = "internal"
    /\ r.role = "fixed" /\ r.key = 0 => Compiled(s) # DOMAIN conf.svc[s].fixed

IInv == TypeOK /\ JailInv /\ BuildInv /\ ResolverInv /\ SoundNeverToBlame

-----------------------------------------------------------------------------

\* The types of what a configuration says.
LEMMA ConfTypes ==
  ASSUME conf \in Configs, NEW s \in Services
  PROVE  /\ conf.cache \in BOOLEAN
         /\ conf.jail \in Seq(JailModel) /\ Len(conf.jail) \in Nat
         /\ DOMAIN conf.jail = 1..Len(conf.jail)
         /\ conf.svc[s].upstream \in Seq(Kinds \cup {Blank})
         /\ conf.svc[s].fallback \in Seq(Kinds \cup {Blank})
         /\ conf.svc[s].fixed \in Seq(FixedModel) /\ Len(conf.svc[s].fixed) \in Nat
         /\ DOMAIN conf.svc[s].fixed = 1..Len(conf.svc[s].fixed)
<1>1. conf \in ConfigModel
  BY ConfigurationAssumption DEF ConfigurationAssumption
<1>2. conf.cache \in BOOLEAN /\ conf.jail \in Seq(JailModel) /\ conf.svc[s] \in ServiceModel
  BY <1>1 DEF ConfigModel
<1>3. /\ conf.svc[s].upstream \in Seq(Kinds \cup {Blank})
      /\ conf.svc[s].fallback \in Seq(Kinds \cup {Blank})
      /\ conf.svc[s].fixed \in Seq(FixedModel)
  BY <1>2 DEF ServiceModel
<1> QED
  BY <1>2, <1>3

\* A list of endpoints has kinds of endpoints in it, once the blanks are gone.
LEMMA TrimmedKinds ==
  ASSUME NEW list \in Seq(Kinds \cup {Blank})
  PROVE  Trimmed(list) \subseteq Kinds
  BY DEF Trimmed, ToSet

\* The initial state satisfies the invariant.
LEMMA InitIInv == Init => IInv
<1> SUFFICES ASSUME Init PROVE IInv
  OBVIOUS
<1>1. TypeOK
  <2>1. quad9 \in Kinds /\ svc \in Services /\ i \in Nat \ {0}
    BY DEF Init, Kinds, Services
  <2>2. \A T : resolvers \in [Services -> SUBSET T]
    BY DEF Init
  <2>3. jail = {} /\ launched = {} /\ up = {} /\ causes = {} /\ at = "read" /\ conf \in Configs
    BY DEF Init
  <2> QED
    BY <2>1, <2>2, <2>3 DEF Init, TypeOK
<1>2. JailInv
  BY DEF Init, JailInv, FromFlags
<1>3. BuildInv /\ ResolverInv
  BY DEF Init, BuildInv, ResolverInv, Services
<1>4. SoundNeverToBlame
  BY DEF Init, SoundNeverToBlame
<1> QED
  BY <1>1, <1>2, <1>3, <1>4 DEF IInv

\* What depends on the configuration alone does not change.
LEMMA GivenFixed ==
  ASSUME UNCHANGED given
  PROVE  /\ Enabled' = Enabled /\ Sound' = Sound
         /\ \A s : Compiled(s)' = Compiled(s)
<1>1. Enabled' = Enabled /\ \A s : Compiled(s)' = Compiled(s)
  BY DEF given, Enabled, Compiled
<1>2. \A s : Proto(s)' = Proto(s) /\ Lists(s)' = Lists(s)
  BY DEF given, Proto, Lists
<1> QED
  BY <1>1, <1>2 DEF given, Sound

\* A panic leaves nothing to be wrong about, unless the configuration is sound: then
\* it must not be due to that, nor come before a service was launched.
LEMMA PanicIInv ==
  ASSUME IInv, NEW why \in Causes, Panic(why),
         Sound => why # "configuration" /\ launched # {}
  PROVE  IInv'
<1>1. UNCHANGED given /\ launched' = launched /\ causes' = causes \cup {why}
  BY DEF Panic
<1>2. TypeOK'
  BY DEF IInv, TypeOK, Panic, given
<1>3. JailInv' /\ BuildInv'
  BY DEF IInv, JailInv, BuildInv, Panic, given
<1>4. ResolverInv'
  BY <1>1, GivenFixed DEF IInv, ResolverInv, Panic, given
<1>5. SoundNeverToBlame'
  BY <1>1, GivenFixed DEF IInv, SoundNeverToBlame
<1> QED
  BY <1>2, <1>3, <1>4, <1>5 DEF IInv

\* The panics of a configuration that is not sound.
LEMMA BlamedIInv ==
  ASSUME IInv, Panic("configuration"), ~Sound
  PROVE  IInv'
  BY PanicIInv DEF Causes

\* A step that leaves the resolvers alone keeps what is known of them.
LEMMA SameResolvers ==
  ASSUME IInv, UNCHANGED <<given, resolvers>>, up' \subseteq up
  PROVE  /\ ResolverInv'
         /\ \A s : /\ PrimaryBuilt(s)' <=> PrimaryBuilt(s)
                   /\ FallbackBuilt(s)' <=> FallbackBuilt(s)
                   /\ Complete(s)' <=> Complete(s)
                   /\ \A n : FixedBuilt(s, n)' <=> FixedBuilt(s, n)
<1>1. \A s, role : Playing(s, role)' = Playing(s, role)
  BY DEF Playing
<1>2. \A s : Trimmed(conf.svc[s].fallback)' = Trimmed(conf.svc[s].fallback)
  BY DEF Trimmed, given
<1>3. Enabled' = Enabled /\ \A s : Compiled(s)' = Compiled(s)
  BY GivenFixed
<1>4. ResolverInv'
  BY <1>3 DEF IInv, ResolverInv, given
<1>5. ASSUME NEW s
      PROVE  /\ PrimaryBuilt(s)' <=> PrimaryBuilt(s)
             /\ FallbackBuilt(s)' <=> FallbackBuilt(s)
             /\ \A n : FixedBuilt(s, n)' <=> FixedBuilt(s, n)
  <2>1. PrimaryBuilt(s)' <=> PrimaryBuilt(s)
    BY <1>1 DEF PrimaryBuilt
  <2>2. FallbackBuilt(s)' <=> FallbackBuilt(s)
    BY <1>1, <1>2 DEF FallbackBuilt
  <2>3. \A n : FixedBuilt(s, n)' <=> FixedBuilt(s, n)
    BY <1>1, <1>3 DEF FixedBuilt, given
  <2> QED BY <2>1, <2>2, <2>3
<1> QED
  BY <1>4, <1>5 DEF Complete, given

-----------------------------------------------------------------------------
(* Reading the configuration *)

\* Only a file can be unreadable, and that is not sound.
LEMMA ReadFailsIInv ==
  ASSUME IInv, ReadFails
  PROVE  IInv'
  BY BlamedIInv DEF ReadFails, Sound

\* Flags name no jail; of a file no entry has been read yet.
LEMMA ReadIInv ==
  ASSUME IInv, Read
  PROVE  IInv'
<1>1. /\ UNCHANGED <<given, svc, i, jail, resolvers, launched, up, causes>> /\ at = "read"
      /\ at' = IF how = "file" THEN "jail" ELSE "primary"
      /\ jail = {} /\ i = 1 /\ svc = "doh"
  BY DEF Read, IInv, JailInv, BuildInv
<1>2. TypeOK' /\ SoundNeverToBlame'
  BY <1>1, GivenFixed DEF IInv, TypeOK, given, SoundNeverToBlame
<1>3. JailInv'
  <2>1. JailRead(0)' /\ Len(conf.jail) \in Nat
    BY <1>1, ConfTypes DEF IInv, TypeOK, JailRead
  <2>2. how # "file" => Len(conf.jail) = 0
    BY DEF IInv, JailInv
  <2> QED
    BY <1>1, <2>1, <2>2 DEF IInv, JailInv, given
<1>4. ResolverInv' /\ BuildInv'
  BY <1>1, SameResolvers DEF IInv, BuildInv
<1> QED
  BY <1>2, <1>3, <1>4 DEF IInv

\* An entry puts its expression under each of its codes, if it compiles.
LEMMA JailEntryIInv ==
  ASSUME IInv, JailEntry
  PROVE  IInv'
<1>1. /\ UNCHANGED <<given, at, svc, resolvers, launched, up, causes>> /\ at = "jail"
      /\ jail' = jail \cup JailedBy(conf.jail[i]) /\ i' = i + 1
      /\ i \in 1..Len(conf.jail) /\ Len(conf.jail) \in Nat
  BY ConfTypes DEF JailEntry, IInv, TypeOK
<1>2. conf.jail[i] \in JailModel
  BY <1>1, ConfTypes DEF IInv, TypeOK
<1>3. \A c, x : <<c, x>> \in JailedBy(conf.jail[i]) <=>
        x = conf.jail[i].regex /\ x # Invalid /\ c \in ToSet(conf.jail[i].codes) /\ c # Blank
  BY DEF JailedBy, Trimmed
<1>4. JailedBy(conf.jail[i]) \subseteq Codes \X Regexes
  <2>1. conf.jail[i].regex \in Regexes \cup {Invalid} /\ conf.jail[i].codes \in Seq(Codes \cup {Blank})
    BY <1>2 DEF JailModel
  <2>2. Trimmed(conf.jail[i].codes) \subseteq Codes
    BY <2>1 DEF Trimmed, ToSet
  <2> QED
    BY <2>1, <2>2 DEF JailedBy
<1>5. TypeOK' /\ SoundNeverToBlame'
  BY <1>1, <1>4, GivenFixed DEF IInv, TypeOK, given, SoundNeverToBlame
<1>6. JailInv'
  <2>1. ASSUME NEW c \in Codes, NEW x \in Regexes
        PROVE  <<c, x>> \in jail' <=>
                 \E k \in 1..i : conf.jail[k].regex = x /\ c \in ToSet(conf.jail[k].codes)
    <3>1. <<c, x>> \in jail <=>
            \E k \in 1..(i - 1) : conf.jail[k].regex = x /\ c \in ToSet(conf.jail[k].codes)
      BY <1>1 DEF IInv, JailInv, JailRead
    <3>2. x # Invalid /\ c # Blank
      BY ConfigurationAssumption DEF ConfigurationAssumption
    <3>3. <<c, x>> \in JailedBy(conf.jail[i])
            <=> conf.jail[i].regex = x /\ c \in ToSet(conf.jail[i].codes)
      BY <1>3, <3>2
    <3>4. 1..i = 1..(i - 1) \cup {i}
      BY <1>1
    <3>5. <<c, x>> \in jail' <=> <<c, x>> \in jail \/ <<c, x>> \in JailedBy(conf.jail[i])
      BY <1>1
    <3> QED
      BY <3>1, <3>3, <3>4, <3>5
  <2>2. i' - 1 = i /\ i' <= Len(conf.jail) + 1 /\ conf' = conf
    BY <1>1 DEF given
  <2>3. JailRead(i - 1)'
    BY <2>1, <2>2 DEF JailRead
  <2> QED
    BY <1>1, <2>2, <2>3 DEF IInv, JailInv, given
<1>7. ResolverInv' /\ BuildInv'
  BY <1>1, SameResolvers DEF IInv, BuildInv
<1> QED
  BY <1>5, <1>6, <1>7 DEF IInv

\* The entries are all read, and no resolver is built yet.
LEMMA JailDoneIInv ==
  ASSUME IInv, JailDone
  PROVE  IInv'
<1>1. /\ UNCHANGED <<given, svc, jail, resolvers, launched, up, causes>>
      /\ at = "jail" /\ at' = "primary" /\ i' = 1
      /\ i - 1 = Len(conf.jail) /\ JailRead(i - 1)
  <2>1. i \in Nat /\ Len(conf.jail) \in Nat
    BY ConfTypes DEF IInv, TypeOK
  <2>2. at = "jail" /\ i > Len(conf.jail) /\ i <= Len(conf.jail) + 1 /\ JailRead(i - 1)
    BY DEF JailDone, IInv, JailInv
  <2> QED
    BY <2>1, <2>2 DEF JailDone
<1>2. TypeOK' /\ SoundNeverToBlame'
  BY <1>1, GivenFixed DEF IInv, TypeOK, given, SoundNeverToBlame
<1>3. JailInv'
  BY <1>1 DEF IInv, JailInv, JailRead, given
<1>4. ResolverInv' /\ BuildInv'
  BY <1>1, SameResolvers DEF IInv, BuildInv
<1> QED
  BY <1>2, <1>3, <1>4 DEF IInv

-----------------------------------------------------------------------------
(* Building the resolvers *)

ResolverModel ==
  [role : {"primary", "fallback", "fixed"}, key : Nat,
   endpoints : (SUBSET Kinds) \ {{}}, cached : BOOLEAN, store : BOOLEAN]

\* What the code knows of a resolver it is about to build for svc.
Buildable(r) ==
  /\ r \in ResolverModel
  /\ r.cached => conf.cache \/ conf.svc[svc].fixed # <<>>
  /\ r.store <=> r.cached /\ conf.backend = "internal"
  /\ r.role = "fixed" /\ r.key = 0 => Compiled(svc) # DOMAIN conf.svc[svc].fixed
  /\ Proto(svc) = "dns53" /\ PoolFails(r.endpoints) => ~Sound

\* A resolver that is built takes the place of the one with its role and key, and
\* changes nothing else that is known; one that is not ends an unsound process.
LEMMA ConstructFacts ==
  ASSUME IInv, svc \in Enabled, at \in {"primary", "fallback", "fixed"},
         NEW r, Buildable(r), Construct(r), at' # "panicked"
  PROVE  /\ UNCHANGED <<given, svc, jail, launched, up, causes>>
         /\ at' = (IF r.role = "primary" THEN "fallback" ELSE "fixed")
         /\ i' = (IF r.role = "fixed" THEN i + 1 ELSE i)
         /\ TypeOK' /\ JailInv' /\ ResolverInv' /\ SoundNeverToBlame'
         /\ \A s \in up : s # svc /\ Complete(s)'
         /\ \A s \in Services : s # svc => resolvers'[s] = resolvers[s]
         /\ \A role : role # r.role => Playing(svc, role)' = Playing(svc, role)
         /\ Playing(svc, r.role)' = {o \in Playing(svc, r.role) : o.key # r.key} \cup {r}
<1>1. /\ UNCHANGED <<given, svc, jail, launched, up, causes>>
      /\ resolvers' = [resolvers EXCEPT ![svc] =
           {o \in @ : <<o.role, o.key>> # <<r.role, r.key>>} \cup {r}]
      /\ at' = (IF r.role = "primary" THEN "fallback" ELSE "fixed")
      /\ i' = (IF r.role = "fixed" THEN i + 1 ELSE i)
  BY DEF Construct, Panic
<1>2. svc \in Services /\ resolvers \in [Services -> SUBSET ResolverModel] /\ i \in Nat \ {0}
  BY DEF IInv, TypeOK, ResolverModel
<1>3. /\ resolvers' \in [Services -> SUBSET ResolverModel]
      /\ resolvers'[svc] = {o \in resolvers[svc] : <<o.role, o.key>> # <<r.role, r.key>>} \cup {r}
      /\ \A s \in Services : s # svc => resolvers'[s] = resolvers[s]
  BY <1>1, <1>2 DEF Buildable
<1>4. i' \in Nat \ {0} /\ at' \in {"fallback", "fixed"}
  BY <1>1, <1>2
<1>5. TypeOK'
  BY <1>1, <1>3, <1>4 DEF IInv, TypeOK, ResolverModel, given
<1>6. JailInv'
  BY <1>1, <1>4 DEF IInv, JailInv, JailRead, given
<1>7. Enabled' = Enabled /\ Sound' = Sound /\ \A s : Compiled(s)' = Compiled(s)
  BY <1>1, GivenFixed
<1>8. SoundNeverToBlame'
  BY <1>1, <1>4, <1>7 DEF IInv, SoundNeverToBlame
<1>9. ResolverInv'
  <2> SUFFICES ASSUME NEW s \in Services, NEW o \in resolvers'[s]
               PROVE  /\ s \in Enabled
                      /\ o.cached => conf.cache \/ conf.svc[s].fixed # <<>>
                      /\ o.store <=> o.cached /\ conf.backend = "internal"
                      /\ o.role = "fixed" /\ o.key = 0 => Compiled(s) # DOMAIN conf.svc[s].fixed
    BY <1>1, <1>7 DEF ResolverInv, given
  <2>1. CASE o \in resolvers[s]
    BY <2>1 DEF IInv, ResolverInv
  <2>2. CASE s = svc /\ o = r
    BY <2>2 DEF Buildable
  <2> QED
    BY <1>3, <2>1, <2>2
<1>10. \A s \in up : s # svc /\ Complete(s)'
  <2> SUFFICES ASSUME NEW s \in up
               PROVE  s # svc /\ Complete(s)'
    OBVIOUS
  <2>1. s # svc /\ s \in Services /\ Complete(s)
    BY DEF IInv, TypeOK, BuildInv
  <2>2. resolvers'[s] = resolvers[s]
    BY <1>3, <2>1
  <2>3. \A role : Playing(s, role)' = Playing(s, role)
    BY <2>2 DEF Playing
  <2>4. PrimaryBuilt(s)'
    BY <2>1, <2>2, <2>3 DEF Complete, PrimaryBuilt
  <2>5. FallbackBuilt(s)'
    BY <1>1, <2>1, <2>3 DEF Complete, FallbackBuilt, Trimmed, given
  <2>6. FixedBuilt(s, Len(conf.svc[s].fixed))'
    BY <1>1, <1>7, <2>1, <2>3 DEF Complete, FixedBuilt, given
  <2> QED
    BY <2>1, <2>4, <2>5, <2>6 DEF Complete
<1>11. \A role : role # r.role => Playing(svc, role)' = Playing(svc, role)
  <2> SUFFICES ASSUME NEW role, role # r.role
               PROVE  Playing(svc, role)' = Playing(svc, role)
    OBVIOUS
  <2>1. Playing(svc, role)' = {o \in resolvers'[svc] : o.role = role}
    BY <1>1 DEF Playing
  <2> QED
    BY <1>3, <2>1 DEF Playing
<1>12. Playing(svc, r.role)' = {o \in Playing(svc, r.role) : o.key # r.key} \cup {r}
  <2>1. Playing(svc, r.role)' = {o \in resolvers'[svc] : o.role = r.role}
    BY <1>1 DEF Playing
  <2> QED
    BY <1>3, <2>1 DEF Playing
<1> QED
  BY <1>1, <1>3, <1>5, <1>6, <1>8, <1>9, <1>10, <1>11, <1>12

LEMMA ConstructPanics ==
  ASSUME IInv, NEW r, Buildable(r), Construct(r), at' = "panicked"
  PROVE  IInv'
<1>1. Panic("configuration") /\ Proto(svc) = "dns53" /\ PoolFails(r.endpoints)
  BY DEF Construct
<1> QED
  BY <1>1, BlamedIInv DEF Buildable

\* Of a sound list, what is left without the blanks is a pool that connects.
LEMMA SoundPool ==
  ASSUME Sound, svc \in Enabled, Proto(svc) = "dns53",
         NEW list \in Lists(svc), ~(list \subseteq {Blank})
  PROVE  ~PoolFails(list \ {Blank})
<1>1. list \subseteq {"live", "unusable", Blank} /\ "live" \in list
  BY DEF Sound
<1>2. "live" # Blank
  BY ConfigurationAssumption DEF ConfigurationAssumption, Kinds
<1> QED
  BY <1>1, <1>2 DEF PoolFails

\* The primary resolver is the first one, and the only one with its role.
LEMMA BuildPrimaryIInv ==
  ASSUME IInv, BuildPrimary
  PROVE  IInv'
<1> DEFINE u == ToSet(conf.svc[svc].upstream)
           r == Resolver("primary", 0, UpstreamOr({quad9}), conf.cache)
<1>1. /\ at = "primary" /\ svc \in Enabled /\ svc \in Services /\ Construct(r)
      /\ conf.cache \in BOOLEAN /\ quad9 \in Kinds /\ i = 1
      /\ resolvers[svc] = {} /\ conf.svc[svc].upstream \in Seq(Kinds \cup {Blank})
  BY ConfTypes DEF BuildPrimary, IInv, TypeOK, BuildInv
<1>2. /\ r.role = "primary" /\ r.key = 0 /\ r.endpoints = UpstreamOr({quad9})
      /\ r.cached = conf.cache /\ r.store \in BOOLEAN
      /\ r.store <=> conf.cache /\ conf.backend = "internal"
      /\ r = [role |-> r.role, key |-> r.key, endpoints |-> r.endpoints, cached |-> r.cached, store |-> r.store]
  BY DEF Resolver, Store
<1>3. r.endpoints = IF u \subseteq {Blank} THEN {quad9} ELSE u \ {Blank}
  BY <1>2 DEF UpstreamOr, Trimmed, Mine
<1>4. r.endpoints \in (SUBSET Kinds) \ {{}}
  BY <1>1, <1>3, TrimmedKinds DEF Trimmed
<1> HIDE DEF r
<1>5. Buildable(r)
  <2>1. r \in ResolverModel
    <3>1. r.role \in {"primary", "fallback", "fixed"} /\ r.key \in Nat /\ r.cached \in BOOLEAN
      BY <1>1, <1>2
    <3> QED BY <1>2, <1>4, <3>1 DEF ResolverModel
  <2>2. Sound /\ Proto(svc) = "dns53" => ~PoolFails(r.endpoints)
    <3> SUFFICES ASSUME Sound, Proto(svc) = "dns53" PROVE ~PoolFails(r.endpoints)
      OBVIOUS
    <3>1. CASE u \subseteq {Blank}
      <4>1. {quad9} \in Lists(svc) /\ ~({quad9} \subseteq {Blank}) /\ {quad9} \ {Blank} = {quad9}
        BY <1>1, <3>1, ConfigurationAssumption DEF Lists, ConfigurationAssumption
      <4> QED BY <1>1, <1>3, <3>1, <4>1, SoundPool
    <3>2. CASE ~(u \subseteq {Blank})
      <4>1. u \in Lists(svc)
        BY <3>2 DEF Lists
      <4> QED BY <1>1, <1>3, <3>2, <4>1, SoundPool
    <3> QED BY <3>1, <3>2
  <2> QED
    BY <1>1, <1>2, <2>1, <2>2 DEF Buildable
<1>6. CASE at' # "panicked"
  <2>1. /\ UNCHANGED <<given, svc, jail, launched, up, causes>> /\ at' = "fallback" /\ i' = 1
        /\ TypeOK' /\ JailInv' /\ ResolverInv' /\ SoundNeverToBlame'
        /\ \A s \in up : s # svc /\ Complete(s)'
        /\ \A s \in Services : s # svc => resolvers'[s] = resolvers[s]
        /\ \A role : role # "primary" => Playing(svc, role)' = Playing(svc, role)
        /\ Playing(svc, "primary")' = {o \in Playing(svc, "primary") : o.key # r.key} \cup {r}
    BY <1>1, <1>2, <1>5, <1>6, ConstructFacts
  <2>2. \A role : Playing(svc, role) = {}
    BY <1>1 DEF Playing
  <2>3. Playing(svc, "primary")' = {r} /\ \A role : role # "primary" => Playing(svc, role)' = {}
    BY <2>1, <2>2
  <2>4. PrimaryBuilt(svc)' /\ \A o \in resolvers'[svc] : o.role = "primary"
    BY <2>1, <2>3 DEF PrimaryBuilt, Playing
  <2>5. svc' \in Enabled'
    BY <1>1, <2>1, GivenFixed
  <2>6. svc = "doh" => resolvers'["dns53"] = {}
    BY <2>1 DEF IInv, BuildInv, Services
  <2>7. BuildInv'
    <3>1. (\A s \in up : Complete(s) /\ (s = svc => at = "wait"))'
      BY <2>1
    <3>2. (svc = "doh" => resolvers["dns53"] = {} /\ at # "wait")'
      BY <2>1, <2>6
    <3>3. (at \in {"fallback", "fixed"} => svc \in Enabled /\ PrimaryBuilt(svc))'
      BY <2>4, <2>5
    <3>4. (at = "fallback" => i = 1 /\ \A o \in resolvers[svc] : o.role = "primary")'
      BY <2>1, <2>4
    <3> QED BY <2>1, <3>1, <3>2, <3>3, <3>4 DEF BuildInv
  <2> QED
    BY <2>1, <2>7 DEF IInv
<1> QED
  BY <1>1, <1>5, <1>6, ConstructPanics

\* The fallback is built if one is named that is not blank.
LEMMA BuildFallbackIInv ==
  ASSUME IInv, BuildFallback
  PROVE  IInv'
<1> DEFINE u == ToSet(conf.svc[svc].fallback)
           r == Resolver("fallback", 0, Trimmed(Mine.fallback), conf.cache)
<1>1. /\ at = "fallback" /\ svc \in Enabled /\ svc \in Services /\ Construct(r)
      /\ conf.cache \in BOOLEAN /\ i = 1 /\ Len(conf.svc[svc].fixed) \in Nat
      /\ Trimmed(conf.svc[svc].fallback) # {} /\ conf.svc[svc].fallback \in Seq(Kinds \cup {Blank})
      /\ PrimaryBuilt(svc) /\ \A o \in resolvers[svc] : o.role = "primary"
  BY ConfTypes DEF BuildFallback, IInv, TypeOK, BuildInv, Mine
<1>2. /\ r.role = "fallback" /\ r.key = 0 /\ r.endpoints = Trimmed(conf.svc[svc].fallback)
      /\ r.cached = conf.cache /\ r.store \in BOOLEAN
      /\ r.store <=> conf.cache /\ conf.backend = "internal"
      /\ r = [role |-> r.role, key |-> r.key, endpoints |-> r.endpoints, cached |-> r.cached, store |-> r.store]
  BY DEF Resolver, Store, Mine
<1>3. r.endpoints = u \ {Blank} /\ ~(u \subseteq {Blank})
  BY <1>1, <1>2 DEF Trimmed
<1>4. r.endpoints \in (SUBSET Kinds) \ {{}}
  BY <1>1, <1>2, TrimmedKinds
<1> HIDE DEF r
<1>5. Buildable(r)
  <2>1. r \in ResolverModel
    <3>1. r.role \in {"primary", "fallback", "fixed"} /\ r.key \in Nat /\ r.cached \in BOOLEAN
      BY <1>1, <1>2
    <3> QED BY <1>2, <1>4, <3>1 DEF ResolverModel
  <2>2. u \in Lists(svc)
    BY DEF Lists
  <2> QED
    BY <1>1, <1>2, <1>3, <2>1, <2>2, SoundPool DEF Buildable
<1>6. CASE at' # "panicked"
  <2>1. /\ UNCHANGED <<given, svc, jail, launched, up, causes>> /\ at' = "fixed" /\ i' = 1
        /\ TypeOK' /\ JailInv' /\ ResolverInv' /\ SoundNeverToBlame'
        /\ \A s \in up : s # svc /\ Complete(s)'
        /\ \A s \in Services : s # svc => resolvers'[s] = resolvers[s]
        /\ \A role : role # "fallback" => Playing(svc, role)' = Playing(svc, role)
        /\ Playing(svc, "fallback")' = {o \in Playing(svc, "fallback") : o.key # r.key} \cup {r}
    BY <1>1, <1>2, <1>5, <1>6, ConstructFacts
  <2>2. PrimaryBuilt(svc)'
    <3>1. PICK p \in Playing(svc, "primary") : Playing(svc, "primary") = {p}
      BY <1>1 DEF PrimaryBuilt
    <3>2. Playing(svc, "primary")' = {p}
      BY <2>1, <3>1
    <3> QED BY <2>1, <3>2 DEF PrimaryBuilt, Playing
  <2>3. FallbackBuilt(svc)'
    BY <1>1, <2>1 DEF FallbackBuilt, Trimmed, given
  <2>4. Playing(svc, "fixed")' = {}
    BY <1>1, <2>1 DEF Playing
  <2>5. FixedBuilt(svc, i - 1)'
    <3>1. \A k \in Compiled(svc)' : ~(k <= i' - 1)
      BY <1>1, <2>1, ConfTypes DEF IInv, TypeOK, Compiled, given
    <3> QED BY <2>1, <2>4, <3>1 DEF FixedBuilt
  <2>6. svc' \in Enabled' /\ (svc = "doh" => resolvers'["dns53"] = {})
    BY <1>1, <2>1, GivenFixed DEF IInv, BuildInv, Services
  <2>7. BuildInv'
    <3>1. (\A s \in up : Complete(s) /\ (s = svc => at = "wait"))'
      BY <2>1
    <3>2. (svc = "doh" => resolvers["dns53"] = {} /\ at # "wait")'
      BY <2>1, <2>6
    <3>3. (at \in {"fallback", "fixed"} => svc \in Enabled /\ PrimaryBuilt(svc))'
      BY <2>2, <2>6
    <3>4. (at = "fixed" => /\ FallbackBuilt(svc) /\ FixedBuilt(svc, i - 1)
                          /\ i <= Len(conf.svc[svc].fixed) + 1)'
      BY <1>1, <2>1, <2>3, <2>5 DEF given
    <3> QED BY <2>1, <3>1, <3>2, <3>3, <3>4 DEF BuildInv
  <2> QED
    BY <2>1, <2>7 DEF IInv
<1> QED
  BY <1>1, <1>5, <1>6, ConstructPanics

\* Without one named there is none, and the fixed resolvers are next.
LEMMA NoFallbackIInv ==
  ASSUME IInv, NoFallback
  PROVE  IInv'
<1>1. /\ UNCHANGED <<given, svc, i, jail, resolvers, launched, up, causes>>
      /\ at = "fallback" /\ at' = "fixed" /\ i = 1
      /\ Trimmed(conf.svc[svc].fallback) = {} /\ svc \in Enabled /\ svc \in Services
      /\ PrimaryBuilt(svc) /\ (\A r \in resolvers[svc] : r.role = "primary")
      /\ Len(conf.svc[svc].fixed) \in Nat
      /\ DOMAIN conf.svc[svc].fixed = 1..Len(conf.svc[svc].fixed)
  BY ConfTypes DEF NoFallback, IInv, TypeOK, BuildInv, Mine
<1>2. TypeOK' /\ SoundNeverToBlame'
  BY <1>1, GivenFixed DEF IInv, TypeOK, given, SoundNeverToBlame
<1>3. JailInv'
  BY <1>1 DEF IInv, JailInv, JailRead, given
<1>4. FallbackBuilt(svc) /\ FixedBuilt(svc, i - 1)
  <2>1. Playing(svc, "fallback") = {} /\ Playing(svc, "fixed") = {}
    BY <1>1 DEF Playing
  <2>2. \A k \in Compiled(svc) : ~(k <= i - 1)
    BY <1>1 DEF Compiled
  <2> QED
    BY <1>1, <2>1, <2>2 DEF FallbackBuilt, FixedBuilt
<1>5. BuildInv'
  <2>1. (\A s \in up : Complete(s) /\ (s = svc => at = "wait"))'
    BY <1>1, SameResolvers DEF IInv, BuildInv
  <2>2. (at = "fixed" => /\ FallbackBuilt(svc) /\ FixedBuilt(svc, i - 1)
                        /\ i <= Len(conf.svc[svc].fixed) + 1)'
    BY <1>1, <1>4, SameResolvers DEF given
  <2>3. (at \in {"fallback", "fixed"} => svc \in Enabled /\ PrimaryBuilt(svc))'
    BY <1>1, SameResolvers, GivenFixed
  <2> QED
    BY <1>1, <2>1, <2>2, <2>3 DEF IInv, BuildInv
<1> QED
  BY <1>1, <1>2, <1>3, <1>5, SameResolvers DEF IInv

\* A fixed entry gets a resolver of its own if its expression compiles, and one that
\* takes the place of the last such entry's if not.
LEMMA BuildFixedIInv ==
  ASSUME IInv, BuildFixed
  PROVE  IInv'
<1> DEFINE e == conf.svc[svc].fixed[i]
           r == Resolver("fixed", Key(e, i), {e.server}, TRUE)
<1>1. /\ at = "fixed" /\ svc \in Enabled /\ svc \in Services /\ Construct(r)
      /\ i \in Nat \ {0} /\ i <= Len(conf.svc[svc].fixed) /\ Len(conf.svc[svc].fixed) \in Nat
      /\ conf.svc[svc].fixed \in Seq(FixedModel)
      /\ DOMAIN conf.svc[svc].fixed = 1..Len(conf.svc[svc].fixed)
      /\ PrimaryBuilt(svc) /\ FallbackBuilt(svc) /\ FixedBuilt(svc, i - 1)
  BY ConfTypes DEF BuildFixed, IInv, TypeOK, BuildInv, Mine
<1>2. i \in DOMAIN conf.svc[svc].fixed /\ e \in FixedModel
  BY <1>1
<1>3. e.regex \in Regexes \cup {Invalid} /\ e.server \in Kinds
  BY <1>2 DEF FixedModel
<1>4. /\ r.role = "fixed" /\ r.key = Key(e, i) /\ r.endpoints = {e.server}
      /\ r.cached = TRUE /\ r.store \in BOOLEAN
      /\ r.store <=> conf.backend = "internal"
      /\ r = [role |-> r.role, key |-> r.key, endpoints |-> r.endpoints, cached |-> r.cached, store |-> r.store]
  BY DEF Resolver, Store
<1>5. /\ Key(e, i) \in {0, i}
      /\ Key(e, i) = 0 <=> i \notin Compiled(svc)
  BY <1>1, <1>2, <1>3, ConfigurationAssumption DEF Key, Compiled, ConfigurationAssumption
<1> HIDE DEF r
<1>6. Buildable(r)
  <2>1. r \in ResolverModel
    <3>1. r.role \in {"primary", "fallback", "fixed"} /\ r.cached \in BOOLEAN
      BY <1>4
    <3>2. r.key \in Nat
      BY <1>1, <1>4, <1>5
    <3>3. r.endpoints \in (SUBSET Kinds) \ {{}}
      BY <1>3, <1>4
    <3> QED BY <1>4, <3>1, <3>2, <3>3 DEF ResolverModel
  <2>2. {e.server} \in Lists(svc)
    <3>1. e \in ToSet(conf.svc[svc].fixed)
      BY <1>2 DEF ToSet
    <3> QED BY <3>1 DEF Lists
  <2>3. ~({e.server} \subseteq {Blank}) /\ {e.server} \ {Blank} = {e.server}
    BY <1>3, ConfigurationAssumption DEF ConfigurationAssumption
  <2>4. Sound /\ Proto(svc) = "dns53" => ~PoolFails(r.endpoints)
    <3>1. Sound /\ Proto(svc) = "dns53" => ~PoolFails({e.server} \ {Blank})
      <4> DEFINE l == {e.server}
      <4>1. l \in Lists(svc) /\ ~(l \subseteq {Blank})
        BY <2>2, <2>3
      <4> HIDE DEF l
      <4>2. Sound /\ Proto(svc) = "dns53" => ~PoolFails(l \ {Blank})
        BY <1>1, <4>1, SoundPool
      <4> QED BY <4>2 DEF l
    <3> QED BY <1>4, <2>3, <3>1
  <2>5. conf.svc[svc].fixed # <<>> /\ (r.key = 0 => Compiled(svc) # DOMAIN conf.svc[svc].fixed)
    BY <1>1, <1>2, <1>4, <1>5
  <2> QED
    BY <1>4, <2>1, <2>4, <2>5 DEF Buildable
<1>7. CASE at' # "panicked"
  <2>1. /\ UNCHANGED <<given, svc, jail, launched, up, causes>> /\ at' = "fixed" /\ i' = i + 1
        /\ TypeOK' /\ JailInv' /\ ResolverInv' /\ SoundNeverToBlame'
        /\ \A s \in up : s # svc /\ Complete(s)'
        /\ \A s \in Services : s # svc => resolvers'[s] = resolvers[s]
        /\ \A role : role # "fixed" => Playing(svc, role)' = Playing(svc, role)
        /\ Playing(svc, "fixed")' = {o \in Playing(svc, "fixed") : o.key # r.key} \cup {r}
    BY <1>1, <1>4, <1>6, <1>7, ConstructFacts
  <2>2. PrimaryBuilt(svc)'
    <3>1. PICK p \in Playing(svc, "primary") : Playing(svc, "primary") = {p}
      BY <1>1 DEF PrimaryBuilt
    <3>2. Playing(svc, "primary")' = {p}
      BY <2>1, <3>1
    <3> QED BY <2>1, <3>2 DEF PrimaryBuilt, Playing
  <2>3. FallbackBuilt(svc)'
    BY <1>1, <2>1 DEF FallbackBuilt, Trimmed, given
  <2>4. FixedBuilt(svc, i - 1)'
    <3>1. i' - 1 = i /\ conf' = conf /\ Compiled(svc)' = Compiled(svc)
      BY <1>1, <2>1, GivenFixed DEF given
    <3>2. \A o \in Playing(svc, "fixed")' : o.key <= i
      BY <1>1, <1>4, <1>5, <2>1 DEF FixedBuilt, Playing, IInv, TypeOK
    <3>3. ASSUME NEW k \in Compiled(svc), k <= i
          PROVE  \E o \in Playing(svc, "fixed")' : o.key = k /\ o.endpoints = {conf.svc[svc].fixed[k].server}
      <4>1. CASE k = i
        BY <1>4, <1>5, <2>1, <3>3, <4>1
      <4>2. CASE k # i
        <5>1. k \in 1..Len(conf.svc[svc].fixed) /\ k <= i - 1 /\ k # 0
          BY <1>1, <3>3, <4>2 DEF Compiled
        <5>2. PICK o \in Playing(svc, "fixed") :
                o.key = k /\ o.endpoints = {conf.svc[svc].fixed[k].server}
          BY <1>1, <5>1 DEF FixedBuilt
        <5>3. o.key # r.key
          BY <1>4, <1>5, <4>2, <5>1, <5>2
        <5> QED BY <2>1, <5>2, <5>3
      <4> QED BY <4>1, <4>2
    <3> QED
      BY <2>1, <3>1, <3>2, <3>3 DEF FixedBuilt
  <2>5. svc' \in Enabled' /\ (svc = "doh" => resolvers'["dns53"] = {})
    BY <1>1, <2>1, GivenFixed DEF IInv, BuildInv, Services
  <2>6. BuildInv'
    <3>1. (\A s \in up : Complete(s) /\ (s = svc => at = "wait"))'
      BY <2>1
    <3>2. (svc = "doh" => resolvers["dns53"] = {} /\ at # "wait")'
      BY <2>1, <2>5
    <3>3. (at \in {"fallback", "fixed"} => svc \in Enabled /\ PrimaryBuilt(svc))'
      BY <2>2, <2>5
    <3>4. (at = "fixed" => /\ FallbackBuilt(svc) /\ FixedBuilt(svc, i - 1)
                          /\ i <= Len(conf.svc[svc].fixed) + 1)'
      BY <1>1, <2>1, <2>3, <2>4 DEF given
    <3> QED BY <2>1, <3>1, <3>2, <3>3, <3>4 DEF BuildInv
  <2> QED
    BY <2>1, <2>6 DEF IInv
<1> QED
  BY <1>1, <1>6, <1>7, ConstructPanics

-----------------------------------------------------------------------------
(* Starting the services *)

\* Leaving a service, built or not, leaves its resolvers as they are.
LEMMA LeaveIInv ==
  ASSUME IInv, Leave, at \in {"primary", "fixed"},
         \/ UNCHANGED <<launched, up>>
         \/ launched' = launched \cup {svc} /\ up' = up \cup {svc} /\ Complete(svc)
  PROVE  IInv'
<1>1. /\ UNCHANGED <<given, jail, resolvers, causes>> /\ svc' = "dns53" /\ i' = 1
      /\ at' = (IF svc = "doh" THEN "primary" ELSE "wait")
      /\ svc \in Services
  BY DEF Leave, IInv, TypeOK
<1>2. TypeOK' /\ SoundNeverToBlame'
  <2>1. at' \in {"primary", "wait"} /\ svc' \in Services /\ i' \in Nat \ {0}
    BY <1>1 DEF Services
  <2>2. launched' \subseteq Services /\ up' \subseteq launched'
    BY <1>1 DEF IInv, TypeOK
  <2> QED
    BY <1>1, <2>1, <2>2, GivenFixed DEF IInv, TypeOK, given, SoundNeverToBlame
<1>3. JailInv'
  BY <1>1 DEF IInv, JailInv, JailRead, given
<1>4. ResolverInv'
  BY <1>1, GivenFixed DEF IInv, ResolverInv, given
<1>5. \A s : Complete(s)' <=> Complete(s)
  <2>1. Enabled' = Enabled /\ \A s : Compiled(s)' = Compiled(s)
    BY <1>1, GivenFixed
  <2>2. \A s, role : Playing(s, role)' = Playing(s, role)
    BY <1>1 DEF Playing
  <2>3. conf' = conf /\ resolvers' = resolvers
    BY <1>1 DEF given
  <2>4. ASSUME NEW s PROVE Complete(s)' <=> Complete(s)
    <3>1. PrimaryBuilt(s)' <=> PrimaryBuilt(s)
      BY <2>2, <2>3 DEF PrimaryBuilt
    <3>2. FallbackBuilt(s)' <=> FallbackBuilt(s)
      BY <2>2, <2>3 DEF FallbackBuilt, Trimmed
    <3>3. \A n : FixedBuilt(s, n)' <=> FixedBuilt(s, n)
      BY <2>1, <2>2, <2>3 DEF FixedBuilt
    <3> QED BY <2>3, <3>1, <3>2, <3>3 DEF Complete
  <2> QED
    BY <2>4
<1>6. BuildInv'
  <2>1. (\A s \in up : Complete(s) /\ (s = svc => at = "wait"))'
    <3>1. \A s \in up' : Complete(s)'
      BY <1>5 DEF IInv, BuildInv
    <3>2. ASSUME "dns53" \in up' PROVE svc = "dns53"
      <4>1. "dns53" \in up \/ svc = "dns53"
        BY <3>2
      <4>2. "dns53" \in up => resolvers["dns53"] # {}
        BY DEF IInv, BuildInv, Complete, PrimaryBuilt
      <4> QED BY <1>1, <4>1, <4>2 DEF IInv, BuildInv, Services
    <3> QED BY <1>1, <3>1, <3>2
  <2>2. svc = "doh" => resolvers["dns53"] = {}
    BY DEF IInv, BuildInv
  <2> QED
    BY <1>1, <2>1, <2>2 DEF BuildInv
<1> QED
  BY <1>2, <1>3, <1>4, <1>6 DEF IInv

\* A service starts once every entry of its fixed resolvers is built.
LEMMA StartIInv ==
  ASSUME IInv, Start
  PROVE  IInv'
<1>1. /\ at = "fixed" /\ Leave /\ launched' = launched \cup {svc} /\ up' = up \cup {svc}
      /\ i > Len(conf.svc[svc].fixed) /\ i \in Nat /\ svc \in Services
      /\ Len(conf.svc[svc].fixed) \in Nat
  BY ConfTypes DEF Start, Mine, IInv, TypeOK
<1>2. /\ PrimaryBuilt(svc) /\ FallbackBuilt(svc) /\ FixedBuilt(svc, i - 1)
      /\ i <= Len(conf.svc[svc].fixed) + 1
  BY <1>1 DEF IInv, BuildInv
<1>3. i - 1 = Len(conf.svc[svc].fixed)
  BY <1>1, <1>2
<1> QED
  BY <1>1, <1>2, <1>3, LeaveIInv DEF Complete

LEMMA DisabledIInv ==
  ASSUME IInv, Disabled
  PROVE  IInv'
  BY LeaveIInv DEF Disabled

\* What is up was enabled, and was launched.
LEMMA UpFacts ==
  ASSUME IInv, NEW s \in Services, s \in up
  PROVE  s \in Enabled /\ launched # {}
<1>1. Complete(s) /\ s \in launched
  BY DEF IInv, TypeOK, BuildInv
<1>2. PICK p \in resolvers[s] : TRUE
  BY <1>1 DEF Complete, PrimaryBuilt
<1> QED
  BY <1>1, <1>2 DEF IInv, ResolverInv

LEMMA ServiceEndsIInv ==
  ASSUME IInv, NEW s \in Services, ServiceEnds(s)
  PROVE  IInv'
<1>1. /\ UNCHANGED <<given, at, svc, i, jail, resolvers, launched, causes>>
      /\ up' \subseteq up
  BY DEF ServiceEnds
<1>2. TypeOK' /\ SoundNeverToBlame'
  BY <1>1, GivenFixed DEF IInv, TypeOK, given, SoundNeverToBlame
<1>3. JailInv'
  BY <1>1 DEF IInv, JailInv, JailRead, given
<1>4. BuildInv' /\ ResolverInv'
  BY <1>1, SameResolvers, GivenFixed DEF IInv, BuildInv, given
<1> QED
  BY <1>2, <1>3, <1>4 DEF IInv

LEMMA SetupPanicsIInv ==
  ASSUME IInv, NEW s \in Services, SetupPanics(s)
  PROVE  IInv'
<1>1. s \in Enabled /\ conf.svc[s].fatal
  BY UpFacts DEF SetupPanics
<1>2. ~Sound
  BY <1>1 DEF Sound
<1> QED
  BY <1>2, BlamedIInv DEF SetupPanics

\* A panic of a handler leaves the DoH service as it is.
LEMMA HandlerPanicsIInv ==
  ASSUME IInv, NEW s \in Services, NEW why \in Causes, HandlerPanics(s, why),
         Sound => why # "configuration" /\ launched # {}
  PROVE  IInv'
<1>1. CASE Panic(why)
  BY <1>1, PanicIInv
<1>2. CASE /\ causes' = causes \cup {why}
           /\ UNCHANGED <<given, at, svc, i, jail, resolvers, launched, up>>
  <2>1. TypeOK' /\ SoundNeverToBlame'
    BY <1>2, GivenFixed DEF IInv, TypeOK, given, SoundNeverToBlame
  <2>2. JailInv'
    BY <1>2 DEF IInv, JailInv, JailRead, given
  <2>3. BuildInv' /\ ResolverInv'
    BY <1>2, SameResolvers, GivenFixed DEF IInv, BuildInv, given
  <2> QED
    BY <2>1, <2>2, <2>3 DEF IInv
<1> QED
  BY <1>1, <1>2 DEF HandlerPanics

\* What a query trips over is a resolver that no sound configuration has.
LEMMA TripsUnsound ==
  ASSUME IInv, NEW s \in Services, NEW r \in resolvers[s], Trips(r)
  PROVE  ~Sound
<1>1. /\ s \in Enabled
      /\ r.cached => conf.cache \/ conf.svc[s].fixed # <<>>
      /\ r.store <=> r.cached /\ conf.backend = "internal"
      /\ r.role = "fixed" /\ r.key = 0 => Compiled(s) # DOMAIN conf.svc[s].fixed
  BY DEF IInv, ResolverInv
<1> QED
  BY <1>1 DEF Trips, Sound

\* All else that it may panic of is a reply or the race.
LEMMA QueryPanicsIInv ==
  ASSUME IInv, NEW s \in Services, QueryPanics(s)
  PROVE  IInv'
<1>1. launched # {}
  BY UpFacts DEF QueryPanics
<1>2. CASE (\E r \in resolvers[s] : Trips(r)) /\ HandlerPanics(s, "configuration")
  <2>1. ~Sound
    BY <1>2, TripsUnsound
  <2> QED BY <1>2, <2>1, HandlerPanicsIInv DEF Causes
<1>3. CASE HandlerPanics(s, "reply")
  BY <1>1, <1>3, HandlerPanicsIInv DEF Causes
<1>4. CASE Panic("reply") \/ Panic("race")
  BY <1>1, <1>4, PanicIInv DEF Causes
<1> QED
  BY <1>2, <1>3, <1>4 DEF QueryPanics

\* Every step keeps the invariant.
LEMMA NextIInv == IInv /\ [Next]_vars => IInv'
<1> SUFFICES ASSUME IInv, [Next]_vars PROVE IInv'
  OBVIOUS
<1>1. CASE ReadFails  BY <1>1, ReadFailsIInv
<1>2. CASE Read  BY <1>2, ReadIInv
<1>3. CASE JailEntry  BY <1>3, JailEntryIInv
<1>4. CASE JailDone  BY <1>4, JailDoneIInv
<1>5. CASE BuildPrimary  BY <1>5, BuildPrimaryIInv
<1>6. CASE BuildFallback  BY <1>6, BuildFallbackIInv
<1>7. CASE NoFallback  BY <1>7, NoFallbackIInv
<1>8. CASE BuildFixed  BY <1>8, BuildFixedIInv
<1>9. CASE Start  BY <1>9, StartIInv
<1>10. CASE Disabled  BY <1>10, DisabledIInv
<1>11. CASE \E s \in Services : ServiceEnds(s) \/ SetupPanics(s) \/ QueryPanics(s)
  BY <1>11, ServiceEndsIInv, SetupPanicsIInv, QueryPanicsIInv
<1>12. CASE UNCHANGED vars
  <2>1. TypeOK' /\ SoundNeverToBlame'
    BY <1>12, GivenFixed DEF IInv, TypeOK, vars, given, SoundNeverToBlame
  <2>2. JailInv'
    BY <1>12 DEF IInv, JailInv, JailRead, vars, given
  <2>3. BuildInv' /\ ResolverInv'
    BY <1>12, SameResolvers, GivenFixed DEF IInv, BuildInv, vars, given
  <2> QED
    BY <2>1, <2>2, <2>3 DEF IInv
<1> QED
  BY <1>1, <1>2, <1>3, <1>4, <1>5, <1>6, <1>7, <1>8, <1>9, <1>10, <1>11, <1>12 DEF Next, Main

LEMMA Invariance == Spec => []IInv
<1>1. Init => IInv
  BY InitIInv
<1>2. IInv /\ [Next]_vars => IInv'
  BY NextIInv
<1> QED
  BY <1>1, <1>2, PTL DEF Spec

-----------------------------------------------------------------------------

\* Every state is of its type; every resolver has an endpoint to ask.
THEOREM ConfigTypes == Spec => []TypeOK
<1>1. IInv => TypeOK
  BY DEF IInv
<1> QED
  BY <1>1, Invariance, PTL

\* A service that is up has exactly what the well-formed entries of the
\* configuration say, whatever else that configuration says.
THEOREM ServesAsWritten == Spec => []AsWritten
<1>1. IInv => AsWritten
  <2> SUFFICES ASSUME IInv, NEW s \in up
      PROVE  /\ \A c \in Codes, x \in Regexes :
                  <<c, x>> \in jail <=>
                    \E k \in DOMAIN conf.jail :
                      conf.jail[k].regex = x /\ \E m \in DOMAIN conf.jail[k].codes :
                                                  conf.jail[k].codes[m] = c
             /\ \E p \in resolvers[s] : Playing(s, "primary") = {p}
             /\ Playing(s, "fallback") = {}
                  <=> \A m \in DOMAIN conf.svc[s].fallback : conf.svc[s].fallback[m] = Blank
             /\ \A k \in Compiled(s) :
                  \E r \in Playing(s, "fixed") :
                    r.key = k /\ r.endpoints = {conf.svc[s].fixed[k].server}
    BY DEF AsWritten
  <2>1. s \in Services /\ conf \in Configs /\ Complete(s)
    BY DEF IInv, TypeOK, BuildInv
  <2>2. JailRead(Len(conf.jail))
    <3>1. at \in {"read", "jail"} => resolvers[s] = {}
      BY <2>1 DEF IInv, BuildInv, Services
    <3>2. resolvers[s] # {} /\ at # "panicked"
      BY <2>1 DEF IInv, BuildInv, Complete, PrimaryBuilt
    <3> QED
      BY <3>1, <3>2 DEF IInv, TypeOK, JailInv
  <2>3. \A c \in Codes, x \in Regexes :
          <<c, x>> \in jail <=>
            \E k \in DOMAIN conf.jail :
              conf.jail[k].regex = x /\ \E m \in DOMAIN conf.jail[k].codes :
                                          conf.jail[k].codes[m] = c
    <3>1. DOMAIN conf.jail = 1..Len(conf.jail)
      BY <2>1, ConfTypes
    <3>2. ASSUME NEW k, NEW c
          PROVE  c \in ToSet(conf.jail[k].codes)
                   <=> \E m \in DOMAIN conf.jail[k].codes : conf.jail[k].codes[m] = c
      BY DEF ToSet
    <3> SUFFICES ASSUME NEW c \in Codes, NEW x \in Regexes
        PROVE  <<c, x>> \in jail <=>
                 \E k \in DOMAIN conf.jail :
                   conf.jail[k].regex = x /\ \E m \in DOMAIN conf.jail[k].codes :
                                               conf.jail[k].codes[m] = c
      OBVIOUS
    <3>3. <<c, x>> \in jail <=>
            \E k \in DOMAIN conf.jail : conf.jail[k].regex = x /\ c \in ToSet(conf.jail[k].codes)
      BY <2>2, <3>1 DEF JailRead
    <3>4. (\E k \in DOMAIN conf.jail : conf.jail[k].regex = x /\ c \in ToSet(conf.jail[k].codes))
          <=> (\E k \in DOMAIN conf.jail :
                 conf.jail[k].regex = x /\ \E m \in DOMAIN conf.jail[k].codes :
                                             conf.jail[k].codes[m] = c)
      BY <3>2, Zenon
    <3> QED BY <3>3, <3>4
  <2>4. \E p \in resolvers[s] : Playing(s, "primary") = {p}
    BY <2>1 DEF Complete, PrimaryBuilt
  <2>5. Playing(s, "fallback") = {}
          <=> \A m \in DOMAIN conf.svc[s].fallback : conf.svc[s].fallback[m] = Blank
    BY <2>1 DEF Complete, FallbackBuilt, Trimmed, ToSet
  <2>6. \A k \in Compiled(s) :
          \E r \in Playing(s, "fixed") :
            r.key = k /\ r.endpoints = {conf.svc[s].fixed[k].server}
    <3>1. \A k \in Compiled(s) : k <= Len(conf.svc[s].fixed)
      BY <2>1, ConfTypes DEF Compiled
    <3> QED BY <2>1, <3>1 DEF Complete, FixedBuilt
  <2> QED
    BY <2>3, <2>4, <2>5, <2>6
<1> QED
  BY <1>1, Invariance, PTL

\* A sound configuration is never what panics, and nothing panics before it has
\* launched a service.
THEOREM SoundConfigurationsRun == Spec => []SoundNeverToBlame
<1>1. IInv => SoundNeverToBlame
  BY DEF IInv
<1> QED
  BY <1>1, Invariance, PTL

-----------------------------------------------------------------------------
(* What is launched, and what ends it *)

\* The services main has passed are launched if they are enabled.
StartedInv ==
  /\ svc = "doh" => launched = {}
  /\ svc = "dns53" /\ at \notin {"wait", "panicked"} => launched = Enabled \cap {"doh"}
  /\ at = "wait" => launched = Enabled

\* Once main waits, the services it launched are those that are enabled.
AllEnabledLaunched == at = "wait" => launched = Enabled

\* With a sound configuration the process ends only in a query to a service that is
\* up, and not because of the configuration.
SoundEndsInQueries ==
  [][Sound /\ at # "panicked" /\ at' = "panicked" =>
       \E s \in up : QueryPanics(s) /\ "configuration" \notin causes']_vars

\* Nothing is launched before the first service is built.
LEMMA InitStarted == Init => StartedInv
  BY DEF Init, StartedInv

\* A service joins those launched when main passes it, if it is enabled.
LEMMA NextStarted == IInv /\ StartedInv /\ [Next]_vars => StartedInv'
<1> SUFFICES ASSUME IInv, StartedInv, [Next]_vars PROVE StartedInv'
  OBVIOUS
<1>1. ASSUME NEW why, Panic(why) PROVE StartedInv'
  BY <1>1 DEF Panic, StartedInv
<1>2. CASE Start \/ Disabled
  <2>1. /\ UNCHANGED given /\ svc' = "dns53" /\ at \notin {"wait", "panicked"}
        /\ at' = (IF svc = "doh" THEN "primary" ELSE "wait")
        /\ svc \in {"doh", "dns53"} /\ Enabled \subseteq {"doh", "dns53"}
    BY <1>2 DEF Start, Disabled, Leave, IInv, TypeOK, Services, Enabled
  <2>2. launched' = launched \cup ({svc} \cap Enabled)
    BY <1>2 DEF Start, Disabled, IInv, BuildInv
  <2>3. Enabled' = Enabled
    BY <2>1, GivenFixed
  <2>4. CASE svc = "doh"
    BY <2>1, <2>2, <2>3, <2>4 DEF StartedInv
  <2>5. CASE svc = "dns53"
    <3>1. launched' = (Enabled \cap {"doh"}) \cup ({"dns53"} \cap Enabled)
      BY <2>1, <2>2, <2>5 DEF StartedInv
    <3>2. launched' = Enabled
      BY <2>1, <3>1
    <3> QED
      BY <2>1, <2>3, <2>5, <3>2 DEF StartedInv
  <2> QED BY <2>1, <2>4, <2>5
<1>3. CASE /\ UNCHANGED <<given, svc, launched>> /\ at' # "wait" /\ at \notin {"wait", "panicked"}
  BY <1>3, GivenFixed DEF StartedInv
<1>4. CASE UNCHANGED <<given, at, svc, launched>>
  BY <1>4, GivenFixed DEF StartedInv
<1>5. ASSUME NEW r, Construct(r), at \in {"primary", "fallback", "fixed"} PROVE StartedInv'
  <2>1. (\E why : Panic(why)) \/ (UNCHANGED <<given, svc, launched>> /\ at' \in {"fallback", "fixed"})
    BY <1>5 DEF Construct
  <2> QED
    BY <1>1, <1>3, <1>5, <2>1
<1>6. CASE ReadFails \/ Read \/ JailEntry \/ JailDone \/ NoFallback
  <2>1. (\E why : Panic(why)) \/ (/\ UNCHANGED <<given, svc, launched>> /\ at' # "wait"
                  /\ at \notin {"wait", "panicked"})
    BY <1>6 DEF ReadFails, Read, JailEntry, JailDone, NoFallback
  <2> QED
    BY <1>1, <1>3, <2>1
<1>7. CASE BuildPrimary \/ BuildFallback \/ BuildFixed
  BY <1>5, <1>7 DEF BuildPrimary, BuildFallback, BuildFixed
<1>8. ASSUME NEW s \in Services, ServiceEnds(s) \/ SetupPanics(s) \/ QueryPanics(s)
      PROVE  StartedInv'
  <2>1. (\E why : Panic(why)) \/ UNCHANGED <<given, at, svc, launched>>
    BY <1>8 DEF ServiceEnds, SetupPanics, QueryPanics, HandlerPanics
  <2> QED BY <1>1, <1>4, <2>1
<1>9. CASE UNCHANGED vars
  BY <1>4, <1>9 DEF vars, given
<1> QED
  BY <1>2, <1>6, <1>7, <1>8, <1>9 DEF Next, Main

\* main leaves no enabled service out, whatever the configuration, and launches no
\* other; what it launched may have ended since.
THEOREM AllEnabledLaunchedTheorem == Spec => []AllEnabledLaunched
<1>1. StartedInv => AllEnabledLaunched
  BY DEF StartedInv, AllEnabledLaunched
<1> QED
  BY <1>1, Invariance, InitStarted, NextStarted, PTL DEF Spec

\* main itself never ends a sound process, nor does a service that sets itself up.
THEOREM SoundEndsInQueriesTheorem == Spec => SoundEndsInQueries
<1>1. ASSUME IInv, IInv', [Next]_vars
      PROVE  [Sound /\ at # "panicked" /\ at' = "panicked" =>
                \E s \in up : QueryPanics(s) /\ "configuration" \notin causes']_vars
  <2> SUFFICES ASSUME Next, Sound, at # "panicked", at' = "panicked"
               PROVE  \E s \in up : QueryPanics(s) /\ "configuration" \notin causes'
    BY <1>1
  <2>1. ~Panic("configuration")
    <3> SUFFICES ASSUME Panic("configuration") PROVE FALSE
      OBVIOUS
    <3>1. "configuration" \in causes' /\ UNCHANGED given
      BY DEF Panic
    <3> QED
      BY <1>1, <3>1, GivenFixed DEF IInv, SoundNeverToBlame
  <2>2. ~Main
    <3>1. ~ReadFails
      BY <2>1 DEF ReadFails
    <3>2. ~(Read \/ JailEntry \/ JailDone \/ NoFallback \/ Start \/ Disabled)
      BY DEF Read, JailEntry, JailDone, NoFallback, Start, Disabled, Leave
    <3>3. ASSUME NEW r, Construct(r) PROVE FALSE
      BY <2>1, <3>3 DEF Construct
    <3> QED
      BY <3>1, <3>2, <3>3 DEF Main, BuildPrimary, BuildFallback, BuildFixed
  <2>3. PICK s \in Services : ServiceEnds(s) \/ SetupPanics(s) \/ QueryPanics(s)
    BY <2>2 DEF Next
  <2>4. QueryPanics(s) /\ s \in up
    BY <2>1, <2>3 DEF ServiceEnds, SetupPanics, QueryPanics
  <2>5. UNCHANGED given
    BY <2>4 DEF QueryPanics, HandlerPanics, Panic
  <2> QED
    BY <1>1, <2>4, <2>5, GivenFixed DEF IInv, SoundNeverToBlame
<1> QED
  BY <1>1, Invariance, PTL DEF Spec, SoundEndsInQueries

-----------------------------------------------------------------------------
(* The matcher of a name in jail, for every finite set of expressions.  While *)
(* the collector still reads, no goroutine has left early, so the loop index   *)
(* counts exactly the expressions whose report was taken out of the buffer,    *)
(* and none of those matched; once the index reaches the number of             *)
(* expressions, all of them were seen and none matched.                       *)

Sent == {r \in listed : worker[r] = "sent"}

\* What is buffered was sent.
BufferInv == chRet \subseteq Sent

\* While the collector reads, the reports it took are seen in number and none
\* of them is a match.
ReadingInv ==
  collector = "recv" =>
    /\ ~ret
    /\ \A r \in listed : worker[r] # "quit"
    /\ matching \cap (Sent \ chRet) = {}
    /\ seen = Cardinality(Sent \ chRet)

\* Afterwards the flag is the verdict.
FlagInv ==
  /\ collector = "setret" => matching # {}
  /\ collector = "drain" => ret /\ matching # {}
  /\ collector = "final" => (ret <=> matching # {})
  /\ main = "returned" =>
       /\ result <=> matching # {}
       /\ collector \in {"absent", "done"}

MatchIInv == MatchTypeOK /\ BufferInv /\ ReadingInv /\ FlagInv

\* The expressions of one country are finite in number.
LEMMA ListedFinite ==
  ASSUME MatchTypeOK
  PROVE  /\ IsFiniteSet(listed)
         /\ Cardinality(listed) \in Nat
         /\ \A S \in SUBSET listed : IsFiniteSet(S) /\ Cardinality(S) \in Nat
<1>1. IsFiniteSet(listed)
  BY FS_Subset, RegexpsAssumption DEF MatchTypeOK, RegexpsAssumption
<1>2. \A S \in SUBSET listed : IsFiniteSet(S)
  BY <1>1, FS_Subset
<1> QED
  BY <1>1, <1>2, FS_CardinalityType

\* The initial state satisfies the invariant.
LEMMA MatchInitIInv == MatchInit => MatchIInv
<1> SUFFICES ASSUME MatchInit PROVE MatchIInv
  OBVIOUS
<1>1. IsFiniteSet(listed) /\ Cardinality(listed) \in Nat
  BY FS_Subset, FS_CardinalityType, RegexpsAssumption DEF MatchInit, RegexpsAssumption
<1>2. MatchTypeOK
  <2>1. 0 \in 0..Cardinality(listed)
    BY <1>1
  <2>2. seen = 0 /\ chRet = {} /\ worker = [r \in listed |-> "check"]
    BY DEF MatchInit
  <2>3. worker \in [listed -> {"check", "send", "sent", "quit"}]
    BY <2>2
  <2> QED
    BY <2>1, <2>2, <2>3 DEF MatchInit, MatchTypeOK, Matchable
<1>3. Sent = {}
  BY DEF MatchInit, Sent
<1>4. BufferInv /\ ReadingInv
  BY <1>3, FS_EmptySet DEF MatchInit, BufferInv, ReadingInv
<1>5. FlagInv
  BY DEF MatchInit, FlagInv, Matchable
<1> QED
  BY <1>2, <1>4, <1>5 DEF MatchIInv

\* A goroutine that has read the flag keeps the invariant: while the
\* collector reads the flag is down, so the goroutine does not leave.
LEMMA ReadRetIInv ==
  ASSUME MatchIInv, NEW r \in listed, ReadRet(r)
  PROVE  MatchIInv'
<1>1. MatchTypeOK'
  BY DEF MatchIInv, MatchTypeOK, ReadRet
<1>2. Sent' = Sent
  BY DEF MatchIInv, MatchTypeOK, ReadRet, Sent
<1>3. BufferInv' /\ FlagInv'
  BY <1>2 DEF MatchIInv, BufferInv, FlagInv, ReadRet
<1>4. ReadingInv'
  BY <1>2 DEF MatchIInv, MatchTypeOK, ReadingInv, ReadRet
<1> QED
  BY <1>1, <1>3, <1>4 DEF MatchIInv

\* A report moves one expression into Sent and into the buffer alike.
LEMMA ReportIInv ==
  ASSUME MatchIInv, NEW r \in listed, Report(r)
  PROVE  MatchIInv'
<1>1. MatchTypeOK'
  BY DEF MatchIInv, MatchTypeOK, Report
<1>2. Sent' = Sent \cup {r} /\ chRet' = chRet \cup {r} /\ r \notin Sent
  BY DEF MatchIInv, MatchTypeOK, Report, Sent
<1>3. BufferInv' /\ FlagInv'
  BY <1>2 DEF MatchIInv, BufferInv, FlagInv, Report
<1>4. Sent' \ chRet' = Sent \ chRet
  BY <1>2 DEF MatchIInv, BufferInv
<1>5. ReadingInv'
  BY <1>4 DEF MatchIInv, MatchTypeOK, ReadingInv, Report
<1> QED
  BY <1>1, <1>3, <1>5 DEF MatchIInv

\* A report that is no match is counted and joins the expressions seen.
LEMMA CollectFalseIInv ==
  ASSUME MatchIInv, CollectFalse
  PROVE  MatchIInv'
<1>1. PICK r \in chRet \ matching : chRet' = chRet \ {r}
  BY DEF CollectFalse
<1>2. Sent' = Sent /\ Sent \subseteq listed
  BY DEF CollectFalse, Sent
<1>3. MatchTypeOK'
  BY ListedFinite DEF MatchIInv, MatchTypeOK, CollectFalse, MoreToCome
<1>4. BufferInv' /\ FlagInv'
  BY <1>1, <1>2 DEF MatchIInv, BufferInv, FlagInv, CollectFalse
<1>5. Sent' \ chRet' = (Sent \ chRet) \cup {r} /\ r \notin Sent \ chRet
  BY <1>1, <1>2 DEF MatchIInv, BufferInv
<1>6. Cardinality(Sent' \ chRet') = Cardinality(Sent \ chRet) + 1
  <2>1. IsFiniteSet(Sent \ chRet)
    BY <1>2, ListedFinite DEF MatchIInv
  <2> QED
    BY <2>1, <1>5, FS_AddElement
<1>7. ReadingInv'
  BY <1>1, <1>5, <1>6 DEF MatchIInv, MatchTypeOK, ReadingInv, CollectFalse
<1> QED
  BY <1>3, <1>4, <1>7 DEF MatchIInv

\* The loop ends when every expression has been seen, so none matched.
LEMMA LoopEndsIInv ==
  ASSUME MatchIInv, LoopEnds
  PROVE  MatchIInv'
<1>1. MatchTypeOK' /\ BufferInv' /\ ReadingInv'
  BY DEF MatchIInv, MatchTypeOK, BufferInv, Sent, ReadingInv, LoopEnds
<1>2. Cardinality(Sent \ chRet) = Cardinality(listed)
  BY ListedFinite DEF MatchIInv, MatchTypeOK, ReadingInv, LoopEnds, MoreToCome
<1>3. Sent \ chRet = listed
  BY <1>2, ListedFinite, FS_Subset DEF MatchIInv, Sent
<1>4. matching = {} /\ ~ret
  BY <1>3 DEF MatchIInv, MatchTypeOK, ReadingInv, LoopEnds
<1>5. FlagInv'
  BY <1>4 DEF MatchIInv, FlagInv, LoopEnds
<1> QED
  BY <1>1, <1>5 DEF MatchIInv

\* The other steps of the collector keep the invariant.
LEMMA MatchCollectIInv ==
  ASSUME MatchIInv, Collect
  PROVE  MatchIInv'
<1>1. CASE CollectTrue
  BY <1>1 DEF MatchIInv, MatchTypeOK, BufferInv, Sent, ReadingInv, FlagInv, CollectTrue
<1>2. CASE SetRet
  BY <1>2 DEF MatchIInv, MatchTypeOK, BufferInv, Sent, ReadingInv, FlagInv, SetRet
<1>3. CASE DrainOne
  BY <1>3 DEF MatchIInv, MatchTypeOK, BufferInv, Sent, ReadingInv, FlagInv, DrainOne
<1>4. CASE DrainEmpty
  BY <1>4 DEF MatchIInv, MatchTypeOK, BufferInv, Sent, ReadingInv, FlagInv, DrainEmpty, AfterDrain
<1>5. CASE Return
  BY <1>5 DEF MatchIInv, MatchTypeOK, BufferInv, Sent, ReadingInv, FlagInv, Return
<1> QED
  BY <1>1, <1>2, <1>3, <1>4, <1>5, CollectFalseIInv, LoopEndsIInv DEF Collect

\* The invariant is inductive.
LEMMA MatchNextIInv == MatchIInv /\ [MatchNext]_matchVars => MatchIInv'
<1> SUFFICES ASSUME MatchIInv, [MatchNext]_matchVars PROVE MatchIInv'
  OBVIOUS
<1>1. CASE UNCHANGED matchVars
  BY <1>1 DEF matchVars, MatchIInv, MatchTypeOK, BufferInv, Sent, ReadingInv, FlagInv
<1> QED
  BY <1>1, ReadRetIInv, ReportIInv, MatchCollectIInv DEF MatchNext, Terminated

\* Type correctness, for every finite set of expressions.
THEOREM MatchTypes == MatchSpec => []MatchTypeOK
<1>1. MatchIInv => MatchTypeOK
  BY DEF MatchIInv
<1> QED
  BY <1>1, MatchInitIInv, MatchNextIInv, PTL DEF MatchSpec

\* The concurrent matcher of config.go gives the verdict of the sequential
\* definition, for every set of expressions and every schedule.
THEOREM VerdictOfTheJail == MatchSpec => []VerdictCorrect
<1>1. MatchIInv => VerdictCorrect
  BY DEF MatchIInv, FlagInv, VerdictCorrect
<1> QED
  BY <1>1, MatchInitIInv, MatchNextIInv, PTL DEF MatchSpec

\* A goroutine about to report is the one whose report is not buffered.
LEMMA RoomForReports ==
  ASSUME MatchIInv
  PROVE  ReportNeverBlocks
<1> SUFFICES ASSUME NEW r \in listed, worker[r] = "send"
             PROVE  Cardinality(chRet) < Capacity
  BY DEF ReportNeverBlocks
<1>1. chRet \in SUBSET listed /\ r \notin chRet
  BY DEF MatchIInv, MatchTypeOK, BufferInv, Sent
<1>2. Cardinality(chRet) <= Cardinality(listed) /\ Cardinality(chRet) # Cardinality(listed)
  BY <1>1, ListedFinite, FS_Subset DEF MatchIInv
<1> QED
  BY <1>1, <1>2, ListedFinite DEF MatchIInv, Capacity

\* The capacity len(regexps_) is enough: no goroutine waits for room.
THEOREM ReportsNeverBlock == MatchSpec => []ReportNeverBlocks
  BY RoomForReports, MatchInitIInv, MatchNextIInv, PTL DEF MatchSpec

-----------------------------------------------------------------------------
(* What the liveness of the matcher rests on: until it is over somebody can   *)
(* move, and each move is one of finitely many.                              *)

\* The caller waits exactly while there is a collector that has not met it.
CallerInv == collector \in {"absent", "done"} => main = "returned"

\* The guards of every goroutine.
MatchCanMove ==
  \/ \E r \in listed : \/ worker[r] = "check"
                       \/ worker[r] = "send" /\ Cardinality(chRet) < Capacity
  \/ collector = "recv" /\ (chRet # {} \/ ~MoreToCome)
  \/ collector \in {"setret", "drain"}
  \/ collector = "final" /\ main = "wait"

\* The collector never waits for the report of a goroutine that has left, nor a
\* goroutine for room in the buffer, nor the caller for a collector that is gone.
MatchNeverStuck == (main = "returned" /\ AllEnded) \/ MatchCanMove

\* How many steps a report and the collector have left at most.
ReportRank(r) ==
  CASE worker[r] = "check" -> 3 [] worker[r] = "send" -> 2
    [] worker[r] = "sent" /\ r \in chRet -> 1 [] OTHER -> 0
CollectorRank ==
  CASE collector = "recv" -> 4 [] collector = "setret" -> 3 [] collector = "drain" -> 2
    [] collector = "final" -> 1 [] OTHER -> 0

\* Every step uses one up and gives nobody another: a call with n expressions
\* takes at most 3n + 4 steps.
MatchDescends ==
  /\ \A r \in listed : ReportRank(r)' <= ReportRank(r)
  /\ CollectorRank' <= CollectorRank
  /\ (\E r \in listed : ReportRank(r)' < ReportRank(r)) \/ CollectorRank' < CollectorRank
EveryReportCounts == [][MatchDescends]_matchVars

\* It starts so.
LEMMA InitCaller == MatchInit => CallerInv
  BY DEF MatchInit, CallerInv

\* Only the last step of the collector, which is the caller's too, ends it.
LEMMA NextCaller == CallerInv /\ [MatchNext]_matchVars => CallerInv'
  BY DEF CallerInv, MatchNext, ReadRet, Report, Collect, CollectFalse, CollectTrue, SetRet,
         DrainOne, DrainEmpty, AfterDrain, LoopEnds, Return, Terminated, matchVars

LEMMA MatchInvariance == MatchSpec => [](MatchIInv /\ CallerInv)
  BY MatchInitIInv, MatchNextIInv, InitCaller, NextCaller, PTL DEF MatchSpec

\* For every number of expressions, the matcher comes to a halt at its end only.
THEOREM MatchNeverStuckTheorem == MatchSpec => []MatchNeverStuck
<1>1. ASSUME MatchIInv, CallerInv, ~MatchCanMove PROVE main = "returned" /\ AllEnded
  <2>1. ReportNeverBlocks
    BY <1>1, RoomForReports
  <2>2. AllEnded
    BY <1>1, <2>1 DEF MatchIInv, MatchTypeOK, MatchCanMove, ReportNeverBlocks, AllEnded
  <2>3. collector # "recv"
    <3> SUFFICES ASSUME collector = "recv" PROVE FALSE
      OBVIOUS
    <3>1. chRet = {} /\ MoreToCome
      BY <1>1 DEF MatchCanMove
    <3>2. Sent = listed
      BY <1>1, <2>2 DEF MatchIInv, ReadingInv, AllEnded, Sent
    <3>3. seen = Cardinality(listed)
      BY <1>1, <3>1, <3>2 DEF MatchIInv, ReadingInv
    <3> QED
      BY <1>1, <3>1, <3>3, ListedFinite DEF MatchIInv, MoreToCome
  <2>4. main = "returned"
    BY <1>1, <2>3 DEF MatchIInv, MatchTypeOK, MatchCanMove, CallerInv
  <2> QED
    BY <2>2, <2>4
<1>2. MatchIInv /\ CallerInv => MatchNeverStuck
  BY <1>1 DEF MatchNeverStuck
<1> QED
  BY <1>2, MatchInvariance, PTL

\* The ranks are natural numbers, before a step and after it.
LEMMA MatchRankTypes ==
  /\ \A r : ReportRank(r) \in 0..3 /\ ReportRank(r)' \in 0..3
  /\ CollectorRank \in 0..4 /\ CollectorRank' \in 0..4
  BY DEF ReportRank, CollectorRank

\* No step is ever taken back: a match ends after finitely many.
THEOREM EveryReportCountsTheorem == MatchSpec => EveryReportCounts
<1>1. ASSUME MatchIInv, [MatchNext]_matchVars PROVE [MatchDescends]_matchVars
  <2>1. ASSUME NEW r \in listed, ReadRet(r) \/ Report(r) PROVE MatchDescends
    <3>1. /\ listed' = listed /\ collector' = collector
          /\ \A q \in listed : q # r => worker'[q] = worker[q] /\ (q \in chRet' <=> q \in chRet)
      BY <1>1, <2>1 DEF ReadRet, Report, MatchIInv, MatchTypeOK
    <3>2. ReportRank(r)' < ReportRank(r)
      BY <1>1, <2>1 DEF ReadRet, Report, MatchIInv, MatchTypeOK, ReportRank
    <3>3. (\A q \in listed : q # r => ReportRank(q)' = ReportRank(q)) /\ CollectorRank' = CollectorRank
      BY <3>1 DEF ReportRank, CollectorRank
    <3> QED
      BY <3>2, <3>3, MatchRankTypes DEF MatchDescends
  <2>2. CASE CollectFalse \/ CollectTrue \/ DrainOne
    <3>1. PICK r \in chRet : chRet' = chRet \ {r}
      BY <2>2 DEF CollectFalse, CollectTrue, DrainOne
    <3>2. /\ worker' = worker /\ r \in listed /\ worker[r] = "sent"
          /\ collector' = collector \/ (collector = "recv" /\ collector' = "setret")
      BY <1>1, <2>2, <3>1 DEF CollectFalse, CollectTrue, DrainOne, MatchIInv, BufferInv, Sent
    <3>3. ReportRank(r)' < ReportRank(r)
      BY <3>1, <3>2 DEF ReportRank
    <3>4. \A q \in listed : q # r => ReportRank(q)' = ReportRank(q)
      BY <3>1, <3>2 DEF ReportRank
    <3>5. CollectorRank' <= CollectorRank
      BY <3>2, MatchRankTypes DEF CollectorRank
    <3> QED
      BY <3>2, <3>3, <3>4, <3>5, MatchRankTypes DEF MatchDescends
  <2>3. CASE SetRet \/ DrainEmpty \/ LoopEnds \/ Return
    <3>1. worker' = worker /\ chRet' = chRet
      BY <2>3 DEF SetRet, DrainEmpty, LoopEnds, Return
    <3>2. \A r : ReportRank(r)' = ReportRank(r)
      BY <3>1 DEF ReportRank
    <3>3. CollectorRank' < CollectorRank
      BY <2>3 DEF SetRet, DrainEmpty, AfterDrain, LoopEnds, Return, CollectorRank
    <3> QED
      BY <3>2, <3>3, MatchRankTypes DEF MatchDescends
  <2> QED
    BY <1>1, <2>1, <2>2, <2>3 DEF MatchNext, Collect, Terminated
<1> QED
  BY <1>1, MatchInvariance, PTL DEF MatchSpec, EveryReportCounts

-----------------------------------------------------------------------------
(* From the file to the verdict *)

CONSTANTS
  expr,      \* the expression each compiled one was made of
  code,      \* the country code a query asks about
  hits       \* the expressions that match its name

\* IsNameInJailOfCountry looks the code up in NamesInJailConfig, which main
\* finished before it launches a service, and matches the name.
LookedUp ==
  up # {} =>
    /\ {expr[r] : r \in listed} = {x \in Regexes : <<code, x>> \in jail}
    /\ matching = {r \in listed : expr[r] \in hits}

\* A name is in jail for a country if and only if a well-formed entry of the
\* configuration that names the country matches it, for every configuration, of
\* which other entries may be malformed, and every schedule of the goroutines.
EntryDecides ==
  up # {} /\ main = "returned" =>
    (result <=> \E k \in DOMAIN conf.jail :
                  /\ conf.jail[k].regex \in hits
                  /\ \E m \in DOMAIN conf.jail[k].codes : conf.jail[k].codes[m] = code)

THEOREM FromEntryToVerdict ==
  ASSUME code \in Codes, hits \subseteq Regexes
  PROVE  Spec /\ MatchSpec /\ []LookedUp => []EntryDecides
<1>1. AsWritten /\ VerdictCorrect /\ LookedUp => EntryDecides
  <2> SUFFICES ASSUME AsWritten, VerdictCorrect, LookedUp,
                      up # {}, main = "returned"
      PROVE  result <=> \E k \in DOMAIN conf.jail :
                          /\ conf.jail[k].regex \in hits
                          /\ \E m \in DOMAIN conf.jail[k].codes : conf.jail[k].codes[m] = code
    BY DEF EntryDecides
  <2>1. result <=> \E x \in hits : <<code, x>> \in jail
    <3>1. (result <=> matching # {}) /\ matching = {r \in listed : expr[r] \in hits}
      BY DEF VerdictCorrect, LookedUp
    <3>2. \A x \in hits : <<code, x>> \in jail <=> \E r \in listed : expr[r] = x
      <4>1. {expr[r] : r \in listed} = {x \in Regexes : <<code, x>> \in jail}
        BY DEF LookedUp
      <4> QED BY <4>1
    <3>3. matching # {} <=> \E x \in hits, r \in listed : expr[r] = x
      BY <3>1
    <3> QED BY <3>1, <3>2, <3>3
  <2>2. PICK s \in up : TRUE
    OBVIOUS
  <2>3. \A x \in hits :
          <<code, x>> \in jail <=>
            \E k \in DOMAIN conf.jail :
              conf.jail[k].regex = x /\ \E m \in DOMAIN conf.jail[k].codes :
                                          conf.jail[k].codes[m] = code
    BY <2>2 DEF AsWritten
  <2> QED
    BY <2>1, <2>3
<1> QED
  BY <1>1, ServesAsWritten, VerdictOfTheJail, PTL
=============================================================================
