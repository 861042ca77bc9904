# doh-relay in TLA+

A formal model of [doh-relay](https://github.com/tinkernels/doh-relay), a DNS
relay in Go that answers DNS-over-HTTPS and plain DNS ("dns53") clients from
DNS-over-HTTPS or dns53 upstreams, and that asks an upstream once per client
*location* (EDNS Client Subnet, ECS) to give each client the answer meant for
where it is. Paths below are relative to the repository's root (`src/`).

TLC checks every module on small instances; TLAPS proves the safety properties
of several for every value of the constants. To repeat a run or a proof:

    tlc -config FanOut.cfg MCFanOut.tla
    tlapm FanOut_proofs.tla

`PROJECT.json` lists the runs, the mutations each property is known to catch,
the source lines each definition stands for, the hazards the properties are
aimed at, and the disagreements found between the code and its documentation.

## 1. Inventory

| component | code | state it keeps | operations |
|---|---|---|---|
| DoH handler | `doh_handler.go` | default ECS IPs | GET, POST; builds the ECS list, answers, restores the request's ECS |
| dns53 handler | `dns53_handler.go` | default ECS IPs | the same for plain DNS, without header and client address |
| Answerer | `dnsmsg_answerer.go` | primary, fallback and fixed resolvers | `Answer`: chooses resolvers, composes the reply |
| Common query | `utils.go:117-179` | the resolver's cache | `CommonResolverQuery`: places, cache, jail, resolve, store |
| Fan-out | `utils.go:181-277` | channels, a flag, the last result | one goroutine per ECS IP, in-order receive, cleanup |
| Names in jail | `config.go:102-173` | expressions per country | `IsNameInJailOfCountry`: one goroutine per expression |
| Cache and TTLs | `cache_internal.go`, `utils.go:84-115`, `resolver_rsp_*.go` | entries with a lifetime | get, set, minimal TTL, aging of replies |
| dns53 resolver | `resolver_dns53_dnsmsg.go` | connection pool, round-robin index | `Resolve`, `doQueryUpstream` (endless retry) |
| DoH resolvers | `resolver_doh_dnsmsg.go`, `resolver_doh_json.go` | HTTP client, round-robin index | `Resolve` |
| Services | `main.go` | answerers, listeners, channels | start, exit-IP discovery, serve, collect, exit |
| Configuration | `config.go`, `main.go` | `ExecConfig`, `NamesInJailConfig` | read file or flags, build resolvers |
| GeoIP | `geoip.go` | the database | address to country, state, city |
| Redis cache | `cache_redis.go` | - | not implemented in the code |

**How they interact.** A handler turns a query into a list of candidate ECS IPs
and calls the answerer. The answerer calls `Query` of a resolver: a matching
fixed resolver, else the primary, else the fallback. Every resolver's `Query` is
`CommonResolverQuery`: it reduces the list to one IP per country, looks the
places up in the resolver's cache, removes countries in whose jail the name is
(`IsNameInJailOfCountry`), and calls the fan-out, which calls `Resolve` in one
goroutine per IP. Responses are shared objects: the cache, and every client
answered from it, hold the same one. The reply is a copy whose TTLs are aged and
whose ECS option the handler rewrites. `main` builds the answerers, starts the
services in goroutines and waits for them on channels.

**What is hard.** Nothing in the code takes a lock. The fan-out and the jail
matcher share plain variables between goroutines and rely on the order of
channel operations; the resolvers share a round-robin index; clients share
cached responses. Upstreams fail, hang, answer late, or close pooled
connections. The caller of the fan-out leaves early and lets others clean up.
Indices are used while the list under them shrinks. Startup performs network
requests before it serves. The full list, with the lines where each hazard
bites and the properties that would notice, is in `PROJECT.json` ("hazards").

**What makes each component correct.**

- *ECS selection*: the country an answer is judged by is that of the IP asked
  about; one query per country; the cache key names every place asked about; the
  client's own subnet comes first; only jailed countries are dropped, and all of
  them (they are not, see findings).
- *Fan-out*: the result depends on upstream outcomes and list order, never on
  scheduling; the first match wins, and an error is returned only if every query
  failed (not always, see findings); nobody waits for ever once upstreams have
  answered; no goroutine is left behind; no panic of its own (there is one, see
  findings).
- *Jail matcher*: the parallel verdict is the sequential one; every goroutine
  ends.
- *Cache*: TTLs given to clients tell the truth; entries end; what must not be
  shared is not.
- *dns53 upstream*: a query gets its own reply; the pool loses no slot; if an
  endpoint works, queries complete.
- *Any upstream*: what `Resolve` returns is an error or the response to its own
  query, with no part of the answer missing.
- *DoH upstream*: the shared index always names an endpoint and moves on; one
  endpoint that works is enough for queries to be answered again and again.
- *Configuration*: one bad entry costs nothing but itself; a configuration that
  meets a stated list of conditions is never what the program panics of, and all
  services it enables are launched. What an upstream replies and the race of the
  fan-out may still end the process.
- *Answerer and handlers*: names with a fixed resolver never leave it; an error
  means that everything allowed was tried; the first subnet of a reply is its
  client's own and none is another client's; cached objects stay as they are; a
  request for no name asks nobody.
- *Services*: nothing a handler reads changes while it serves; ECS defaults are
  usable whatever the exit-IP services say; `main` exits when, and only when,
  what it started has ended.

## 2. Modules

`X_proofs` extends `X` and `TLAPS`; `MCX` extends `X` with the values of a run.

| module | models | abstraction it implements | proofs |
|---|---|---|---|
| `EcsLookup` | what a caller of a multi-location lookup counts on | - | - |
| `FanOut` | `resolveWithECSIPs` | `EcsLookup`, but for `LostResponse` | `FanOut_proofs` |
| `JailMatch` | `IsNameInJailOfCountry` | - | `Configuration_proofs` |
| `EcsSelect` | handlers' ECS lists and the loops of `CommonResolverQuery` | - | `EcsSelect_proofs` |
| `ResolverCache` | cache, arrival stamps, TTL aging, for one key | - | `ResolverCache_proofs` |
| `ResolverCall` | what a caller of `Resolve` is promised | - | - |
| `Dns53Upstream` | `doQueryUpstream`, the pool, the network | `ResolverCall` | `Dns53Upstream_proofs` |
| `DohUpstream` | `Resolve` of the message and the JSON resolver, the endpoints | `ResolverCall` | `DohUpstream_proofs` |
| `Relay` | the arrival of a request, `Answer`, the handlers' work on the reply | - | `Relay_proofs` |
| `Configuration` | file or flags to resolvers and launched services, what they end and panic of | - | `Configuration_proofs` |
| `Services` | `main`, both services, listeners, exit-IP discovery | - | `Services_proofs` |

### FanOut and EcsLookup

One lookup past the early return of `utils.go:184`. `worker[i]` is the program
counter of the goroutine of IP `i`, `main` the caller's, `closer` that of the
cleanup goroutine. A goroutine resolves (`Resolve`: any of match, mismatch,
error, or the panic of the JSON resolver on `null`, at any time or never), reads the flag (`ReadFlag`), and sends (`Send`),
which parks it: the channels are unbuffered. `Receive(i)` is the rendezvous with
the caller, only for the channel it is at. After a match the cleanup goroutine
sets the flag, and for each channel either receives from a parked sender
(`PollReceives`) or finds none (`PollEmpty`) and closes the channel in a later
step (`CloseChan`). A send on a closed channel, and a close under a parked
sender, panic: `crashed` stops everything, because only the handler's own
goroutine is covered by a recovery.

`resultChanArrClosed_` is a plain variable: each read and each write is one step,
so a reader may see either value as long as the write has not happened. That is
what interleaving semantics gives for a one-byte variable on the platforms Go
compiles to; the data race allows nothing else that matters here, because a read
may only be *later* or *earlier*, never torn.

`EcsLookup` is the contract: the answer is the first match in list order, or, if
there is none, some other response, and an error only if every query failed
(`utils.go:274`). The code breaks the last part: a failure of the last query
throws away what was held (`LastResult`). These returns, and no others, are
`LostResponse`; the run `fan_out_last_error` shows one. `FanOut` implements the
contract for all other returns, under `answered <- Answered` (returned, and not
by losing a response) and `result <- last` (0 until then): a lookup that loses
its response is one that never answers.

### JailMatch

One call for one country: a goroutine per expression, a collector, the caller.
`chRet` is the *set* of expressions whose report is buffered; order does not
matter because a report is only true or false. `ret` is read and written in
steps of its own. The drain may see the buffer empty while a goroutine has still
to report.

### EcsSelect

One query from its arrival to its dispatch. One loop iteration is one step, as
the loops change the lists they walk. Addresses are model values with a country,
a state and a flag for `IsPrivateIP`. The lists a configuration supplies are
assumed public, which is what `Services` shows they are (`DefaultsUsable`).

### ResolverCache

One cache key, several clients, time in milliseconds. `rsps` are the responses
upstream has given: shared objects, with the TTLs as they arrived (`ttl`) and as
they are now (`cur`); a correct program never lets them differ. A client's query
hits or misses; a miss resolves, waits in the fan-out (between `Arrive` and
`Store` any time may pass), stores, and answers. Stores of different clients
overwrite each other in any order. Kinds of records stand for records: only the
minimum over answer and authority, and the aging of each, matter.

### Dns53Upstream

Workers are the goroutines inside `doQueryUpstream`. A slot of the pool is free,
idle or with a worker. The round-robin index is read for the endpoint
(`TakeTurn`), perhaps again for the increment (`RereadTurn`), and written
(`BumpTurn`), each in a step of its own, as nothing protects it; `seen` is what a
worker read last. A query whose name does not pack would fail in `Write` for ever
and is not among the queries; a reply that does not unpack is one more
`ReadFails`. Endpoints go down and come
back, connections drop, replies are late. The pool (`buraksezer/connpool`), the
exchange (`miekg/dns`) and the network are external: they are modelled from the
calls the code makes, and marked so in the map.

### ResolverCall

The interface `Resolver` has three implementations, and all that its callers
(the fan-out, and through it the cache) rely on is here: a call returns an error
or a response, to its own query, whose answer section is whole; each of the
other sections is whole or absent. A response may be `holed`: `dns.NewRR` may make
nothing of a record and report no error, and `RR` (`resolver_rsp_doh_json.go:110`)
does not look, so that a section holds nil. It need not return at all. `Dns53Upstream`
and `DohUpstream` implement it under `asked <- query` and `returned <- result`
(for `Dns53Upstream`, what its workers hold).

### DohUpstream

Workers are goroutines inside `Resolve` of one resolver, whose kind and number
of endpoints the first state chooses. `TakeTurn` reads `initV_` for the
endpoint, `RereadTurn` may read it again for the increment (a compiler may or
may not keep the first value: the accesses race), `StoreTurn` writes it. Then
one request is made: `SendFails` stands for every error from `url.Parse` to the
body, `Receive` for a reply, whose three sections may hold records that do not
parse. The message resolver rejects such a reply; the JSON resolver rejects it
only for its answer, drops the other sections, and passes records that are nil
on. `NullPanics` is the reply
`null`, which the JSON decoder turns into a nil pointer without an error.
Endpoints that are up answer well; those that are not do anything, or nothing.

### Configuration

One start of the program, from the choice between file and flags to `main`'s
wait, and what happens to the services meanwhile and after. Endpoints are what
they turn out to be; whether an expression compiles is all that is known of it.
`Construct` is a constructor of a resolver: the dns53 one panics if its pool
does (`PoolFails`), and any of them leaves the cache empty when it is to cache
with a backend other than `internal` (`Store`).

A service is `launched` when `main` starts its goroutine, and `up` until it ends:
by itself (`ServiceEnds`: a listen address, certificate or URL that is no good,
or a server that stops), or with the process. `SetupPanics` is a service that
cannot set itself up: a path gin's router refuses, or an upstream URL that does
not parse and is used (`main.go:506-510`). `QueryPanics` has every panic of a
query: those the configuration is to blame for (`Trips`: a nil expression, a
resolver that is to cache and has no store), those of a JSON upstream's reply
(`null`, a nil record), and the fan-out's send on a closed channel. A panic in a
DoH handler is recovered by gin; one in a dns53 handler or in a goroutine of a
fan-out ends the process. `causes` keeps what panics were due to, so that the
properties can say which of them a configuration can rule out. The configurations are parsed ones: what YAML makes of
a file is not modelled.

### Relay

Requests arrive as a question for one name, as one that is answered empty (AAAA
with IPv6 answers off), without a question, or undecodable; the first come to
the resolvers. Clients ask for one name at once. Messages live at locations of `heap`: one
per upstream response, shared by all who are answered from it, and one per
client for its copy. `Query` is abstracted to its outcomes: an error, a new
response, or one that was returned before (the cache). A message is an OPT
record, if it has one, and the sequence of ECS options in it, of which upstream
may send several: `WithoutECS` removes the last only and `WithECS` replaces the
first only, as the loops of `utils.go:298` and `:329` do. `OwnSubnet` says what
follows for clients.

### Services

`main`, the two service goroutines and the listeners, from startup to exit. The
loops over ECS lists are one step per element. An HTTP request of the exit-IP
discovery returns an address, a body that is no address, nothing, or never.
`InitPanics` is the panic of `newConnPool4Resolver`, which may come while the
other service already serves.

## 3. Runs

| run | what it asks | result |
|---|---|---|
| `fan_out` | who can panic, refinement of `EcsLookup` but for `LostResponse`, completion without a leak; 3 IPs | holds |
| `fan_out_panic` | "close the channel to indicate that the goroutine is done" (`utils.go:256`) | violated |
| `fan_out_last_error` | "If all resolves are failed, return nil" (`utils.go:274`) | violated |
| `jail_match` | verdict, end of caller and goroutines; up to 3 expressions | holds |
| `ecs_select` | consistency of lists, countries and key; 5 addresses, lists up to 6 | holds |
| `ecs_select_jail` | "will skip the query with ecs ips that have specified geo country codes" (`config-example.yml:48`) | violated |
| `resolver_cache` | TTLs, lifetimes, sharing; 2 clients, 2 responses, 6.3 s | holds |
| `dns53_upstream` | contract of `Resolve`, slots, completion; 2 workers, 2 endpoints, 2 slots, 2 faults | holds |
| `doh_upstream` | index, rotation, contract of `Resolve`, service by one good endpoint; 2 workers, 1 to 3 endpoints | holds |
| `relay` | resolvers asked, errors, subnets, cached objects; 2 clients, any kind of request, up to 2 ECS options | holds |
| `configuration` | faithful to the entries, what a sound configuration is not to blame for, every service launched; 13 x 13 service configurations | holds |
| `services` | defaults, settling, exit, winding up | holds |

**Bounds.** *FanOut*: with three IPs a match can have a neighbour on either side,
so waiting behind a slow query, the last-result rule and the race of the cleanup
all occur; nothing relates more than two IPs and the caller, and the proofs
cover every N. *JailMatch*: with three expressions one report can be received
while a second is buffered and a third is yet to come. *EcsSelect*: two
countries that can be jailed (one with two states), an unknown place, and a
private address put every pair of neighbours into a list. *ResolverCache*: steps
of 0.7 s fall on every side of a second's boundary; 6.3 s are enough for an
entry of TTL 4, capped at 3, to be hit, to expire and to be replaced.
*Dns53Upstream*: two workers and two slots let a connection pass from one worker
to another with a reply outstanding. With as many slots as workers nobody has to
wait in `Get`; that waiting ends is `PoolNeverStuckTheorem`, for any numbers.
Three queries over two ids make ids collide
and differ. *DohUpstream*: two workers race for the index in every way two can; with three
endpoints a lost turn, a skipped one and a right one differ; endpoints fail and
recover without bound. *Configuration*: lists with blanks, defaults, each kind
of endpoint, fixed entries whose expressions compile or not in any position, and
jails whose bad entries stand first, between and last; every pair of services,
since what one does can end the other, and services that their goroutine does
not survive. `CHECK_DEADLOCK` is off there, as `main` waits in the end and the
process may have panicked. *Relay*: two clients, so that both may hold one cached
object; two subnets of different addresses and one of another prefix length; up
to two ECS options, as each handler touches one and leaves the other. *Services*:
four combinations of overlapping lists and four listen lists, crossed with every
combination of enabled services and upstream kinds.

**Fairness.** The Go scheduler runs every goroutine that can run, which is weak
fairness of its next step; the runs with liveness assume that and name what they
do not assume. `FanOut` assumes nothing of `Resolve`. `Services` assumes nothing
of HTTP calls, of queries or of a server's end. `Dns53Upstream` assumes also
that the deadline of a read passes (`miekg/dns` sets one) and that an endpoint
that is up answers; its liveness property is conditional on some endpoint being
up from some time on. `DohUpstream` assumes of endpoints that one which stays
up answers, and of nobody that queries come: `ServedInTurn` has that as a
hypothesis. `Configuration` assumes that `main` goes on, as all it waits for is a
dial, which times out; that services end and queries come is possible at any time
and never assumed. `CHECK_DEADLOCK` is on everywhere else: where the system
may stop, a `Terminated` step says so.

**The race for the round robin.** `Completes` excludes executions in which, for
ever, two workers race for the unprotected index while an endpoint is down: two
dials may interleave so that both always get the endpoint that is down. Without
that clause TLC finds the counterexample. `ServedInTurn` excludes the same race
for the DoH resolvers' index. Nothing in the repository promises otherwise, so
this is listed as a hazard, not as a finding.

## 4. Findings

Each "violated" row of the table is a disagreement between the code and what a
comment, the README or the example configuration says; `PROJECT.json`
("findings") quotes both sides. In short: the fan-out's cleanup can panic the
process; the second of two neighbouring jailed countries is asked; a lookup whose
last query fails loses the response of an earlier one. How far they go is known:
the first needs a match and a query that is still under way behind it
(`SendPanicNeedsStraggler`, proved), the second two jailed neighbours
(`JailsApart`, proved), the third is the only departure of the fan-out from its
contract (`ImplementsLookup`, proved).

Further observations are in the models and, most of them, under "hazards",
without a run of their own:

- The guards of `main.go:459` and `:498` look at the other service's lists. The
  secondary ECS IPs of dns53, which `README.md:35` offers, are never walked, and
  the primary ones of DoH only if dns53 has some; such an address is asked with
  only if another list has it, too. `GivenAreUsed` of `Services_proofs` states
  what the options' descriptions promise, and `ListsAgreeSuffice` proves it for
  lists that agree; without that it is false.
- A reply with several ECS options from upstream keeps all but one of them
  (`WithoutECS` and `WithECS` of `Relay`; `utils.go:303`, `:332`).
- Adding an OPT record drops the additional section, and the ECS option given
  back has another prefix length than the request's (`WithECS` of `Relay`;
  `utils.go:322`, `:342`).
- Listener errors never reach `main` (`ListenerSendsError` of `Services`).
- `config-example.yml` gives dns53 fixed servers without a port
  (`tcp://8.8.8.8`, line 25): such an endpoint is not usable, and the pool of a
  fixed resolver panics when it is the only one, after the DoH service has
  started (`PoolFails` of `Configuration`). The redis backend the same file
  lists makes the first query panic; so does a cache backend left out of a file.
- Fixed resolvers use a cache even if the cache is off (`BuildFixed`).
- A `-config` path that does not exist is ignored in favour of the flags
  (`Read`).
- A JSON upstream that answers `null` panics the goroutine (`NullPanics` of
  `DohUpstream`, "panic" of `FanOut`, "reply" of `Configuration`), with any
  configuration.
- A path that the router refuses, or the path `/checkip`, panics the DoH service's
  goroutine and with it the process (`SetupPanics` of `Configuration`).

## 5. Proofs

All theorems hold for every value of the constants under the assumptions named
in the modules (`NAssumption`: N > 0; `RegexpsAssumption`: finitely many
expressions; `ConfigurationAssumption`: what a configuration's fields may hold;
`AddrAssumption`, `ParametersAssumption`, `PoolAssumption`,
`UpstreamAssumption`, `RelayAssumption`, `ServicesAssumption`: the constants have
the types their comments give; `RelayAssumption` also keeps the keys of fixed
resolvers apart from the names of the other two). TLC
evaluates the assumptions on every run. None of the invariants is inductive by
itself; each module of proofs defines the strengthening `IInv`, shows that
`Init` establishes it and each action preserves it, one step per action, and
derives the theorems.

- `FanOut_proofs`: `TypeCorrect`, `FirstMatchWinsTheorem`,
  `SendPanicNeedsStragglerTheorem`, `FanOutImplementsLookup`. `IInv` splits on the
  caller: while it waits, nobody has touched the flag or a channel and the loop
  index separates the goroutines that are done, all without a match, from the
  rest; once it has returned, the result is frozen and only goroutines behind
  the match are alive. `PanicInv` says that a Resolve that panicked has stopped
  everything, so that no other result is out of place. The refinement uses `IInv`
  for `Receive` and `GiveUp`; `Resolve` is `Upstream`, and every other step is a
  stutter of `EcsLookup`, as is the return that loses a response.
  `NobodyForgottenTheorem`, `NeverStuckTheorem` and `EveryStepCountsTheorem` are
  about the end of the goroutines. `CleanupInv` follows the cleanup goroutine: a
  channel behind its index is done or closed. From it, a goroutine parked on its
  channel has a receiver still to come; once the queries have returned somebody
  can move until all is over; and each step lowers a rank, a sum over the
  goroutines (`Descends`), that starts linear in `N`.
- `Configuration_proofs` is about two modules and what they are together.
  - `Configuration`: `ConfigTypes`, `ServesAsWritten`, `SoundConfigurationsRun`,
    for every set of configurations of the type `ConfigModel`, so for files of any
    length. `IInv` follows `main`: `JailInv` says which entries of the jail have been
    read, `BuildInv` what exists of the service that is being built and that a
    service which is up is complete, `ResolverInv` that whatever a query can trip
    over is there because the configuration says so. `ConstructFacts` is the one
    lemma about putting up a resolver; the three actions that do so cite it.
    `AllEnabledLaunchedTheorem` says that when `main` waits it has launched the
    enabled services and no other, whatever the configuration;
    `SoundEndsInQueriesTheorem` that a sound configuration's process ends only in
    a query to a service that is up, and not because of the configuration. Of a
    step that panics, `PanicIInv` only asks that a sound configuration is not to
    blame and has something launched; `SoundPool` shows that for the pools.
  - `JailMatch`, extended alongside: `MatchTypes`, `VerdictOfTheJail`,
    `ReportsNeverBlock`, for every finite set of expressions. `MatchIInv` says that
    while the collector reads no goroutine has left without a report, so that the
    loop index counts the reports taken out of the buffer, none of them a match; a
    collector that leaves its loop normally has seen every expression.
    `MatchNeverStuckTheorem` and `EveryReportCountsTheorem`: until its end a match
    has a step to take, and each step lowers a rank, at most 3n + 4.
  - Both: `FromEntryToVerdict`. While a service is up, a name is in jail for a
    country exactly if a well-formed entry that names the country matches it. The
    hypothesis `LookedUp` is the look-up at `config.go:136`: what the matcher is
    given is what `Configuration` has entered for the code.
- `EcsSelect_proofs`: `TypeCorrect`, `AlignedTheorem`,
  `OneQueryPerCountryTheorem`, `KeyCoversQueryTheorem`, on a lemma about
  `RemoveAt` that gives the length and the elements of the shortened list; and
  `UnjailedKeptTheorem`, `ClientSubnetFirstTheorem` and
  `OnlyShadowedSurviveTheorem`, on a second invariant, `LInv`, that relates the
  list as it is to the list as it was parsed: what the jail loop keeps of it,
  where the entries still to come are, that an entry that slips past follows one
  that was cut, and where the client's own subnet is. `JailLoopTheorem` goes
  further and says exactly what the loop computes: a country is still asked if
  and only if it is not jailed or the one before it was cut. `PassedInv` is
  needed for the "only if": the last entry gone past was kept, so that what is
  cut is never right behind a cut. It follows that the finding is confined:
  `JailsApartSuffice` proves `JailedNeverAsked`, which the run `ecs_select_jail`
  violates, for every lookup in which no two neighbours are both jailed.
- `ResolverCache_proofs`: `TypeCorrect`, `HonestTtls`, `LivesCapped`,
  `ShortLivedPrivate`. `IInv` says what each holder of a response knows of it:
  the response is as it arrived (`StampInv`), the entry is cacheable and expires
  a lifetime after it was stored (`EntryInv`), a client took what it holds from
  an entry that had not expired or asked for it itself (`HoldInv`). Two lemmas
  carry the arithmetic: `AdjustedFacts` for the age in whole seconds,
  `LifetimeFacts` for the minimum over kinds of records and the cap.
- `Dns53Upstream_proofs`: `TypeCorrect`, `OwnAnswers`, `NoSlotLost`,
  `PoolNeverStuckTheorem`, `Dns53ImplementsResolver`. `IInv` says
  what is under way on a connection: nothing, unless its worker waits, when it
  is that worker's query or the reply to it, or has failed, when `Discard` closes
  it. `PoolNeverStuckTheorem` follows at once: who has a connection can go on,
  and who waits in `Get` waits for one that is with somebody who can.
  `LocalStep` shows once that a step on one's own slot disturbs nobody else.
- `DohUpstream_proofs`: `TypeCorrect`, `Rotation`, `DohImplementsResolver`. The
  invariant says that a call that is taking its turn alone holds the index as it
  is, and that a call that has returned holds an error or the response to its
  query. Every step is one of `ResolverCall` or a stutter.
- `Services_proofs`: `TypeCorrect`, `UsableDefaults`, `Settled`,
  `PrimaryIsFirst`, `ExitAfterService`, `AskedWithTheorem`, `ListsAgreeSuffice`,
  `SomebodyGoesOnTheorem`, `EveryStepCountsTheorem`. `IInv` orders the
  start: a service that runs has its answerer, one still to be started is absent,
  and listeners exist only when the defaults are done. `DefaultFacts` shows that
  `AppendDefault` and `InsertDefault` keep a list usable whatever they are given.
  Further invariants build on it. `EInv` follows the end: a service that `main`
  has left behind has reported, and one that reports has collected its
  listeners. `PInv` follows the two walks: the secondary list is walked first, so
  that what is inserted in front afterwards is none of it (`InsertOrdered`).
  With `OnlyInv` (nothing else is added) it gives `AskedWithTheorem`: the
  defaults are exactly what the loops walk or the exit IP. `ListsAgreeSuffice`
  derives from it when the documented `GivenAreUsed` holds; in general it does not. `WaitInv` (nobody waits for what was already reported)
  gives `SomebodyGoesOnTheorem` and `EveryStepCountsTheorem`: once nothing
  serves, there is a step to take, and each one ends the process or leaves fewer
  waits and receives.
- `Relay_proofs`: `TypeCorrect`, `FixedStayFixed`, `ErrorsAreFailures`,
  `OwnSubnets`, `CacheIntact`. `IInv` says for each place in `Answer` what was
  asked and has failed so far (`ResolverInv`), and that a client writes to its own
  location only, which holds the response it is answered from until `Restore`, and
  from then on that response with its own subnet first or one option less
  (`MessageInv`). `QueryFacts` shows that a call of `Query` leaves the responses
  before it alone; `OtherClients` that a client's step does so with the others.

**Only model-checked.** Liveness (`NoGoroutineLeak`, `GoroutinesEnd`,
`Completes`, `ServedInTurn`, `SoundLaunchesAll`, `WindsUp`) is outside what the
prover's backends do with fairness and ENABLED. What it rests on is proved where
it can be said without them:

| Property | Somebody can move | No step is in vain |
|---|---|---|
| `NoGoroutineLeak` | `NeverStuck`, `NobodyForgotten` | `EveryStepCounts` (`FanOut_proofs`) |
| `GoroutinesEnd` | `MatchNeverStuck` | `EveryReportCounts` |
| `WindsUp` | `SomebodyGoesOn` | `EveryStepCounts` (`Services_proofs`) |
| `Completes` | `PoolNeverStuck` | no: a query may retry any number of times |
| `SoundLaunchesAll` | no | `AllEnabledLaunched`, `SoundEndsInQueries`: where `main` ends, and what alone stops it before |
| `ServedInTurn` | no | `TurnsRotate`: which endpoint comes next |

In the first three lines only the step from "somebody can move, and each step
lowers a rank" to "it ends" is left to TLC and to the fairness of section 3.
What a recursive definition computes for every input cannot be proved with the
installed backends, as induction takes an operator as parameter; the modules
write loops as steps, so that no proof needs it, and declare no RECURSIVE
operator.

## 6. Not modelled

- GeoIP (a lookup in a third-party database): two functions of `EcsSelect`.
- HTTP, DNS servers and message packing (gin, `miekg/dns`), logging, usage
  output: third-party or output only.
- The HTTP client of the DoH resolvers, and the resolver for its upstreams'
  names (`upstream_host_resolver`): an upstream is up or not.
- What YAML makes of a file, the log level, the version flag.
- A reply that does not pack (`doh_handler.go:150`): handled like an error.
- Redis: the repository contains only a stub.
- The wall clock set back, extended flags in the OPT record, header bits.

## 7. Plan

Done, in this order: `FanOut`/`EcsLookup`, `JailMatch`, `EcsSelect`,
`ResolverCache`, `Dns53Upstream`, `Relay`, `Services`, `DohUpstream`/`ResolverCall`,
`Configuration`, and the proofs above.

What could follow:

1. The header of the reply in `Relay`: rcode, header bits, OPT flags under
   aging.
2. Composition: `Query` = `EcsSelect` + cache + `FanOut` over `ResolverCall` for
   several names and keys, implementing an abstract relay in which a client gets
   an answer for its place or an error; `Relay` over the abstract query.
3. An abstract TTL contract (a response is valid until an instant) that
   `ResolverCache` implements.
