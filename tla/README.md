# HttpArena, modelled in TLA+

HttpArena benchmarks HTTP frameworks: every entry under `frameworks/` is a
container that a shell driver builds, starts, loads and stops, one test profile
after another, and whose best results end up on a leaderboard. This directory
holds TLA+ models of the platform and of the JavaScript entries, TLC
configurations that check them on small instances, and TLAPS proofs.

## Inventory

| part | state it keeps | operations | talks to | what makes it correct |
|---|---|---|---|---|
| benchmark driver (`scripts/benchmark.sh`) | position in the profile and connection loops, `PG_DIRTY`, the best run so far | clean slate, setup, `run_one` per profile and count, save, rebuild, EXIT trap | host services, generators, `results/` | a run measures the server it started, in the state the profile promises; nothing is skipped, lost or left behind silently |
| host services (`scripts/lib/framework.sh`, `gateway.sh`, `postgres.sh`, `redis.sh`) | containers, compose stacks, sidecars, `GATEWAY_ACTIVE_*`, `GATEWAY_STOPPED_REDIS` | start, stop, clear stale stacks, yield and restore the cache port, readiness probe | docker, fixed host ports | two tenants never share a port; a teardown knows everything a start left |
| best-of-N and measurement (`run_one`, `latency_score.py`, `lib/tools/*.sh`, `stats.sh`) | one run's output, CPU counters, samples | build arguments, run, parse; choose the best run | the driver | the saved row is one run, the right one, and its rate is what was served |
| lite driver (`scripts/benchmark-lite.sh`) | as the driver, over all frameworks in one process | the same loop with `\|\| warn` around each framework | the same libraries | no leftover is measured; every framework has its turn and its own database |
| pull-request workflow (`.github/workflows/benchmark-pr.yml`) | checkout, git index, copies in `/tmp`, the branch, main | overlay main's data, benchmark, compare, commit, push | GitHub's queue, the driver, the author | a commit holds what the run measured, and can be merged |
| JavaScript entries: routes (`frameworks/{node,bun,deno,…}`) | one request each, no more | parse, clamp, query, answer; bodies in pieces, timers, queries | Postgres, the dataset, the client | every request is answered, from its own parameters, as the profile documents |
| JavaScript entries: cached items (`/crud/items`) | bodies in Redis or in a map per worker, rows in Postgres | cache-aside reads, invalidating writes | Redis, Postgres, other workers | a stale body does not outlive the TTL; an acknowledged update is seen |
| JavaScript entries: connection pools | a pool per worker | open, wait, give back, be cut | Postgres' `max_connections` | workers times pool fits; nobody waits for ever |
| fulmine's certificate rotation (`fulmine/app.js`, `fulmine-tuned/app.js`, probed by `validate.sh`) | per worker the stamp of the pair and its TLS listeners | stat, compare, build a context, open a listener beside the old one | the files, the kernel, the validator | a new pair is served in time, without a refused handshake |
| site data (`rebuild_site_data.py`, `archive.sh`) | `results/`, `site/data` | merge, purge, archive | the drivers, git | no framework's rows are lost or shown under another's name |
| validator (`validate.sh`, `validate-ws.py`, `validate-frag.py`) | probe results, files and rows changed for a probe | one probe per test, restores | an entry's server | a probe leaves the data as it found it; a failed probe is counted |
| other workflows, scoring, page, data generators, docs, entries in other languages | | | | see Not modelled |

What is hard on the platform: every container uses host networking, so a leftover
anywhere on the host is a wrong measurement later; any step may `exit 1` with
only the EXIT trap to clean up; many failures are swallowed on purpose
(`|| true`); a cancelled job kills the process with no trap at all; several
actors write the same branch and files. In the entries: everything after an
`await` runs in a world that has moved on; caches, pools and listeners are per
worker while rows, connections and certificates are shared; a rejection nobody
handles ends a worker, and most primaries fork each worker once. `PROJECT.json`
lists these hazards at their lines, with the properties about them.

## Modules

**BenchHost** is the host as the drivers see it: per framework its container
(`bench`), per compose project the services of it that are up (`stack`), the
Postgres sidecar (`pg`: absent, broken, fresh or used), the Redis sidecar
(`redis`), and the two shell variables of `gateway.sh` that outlive a function
(`active`, `stoppedRedis`). Its operators are the libraries' functions. Ports are
named by the service that listens on them; a container or a service comes up only
on a free port, and any of them may also die on its own. The initial states are what
earlier runs may have left (`LeftOver`: containers of any framework, half a stack, the
sidecars), `ClearHost` is the clean slate that removes it, and `ServedBy` of either
driver is who answers on the port a run loads: its own container or stack, another
one's, or nobody. External: docker itself, and whoever else starts Redis. The sweeps'
`docker rm -f … || true` (`gateway.sh:84`) is taken to work; `compose down` may fail
where `ComposeDownMayFail` says so.

**BenchmarkDriver** is `benchmark.sh` inside the workflow's loop over
frameworks. `pc` is the script's position; one action per block: `Invoke` (a new
process, clean slate), `Setup`, `StartPostgres`, then per profile and connection
count `EnterRunOne`, `ResetPostgres`, `LaunchStack` and `StackUp` or `LaunchFramework`,
`ServerReady` or `NotReady`, `Measure`, `SaveResult`, `Teardown`, then `Rebuild`,
the trap `CleanupAll`, and the workflow's `NextFramework` and `Finish`. `Fail` is
`fail` in `common.sh`. `gateway_up` is two actions: `LaunchStack` clears stale
stacks and looks for the Redis sidecar (`gateway.sh:116`), `StackUp` is its `compose
up` (`:144`); a Redis that others start may come between them, as anywhere else
(`RedisAppears`). The script does not look again, so `StackRunUsesItsOwnCache` says
what the check buys: a cache-using stack meets a foreign Redis only if it appeared
after the script looked (`lateRedis`). `Rebuild` may fail, on any part of the
rows, and ends the script under `set -e`. `Killed` ends the process anywhere without the trap.
`meas` and `tried` are history: who served the load and in which state the
sidecars were, and which runs were entered.

**LiteDriver** is `benchmark-lite.sh` over the same host. It differs where the
script does: frameworks in one process, `fail` in a loop whose `|| warn` cannot
catch it, Postgres per framework, a reduced profile table that also decides which
frameworks are refused (`LiteProfiles`; `LiteOrder` is what a profile argument
leaves of it), rows only with `--save` (`Save`), and zrk started in a process
substitution. Its initial
states include whatever the other driver may have left.

**ResultsPromise** is what either driver owes those who wait for results, with no
host in it: the frameworks of `list` have their turns in order, a turn attends to
runs that were asked of its framework, saves rows of runs it attended to and shows
what is saved, and a job that is not red has left out no framework, run or row. Both
drivers implement it (`Promise == INSTANCE …`, `KeepsPromise` a property of each core
run and a theorem): a turn is the workflow's `k` or the script's, what it has attended
to is `tried` or the lite profiles behind `pi`, red is the `FAILED` list or the exit
status. What happens to servers, sidecars and stacks are stutters.

**BestOfRuns** is the part of `run_one` that BenchmarkDriver takes as one
`Measure`: RUNS measurements, of which one becomes the row. Each of the eight
`best_*` variables is the number of the run it was taken from. `Measure` is one
turn of the loop with its comparison `Better`; on a fixed-rate profile `Pick` is
`latency_score.py --pick` with the read-back of the winner's files, `PickFails`
its empty answer. Scores are scaled to integers, latencies to their decade.

**BenchmarkPr** is the job of `benchmark-pr.yml` on one pull request. Git is
data: `mains` is the tree of result files at each commit of main, `pr` the
commits of the branch, `local`, `index` and `wt` the runner's checkout, `tmp` the
three copies of `site/data` under `/tmp`. A tree gives each framework's file a
number, fresh per benchmark, 0 when there is none; `Overlay` is `cp -r a/* b/`,
which removes nothing, and `CopyTo` is `cp -r a b`, which does nothing useful when
`b` exists. One action per step of the job; `RunStops` is a failed step, a cancel
or a timeout. `AuthorPushes`, `AuthorMergesMain` and `MainMoves` happen at any
time (external). `RunBenchmarks` is all of BenchmarkDriver seen from the job.

**CrudEntries** is the `/crud/items` route of eleven entries (and `/api/items` of
two). A handler is a sequence of steps, one per await, read off its source
(`NodeRead`, `BananaUpdate` and so on); an action is one step of one request with
the code up to the next await. Rows are histories (`since[i][v]` is when version
v began), bodies carry their version, a cache is the sidecar or a map per
worker. Any awaited call may fail, before or after its effect; a store nobody
awaits may be rejected, which may end the worker and all it was serving;
fulmine's primary forks it again. `Lag` bounds how long one request may take.

**BoundedStaleReads** is what those routes promise, with no cache in it: a read
answers a version of the row that was current at most `window` ticks before the
read began, or later. CrudEntries implements it (`Promise == INSTANCE …`, window
= TTL + Lag, `KeepsPromise` a property of the run and a theorem): the abstract
state `asked` is the request as its client sees it, so a store after the answer,
a worker's fork and a lost reply are stutters or losses.

**PgPools** is the connection pools of twelve entries: each entry's formula for
the size of a worker's pool, the pool of node-pg and Bun.SQL as the entries use
it (take, open below the maximum, wait; fulmine-tuned's queries share its pipelined
connections, and its pool's own one is opened besides), refusals by Postgres when its slots are
taken, cut idle connections whose `error` event nobody hears, and dead workers.

**EntryRoutes** is what the handlers of nineteen entries compute, as operators:
defaults and clamps of each (`IfNumber` and JavaScript's `||` differ on zero),
the query they send, the answer they give to rows, an error, no pool or no
dataset, which encoding they choose, and what comes back over a WebSocket. Elysia's
`mapResponse` encodes every object that is long enough (`Mapped`): items of the
dataset, and rows of a query that reached its limit ("full").
**EntryRequests** runs them: requests that overlap in one worker, bodies in
pieces, timers, queries out; `Documented` is the answer the profiles' pages
give, and `Departs` names exactly where the code gives another. What the pages
deny is no answer of theirs: a multiplier "is never implicitly 1"
(`json-compressed/implementation.md:61`), and an entry that takes a missing one for 1
departs.

**TlsRotation** is fulmine's `setInterval` that watches the certificate pair, per
worker and per system call (both stats, the compare, the context, the listener),
with the primary's re-fork and the validator's probes: replace the pair by two
renames, handshake until a new fingerprint answers or time runs out, restore, and
once more. A pair is two numbers, so half a pair is two that differ. External:
what uWebSockets does with half a pair (it throws), the kernel's choice among
listeners on one port.

The **Proofs** modules hold the theorems, the **MC** modules the instances.

## Runs

| run | question | answer |
|---|---|---|
| `driver_core` | does anything left over, dirty or foreign reach a measurement; is anything left after the trap, skipped, or lost without a red job (the loop implements ResultsPromise)? Any step fails, kills anywhere, a foreign Redis | no |
| `driver_skips_profile` | does a server that fails to start make the loop skip to the next profile, as `benchmark.sh:202-203` says? | no, to the next connection count |
| `driver_any_teardown` | and if `compose down` fails unnoticed? Does the workflow end? | compose profiles still measure themselves, thanks to the stale-stack sweep; it ends |
| `lite_core` | does anything an earlier run left reach a measurement; is the database fresh for each framework; is everything published and the host left clean; does it implement ResultsPromise? | as it should be |
| `best_core` | is the row one run, and the right one? | yes |
| `pr_core` | is a committed result the measured one; are new entries' results kept; does the pushed commit merge; are deltas against main? | yes to all that should be |
| `pr_index_revert` | does a run stage only what it benchmarked? | main's results come along, in the index |
| `crud_core` | how stale can a body get, who sees an update, what does a failing cache cost? Does it implement the promise? | TTL plus one request, and yes |
| `entries_core` | does overlap, splitting, delay or failure change an answer, delay one too little, encode it wrongly or lose it? | no; the departures are those of `Departs` |
| `pools_core` | is anybody turned away, does every query end, do workers come back? | not by the entries that divide their budget; the rest is as named in the properties' premises |
| `tls_core` | is a rotation served, in time, without a refusal, and does the probe pass only then? | yes, for workers that bind and met a whole pair |
| `tls_half_pair` | is a context never built of half a pair? | it is, between the two renames |

**Bounds.** *Drivers*: two frameworks, one subscribed to everything (an empty
`tests` array); a cut of `PROFILE_ORDER` that keeps, in order, a plain profile,
both database profiles, an undefined name, a gateway profile, the production
stack and a plain profile after them; two connection counts where the order of
runs of one profile matters. These cover every pair of kinds of consecutive
runs; the proofs remove the bound. `driver_any_teardown` has a framework with two
stacks after a database profile, and one with WebSocket tests only, whose
readiness probe the code skips. *LiteDriver*: two accepted frameworks, a disabled
one, one with a profile outside the lite table, and a directory with no
`meta.json`; with `--save` and no profile argument, which the theorems do not assume. *BestOfRuns*: the real RUNS = 3, every combination of rates below,
at and above the target, CPU read or not, tails decades apart, errors only and no
answer; costs and their ratios are whole, so the scaled scores are exact, which
is more than `ScaleAssumption` asks.
*BenchmarkPr*: an entry under work, another published one and a new one; two runs
(`MaxRuns`), so the second meets what the first left; four events among main's
commits, pushes and benchmarks (`MaxClock`). *CrudEntries*: two slots, reused, and
two workers on one item; TTLs of one and two ticks, `Lag` one, three ticks
(`MaxClock`), two versions (`MaxVersions`): a stale body is stored, read, expires
and is stored again; the proofs remove the bound. *PgPools*: four connections
instead of 256 and one to three workers, so a budget divides evenly, with a
remainder, and to less than one; one death (`MaxDeaths`). *EntryRequests*: two
connections; every route with each parameter below, at and above its bounds,
missing and text; the dataset has two items and compression starts at two, of
items or of rows.
*TlsRotation*: two workers; the probe's window of 30 seconds is two (`Window`),
the shortest in which the poll of one second can be late and still be in time.

Deadlock checking is off where a script, a job's bound or a clock's bound ends;
`entries_core` has it on.

**Fairness.** The drivers' own steps are weakly fair in `driver_any_teardown`:
each is a command that returns (every wait in the libraries counts to a limit).
In EntryRequests a worker's event loop gets round to every timer, piece and query
result, because clients send the bodies they announced and a pool settles every
query. In PgPools a query that runs ends and a primary that forks again does so
(weak), and a pool serves its queue in order, so that a query that can be served
again and again is (strong). In TlsRotation time passes, the validator goes on,
and a worker gets on with its tick. Nothing is assumed of kills, of failures, of
services coming up, of the foreign Redis or of a re-fork the code does not perform.

**Premises.** Several properties say what the code can keep and name the rest.
`UpdateIsSeen` excepts an update that raced a read already on its way into the
cache, which is the race every cache-aside has. `NeverTurnedAway` excepts entries
that divide no budget, more workers than connections, and the moments when the
connections of a dead worker still hold their backends. `WorkersComeBack` excepts
fastify, which neither hears of a cut connection nor forks again.
`NothingIsRefused` excepts a worker that met half a pair, and the two properties
about the new pair a worker that could not bind or booted across the move.
Constants are restricted where the code or its data restricts them:
`RequestsAssumption` (an echo is a POST, a delay is never negative),
`RoutesAssumption` (the seeded fortunes are distinct, and the one added at run time
is not among them), `ScaleAssumption` (the code's scores are floats, which tell any
two costs of a field apart; the whole numbers here must do so too).

## Disagreements between code and text

`PROJECT.json` quotes three, each with the run that shows it: a failed server skips
no profile (`benchmark.sh:202-203`; `EverySubscribedRunIsTried` and ResultsPromise
follow the code, and would not hold of what the comment says), a run stages what it
did not benchmark, and a TLS context is built of half a pair. More came up while
modelling and have no run of their own:

* The `json-compressed` page says that the multiplier "is never implicitly 1"
  (`implementation.md:61`), `CHANGELOG.md:328` that its default is 1. All sixteen
  entries with the route take 1 (`NoMultiplier`, a case of `Departs`).
* `gateway_up` looks for a running Redis sidecar once, some lines before the stack's
  own cache needs the port (`gateway.sh:100-116`, `:144`); one that appears in between
  keeps the cache from coming up, and the stack is then served by the wrong one.

* A database profile gets "the same clean, freshly-seeded server a standalone run
  gets" (`benchmark.sh:213-219`); gateway and production-stack, which use the same
  Postgres (`postgres.sh:1-2`), get it as the database profiles left it.
* After a failure in its last profile, a framework's saved rows are not rebuilt
  into the site (`benchmark.sh:621`), although "whatever was saved stays saved"
  (`benchmark-pr.yml:157-159`). The job is red then (`LossIsFlagged`).
* A new entry is compared with its own rows where the table should say NEW
  (`benchmark-pr.yml:200`).
* `git fetch --depth=1` makes every tip of main that the branch lacks end a
  `--save` run as "diverged" (`benchmark-pr.yml:132,137`).
* When the author pushes during a `--save` run the push is refused, rightly, but
  the log blames permissions; the results are dropped and the job is green.
* The lite loop ends at the first framework that fails, or at `_shared`, which has
  no `meta.json` (`benchmark-lite.sh:364,368`): `|| warn` does not catch an exit.
  It also refuses every framework that lists a real profile outside its table.
* A missing zrk saves zeros (`zrk.sh:81`, against its lines 17-20).
* `gateway_down` gives Redis its port back before `compose down`, so `redis_start`
  cannot bind. Nothing in a run depends on that sidecar.
* `latency_score.py --pick` weighs CPU against the entry's own cheapest run, the
  leaderboard against the field's, so the run kept need not be the one that would
  score best; and a run whose CPU could not be read is compared by rps, which is
  why `UnscoredIsCheapest` has a premise.
* `parseInt(…) || default` takes a zero for a missing parameter in nine entries
  (`Departs`); `async-database/implementation.md:114` has a zero clamped.
  node-websocket answers a text frame with a binary one.
* async-db answers a refused connection with an empty list; bananabread without a
  database acknowledges creates.

## Proofs

Everything below is proved for any value of the constants that meets the named
ASSUMEs, which TLC evaluates on every run.

*BenchmarkDriver*: the type invariant, every safety property of `driver_core` and
`driver_any_teardown`, and `LossIsFlagged`, which ResultsPromise contains, by layers
over `TypeInv`. `PgInv`: Postgres is up for whoever needs it, and fresh until the
first database profile marks it dirty
(needs `OrderAssumption`: `profiles.sh` lists database profiles before compose
ones). `RowsInv`: an invocation that is exiting has published or failed.
`StackInv`: no container but the run's own is up (`BenchInv`), and from the sweep of
`gateway_up` on a compose profile is alone on its ports, whatever `compose down` does,
but for a sidecar that came since (`AloneInv`). `CleanInv`, which assumes
`~ComposeDownMayFail`: the only stack that can be up is the one `gateway_down`
knows of. `TriedInv`: what the loops have behind them was entered. The
assumption is needed: with a swallowed failure a plain profile can meet a leftover.
That the loop implements ResultsPromise (`KeepsPromiseTheorem`) needs no assumption
on `compose down`: from `RowsInv`, `TriedInv` and `MetInv` (only runs that were asked
for are entered, and nothing is shown that was not saved) every step is one step of
the promise or a stutter.

*LiteDriver*: the type invariant, every property of `lite_core`, and
`SuccessPublishesEverything`, which ResultsPromise contains. `CleanInv`:
from the clean slate on nothing is up but the container of the run, so nobody else
can be `ServedBy`'s answer. `PgInv`: a
framework's database is untouched until its one database profile (no profile is
listed twice). `TurnInv`: the frameworks behind the loop had their turn, and a
script that is leaving well has published, or had nothing to save. From it and the loop's shape every step
is one step of ResultsPromise or a stutter.

*BestOfRuns*: the types and every property of `best_core`. The invariant says that
all `best_*` variables name one run, that one is named as soon as there is one, and
that it is the best so far by the order in force. `ScoredIsNotOutdone` is
arithmetic: a run that another outdoes loses on the costs, the tails or the rate
and gains on none, and no factor turns that round (`ScaleAssumption`).
`SomeRunWins`: the choice among the scored runs is never empty.

*BenchmarkPr*: the types and every property of `pr_core`. The invariant says at each
step of the job what the runner holds: `BaseInv`, of which commit of main each commit
of the branch, and the checkout, has the files; `QuietInv`, what is still empty;
`FetchedInv`, that main still has every file that was fetched; `TreeInv`, the whole of
`wt`, `tmp` and `index` as overlays of main's files, the branch's and the measured.
The lemma it needs is `CompareRestores`: moving the baseline in and the results back
loses nothing although a copy removes no file, because every file of the baseline
has its counterpart in the results. `OthersFollowMain` says why `pr_index_revert`
fails: files nobody benchmarked are main's in the index.

*CrudEntries*: the types, `StaleBodiesExpire`, `UpdateIsSeen`, and that the handlers
implement BoundedStaleReads (`KeepsPromise`). The invariant gives each request what it
knows (`Good`): what it has seen was current at a tick of its own life, a read
that is about to store has seen something, and an update that found no row was
there when there was none; and each body how long it may live (`Kept`): its row
was read at `from`, the next version began no earlier, and it expires at most TTL
+ Lag after `from`. Every step of a handler then maps to an answer, a write, a
loss or a stutter of the promise. `ReadSteps` and `WriteSteps` are the lemmas
about the handlers' sequences. `None` is assumed to be no request.
`SeenInv` adds the three that promise a version of an item in a place: the floor an
acknowledged update left, what a read must see because it began after that, and an
update that has written and raced nobody. A promised version bounds from below what
every read on its way into the cache has seen (`Bound`) and, once the body is
deleted, what the cache holds (`Fresh`).

*EntryRequests*: the types and every safety property of `entries_core`. The invariant
says what a connection holds at each point of its request: the pieces so far are a
prefix of the body, what a timer has run and has to run make up its delay, an answer
is what the entry computes from its own request. What is left is about operators, entry by entry: each
route's clamps, limits and pages give the documented answer or `Departs` names it
(`JsonAnswer`, `BodyAnswer`, `AsyncDbAnswer`, `ListAnswer`, `FramesDiffer`), and each
encoding was in the header or is none (`JsonNamed`, `StaticNamed`, `AsyncDbNamed`,
`ListNamed`). Fortunes must be in order: every sequence of
messages has an ascending order (`SortExists`, by inserting one more), and distinct
messages have only one (`OneListing`), both by the least length or place at which
they fail.

*PgPools*: the types, and `NeverTurnedAway`. The invariant gives every connection
a place in its worker's pool (`HasPlace`) that no other has (`Distinct`), and
`PoolsFit` shows of each dividing entry's formula that the places of any number of
workers are no more than Postgres has slots.

*TlsRotation*: the types and every safety property of `tls_core`. A listener is
opened beside the old one, never instead of it (`Untouched`); the probe sees only
certificates a listener has (`SeenIsServed`), and looks for one that came in with
the pair it moved (`NewPairIsIn`). `RotationIsSeenInTime` counts ticks of the
validator's wait: after one every worker has looked at the files since they moved
(`OneTick`), after the next it serves the new pair or is one the property names
(`TwoTicks`), so a window of two is enough.

Every invariant and action property of the passing runs is stated by a theorem.
Only model-checked is liveness: `WorkflowFinishes`, `EveryQueryEnds`,
`WorkersComeBack`, `RotationIsServed`, `EveryRequestIsAnswered`, which need fairness
and ENABLED. No theorem uses an induction rule over predicates, which the installed
provers cannot instantiate; where numbers are needed (`SortExists`, `SomeRunWins`)
the proof takes the least element of a set of naturals.

Worth proving next: that a BenchmarkDriver job is one `RunBenchmarks` of BenchmarkPr
(ResultsPromise says that it adds rows of listed frameworks only; the rest is that a
framework's file is the fold of its rows).

## Not modelled, and why

*Of the entries*: `/db` (SQLite), `/pipeline`, `/baseline2` and the 404 routes are
one expression each; HTML escaping and the compression a middleware negotiates are
text; what seagreen refuses never reaches bananabread's handlers (requests to it
are limited to what it takes); fulmine's 30-second cache of `/api/me` sits in front
of a constant; the CPU count a pool divides by is a constant. An empty body on
uWebSockets is hyper-express's case only: ultimate-express and fulmine hand Node
streams to their handlers. Two inode numbers of a certificate are taken to differ
after a replacement. Entries in other languages are the subjects of the platform;
to a driver they serve, die or come up late.

*Of the platform*: host tuning writes kernel settings nothing reads back. Argument
builders and output parsers of the generators are text. `rebuild_site_data.py`
beyond the merge, `archive.sh` and the data generators rewrite files in one go, and
scoring is arithmetic over tables of floats. `benchmark.yml` is BenchmarkPr without
its merge. The other workflows' state is GitHub's queue, whose behaviour the
repository does not hold. Of the validator only the certificate probes keep state
between requests worth a model; the rest is a request and a comparison each.
Docker, GitHub, Redis and Postgres are external: their outcomes, not their working.

Hazards of the code outside these modules, for whoever takes them up: a container
that restarts resets the CPU counter `stats.sh:182` subtracts; one of two h2load
processes killed by its timeout leaves its share out of the sum (`h2load.sh:203`);
`results/` is never cleared by the drivers (`rebuild_site_data.py:137`), and two
display names may share a slug (line 156); a round id is reused after the last
round is deleted (`archive.sh:40`); `validate.yml:151` holds a concurrency group no
benchmark uses any more; `benchmark.yml:200` replaces today's `site/data` by that of
the ref it benchmarked; a probe that dies leaves a served file changed
(`validate.sh:505`).
