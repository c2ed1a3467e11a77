------------------------------ MODULE BenchHost ------------------------------
(***************************************************************************)
(* The benchmark host: the containers the driver runs and the ports they   *)
(* hold, with the operations of scripts/lib/framework.sh, postgres.sh,     *)
(* redis.sh and gateway.sh on them.  Everything runs with host networking, *)
(* so two containers that want the same port exclude each other.  A port   *)
(* is named after the service that listens on it: "server" is 8080, "edge" *)
(* is 8443, "authsvc" is 9090 and "cache" is 6379.                         *)
(*                                                                         *)
(* The operators below are the actions' building blocks; BenchmarkDriver   *)
(* sequences them.                                                         *)
(***************************************************************************)
EXTENDS Naturals, FiniteSets

CONSTANTS
  Frameworks,         \* directories under frameworks/
  ComposeFiles,       \* the <<framework, profile>> pairs with a compose file
  ComposeDownMayFail  \* may `docker compose down`, run with || true, fail?

GatewayProfiles == {"gateway-64", "gateway-h3", "production-stack"}

Projects == Frameworks \X GatewayProfiles

\* GATEWAY_ACTIVE_FRAMEWORK and GATEWAY_ACTIVE_PROFILE, both empty.
NoProject == <<"", "">>

Services == {"edge", "server", "authsvc", "cache"}

ASSUME ComposeFilesAssumption == ComposeFiles \subseteq Projects
ASSUME DownAssumption == ComposeDownMayFail \in BOOLEAN

VARIABLES
  bench,        \* per framework, the container httparena-bench-<framework>
  stack,        \* per compose project, its services that are up
  pg,           \* the Postgres sidecar
  redis,        \* is the Redis sidecar running?
  active,       \* GATEWAY_ACTIVE_FRAMEWORK, GATEWAY_ACTIVE_PROFILE
  stoppedRedis  \* GATEWAY_STOPPED_REDIS

hostVars == <<bench, stack, pg, redis>>
shellVars == <<active, stoppedRedis>>

\* "exited": the process died, or never got its port.
BenchStates == {"absent", "serving", "exited"}

\* "broken": the container exists but never accepted the readiness query;
\* "fresh": seeded and untouched; "used": a load has run against it.
PgStates == {"absent", "broken", "fresh", "used"}

HostTypeOK ==
  /\ bench \in [Frameworks -> BenchStates]
  /\ stack \in [Projects -> SUBSET Services]
  /\ pg \in PgStates
  /\ redis \in BOOLEAN
  /\ active \in Projects \cup {NoProject}
  /\ stoppedRedis \in BOOLEAN

NoBench == [f \in Frameworks |-> "absent"]
NoStack == [p \in Projects |-> {}]

\* Neither a server nor Postgres is left.
ServersGone ==
  /\ bench = NoBench
  /\ stack = NoStack
  /\ pg = "absent"

HostClean == ServersGone /\ ~redis

-----------------------------------------------------------------------------
(* Ports *)

ServicesOf(g) ==
  IF g = "production-stack" THEN Services ELSE {"edge", "server"}

\* An isolated framework container serves cleartext and TLS: both front ports.
BenchPorts == {"edge", "server"}

StackHolds(s) == \E p \in Projects : s \in stack[p]

\* Does anything answer on a port of the host?
Answers(s) == (s \in BenchPorts /\ \E f \in Frameworks : bench[f] = "serving")
                \/ StackHolds(s)

\* Are the front ports held by a stack, or by a container other than f's?
FrontTaken(f) ==
  \/ \E s \in BenchPorts : StackHolds(s)
  \/ \E g \in Frameworks \ {f} : bench[g] = "serving"

\* What earlier runs of either driver, killed anywhere, may have left: containers of
\* any frameworks, what is up of a stack, the sidecars; no port is held twice.
LeftOver ==
  /\ bench \in [Frameworks -> BenchStates]
  /\ \/ stack = NoStack
     \/ \E p \in ComposeFiles : \E up \in SUBSET ServicesOf(p[2]) :
          stack = [NoStack EXCEPT ![p] = up]
  /\ \A f \in Frameworks : bench[f] = "serving" => ~FrontTaken(f)
  /\ pg \in PgStates
  /\ redis \in BOOLEAN
  /\ redis => ~StackHolds("cache")

\* Mutant: the framework containers are left to framework_start.
ClearHostOfStacks ==
  stack' = NoStack /\ pg' = "absent" /\ redis' = FALSE /\ UNCHANGED bench

\* The clean slate of both drivers: every httparena-* container that was left goes,
\* sidecars and stacks included.
ClearHost ==
  bench' = NoBench /\ stack' = NoStack /\ pg' = "absent" /\ redis' = FALSE

-----------------------------------------------------------------------------
(* scripts/lib/framework.sh *)

\* The old container is removed; `docker run` then starts a new one.  It may
\* fail to start or die at once, and does when a front port is taken.
FrameworkStart(f) ==
  /\ \E s \in BenchStates :
       /\ s = "serving" => ~FrontTaken(f)
       /\ bench' = [bench EXCEPT ![f] = s]
  /\ UNCHANGED <<stack, pg, redis, active, stoppedRedis>>

StoppedBench(f) == [bench EXCEPT ![f] = "absent"]

-----------------------------------------------------------------------------
(* scripts/lib/postgres.sh *)

\* Whatever container had the name is replaced by a new server.
PostgresStart(ready) ==
  /\ pg' \in IF ready THEN {"fresh"} ELSE {"absent", "broken"}
  /\ UNCHANGED <<bench, stack, redis, active, stoppedRedis>>

-----------------------------------------------------------------------------
(* scripts/lib/gateway.sh *)

\* Mutant: other stacks are left to fight for the ports.
KeepStale(keep) == stack

\* _gateway_clear_stale: remove the containers of every other httparena stack.
ClearStale(keep) == [p \in Projects |-> IF p = keep THEN stack[p] ELSE {}]

\* Mutant: the sidecar keeps its port.
NeverYields(p) == FALSE

\* _gateway_yield_redis: the sidecar gives way to a stack with its own cache.
YieldsRedis(p) == redis /\ "cache" \in ServicesOf(p[2])

\* The ports project p cannot have.
TakenPorts(p) ==
  UNION {stack[q] : q \in Projects \ {p}}
    \cup (IF \E f \in Frameworks : bench[f] = "serving" THEN BenchPorts ELSE {})
    \cup (IF redis THEN {"cache"} ELSE {})

\* The project's own `compose down`, run with || true, the sweep of every other
\* httparena stack, and the sidecar that yields its port if it runs.
ClearTheWay(p) ==
  IF p \notin ComposeFiles
    THEN UNCHANGED <<stack, redis, stoppedRedis>>
    ELSE /\ \E own \in {{}} \cup (IF ComposeDownMayFail THEN {stack[p]} ELSE {}) :
              stack' = [ClearStale(p) EXCEPT ![p] = own]
         /\ stoppedRedis' = YieldsRedis(p)
         /\ redis' = (redis /\ ~YieldsRedis(p))

\* Mutant: the project is not noted.
GatewayUpNotNoted(p) ==
  ClearTheWay(p) /\ UNCHANGED <<active, bench, pg>>

\* gateway_up as far as `compose up`: the project is noted before anything can fail,
\* for gateway_down.
GatewayUp(p) ==
  /\ active' = p
  /\ ClearTheWay(p)
  /\ UNCHANGED <<bench, pg>>

\* `compose up`.  A service whose port is taken dies; others may die too.  `up`
\* reports success or failure, whichever services are left running.
ComposeUp(p) ==
  /\ \E up \in SUBSET (ServicesOf(p[2]) \ TakenPorts(p)) :
       stack' = [stack EXCEPT ![p] = up]
  /\ UNCHANGED <<bench, pg, redis, active, stoppedRedis>>

\* The sidecar is given its port back first, while the stack still runs: it
\* comes up only if no stack holds the port.
RedisAfterRestore ==
  IF stoppedRedis THEN ~StackHolds("cache") ELSE redis

\* The stacks `compose down` may leave: the active one is gone, unless the
\* command failed and the failure was swallowed.
DownOutcomes ==
  {[stack EXCEPT ![active] = {}]} \cup (IF ComposeDownMayFail THEN {stack} ELSE {})

\* Mutant: the profile of a torn-down project is not forgotten.
ComposeDownKeepsProfile ==
  IF active \notin ComposeFiles
    THEN UNCHANGED <<stack, active>>
    ELSE /\ stack' \in DownOutcomes
         /\ active' = <<"", active[2]>>

\* gateway_down, as far as it touches the compose stack: an early return
\* without an active project or its compose file; otherwise `compose down`, and
\* the project is forgotten whether or not that worked.
ComposeDown ==
  IF active \notin ComposeFiles
    THEN UNCHANGED <<stack, active>>
    ELSE /\ stack' \in DownOutcomes
         /\ active' = NoProject

GatewayDown ==
  /\ redis' = RedisAfterRestore
  /\ stoppedRedis' = FALSE
  /\ ComposeDown

=============================================================================
