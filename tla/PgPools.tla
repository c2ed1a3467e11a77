------------------------------ MODULE PgPools ------------------------------
(***************************************************************************)
(* The Postgres connection pools of the JavaScript entries.                *)
(*                                                                         *)
(* Every worker process of an entry keeps a pool of its own, so what one   *)
(* server has to hold is workers times pool size.  The sizes below are the *)
(* entries' formulas; the pool is the one of node-pg and of Bun.SQL, as    *)
(* the entries use it: a query takes an idle connection, or has one opened *)
(* while the pool is below its maximum, or waits.  Postgres may turn a     *)
(* connection away when its slots are taken, and may cut one.              *)
(***************************************************************************)
EXTENDS Integers, FiniteSets

CONSTANTS Workers,     \* processes an entry can fork: one per CPU
          CpuSets,     \* the sets of workers a run may give an entry
          Requests,    \* request slots of the load generator
          None,
          MaxConn,     \* max_connections of Postgres and DATABASE_MAX_CONN: 256
          Capped,      \* 240, where fulmine and elysia stop dividing
          Headroom,    \* 8, what hono-bun leaves
          BananaTotal, \* 200, what bananabread divides
          FlatMax,     \* 4, the size of a pool that divides nothing
          MaxDeaths    \* bound on worker deaths

ASSUME PoolsAssumption ==
    /\ IsFiniteSet(Workers)
    /\ CpuSets \subseteq (SUBSET Workers) \ {{}}
    /\ MaxConn \in Nat /\ Capped \in Nat /\ Headroom \in Nat
    /\ BananaTotal \in Nat /\ FlatMax \in Nat \ {0} /\ MaxDeaths \in Nat
    /\ Capped <= MaxConn /\ Headroom < MaxConn /\ BananaTotal <= MaxConn

------------------------------------------------------------------------------
\* `Math.max(1, Math.floor(total / workers))'
\* Mutant: without the max.
ShareOfMany(total, n) == total \div n
Share(total, n) == IF total \div n >= 1 THEN total \div n ELSE 1

NodePool(n) == Share(MaxConn, n)
BunPool(n) == Share(MaxConn, n)
DenoPool(n) == Share(MaxConn, n)
HonoBunPool(n) == Share(MaxConn - Headroom, n)
ElysiaPool(n) == Share(Capped, n)
\* Mutant: the reserve is forgotten and the division rounds up.
FulminePoolRoundsUp(n) == Share(MaxConn + n - 1, n)
FulminePool(n) == Share(Capped, n)
BananaPool(n) == Share(BananaTotal, n)
\* pg-telaio's pipelines.  The one connection of the pool beside them is for queries
\* behind a stalled pipeline, and `stallMillis: false' never has one.
TunedPool(n) == Share(Capped, n)
ExpressPool(n) == FlatMax
HyperPool(n) == FlatMax
UltimatePool(n) == FlatMax
FastifyPool(n) == FlatMax

Pools(n) ==
    [node |-> NodePool(n), bun |-> BunPool(n), deno |-> DenoPool(n),
     hono_bun |-> HonoBunPool(n), elysia |-> ElysiaPool(n),
     fulmine |-> FulminePool(n), bananabread |-> BananaPool(n),
     fulmine_tuned |-> TunedPool(n), express |-> ExpressPool(n),
     hyper_express |-> HyperPool(n), ultimate_express |-> UltimatePool(n),
     fastify |-> FastifyPool(n)]

Names == DOMAIN Pools(1)
Size(name, n) == Pools(n)[name]

\* The entries whose pool is meant to divide one budget among the workers.
Dividing ==
    {"node", "bun", "deno", "hono_bun", "elysia", "fulmine", "fulmine_tuned", "bananabread"}

\* Nobody listens to the pool's `error' event here, and an event nobody listens
\* to is thrown.  Bun.SQL has no such event.
Unheard == {"fulmine", "fulmine_tuned", "fastify"}

\* The primary forks a new worker for one that died.
Reforks == {"fulmine", "fulmine_tuned"}

\* Several queries share a connection.
Pipelines == {"fulmine_tuned"}

------------------------------------------------------------------------------
VARIABLES entry,     \* the entry under load
          forked,    \* the workers it has forked
          alive,     \* those that run
          conns,     \* open connections: <<worker, place in its pool>>
          ghosts,    \* backends still in a query of a dead worker: <<connection, death>>
          req,       \* req[r]: where the query of slot r is
          deaths     \* workers that have died so far

vars == <<entry, forked, alive, conns, ghosts, req, deaths>>

Idle == [st |-> "idle", conn |-> None, worker |-> None]
PoolMax == Size(entry, Cardinality(forked))
Places == forked \X (1 .. PoolMax)

InState(st) == {r \in Requests : req[r].st = st}
Opening == {req[r].conn : r \in InState("opening")}
Used == {req[r].conn : r \in InState("running")}
Taken == Cardinality(conns) + Cardinality(ghosts)

\* The query of r goes on, on connection c.
Moves(r, st, c) ==
    req' = [req EXCEPT ![r] = [st |-> st, conn |-> c, worker |-> req[r].worker]]

\* Where worker w can run one more query.
Usable(w) ==
    {c \in conns : c[1] = w /\ (c \notin Used \/ entry \in Pipelines)}
\* Where it may open a connection.
Free(w) == {c \in Places \ (conns \cup Opening) : c[1] = w}

Init ==
    /\ entry \in Names
    /\ forked \in CpuSets
    /\ alive = forked
    /\ conns = {}
    /\ ghosts = {}
    /\ req = [r \in Requests |-> Idle]
    /\ deaths = 0

\* A request whose handler queries the pool reaches worker w.
Ask(r, w) ==
    /\ req[r] = Idle
    /\ w \in alive
    /\ req' = [req EXCEPT ![r] = [st |-> "waiting", conn |-> None, worker |-> w]]
    /\ UNCHANGED <<entry, forked, alive, conns, ghosts, deaths>>

CheckOut(r) ==
    /\ req[r].st = "waiting"
    /\ \E c \in Usable(req[r].worker) :
          Moves(r, "running", c)
    /\ UNCHANGED <<entry, forked, alive, conns, ghosts, deaths>>

\* `max' bounds the connections that are open or being opened.  Queries are spread over
\* the pipelines, so the first connection need not do for all of them.
Open(r) ==
    /\ req[r].st = "waiting"
    /\ Usable(req[r].worker) = {} \/ entry \in Pipelines
    /\ \E c \in Free(req[r].worker) :
          /\ \A d \in Free(req[r].worker) : c[2] <= d[2]
          /\ Moves(r, "opening", c)
    /\ UNCHANGED <<entry, forked, alive, conns, ghosts, deaths>>

\* Mutant: the connection is not counted under the pool it was opened for.
AcceptedBeside(r) ==
    /\ req[r].st = "opening"
    /\ Taken < MaxConn
    /\ conns' = conns \cup {<<req[r].worker, PoolMax + 1>>}
    /\ Moves(r, "running", req[r].conn)
    /\ UNCHANGED <<entry, forked, alive, ghosts, deaths>>

Accepted(r) ==
    /\ req[r].st = "opening"
    /\ Taken < MaxConn
    /\ conns' = conns \cup {req[r].conn}
    /\ Moves(r, "running", req[r].conn)
    /\ UNCHANGED <<entry, forked, alive, ghosts, deaths>>

\* `sorry, too many clients already': the handler's catch answers an empty list
\* or a 500, and the client cannot tell the first from a result.
TurnedAway(r) ==
    /\ req[r].st = "opening"
    /\ Taken >= MaxConn
    /\ req' = [req EXCEPT ![r] = Idle]
    /\ UNCHANGED <<entry, forked, alive, conns, ghosts, deaths>>

Finish(r) ==
    /\ req[r].st = "running"
    /\ req' = [req EXCEPT ![r] = Idle]
    /\ UNCHANGED <<entry, forked, alive, conns, ghosts, deaths>>

\* idleTimeoutMillis.
IdleOut(c) ==
    /\ c \in conns \ Used
    /\ conns' = conns \ {c}
    /\ UNCHANGED <<entry, forked, alive, ghosts, req, deaths>>

\* A connection is cut under its queries, which fail.
CutInUse(c) ==
    /\ c \in Used
    /\ conns' = conns \ {c}
    /\ req' = [r \in Requests |-> IF req[r].st = "running" /\ req[r].conn = c
                                  THEN Idle ELSE req[r]]
    /\ UNCHANGED <<entry, forked, alive, ghosts, deaths>>

\* A worker ends with its pool and its requests.  Postgres notices when it next
\* writes to the socket: a backend in the middle of a query stays until then.
Dies(w) ==
    /\ deaths < MaxDeaths
    /\ deaths' = deaths + 1
    /\ alive' = alive \ {w}
    /\ ghosts' = ghosts \cup {<<c, deaths>> : c \in {d \in Used : d[1] = w}}
    /\ conns' = {c \in conns : c[1] # w}
    /\ req' = [r \in Requests |-> IF req[r].worker = w THEN Idle ELSE req[r]]
    /\ UNCHANGED <<entry, forked>>

\* Mutant: nobody listens.
CutIdleUnheard(c) ==
    /\ c \in conns \ Used
    /\ Dies(c[1])

\* A connection nobody uses is cut: the pool emits `error', which `pgPool.on'
\* hears, and forgets the client.
CutIdle(c) ==
    /\ c \in conns \ Used
    /\ IF entry \in Unheard THEN Dies(c[1])
       ELSE /\ conns' = conns \ {c}
            /\ UNCHANGED <<entry, forked, alive, ghosts, req, deaths>>

GhostEnds(g) ==
    /\ g \in ghosts
    /\ ghosts' = ghosts \ {g}
    /\ UNCHANGED <<entry, forked, alive, conns, req, deaths>>

Refork(w) ==
    /\ entry \in Reforks
    /\ w \in forked \ alive
    /\ alive' = alive \cup {w}
    /\ UNCHANGED <<entry, forked, conns, ghosts, req, deaths>>

Serve(r) == CheckOut(r) \/ Open(r) \/ Accepted(r) \/ TurnedAway(r) \/ Finish(r)

Next ==
    \/ \E r \in Requests : Serve(r) \/ \E w \in Workers : Ask(r, w)
    \/ \E c \in conns : IdleOut(c) \/ CutIdle(c) \/ CutInUse(c)
    \/ \E g \in ghosts : GhostEnds(g)
    \/ \E w \in Workers : Refork(w)

\* A pool serves its waiting queries in the order they came, so none is passed
\* over for ever; a query ends; a primary that forks again gets round to it.
Fairness ==
    /\ \A r \in Requests : WF_vars(Finish(r)) /\ SF_vars(Serve(r))
    /\ \A w \in Workers : WF_vars(Refork(w))
Spec == Init /\ [][Next]_vars /\ Fairness
------------------------------------------------------------------------------
(* Every variable has the shape the actions give it, and a pool stays within
   its size. *)
TypeOK ==
    /\ entry \in Names
    /\ forked \in CpuSets
    /\ alive \subseteq forked
    /\ conns \subseteq Places
    /\ ghosts \subseteq Places \X (0 .. MaxDeaths)
    /\ req \in [Requests -> [st : {"idle", "waiting", "opening", "running"},
                              conn : Places \cup {None}, worker : forked \cup {None}]]
    /\ deaths \in 0 .. MaxDeaths

(* An entry that divides one budget among its workers ("sized so workers x perWorker
   stays under Postgres max_connections", fulmine says) is never told `too many
   clients', on any number of CPUs the budget has a connection for: all pools
   may be full at once.  (Just after a worker died its last queries still hold
   their backends.) *)
NeverTurnedAway ==
    (entry \in Dividing /\ Cardinality(forked) <= MaxConn /\ ghosts = {})
        => (InState("opening") # {} => Taken < MaxConn)

(* Every query ends, with rows, an error or the worker it ran in: none waits
   for ever for a pool that has no room for it. *)
EveryQueryEnds == \A r \in Requests : req[r].st # "idle" ~> req[r].st = "idle"

(* Connections that Postgres cuts cost an entry no worker for good: it hears of
   them, or its primary forks again.  fastify does neither. *)
WorkersComeBack == entry # "fastify" => <>[](alive = forked)
=============================================================================
