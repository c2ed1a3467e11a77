----------------------------- MODULE CrudEntries -----------------------------
(***************************************************************************)
(* The cache-aside /crud/items routes of the JavaScript entries.           *)
(*                                                                         *)
(* An entry runs several worker processes in front of one Postgres row per *)
(* item.  Each handler is given below as the sequence of what happens at   *)
(* its awaits, in the order of its source; the code after an await, up to  *)
(* the next one, is part of the step.  Requests of all workers interleave  *)
(* between any two steps.                                                  *)
(*   get     look the id up in the cache; answer the body found            *)
(*   select  read the row; 404 when there is none                          *)
(*   update  UPDATE the row            change  the same; 404 without a row *)
(*   found   404 when update met no row                                    *)
(*   insert  INSERT .. ON CONFLICT     reply   the answer to it arrives    *)
(*   del     delete the cached body    set     store it, awaited           *)
(*   send    store it and answer without waiting for the store             *)
(* Any awaited step may fail, which every entry answers with an error; the *)
(* write behind it may have happened all the same.  A body that does not   *)
(* parse fails the first statement.  An id that is no number and an entry  *)
(* without DATABASE_URL are answered before the first step and left out.   *)
(***************************************************************************)
EXTENDS Integers, Sequences, SequencesExt

CONSTANTS Requests,     \* request slots of the load generator
          Ids,          \* item ids
          Workers,      \* worker processes
          Shared,       \* the Redis sidecar, as a place to cache in
          None,
          CrudTtl,      \* CRUD_TTL_MS = 200, in ticks
          BananaTtl,    \* CACHE_TTL_MS = 1000, in ticks
          Lag,          \* bound: ticks a request may take, its store included
          MaxClock,     \* bound on the clock
          MaxVersions   \* bound on the versions of a row

ASSUME CrudAssumption ==
    /\ CrudTtl \in Nat /\ BananaTtl \in Nat /\ Lag \in Nat
    /\ MaxClock \in Nat /\ MaxVersions \in Nat \ {0}
    /\ Shared \notin Workers
ASSUME NoneAssumption == None \notin [id : Ids, at : Nat]

------------------------------------------------------------------------------
\* The handlers, as written.

CacheAside(store) == <<"get", "select", store>>
\* Mutant: the cached body goes before the row is written.
DeletesFirst == <<"del", "change", "reply">>
InvalidatingUpdate == <<"change", "del">>
Upsert == <<"insert", "reply">>

NodeRead == CacheAside("send")
NodeCreate == Upsert
NodeUpdate == InvalidatingUpdate

BunRead == CacheAside("send")
BunCreate == Upsert
BunUpdate == InvalidatingUpdate

DenoRead == CacheAside("send")
DenoCreate == Upsert
DenoUpdate == InvalidatingUpdate

ElysiaRead == CacheAside("send")
ElysiaCreate == Upsert
ElysiaUpdate == InvalidatingUpdate

ExpressRead == CacheAside("send")
ExpressCreate == Upsert
ExpressUpdate == InvalidatingUpdate

HyperRead == CacheAside("send")
HyperCreate == Upsert
HyperUpdate == InvalidatingUpdate

UltimateRead == CacheAside("send")
UltimateCreate == Upsert
UltimateUpdate == InvalidatingUpdate

FulmineRead == CacheAside("send")
FulmineCreate == Upsert
FulmineUpdate == InvalidatingUpdate
FulmineItemPost == InvalidatingUpdate      \* POST /api/items/:id

TunedRead == CacheAside("send")
TunedCreate == Upsert
TunedUpdate == InvalidatingUpdate
TunedItemPost == InvalidatingUpdate

HonoBunRead == CacheAside("set")
HonoBunCreate == Upsert
HonoBunUpdate == InvalidatingUpdate

\* bananabread invalidates after a create as well, before it looks at the
\* row count of an update, and reads the row back for the body of the answer.
BananaRead == CacheAside("set")
BananaCreate == <<"insert", "del">>
BananaUpdate == <<"update", "del", "found", "select">>

\* Where an entry caches: the sidecar when REDIS_URL is set; otherwise a map
\* of the worker's own, or nothing.
RedisOrNothing == {"redis", "none"}
RedisOrMap == {"redis", "map"}

Entry(read, create, update, ttl, store, reforks) ==
    [read |-> read, create |-> create, update |-> update,
     ttl |-> ttl, store |-> store, reforks |-> reforks]

NodeCrud == {Entry(NodeRead, NodeCreate, NodeUpdate, CrudTtl, s, FALSE) : s \in RedisOrNothing}
BunCrud == {Entry(BunRead, BunCreate, BunUpdate, CrudTtl, s, FALSE) : s \in RedisOrNothing}
DenoCrud == {Entry(DenoRead, DenoCreate, DenoUpdate, CrudTtl, s, FALSE) : s \in RedisOrNothing}
ElysiaCrud == {Entry(ElysiaRead, ElysiaCreate, ElysiaUpdate, CrudTtl, s, FALSE) : s \in RedisOrNothing}
ExpressCrud == {Entry(ExpressRead, ExpressCreate, ExpressUpdate, CrudTtl, s, FALSE) : s \in RedisOrNothing}
HyperCrud == {Entry(HyperRead, HyperCreate, HyperUpdate, CrudTtl, s, FALSE) : s \in RedisOrNothing}
UltimateCrud == {Entry(UltimateRead, UltimateCreate, UltimateUpdate, CrudTtl, s, FALSE) : s \in RedisOrNothing}
FulmineCrud == {Entry(FulmineRead, FulmineCreate, u, CrudTtl, s, TRUE) :
                    u \in {FulmineUpdate, FulmineItemPost}, s \in RedisOrMap}
TunedCrud == {Entry(TunedRead, TunedCreate, u, CrudTtl, s, TRUE) :
                    u \in {TunedUpdate, TunedItemPost}, s \in RedisOrMap}
HonoBunCrud == {Entry(HonoBunRead, HonoBunCreate, HonoBunUpdate, CrudTtl, s, FALSE) : s \in RedisOrMap}
BananaCrud == {Entry(BananaRead, BananaCreate, BananaUpdate, BananaTtl, s, FALSE) : s \in RedisOrMap}

Entries == UNION {NodeCrud, BunCrud, DenoCrud, ElysiaCrud, ExpressCrud, HyperCrud,
                  UltimateCrud, FulmineCrud, TunedCrud, HonoBunCrud, BananaCrud}

------------------------------------------------------------------------------
VARIABLES entry,    \* the entry under load and where it caches
          clock,
          since,    \* since[i][v]: the tick at which version v of row i began
          cache,    \* cache[p][i]: the body cached in place p for item i, or None
          alive,    \* the workers that run
          req,      \* req[r]: the request in slot r
          said,     \* the answer the last step sent to a client, if it sent one
          floor     \* floor[p][i]: the version an acknowledged update promised

vars == <<entry, clock, since, cache, alive, req, said, floor>>

Places == Workers \cup {Shared}
PlaceOf(w) == IF entry.store = "map" THEN w ELSE Shared
Row(i) == Len(since[i])

\* An empty slot.  `seen' is the version read, `from' a tick at which it was
\* current, `own' the version written, `must' the promise that held when a read
\* began, and `raced' tells an update that a read of an older version was
\* still on its way into the same cache.
Idle == [op |-> "idle", id |-> None, worker |-> None, todo |-> <<>>, seen |-> 0,
         from |-> 0, start |-> 0, own |-> 0, must |-> 0, raced |-> FALSE]

ARow(v) == [kind |-> "row", version |-> v]
Other(k) == [kind |-> k, version |-> 0]

Busy(r) == req[r].op \in {"read", "create", "update"}
Landing(r) == req[r].op = "landing"
At(r, step) == Busy(r) /\ req[r].todo # <<>> /\ Head(req[r].todo) = step

\* A worker has one connection to Redis: a command waits for those before it.
Pipelined(r) ==
    ~ \E q \in Requests \ {r} : Landing(q) /\ req[q].worker = req[r].worker

Finish(r, a) ==
    /\ req' = [req EXCEPT ![r] = Idle]
    /\ said' = [to |-> r, kind |-> a.kind, version |-> a.version]

\* The update q keeps its promise: a read of the same cache sees it from now on.
Promised(q) ==
    IF q.op = "update" /\ ~q.raced /\ q.own > floor[PlaceOf(q.worker)][q.id]
    THEN [floor EXCEPT ![PlaceOf(q.worker)][q.id] = q.own]
    ELSE floor

\* On to the next step of request r, now q, or to its answer after the last.
Advance(r, q) ==
    IF Tail(q.todo) # <<>>
    THEN req' = [req EXCEPT ![r] = [q EXCEPT !.todo = Tail(@)]] /\ said' = None /\ UNCHANGED floor
    ELSE /\ Finish(r, IF q.op = "read" THEN ARow(q.seen) ELSE Other("done"))
         /\ floor' = Promised(q)

NotFound(r) == Finish(r, ARow(0)) /\ UNCHANGED floor

------------------------------------------------------------------------------
Init ==
    /\ entry \in Entries
    /\ clock = 0
    /\ since \in [Ids -> {<<>>, <<0>>}]
    /\ cache = [p \in Places |-> [i \in Ids |-> None]]
    /\ alive = Workers
    /\ req = [r \in Requests |-> Idle]
    /\ said = None
    /\ floor = [p \in Places |-> [i \in Ids |-> 0]]

\* Mutant: expiry is never checked.
TickKeepsExpired ==
    /\ clock < MaxClock
    /\ \A r \in Requests : req[r].op # "idle" => clock < req[r].start + Lag
    /\ clock' = clock + 1
    /\ said' = None
    /\ UNCHANGED <<entry, since, cache, alive, req, floor>>

\* Time passes; Redis drops what has expired, and a map refuses it.
Tick ==
    /\ clock < MaxClock
    /\ \A r \in Requests : req[r].op # "idle" => clock < req[r].start + Lag
    /\ clock' = clock + 1
    /\ cache' = [p \in Places |-> [i \in Ids |->
                    IF cache[p][i] # None /\ cache[p][i].until <= clock + 1
                    THEN None ELSE cache[p][i]]]
    /\ said' = None
    /\ UNCHANGED <<entry, since, alive, req, floor>>

\* A client sends r to a worker, which the kernel chose.
Ask(r, op, i, w) ==
    /\ req[r].op = "idle"
    /\ w \in alive
    /\ req' = [req EXCEPT ![r] = [Idle EXCEPT !.op = op, !.id = i, !.worker = w,
                 !.todo = entry[op], !.start = clock,
                 !.must = IF op = "read" THEN floor[PlaceOf(w)][i] ELSE 0]]
    /\ said' = None
    /\ UNCHANGED <<entry, clock, since, cache, alive, floor>>

\* `if (hit) return ..'
CacheGet(r) ==
    /\ At(r, "get")
    /\ Pipelined(r)
    /\ LET q == req[r]
           hit == IF entry.store = "none" THEN None
                  ELSE cache[PlaceOf(q.worker)][q.id]
       IN IF hit # None THEN Finish(r, ARow(hit.version)) /\ UNCHANGED floor
          ELSE Advance(r, q)
    /\ UNCHANGED <<entry, clock, since, cache, alive>>

\* `if (rows.length === 0) return 404'
Select(r) ==
    /\ At(r, "select")
    /\ LET i == req[r].id IN
       IF Row(i) = 0 THEN NotFound(r)
       ELSE Advance(r, [req[r] EXCEPT !.seen = Row(i), !.from = clock])
    /\ UNCHANGED <<entry, clock, since, cache, alive>>

\* A statement whose reply may be lost after it has run: the handler then goes
\* to its catch, `raise'.
NewVersion(r, ok) ==
    LET q == req[r]
        new == Row(q.id) + 1
        behind == {o \in Requests \ {r} :
                      /\ req[o].op \in {"read", "landing"}
                      /\ req[o].id = q.id /\ req[o].seen # 0
                      /\ PlaceOf(req[o].worker) = PlaceOf(q.worker)}
    IN  /\ Row(q.id) < MaxVersions
        /\ since' = [since EXCEPT ![q.id] = Append(@, clock)]
        /\ req' = [req EXCEPT ![r] =
                     [q EXCEPT !.todo = IF ok THEN Tail(@) ELSE <<"raise">>,
                               !.seen = new, !.own = new, !.from = clock,
                               !.raced = behind # {}]]
        /\ said' = None
        /\ UNCHANGED <<entry, clock, cache, alive, floor>>

Write(r, ok) ==
    /\ \E s \in {"insert", "change", "update"} :
          At(r, s) /\ (s = "insert" \/ Row(req[r].id) # 0)
    /\ NewVersion(r, ok)

\* `if (r.rowCount === 0) return 404': there was nothing to update.
UpdateNothing(r) ==
    /\ \/ At(r, "change") /\ Row(req[r].id) = 0 /\ NotFound(r)
       \/ At(r, "update") /\ Row(req[r].id) = 0 /\ Advance(r, req[r])
    /\ UNCHANGED <<entry, clock, since, cache, alive>>

Found(r) ==
    /\ At(r, "found")
    /\ IF req[r].own = 0 THEN NotFound(r) ELSE Advance(r, req[r])
    /\ UNCHANGED <<entry, clock, since, cache, alive>>

Reply(r) ==
    /\ At(r, "reply")
    /\ Advance(r, req[r])
    /\ UNCHANGED <<entry, clock, since, cache, alive>>

Del(r) ==
    /\ At(r, "del")
    /\ Pipelined(r)
    /\ cache' = [cache EXCEPT ![PlaceOf(req[r].worker)][req[r].id] = None]
    /\ Advance(r, req[r])
    /\ UNCHANGED <<entry, clock, since, alive>>

BodyWithoutTtl(q) == [version |-> q.seen, until |-> MaxClock + 1, from |-> q.from]
Body(q) == [version |-> q.seen, until |-> clock + entry.ttl, from |-> q.from]
Stored(q) ==
    IF entry.store = "none" \/ entry.ttl = 0 THEN cache
    ELSE [cache EXCEPT ![PlaceOf(q.worker)][q.id] = Body(q)]

Set(r) ==
    /\ At(r, "set")
    /\ Pipelined(r)
    /\ cache' = Stored(req[r])
    /\ Advance(r, req[r])
    /\ UNCHANGED <<entry, clock, since, alive>>

\* The answer leaves while the store is still under way.  A map is written on
\* the spot, and without a cache there is nothing to store.
Send(r) ==
    /\ At(r, "send")
    /\ said' = [to |-> r, kind |-> "row", version |-> req[r].seen]
    /\ IF entry.store = "redis"
       THEN req' = [req EXCEPT ![r] = [@ EXCEPT !.op = "landing"]] /\ UNCHANGED cache
       ELSE req' = [req EXCEPT ![r] = Idle] /\ cache' = Stored(req[r])
    /\ UNCHANGED <<entry, clock, since, alive, floor>>

Land(r) ==
    /\ Landing(r)
    /\ cache' = Stored(req[r])
    /\ req' = [req EXCEPT ![r] = Idle]
    /\ said' = None
    /\ UNCHANGED <<entry, clock, since, alive, floor>>

\* `catch { return dbError(..) }', or the framework's own error page.  A
\* command may have reached Redis before its reply was lost.
Fail(r) ==
    /\ \/ /\ \E s \in {"select", "insert", "update", "change", "raise"} : At(r, s)
          /\ UNCHANGED cache
       \/ /\ entry.store = "redis"
          /\ \/ At(r, "get") /\ UNCHANGED cache
             \/ At(r, "del") /\ cache' \in
                    {cache, [cache EXCEPT ![Shared][req[r].id] = None]}
             \/ At(r, "set") /\ cache' \in {cache, Stored(req[r])}
    /\ Finish(r, Other("error"))
    /\ UNCHANGED <<entry, clock, since, alive, floor>>

\* The store nobody awaits is rejected: no handler catches it, and the runtime
\* may end the process over it, with every request that process was serving.
Rejected(r, dies) ==
    /\ Landing(r)
    /\ cache' \in {cache, Stored(req[r])}
    /\ LET w == req[r].worker
           gone == {q \in Requests : req[q].op # "idle" /\ req[q].worker = w}
       IN IF dies
          THEN /\ alive' = alive \ {w}
               /\ req' = [q \in Requests |-> IF q \in gone THEN Idle ELSE req[q]]
          ELSE req' = [req EXCEPT ![r] = Idle] /\ UNCHANGED alive
    /\ said' = None
    /\ UNCHANGED <<entry, clock, since, floor>>

\* fulmine's primary restarts a worker that died; the other primaries fork once.
Refork(w) ==
    /\ entry.reforks
    /\ w \notin alive
    /\ alive' = alive \cup {w}
    /\ cache' = [cache EXCEPT ![w] = [i \in Ids |-> None]]
    /\ floor' = [floor EXCEPT ![w] = [i \in Ids |-> 0]]
    /\ said' = None
    /\ UNCHANGED <<entry, clock, since, req>>

Serve(r) ==
    \/ CacheGet(r) \/ Select(r) \/ UpdateNothing(r) \/ Found(r) \/ Reply(r)
    \/ Del(r) \/ Set(r) \/ Send(r) \/ Land(r) \/ Fail(r)
    \/ \E ok \in BOOLEAN : Write(r, ok)
    \/ \E dies \in BOOLEAN : Rejected(r, dies)

Next ==
    \/ Tick
    \/ \E w \in Workers : Refork(w)
    \/ \E r \in Requests :
          \/ \E op \in {"read", "create", "update"}, i \in Ids, w \in Workers : Ask(r, op, i, w)
          \/ Serve(r)

Spec == Init /\ [][Next]_vars
------------------------------------------------------------------------------
(* Every variable has the shape the actions give it. *)
Step == {"get", "select", "update", "change", "found", "insert", "reply", "del", "set",
         "send", "raise"}
Version == 0 .. MaxVersions
Request == [op : {"idle", "read", "create", "update", "landing"}, id : Ids \cup {None},
            worker : Workers \cup {None}, todo : Seq(Step), seen : Version, from : Nat,
            start : Nat, own : Version, must : Version, raced : BOOLEAN]
CachedBody == [version : Version, until : Nat, from : Nat]
Answers == [to : Requests, kind : {"row", "done", "error"}, version : Version]

TypeOK ==
    /\ entry \in Entries
    /\ clock \in Nat
    /\ since \in [Ids -> Seq(Nat)]
    /\ \A i \in Ids : Row(i) <= MaxVersions
    /\ cache \in [Places -> [Ids -> CachedBody \cup {None}]]
    /\ alive \subseteq Workers
    /\ req \in [Requests -> Request]
    /\ said \in Answers \cup {None}
    /\ floor \in [Places -> [Ids -> Version]]

(* An update that was acknowledged is seen by every read of the same cache
   that begins afterwards, unless a read of an older row was already on its
   way into that cache when the row was written (the race cache-aside has). *)
UpdateIsSeen ==
    [][\A r \in Requests :
         (req[r].op = "read" /\ said' # None)
            => (said'.to = r /\ said'.kind = "row" => said'.version >= req[r].must)]_vars

(* Whatever fails, and whatever overtakes what, a body the row has moved past
   leaves the cache within the TTL and the time one request may take: the
   comment "a long TTL would answer from a copy the writes have already moved
   past" is about this bound. *)
StaleBodiesExpire ==
    \A p \in Places, i \in Ids :
        LET b == cache[p][i] IN
        b # None /\ b.version < Row(i) => clock < since[i][b.version + 1] + entry.ttl + Lag

(* The routes keep the promise of BoundedStaleReads: no answer shows a row
   older than the TTL and one request's time before the read began. *)
Promise == INSTANCE BoundedStaleReads WITH
    window <- entry.ttl + Lag,
    asked <- [r \in Requests |->
                IF Busy(r) THEN [id |-> req[r].id, at |-> req[r].start] ELSE None]
KeepsPromise == Promise!Spec
=============================================================================
