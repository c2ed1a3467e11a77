------------------------ MODULE CrudEntriesProofs ------------------------
(***************************************************************************)
(* What holds of the cached item routes for any number of requests, items,  *)
(* workers and versions, and any TTL: how stale a cached body can get, that *)
(* the handlers implement BoundedStaleReads, that an acknowledged update is *)
(* seen, and types.                                                         *)
(***************************************************************************)
EXTENDS CrudEntries, TLAPS

------------------------------------------------------------------------------
(* The handlers' steps: what can be left to do of a read and of a write. *)
ReadTodo == {<<"get", "select", "send">>, <<"get", "select", "set">>,
             <<"select", "send">>, <<"select", "set">>, <<"send">>, <<"set">>}
StoreTodo == {<<"send">>, <<"set">>}
WriteTodo == {<<"insert", "reply">>, <<"reply">>, <<"raise">>, <<"insert", "del">>, <<"del">>,
              <<"change", "del">>, <<"update", "del", "found", "select">>,
              <<"del", "found", "select">>, <<"found", "select">>, <<"select">>}
\* Of bananabread's update, between its statement and its row count.
FoundTodo == {<<"del", "found", "select">>, <<"found", "select">>}

LEMMA ReadSteps ==
    ASSUME NEW t \in ReadTodo
    PROVE  /\ t # <<>> /\ Head(t) \in {"get", "select", "send", "set"}
           /\ Head(t) = "get" => Tail(t) \in ReadTodo \ StoreTodo /\ Tail(t) # <<>>
           /\ Head(t) = "select" => Tail(t) \in StoreTodo /\ Tail(t) # <<>>
           /\ Head(t) \in {"send", "set"} <=> t \in StoreTodo
           /\ t \in StoreTodo => Tail(t) = <<>>
<1>. USE DEF ReadTodo, StoreTodo
<1>1. CASE t = <<"get", "select", "send">>
  <2>1. Head(t) = "get" /\ Tail(t) = <<"select", "send">> /\ Len(t) = 3
    BY <1>1
  <2>. QED  BY <2>1, <1>1
<1>2. CASE t = <<"get", "select", "set">>
  <2>1. Head(t) = "get" /\ Tail(t) = <<"select", "set">> /\ Len(t) = 3
    BY <1>2
  <2>. QED  BY <2>1, <1>2
<1>3. CASE t = <<"select", "send">>
  <2>1. Head(t) = "select" /\ Tail(t) = <<"send">> /\ Len(t) = 2
    BY <1>3
  <2>. QED  BY <2>1, <1>3
<1>4. CASE t = <<"select", "set">>
  <2>1. Head(t) = "select" /\ Tail(t) = <<"set">> /\ Len(t) = 2
    BY <1>4
  <2>. QED  BY <2>1, <1>4
<1>5. CASE t = <<"send">>
  <2>1. Head(t) = "send" /\ Tail(t) = <<>> /\ Len(t) = 1
    BY <1>5
  <2>. QED  BY <2>1, <1>5
<1>6. CASE t = <<"set">>
  <2>1. Head(t) = "set" /\ Tail(t) = <<>> /\ Len(t) = 1
    BY <1>6
  <2>. QED  BY <2>1, <1>6
<1>. QED  BY <1>1, <1>2, <1>3, <1>4, <1>5, <1>6

LEMMA WriteSteps ==
    ASSUME NEW t \in WriteTodo
    PROVE  /\ t # <<>> /\ Head(t) \notin {"get", "send", "set"}
           /\ Tail(t) # <<>> => Tail(t) \in WriteTodo
           /\ Tail(t) \in FoundTodo => Head(t) = "update" \/ t \in FoundTodo
           /\ Head(t) = "found" => t \in FoundTodo
           /\ Head(t) \in {"insert", "change", "update"} => Tail(t) # <<>>
<1>. USE DEF WriteTodo, FoundTodo
<1>1. CASE t = <<"insert", "reply">>
  <2>1. Head(t) = "insert" /\ Tail(t) = <<"reply">> /\ Len(t) = 2
    BY <1>1
  <2>. QED  BY <2>1, <1>1
<1>2. CASE t = <<"reply">>
  <2>1. Head(t) = "reply" /\ Tail(t) = <<>> /\ Len(t) = 1
    BY <1>2
  <2>. QED  BY <2>1, <1>2
<1>3. CASE t = <<"raise">>
  <2>1. Head(t) = "raise" /\ Tail(t) = <<>> /\ Len(t) = 1
    BY <1>3
  <2>. QED  BY <2>1, <1>3
<1>4. CASE t = <<"insert", "del">>
  <2>1. Head(t) = "insert" /\ Tail(t) = <<"del">> /\ Len(t) = 2
    BY <1>4
  <2>. QED  BY <2>1, <1>4
<1>5. CASE t = <<"del">>
  <2>1. Head(t) = "del" /\ Tail(t) = <<>> /\ Len(t) = 1
    BY <1>5
  <2>. QED  BY <2>1, <1>5
<1>6. CASE t = <<"change", "del">>
  <2>1. Head(t) = "change" /\ Tail(t) = <<"del">> /\ Len(t) = 2
    BY <1>6
  <2>. QED  BY <2>1, <1>6
<1>7. CASE t = <<"update", "del", "found", "select">>
  <2>1. Head(t) = "update" /\ Tail(t) = <<"del", "found", "select">> /\ Len(t) = 4
    BY <1>7
  <2>. QED  BY <2>1, <1>7
<1>8. CASE t = <<"del", "found", "select">>
  <2>1. Head(t) = "del" /\ Tail(t) = <<"found", "select">> /\ Len(t) = 3
    BY <1>8
  <2>. QED  BY <2>1, <1>8
<1>9. CASE t = <<"found", "select">>
  <2>1. Head(t) = "found" /\ Tail(t) = <<"select">> /\ Len(t) = 2
    BY <1>9
  <2>. QED  BY <2>1, <1>9
<1>10. CASE t = <<"select">>
  <2>1. Head(t) = "select" /\ Tail(t) = <<>> /\ Len(t) = 1
    BY <1>10
  <2>. QED  BY <2>1, <1>10
<1>. QED  BY <1>1, <1>2, <1>3, <1>4, <1>5, <1>6, <1>7, <1>8, <1>9, <1>10

LEMMA EntryShape ==
    ASSUME NEW e \in Entries
    PROVE  /\ e.ttl \in Nat
           /\ e["read"] \in ReadTodo \ StoreTodo
           /\ e["create"] \in WriteTodo \ FoundTodo /\ e["update"] \in WriteTodo \ FoundTodo
<1>. USE CrudAssumption
     DEF ReadTodo, StoreTodo, WriteTodo, FoundTodo, CacheAside, InvalidatingUpdate, Upsert, Entry
<1>1. CASE e \in NodeCrud
  BY <1>1 DEF NodeCrud, NodeRead, NodeCreate, NodeUpdate
<1>2. CASE e \in BunCrud
  BY <1>2 DEF BunCrud, BunRead, BunCreate, BunUpdate
<1>3. CASE e \in DenoCrud
  BY <1>3 DEF DenoCrud, DenoRead, DenoCreate, DenoUpdate
<1>4. CASE e \in ElysiaCrud
  BY <1>4 DEF ElysiaCrud, ElysiaRead, ElysiaCreate, ElysiaUpdate
<1>5. CASE e \in ExpressCrud
  BY <1>5 DEF ExpressCrud, ExpressRead, ExpressCreate, ExpressUpdate
<1>6. CASE e \in HyperCrud
  BY <1>6 DEF HyperCrud, HyperRead, HyperCreate, HyperUpdate
<1>7. CASE e \in UltimateCrud
  BY <1>7 DEF UltimateCrud, UltimateRead, UltimateCreate, UltimateUpdate
<1>8. CASE e \in FulmineCrud
  BY <1>8 DEF FulmineCrud, FulmineRead, FulmineCreate, FulmineUpdate, FulmineItemPost
<1>9. CASE e \in TunedCrud
  BY <1>9 DEF TunedCrud, TunedRead, TunedCreate, TunedUpdate, TunedItemPost
<1>10. CASE e \in HonoBunCrud
  BY <1>10 DEF HonoBunCrud, HonoBunRead, HonoBunCreate, HonoBunUpdate
<1>11. CASE e \in BananaCrud
  BY <1>11 DEF BananaCrud, BananaRead, BananaCreate, BananaUpdate
<1>. QED
  BY <1>1, <1>2, <1>3, <1>4, <1>5, <1>6, <1>7, <1>8, <1>9, <1>10, <1>11 DEF Entries

------------------------------------------------------------------------------
(* A request q at tick t, with the rows' histories s.  What it has seen was
   current at some tick of its own life, and what it stores it has seen. *)
Good(q, t, s) ==
    /\ q.op \in {"idle", "read", "create", "update", "landing"}
    /\ q.op # "idle" =>
          /\ q.id \in Ids /\ q.worker \in Workers /\ q.start \in Nat /\ q.seen \in Nat
          /\ q.start <= t /\ t <= q.start + Lag /\ q.seen <= Len(s[q.id])
          /\ q.seen # 0 =>
                /\ q.from \in Nat /\ q.start <= q.from /\ q.from <= t
                /\ q.seen < Len(s[q.id]) => q.from <= s[q.id][q.seen + 1]
    /\ q.op = "read" => q.todo \in ReadTodo /\ (q.todo \in StoreTodo => q.seen # 0)
    /\ q.op \in {"create", "update"} => q.todo \in WriteTodo
    /\ q.op = "landing" => q.seen # 0
    /\ q.op \in {"create", "update"} /\ q.todo \in FoundTodo /\ q.own = 0 /\ Len(s[q.id]) # 0 =>
          q.start <= s[q.id][1]

(* A cached body b at tick t of a row with history h, which may be kept for w
   ticks after the row was read. *)
Kept(b, t, w, h) ==
    /\ b.version \in Nat /\ b.from \in Nat /\ b.until \in Nat
    /\ b.version <= Len(h)
    /\ b.from <= t /\ t < b.until /\ b.until <= b.from + w
    /\ b.version < Len(h) => b.from <= h[b.version + 1]

Histories == [Ids -> Seq(Nat)]

LEMMA GoodIdle == \A t, s : Good(Idle, t, s)
  BY DEF Good, Idle

LEMMA GoodTick ==
    ASSUME NEW q, NEW t \in Nat, NEW s \in Histories, Good(q, t, s),
           q.op # "idle" => t < q.start + Lag
    PROVE  Good(q, t + 1, s)
  BY CrudAssumption DEF Good

LEMMA GoodWrite ==
    ASSUME NEW q, NEW t \in Nat, NEW s \in Histories, NEW i \in Ids, Good(q, t, s)
    PROVE  Good(q, t, [s EXCEPT ![i] = Append(@, t)])
<1>. DEFINE n == [s EXCEPT ![i] = Append(@, t)]
<1>1. \A j \in Ids : /\ Len(s[j]) \in Nat
                     /\ Len(n[j]) = IF j = i THEN Len(s[j]) + 1 ELSE Len(s[j])
                     /\ \A k \in 1 .. Len(s[j]) : n[j][k] = s[j][k] /\ s[j][k] \in Nat
                     /\ j = i => n[j][Len(s[j]) + 1] = t
  BY DEF Histories
<1>. HIDE DEF n
<1>2. CASE q.op = "idle"
  BY <1>2 DEF Good
<1>3. CASE q.op # "idle"
  <2>1. /\ q.id \in Ids /\ q.worker \in Workers /\ q.start \in Nat /\ q.seen \in Nat
        /\ q.start <= t /\ t <= q.start + Lag /\ q.seen <= Len(s[q.id])
        /\ q.seen # 0 =>
              /\ q.from \in Nat /\ q.start <= q.from /\ q.from <= t
              /\ q.seen < Len(s[q.id]) => q.from <= s[q.id][q.seen + 1]
    BY <1>3 DEF Good
  <2>2. q.seen <= Len(n[q.id])
    BY <1>1, <2>1
  <2>3. ASSUME q.seen # 0, q.seen < Len(n[q.id])
        PROVE  q.from <= n[q.id][q.seen + 1]
    <3>1. CASE q.seen < Len(s[q.id])
      <4>1. q.seen + 1 \in 1 .. Len(s[q.id])
        BY <1>1, <2>1, <3>1
      <4>. QED  BY <1>1, <2>1, <2>3, <3>1, <4>1
    <3>2. CASE q.seen = Len(s[q.id])
      BY <1>1, <2>1, <2>3, <3>2
    <3>. QED  BY <1>1, <2>1, <3>1, <3>2
  <2>4. ASSUME Len(s[q.id]) # 0 => q.start <= s[q.id][1]
        PROVE  Len(n[q.id]) # 0 => q.start <= n[q.id][1]
    BY <1>1, <2>1, <2>4
  <2>. QED  BY <1>3, <2>1, <2>2, <2>3, <2>4 DEF Good
<1>. QED  BY <1>2, <1>3 DEF n

LEMMA KeptTick ==
    ASSUME NEW b, NEW t \in Nat, NEW w, NEW h, Kept(b, t, w, h), ~ b.until <= t + 1
    PROVE  Kept(b, t + 1, w, h)
  BY DEF Kept

LEMMA KeptWrite ==
    ASSUME NEW b, NEW t \in Nat, NEW w \in Nat, NEW h \in Seq(Nat), Kept(b, t, w, h)
    PROVE  Kept(b, t, w, Append(h, t))
  BY DEF Kept

------------------------------------------------------------------------------
(* The inductive invariant. *)
Window == entry.ttl + Lag
TimeShape == entry \in Entries /\ clock \in Nat /\ since \in Histories
ReqShape == DOMAIN req = Requests /\ \A r \in Requests : DOMAIN req[r] = DOMAIN Idle
CacheShape == DOMAIN cache = Places /\ \A p \in Places : DOMAIN cache[p] = Ids
ReqInv == \A r \in Requests : Good(req[r], clock, since)
CacheInv ==
    \A p \in Places, i \in Ids :
        cache[p][i] # None => Kept(cache[p][i], clock, Window, since[i])
IInv == TimeShape /\ ReqShape /\ CacheShape /\ ReqInv /\ CacheInv

(* Steps that leave the clock, the rows and the entry alone. *)
Still == UNCHANGED <<entry, clock, since>>
OneCell(c) ==
    \/ c = cache
    \/ \E p \in Places, i \in Ids :
          \E x : /\ x = None \/ Kept(x, clock, Window, since[i])
                /\ c = [cache EXCEPT ![p][i] = x]

LEMMA PlaceIsPlace == \A w \in Workers : PlaceOf(w) \in Places
  BY DEF PlaceOf, Places

LEMMA OneCellKept ==
    ASSUME IInv, Still, OneCell(cache')
    PROVE  CacheShape' /\ CacheInv'
<1>1. CASE cache' = cache
  BY <1>1 DEF IInv, CacheShape, CacheInv, Window, Still, Places
<1>2. ASSUME NEW p \in Places, NEW i \in Ids, NEW x,
             x = None \/ Kept(x, clock, Window, since[i]),
             cache' = [cache EXCEPT ![p][i] = x]
      PROVE  CacheShape' /\ CacheInv'
  <2>1. \A o \in Places, j \in Ids : cache'[o][j] = IF o = p /\ j = i THEN x ELSE cache[o][j]
    BY <1>2 DEF IInv, CacheShape
  <2>2. CacheShape'
    BY <1>2 DEF IInv, CacheShape, Places
  <2>. QED  BY <1>2, <2>1, <2>2 DEF IInv, CacheInv, Window, Still, Places
<1>. QED  BY <1>1, <1>2 DEF OneCell

LEMMA OneRequestGood ==
    ASSUME IInv, Still, NEW r \in Requests, NEW n, DOMAIN n = DOMAIN Idle,
           Good(n, clock, since), req' = [req EXCEPT ![r] = n]
    PROVE  ReqShape' /\ ReqInv'
<1>1. \A q \in Requests : req'[q] = IF q = r THEN n ELSE req[q]
  BY DEF IInv, ReqShape
<1>. QED  BY <1>1 DEF IInv, ReqShape, ReqInv, Still, Idle

LEMMA StoredCell ==
    ASSUME IInv, NEW r \in Requests, req[r].op # "idle", req[r].seen # 0
    PROVE  OneCell(Stored(req[r]))
<1>. DEFINE q == req[r]
<1>1. Good(q, clock, since)
  BY DEF IInv, ReqInv
<1>2. /\ q.id \in Ids /\ q.worker \in Workers /\ q.start \in Nat /\ q.seen \in Nat
      /\ clock <= q.start + Lag /\ q.seen <= Len(since[q.id])
      /\ q.from \in Nat /\ q.start <= q.from /\ q.from <= clock
      /\ q.seen < Len(since[q.id]) => q.from <= since[q.id][q.seen + 1]
  BY <1>1 DEF Good
<1>3. entry.ttl \in Nat /\ clock \in Nat /\ Lag \in Nat
  BY EntryShape, CrudAssumption DEF IInv, TimeShape
<1>4. entry.ttl # 0 => Kept(Body(q), clock, Window, since[q.id])
  <2>1. /\ Body(q).version = q.seen /\ Body(q).from = q.from
        /\ Body(q).until = clock + entry.ttl
    BY DEF Body
  <2>. HIDE DEF q
  <2>. QED  BY <1>2, <1>3, <2>1 DEF Kept, Window
<1>5. PlaceOf(q.worker) \in Places
  BY <1>2, PlaceIsPlace
<1>. QED  BY <1>2, <1>4, <1>5 DEF OneCell, Stored

------------------------------------------------------------------------------
(* What is known of a busy request. *)
LEMMA BusyFacts ==
    ASSUME IInv, NEW r \in Requests, Busy(r)
    PROVE  /\ Good(req[r], clock, since)
           /\ DOMAIN req[r] = DOMAIN Idle
           /\ req[r].id \in Ids /\ req[r].worker \in Workers /\ req[r].own = req[r].own
           /\ req[r].start \in Nat /\ req[r].start <= clock /\ clock <= req[r].start + Lag
           /\ clock \in Nat
           /\ req[r].op = "read" => req[r].todo \in ReadTodo
           /\ req[r].op # "read" => req[r].todo \in WriteTodo
           /\ Row(req[r].id) \in Nat
  BY DEF IInv, ReqInv, ReqShape, TimeShape, Histories, Good, Busy, Row

(* On to the next step, or to the answer. *)
LEMMA AdvanceGood ==
    ASSUME IInv, Still, NEW r \in Requests, Busy(r), NEW q, DOMAIN q = DOMAIN Idle,
           Good(q, clock, since), q.op \in {"read", "create", "update"}, Advance(r, q),
           q.op = "read" /\ Tail(q.todo) # <<>> =>
                /\ Tail(q.todo) \in ReadTodo
                /\ Tail(q.todo) \in StoreTodo => q.seen # 0,
           q.op # "read" /\ Tail(q.todo) \in FoundTodo /\ q.own = 0 /\ Len(since[q.id]) # 0 =>
                q.start <= since[q.id][1]
    PROVE  ReqShape' /\ ReqInv'
<1>1. CASE Tail(q.todo) # <<>>
  <2>. DEFINE n == [q EXCEPT !.todo = Tail(@)]
  <2>1. req' = [req EXCEPT ![r] = n]
    BY <1>1 DEF Advance
  <2>2. /\ DOMAIN n = DOMAIN Idle /\ n.todo = Tail(q.todo) /\ n.op = q.op /\ n.id = q.id
        /\ n.worker = q.worker /\ n.seen = q.seen /\ n.from = q.from /\ n.start = q.start
        /\ n.own = q.own
    BY DEF Idle
  <2>3. q.op # "read" => Tail(q.todo) \in WriteTodo
    <3>1. q.op # "read" => q.todo \in WriteTodo
      BY DEF Good
    <3>. QED  BY <1>1, <3>1, WriteSteps
  <2>. HIDE DEF n
  <2>4. Good(n, clock, since)
    BY <1>1, <2>2, <2>3 DEF Good
  <2>. QED  BY <2>1, <2>2, <2>4, OneRequestGood
<1>2. CASE Tail(q.todo) = <<>>
  <2>1. req' = [req EXCEPT ![r] = Idle]
    BY <1>2 DEF Advance, Finish
  <2>. QED  BY <2>1, GoodIdle, OneRequestGood
<1>. QED  BY <1>1, <1>2

LEMMA IdleGood ==
    ASSUME IInv, Still, NEW r \in Requests, req' = [req EXCEPT ![r] = Idle]
    PROVE  ReqShape' /\ ReqInv'
  BY GoodIdle, OneRequestGood

------------------------------------------------------------------------------
(* The steps of a handler. *)
LEMMA StepCacheGet ==
    ASSUME IInv, NEW r \in Requests, CacheGet(r)
    PROVE  IInv'
<1>1. Still /\ OneCell(cache') /\ TimeShape'
  BY DEF CacheGet, Still, OneCell, IInv, TimeShape
<1>2. Busy(r) /\ Head(req[r].todo) = "get"
  BY DEF CacheGet, At
<1>3. req[r].op = "read" /\ Tail(req[r].todo) \in ReadTodo \ StoreTodo
  BY <1>2, BusyFacts, ReadSteps, WriteSteps
<1>4. ASSUME Advance(r, req[r])
      PROVE  ReqShape' /\ ReqInv'
  BY <1>1, <1>2, <1>3, <1>4, BusyFacts, AdvanceGood
<1>5. ASSUME req' = [req EXCEPT ![r] = Idle]
      PROVE  ReqShape' /\ ReqInv'
  BY <1>1, <1>5, IdleGood
<1>6. ReqShape' /\ ReqInv'
  BY <1>4, <1>5 DEF CacheGet, Finish
<1>. QED  BY <1>1, <1>6, OneCellKept DEF IInv

LEMMA StepSelect ==
    ASSUME IInv, NEW r \in Requests, Select(r)
    PROVE  IInv'
<1>. DEFINE q == [req[r] EXCEPT !.seen = Row(req[r].id), !.from = clock]
<1>1. Still /\ OneCell(cache') /\ TimeShape'
  BY DEF Select, Still, OneCell, IInv, TimeShape
<1>2. Busy(r) /\ Head(req[r].todo) = "select"
  BY DEF Select, At
<1>3. ASSUME Row(req[r].id) = 0
      PROVE  ReqShape' /\ ReqInv'
  BY <1>1, <1>3, IdleGood DEF Select, NotFound, Finish
<1>4. ASSUME Row(req[r].id) # 0
      PROVE  ReqShape' /\ ReqInv'
  <2>1. Advance(r, q)
    BY <1>4 DEF Select
  <2>2. /\ DOMAIN q = DOMAIN Idle /\ q.seen = Row(req[r].id) /\ q.from = clock
        /\ q.op = req[r].op /\ q.id = req[r].id /\ q.worker = req[r].worker
        /\ q.todo = req[r].todo /\ q.start = req[r].start /\ q.own = req[r].own
    BY <1>2, BusyFacts DEF Idle
  <2>. HIDE DEF q
  <2>3. Good(q, clock, since)
    BY <1>2, <1>4, <2>2, BusyFacts DEF Good, Row
  <2>4. q.op = "read" => Tail(q.todo) \in StoreTodo /\ Tail(q.todo) \in ReadTodo
    BY <1>2, <2>2, BusyFacts, ReadSteps DEF StoreTodo, ReadTodo
  <2>5. q.op # "read" => (Tail(q.todo) \in FoundTodo => q.todo \in FoundTodo)
    BY <1>2, <2>2, BusyFacts, WriteSteps
  <2>6. q.op \in {"read", "create", "update"}
    BY <1>2, <2>2 DEF Busy
  <2>7. q.op # "read" /\ Tail(q.todo) \in FoundTodo /\ q.own = 0 /\ Len(since[q.id]) # 0 =>
                q.start <= since[q.id][1]
    BY <2>3, <2>5, <2>6 DEF Good
  <2>. QED  BY <1>1, <1>2, <1>4, <2>1, <2>2, <2>3, <2>4, <2>6, <2>7, AdvanceGood
<1>5. ReqShape' /\ ReqInv'
  BY <1>3, <1>4
<1>. QED  BY <1>1, <1>5, OneCellKept DEF IInv

(* A step of a write that only goes on. *)
LEMMA WriteGoesOn ==
    ASSUME IInv, Still, NEW r \in Requests, Busy(r), Advance(r, req[r]),
           Head(req[r].todo) \in {"found", "reply", "del"}
    PROVE  ReqShape' /\ ReqInv'
<1>1. req[r].op # "read" /\ req[r].todo \in WriteTodo
  BY BusyFacts, ReadSteps
<1>2. Tail(req[r].todo) \in FoundTodo => req[r].todo \in FoundTodo
  BY <1>1, WriteSteps
<1>3. Good(req[r], clock, since) /\ DOMAIN req[r] = DOMAIN Idle
  BY BusyFacts
<1>4. Tail(req[r].todo) \in FoundTodo /\ req[r].own = 0 /\ Len(since[req[r].id]) # 0 =>
          req[r].start <= since[req[r].id][1]
  BY <1>1, <1>2, <1>3 DEF Good, Busy
<1>. QED  BY <1>1, <1>3, <1>4, AdvanceGood DEF Busy

LEMMA StepReplyFoundDel ==
    ASSUME IInv, NEW r \in Requests, Reply(r) \/ Found(r) \/ Del(r)
    PROVE  IInv'
<1>1. Still /\ TimeShape'
  BY DEF Reply, Found, Del, Still, IInv, TimeShape
<1>2. Busy(r) /\ Head(req[r].todo) \in {"found", "reply", "del"}
  BY DEF Reply, Found, Del, At
<1>3. Advance(r, req[r]) \/ req' = [req EXCEPT ![r] = Idle]
  BY DEF Reply, Found, Del, NotFound, Finish
<1>4. ReqShape' /\ ReqInv'
  BY <1>1, <1>2, <1>3, WriteGoesOn, IdleGood
<1>5. PlaceOf(req[r].worker) \in Places /\ req[r].id \in Ids
  BY <1>2, BusyFacts, PlaceIsPlace
<1>6. OneCell(cache')
  BY <1>5 DEF OneCell, Reply, Found, Del
<1>. QED  BY <1>1, <1>4, <1>6, OneCellKept DEF IInv

LEMMA StepUpdateNothing ==
    ASSUME IInv, NEW r \in Requests, UpdateNothing(r)
    PROVE  IInv'
<1>1. Still /\ OneCell(cache') /\ TimeShape'
  BY DEF UpdateNothing, Still, OneCell, IInv, TimeShape
<1>2. Busy(r) /\ Row(req[r].id) = 0 /\ Head(req[r].todo) \in {"change", "update"}
  BY DEF UpdateNothing, At
<1>3. req[r].op # "read"
  BY <1>2, BusyFacts, ReadSteps
<1>4. ASSUME Advance(r, req[r])
      PROVE  ReqShape' /\ ReqInv'
  BY <1>1, <1>2, <1>3, <1>4, BusyFacts, AdvanceGood DEF Busy, Row
<1>5. ASSUME req' = [req EXCEPT ![r] = Idle]
      PROVE  ReqShape' /\ ReqInv'
  BY <1>1, <1>5, IdleGood
<1>6. ReqShape' /\ ReqInv'
  BY <1>4, <1>5 DEF UpdateNothing, NotFound, Finish
<1>. QED  BY <1>1, <1>6, OneCellKept DEF IInv

LEMMA StepSet ==
    ASSUME IInv, NEW r \in Requests, Set(r)
    PROVE  IInv'
<1>1. Still /\ TimeShape'
  BY DEF Set, Still, IInv, TimeShape
<1>2. Busy(r) /\ Head(req[r].todo) = "set"
  BY DEF Set, At
<1>3. req[r].op = "read" /\ req[r].todo \in StoreTodo /\ Tail(req[r].todo) = <<>>
  BY <1>2, BusyFacts, ReadSteps, WriteSteps
<1>4. req[r].op # "idle" /\ req[r].seen # 0
  BY <1>2, <1>3, BusyFacts DEF Good
<1>5. OneCell(cache')
  BY <1>4, StoredCell DEF Set
<1>6. req' = [req EXCEPT ![r] = Idle]
  BY <1>3 DEF Set, Advance, Finish
<1>. QED  BY <1>1, <1>5, <1>6, IdleGood, OneCellKept DEF IInv

LEMMA StepSend ==
    ASSUME IInv, NEW r \in Requests, Send(r)
    PROVE  IInv'
<1>. DEFINE n == [req[r] EXCEPT !.op = "landing"]
<1>1. Still /\ TimeShape'
  BY DEF Send, Still, IInv, TimeShape
<1>2. Busy(r) /\ Head(req[r].todo) = "send"
  BY DEF Send, At
<1>3. req[r].op = "read" /\ req[r].todo \in StoreTodo
  BY <1>2, BusyFacts, ReadSteps, WriteSteps
<1>4. req[r].op # "idle" /\ req[r].seen # 0
  BY <1>2, <1>3, BusyFacts DEF Good
<1>5. OneCell(cache')
  <2>1. cache' = cache \/ cache' = Stored(req[r])
    BY DEF Send
  <2>2. OneCell(cache) /\ OneCell(Stored(req[r]))
    BY <1>4, StoredCell DEF OneCell
  <2>. QED  BY <2>1, <2>2
<1>6. /\ DOMAIN n = DOMAIN Idle /\ n.op = "landing" /\ n.id = req[r].id
      /\ n.worker = req[r].worker /\ n.seen = req[r].seen /\ n.from = req[r].from
      /\ n.start = req[r].start
  BY <1>2, BusyFacts DEF Idle
<1>7. req' = [req EXCEPT ![r] = Idle] \/ req' = [req EXCEPT ![r] = n]
  BY DEF Send
<1>. HIDE DEF n
<1>8. Good(n, clock, since)
  BY <1>2, <1>4, <1>6, BusyFacts DEF Good
<1>9. ReqShape' /\ ReqInv'
  BY <1>1, <1>6, <1>7, <1>8, IdleGood, OneRequestGood
<1>. QED  BY <1>1, <1>5, <1>9, OneCellKept DEF IInv

LEMMA LandingFacts ==
    ASSUME IInv, NEW r \in Requests, Landing(r)
    PROVE  req[r].op # "idle" /\ req[r].seen # 0 /\ req[r].worker \in Workers
  BY DEF IInv, ReqInv, Good, Landing

LEMMA StepLand ==
    ASSUME IInv, NEW r \in Requests, Land(r)
    PROVE  IInv'
<1>1. Still /\ TimeShape' /\ Landing(r)
  BY DEF Land, Still, IInv, TimeShape
<1>2. OneCell(cache')
  BY <1>1, LandingFacts, StoredCell DEF Land
<1>3. req' = [req EXCEPT ![r] = Idle]
  BY DEF Land
<1>. QED  BY <1>1, <1>2, <1>3, IdleGood, OneCellKept DEF IInv

LEMMA StepFail ==
    ASSUME IInv, NEW r \in Requests, Fail(r)
    PROVE  IInv'
<1>1. Still /\ TimeShape' /\ Busy(r)
  BY DEF Fail, Still, IInv, TimeShape, At
<1>2. req' = [req EXCEPT ![r] = Idle]
  BY DEF Fail, Finish
<1>3. OneCell(cache')
  <2>1. CASE cache' = cache
    BY <2>1 DEF OneCell
  <2>2. CASE At(r, "set") /\ cache' = Stored(req[r])
    <3>1. req[r].op = "read" /\ req[r].todo \in StoreTodo
      BY <1>1, <2>2, BusyFacts, ReadSteps, WriteSteps DEF At
    <3>2. req[r].op # "idle" /\ req[r].seen # 0
      BY <1>1, <3>1, BusyFacts DEF Good
    <3>. QED  BY <2>2, <3>2, StoredCell
  <2>3. CASE cache' = [cache EXCEPT ![Shared][req[r].id] = None]
    <3>1. Shared \in Places /\ req[r].id \in Ids
      BY <1>1, BusyFacts DEF Places
    <3>. QED  BY <2>3, <3>1 DEF OneCell
  <2>. QED  BY <2>1, <2>2, <2>3 DEF Fail
<1>. QED  BY <1>1, <1>2, <1>3, IdleGood, OneCellKept DEF IInv

LEMMA StepRejected ==
    ASSUME IInv, NEW r \in Requests, NEW dies \in BOOLEAN, Rejected(r, dies)
    PROVE  IInv'
<1>1. Still /\ TimeShape' /\ Landing(r)
  BY DEF Rejected, Still, IInv, TimeShape
<1>2. OneCell(cache')
  <2>1. cache' = cache \/ cache' = Stored(req[r])
    BY DEF Rejected
  <2>2. OneCell(cache) /\ OneCell(Stored(req[r]))
    BY <1>1, LandingFacts, StoredCell DEF OneCell
  <2>. QED  BY <2>1, <2>2
<1>3. ReqShape' /\ ReqInv'
  <2>1. CASE dies
    <3>1. PICK gone : req' = [q \in Requests |-> IF q \in gone THEN Idle ELSE req[q]]
      BY <2>1 DEF Rejected
    <3>. QED  BY <1>1, <3>1, GoodIdle DEF IInv, ReqShape, ReqInv, Still
  <2>2. CASE ~dies
    BY <1>1, <2>2, IdleGood DEF Rejected
  <2>. QED  BY <2>1, <2>2
<1>. QED  BY <1>1, <1>2, <1>3, OneCellKept DEF IInv

LEMMA StepAsk ==
    ASSUME IInv, NEW r \in Requests, NEW op \in {"read", "create", "update"},
           NEW i \in Ids, NEW w \in Workers, Ask(r, op, i, w)
    PROVE  IInv'
<1>1. Still /\ TimeShape' /\ OneCell(cache')
  BY DEF Ask, Still, IInv, TimeShape, OneCell
<1>2. PICK n : /\ req' = [req EXCEPT ![r] = n]
               /\ DOMAIN n = DOMAIN Idle /\ n.op = op /\ n.id = i /\ n.worker = w
               /\ n.todo = entry[op] /\ n.start = clock /\ n.seen = 0 /\ n.own = 0
  <2>. DEFINE n(m) == [Idle EXCEPT !.op = op, !.id = i, !.worker = w, !.todo = entry[op],
                                  !.start = clock, !.must = m]
  <2>1. PICK m : req' = [req EXCEPT ![r] = n(m)]
    BY DEF Ask
  <2>2. /\ DOMAIN n(m) = DOMAIN Idle /\ n(m).op = op /\ n(m).id = i /\ n(m).worker = w
        /\ n(m).todo = entry[op] /\ n(m).start = clock /\ n(m).seen = 0 /\ n(m).own = 0
    BY DEF Idle
  <2>. QED  BY <2>1, <2>2
<1>3. clock \in Nat /\ since \in Histories /\ Lag \in Nat /\ Len(since[i]) \in Nat
  BY CrudAssumption DEF IInv, TimeShape, Histories
<1>4. /\ op = "read" => n.todo \in ReadTodo \ StoreTodo
      /\ op # "read" => n.todo \in WriteTodo \ FoundTodo
  BY <1>2, EntryShape DEF IInv, TimeShape
<1>5. Good(n, clock, since)
  BY <1>2, <1>3, <1>4 DEF Good
<1>. QED  BY <1>1, <1>2, <1>5, OneRequestGood, OneCellKept DEF IInv

LEMMA StepTick ==
    ASSUME IInv, Tick
    PROVE  IInv'
<1>1. TimeShape' /\ clock \in Nat /\ since \in Histories
  BY DEF Tick, IInv, TimeShape
<1>2. ReqShape'
  BY DEF Tick, IInv, ReqShape
<1>3. ReqInv'
  BY <1>1, GoodTick DEF Tick, IInv, ReqInv
<1>4. CacheShape'
  BY DEF Tick, IInv, CacheShape, Places
<1>5. CacheInv'
  <2>. SUFFICES ASSUME NEW p \in Places, NEW i \in Ids, cache'[p][i] # None
                PROVE  Kept(cache'[p][i], clock', Window', since'[i])
    BY DEF CacheInv, Places
  <2>1. cache'[p][i] = cache[p][i] /\ ~ cache[p][i].until <= clock + 1
    BY DEF Tick
  <2>2. Kept(cache[p][i], clock, Window, since[i])
    BY <2>1 DEF IInv, CacheInv
  <2>3. Kept(cache[p][i], clock + 1, Window, since[i])
    BY <1>1, <2>1, <2>2, KeptTick
  <2>. QED  BY <2>1, <2>3 DEF Tick, Window
<1>. QED  BY <1>1, <1>2, <1>3, <1>4, <1>5 DEF IInv

LEMMA StepRefork ==
    ASSUME IInv, NEW w \in Workers, Refork(w)
    PROVE  IInv'
<1>1. Still /\ TimeShape' /\ ReqShape' /\ ReqInv'
  BY DEF Refork, Still, IInv, TimeShape, ReqShape, ReqInv
<1>2. CacheShape'
  BY DEF Refork, IInv, CacheShape, Places
<1>3. CacheInv'
  BY DEF Refork, IInv, CacheShape, CacheInv, Places, Window
<1>. QED  BY <1>1, <1>2, <1>3 DEF IInv

(* A statement that writes the row: it is new to everyone but its own request. *)
LEMMA StepWrite ==
    ASSUME IInv, NEW r \in Requests, NEW ok \in BOOLEAN, Write(r, ok)
    PROVE  IInv'
<1>. DEFINE q == req[r]
            i == q.id
<1>1. Busy(r) /\ Head(q.todo) \in {"insert", "change", "update"} /\ NewVersion(r, ok)
  BY DEF Write, At
<1>2. q.op \in {"create", "update"} /\ q.todo \in WriteTodo /\ q.op # "read"
  BY <1>1, BusyFacts, ReadSteps DEF Busy
<1>3. /\ i \in Ids /\ q.worker \in Workers /\ q.start \in Nat /\ q.start <= clock
      /\ clock <= q.start + Lag /\ DOMAIN q = DOMAIN Idle
  BY <1>1, BusyFacts
<1>4. entry' = entry /\ clock' = clock /\ cache' = cache
  BY <1>1 DEF NewVersion
<1>5. since' = [since EXCEPT ![i] = Append(@, clock)]
  BY <1>1 DEF NewVersion
<1>6. clock \in Nat /\ since \in Histories /\ entry \in Entries /\ Window \in Nat
  BY EntryShape, CrudAssumption DEF IInv, TimeShape, Window
<1>7. since' \in Histories /\ since'[i] = Append(since[i], clock)
      /\ Len(since[i]) \in Nat /\ Len(since'[i]) = Len(since[i]) + 1
  BY <1>3, <1>5, <1>6 DEF Histories
<1>8. PICK n : /\ req' = [req EXCEPT ![r] = n]
               /\ DOMAIN n = DOMAIN Idle /\ n.op = q.op /\ n.id = i /\ n.worker = q.worker
               /\ n.start = q.start /\ n.seen = Row(i) + 1 /\ n.own = Row(i) + 1
               /\ n.from = clock
               /\ n.todo = IF ok THEN Tail(q.todo) ELSE <<"raise">>
  <2>. DEFINE n(b) == [q EXCEPT !.todo = IF ok THEN Tail(@) ELSE <<"raise">>,
                              !.seen = Row(i) + 1, !.own = Row(i) + 1, !.from = clock,
                              !.raced = b]
  <2>1. PICK b : req' = [req EXCEPT ![r] = n(b)]
    BY <1>1 DEF NewVersion
  <2>2. /\ DOMAIN n(b) = DOMAIN Idle /\ n(b).op = q.op /\ n(b).id = i
        /\ n(b).worker = q.worker /\ n(b).start = q.start /\ n(b).seen = Row(i) + 1
        /\ n(b).own = Row(i) + 1 /\ n(b).from = clock
        /\ n(b).todo = IF ok THEN Tail(q.todo) ELSE <<"raise">>
    BY <1>3 DEF Idle
  <2>. QED  BY <2>1, <2>2
<1>9. n.todo \in WriteTodo
  <2>1. <<"raise">> \in WriteTodo
    BY DEF WriteTodo
  <2>2. Tail(q.todo) \in WriteTodo
    BY <1>1, <1>2, WriteSteps
  <2>. QED  BY <1>8, <2>1, <2>2
<1>. HIDE DEF q, i
<1>10. Good(n, clock, since')
  BY <1>2, <1>3, <1>6, <1>7, <1>8, <1>9 DEF Good, Row
<1>11. ASSUME NEW o \in Requests
       PROVE  Good(req[o], clock, since')
  <2>1. Good(req[o], clock, since)
    BY DEF IInv, ReqInv
  <2>. QED  BY <1>3, <1>5, <1>6, <2>1, GoodWrite
<1>12. ReqShape' /\ ReqInv'
  <2>1. \A o \in Requests : req'[o] = IF o = r THEN n ELSE req[o]
    BY <1>8 DEF IInv, ReqShape
  <2>. QED  BY <1>4, <1>8, <1>10, <1>11, <2>1 DEF IInv, ReqShape, ReqInv, Idle
<1>13. CacheShape'
  BY <1>4 DEF IInv, CacheShape, Places
<1>14. CacheInv'
  <2>. SUFFICES ASSUME NEW p \in Places, NEW j \in Ids, cache[p][j] # None
                PROVE  Kept(cache[p][j], clock, Window, since'[j])
    BY <1>4 DEF CacheInv, Places, Window
  <2>1. Kept(cache[p][j], clock, Window, since[j])
    BY DEF IInv, CacheInv
  <2>2. CASE j = i
    <3>1. since[i] \in Seq(Nat)
      BY <1>3, <1>6 DEF Histories
    <3>. QED  BY <1>6, <1>7, <2>1, <2>2, <3>1, KeptWrite
  <2>3. CASE j # i
    BY <1>5, <1>6, <2>1, <2>3 DEF Histories
  <2>. QED  BY <2>2, <2>3
<1>. QED  BY <1>4, <1>6, <1>7, <1>12, <1>13, <1>14 DEF IInv, TimeShape

------------------------------------------------------------------------------
LEMMA InvInit == Init => IInv
<1>. SUFFICES ASSUME Init PROVE IInv
  OBVIOUS
<1>1. TimeShape
  <2>1. <<>> \in Seq(Nat) /\ <<0>> \in Seq(Nat)
    OBVIOUS
  <2>. QED  BY <2>1 DEF Init, TimeShape, Histories
<1>. QED  BY <1>1, GoodIdle DEF Init, IInv, ReqShape, CacheShape, ReqInv, CacheInv

LEMMA InvStep == IInv /\ [Next]_vars => IInv'
<1>. SUFFICES ASSUME IInv, [Next]_vars PROVE IInv'
  OBVIOUS
<1>1. CASE UNCHANGED vars
  BY <1>1 DEF vars, IInv, TimeShape, ReqShape, CacheShape, ReqInv, CacheInv, Window, Places
<1>2. CASE Tick
  BY <1>2, StepTick
<1>3. ASSUME NEW w \in Workers, Refork(w) PROVE IInv'
  BY <1>3, StepRefork
<1>4. ASSUME NEW r \in Requests, NEW op \in {"read", "create", "update"}, NEW i \in Ids,
             NEW w \in Workers, Ask(r, op, i, w)
      PROVE  IInv'
  BY <1>4, StepAsk
<1>5. ASSUME NEW r \in Requests, Serve(r) PROVE IInv'
  BY <1>5, StepCacheGet, StepSelect, StepUpdateNothing, StepReplyFoundDel, StepSet, StepSend,
     StepLand, StepFail, StepWrite, StepRejected DEF Serve
<1>. QED  BY <1>1, <1>2, <1>3, <1>4, <1>5 DEF Next

LEMMA InvBounds == IInv => StaleBodiesExpire
<1>. SUFFICES ASSUME IInv, NEW p \in Places, NEW i \in Ids, cache[p][i] # None,
                     cache[p][i].version < Row(i)
              PROVE  clock < since[i][cache[p][i].version + 1] + entry.ttl + Lag
  BY DEF StaleBodiesExpire
<1>1. Kept(cache[p][i], clock, Window, since[i])
  BY DEF IInv, CacheInv
<1>2. entry.ttl \in Nat /\ Lag \in Nat /\ clock \in Nat
  BY EntryShape, CrudAssumption DEF IInv, TimeShape
<1>3. since[i][cache[p][i].version + 1] \in Nat
  <2>1. since[i] \in Seq(Nat) /\ cache[p][i].version + 1 \in 1 .. Len(since[i])
    BY <1>1 DEF Kept, IInv, TimeShape, Histories, Row
  <2>. QED  BY <2>1
<1>4. /\ cache[p][i].from <= since[i][cache[p][i].version + 1]
      /\ cache[p][i].from \in Nat /\ cache[p][i].until \in Nat
      /\ clock < cache[p][i].until /\ cache[p][i].until <= cache[p][i].from + Window
  BY <1>1 DEF Kept, Row
<1>. QED  BY <1>2, <1>3, <1>4 DEF Window

(* A body the row has moved past is out of the cache within the TTL and the
   time one request may take, whatever fails, dies or overtakes what. *)
THEOREM StaleBodiesExpireTheorem == Spec => []StaleBodiesExpire
  BY InvInit, InvStep, InvBounds, PTL DEF Spec

------------------------------------------------------------------------------
(* The handlers implement BoundedStaleReads. *)
Waits(q) == q.op \in {"read", "create", "update"}
Asked == [r \in Requests |->
            IF Busy(r) THEN [id |-> req[r].id, at |-> req[r].start] ELSE None]

LEMMA AskedBusy ==
    ASSUME IInv, NEW r \in Requests
    PROVE  /\ Busy(r) => Asked[r] # None /\ Asked[r].id = req[r].id /\ Asked[r].at = req[r].start
           /\ ~Busy(r) => Asked[r] = None
<1>1. CASE Busy(r)
  <2>1. Asked[r] = [id |-> req[r].id, at |-> req[r].start]
    BY <1>1 DEF Asked
  <2>2. Asked[r] \in [id : Ids, at : Nat]
    BY <1>1, <2>1, BusyFacts
  <2>. QED  BY <1>1, <2>1, <2>2, NoneAssumption
<1>2. CASE ~Busy(r)
  BY <1>2 DEF Asked
<1>. QED  BY <1>1, <1>2

LEMMA AskedOne ==
    ASSUME IInv, NEW r \in Requests, NEW n, req' = [req EXCEPT ![r] = n]
    PROVE  Asked' = [Asked EXCEPT ![r] = IF Waits(n) THEN [id |-> n.id, at |-> n.start]
                                         ELSE None]
<1>1. \A q \in Requests : req'[q] = IF q = r THEN n ELSE req[q]
  BY DEF IInv, ReqShape
<1>. QED  BY <1>1 DEF Asked, Busy, Waits

(* Behind the answers: what the client waits for stays as it is. *)
LEMMA Behind ==
    ASSUME Still, Asked' = Asked, said' = None
    PROVE  Promise!LoseMany
<1>1. /\ clock' = clock /\ since' = since /\ (entry.ttl + Lag)' = entry.ttl + Lag
  BY DEF Still
<1>2. Asked' = [r \in Requests |-> IF r \in {} THEN None ELSE Asked[r]]
  BY DEF Asked
<1>3. {} \in SUBSET {r \in Requests : Asked[r] # None}
  OBVIOUS
<1>. QED  BY <1>1, <1>2, <1>3 DEF Promise!LoseMany, Asked

LEMMA AnswersOther ==
    ASSUME IInv, Still, NEW r \in Requests, Busy(r), NEW k \in {"done", "error"},
           Finish(r, Other(k))
    PROVE  Promise!AnswerOther(r)
<1>1. Asked[r] # None
  BY AskedBusy
<1>2. Asked' = [Asked EXCEPT ![r] = None]
  BY AskedOne DEF Finish, Waits, Idle
<1>3. said' = [to |-> r, kind |-> k, version |-> 0]
  BY DEF Finish, Other
<1>4. UNCHANGED <<clock, since, entry.ttl + Lag>>
  BY DEF Still
<1>. QED  BY <1>1, <1>2, <1>3, <1>4 DEF Promise!AnswerOther, Asked

LEMMA AnswersRow ==
    ASSUME IInv, Still, NEW r \in Requests, Busy(r), NEW v \in 0 .. Row(req[r].id),
           v < Row(req[r].id) => since[req[r].id][v + 1] >= req[r].start - Window,
           NEW n, ~Waits(n), req' = [req EXCEPT ![r] = n],
           said' = [to |-> r, kind |-> "row", version |-> v]
    PROVE  Promise!AnswerRow(r)
<1>1. Asked[r] # None /\ Asked[r].id = req[r].id /\ Asked[r].at = req[r].start
  BY AskedBusy
<1>2. Asked' = [Asked EXCEPT ![r] = None]
  BY AskedOne
<1>3. UNCHANGED <<clock, since, entry.ttl + Lag>>
  BY DEF Still
<1>4. Promise!CurrentAfter(Asked[r].id, v, Asked[r].at - (entry.ttl + Lag))
  BY <1>1 DEF Promise!CurrentAfter, Row, Window
<1>5. v \in 0 .. Len(since[Asked[r].id])
  BY <1>1 DEF Row
<1>. QED  BY <1>1, <1>2, <1>3, <1>4, <1>5 DEF Promise!AnswerRow, Asked

(* What a request has read is recent enough to be its answer. *)
LEMMA AnswersSeen ==
    ASSUME IInv, Still, NEW r \in Requests, Busy(r),
           NEW q, Good(q, clock, since), q.op # "idle", q.seen # 0,
           q.id = req[r].id, q.start = req[r].start,
           NEW n, ~Waits(n), req' = [req EXCEPT ![r] = n],
           said' = [to |-> r, kind |-> "row", version |-> q.seen]
    PROVE  Promise!AnswerRow(r)
<1>1. /\ q.seen \in Nat /\ q.seen <= Row(q.id) /\ q.start \in Nat /\ q.from \in Nat
      /\ q.start <= q.from /\ (q.seen < Row(q.id) => q.from <= since[q.id][q.seen + 1])
  BY DEF Good, Row
<1>2. Window \in Nat /\ Row(q.id) \in Nat /\ since[q.id] \in Seq(Nat)
  BY EntryShape, CrudAssumption, BusyFacts DEF IInv, TimeShape, Window, Histories
<1>3. q.seen < Row(q.id) => since[q.id][q.seen + 1] \in Nat
  <2>1. q.seen < Row(q.id) => q.seen + 1 \in 1 .. Len(since[q.id])
    BY <1>1, <1>2 DEF Row
  <2>. QED  BY <1>2, <2>1
<1>4. q.seen < Row(q.id) => since[q.id][q.seen + 1] >= q.start - Window
  BY <1>1, <1>2, <1>3
<1>5. q.seen \in 0 .. Row(q.id)
  BY <1>1, <1>2
<1>. QED  BY <1>4, <1>5, AnswersRow

LEMMA AnswersNotFound ==
    ASSUME IInv, Still, NEW r \in Requests, Busy(r), NotFound(r),
           Row(req[r].id) # 0 => req[r].start <= since[req[r].id][1]
    PROVE  Promise!AnswerRow(r)
<1>1. /\ Window \in Nat /\ Row(req[r].id) \in Nat /\ since[req[r].id] \in Seq(Nat)
      /\ req[r].start \in Nat
  BY EntryShape, CrudAssumption, BusyFacts DEF IInv, TimeShape, Window, Histories
<1>2. Row(req[r].id) # 0 => since[req[r].id][1] \in Nat
  BY <1>1 DEF Row
<1>3. 0 < Row(req[r].id) => since[req[r].id][0 + 1] >= req[r].start - Window
  BY <1>1, <1>2
<1>4. /\ req' = [req EXCEPT ![r] = Idle]
      /\ said' = [to |-> r, kind |-> "row", version |-> 0]
  BY DEF NotFound, Finish, ARow
<1>5. ~Waits(Idle) /\ 0 \in 0 .. Row(req[r].id)
  BY <1>1 DEF Waits, Idle
<1>. QED  BY <1>3, <1>4, <1>5, AnswersRow

LEMMA AdvanceKeeps ==
    ASSUME IInv, Still, NEW r \in Requests, Busy(r), NEW q, DOMAIN q = DOMAIN Idle,
           Good(q, clock, since), q.op = req[r].op, q.id = req[r].id, q.start = req[r].start,
           Advance(r, q)
    PROVE  Promise!Next
<1>1. CASE Tail(q.todo) # <<>>
  <2>. DEFINE n == [q EXCEPT !.todo = Tail(@)]
  <2>1. req' = [req EXCEPT ![r] = n] /\ said' = None
    BY <1>1 DEF Advance
  <2>2. n.op = q.op /\ n.id = q.id /\ n.start = q.start
    BY DEF Idle
  <2>. HIDE DEF n
  <2>3. Asked' = [Asked EXCEPT ![r] = [id |-> q.id, at |-> q.start]]
    <3>1. Waits(n)
      BY <2>2 DEF Waits, Busy
    <3>2. Asked' = [Asked EXCEPT ![r] = IF Waits(n) THEN [id |-> n.id, at |-> n.start]
                                        ELSE None]
      BY <2>1, AskedOne
    <3>. QED  BY <2>2, <3>1, <3>2
  <2>4. Asked' = Asked
    BY <2>3 DEF Asked
  <2>. QED  BY <2>1, <2>4, Behind DEF Promise!Next
<1>2. CASE Tail(q.todo) = <<>> /\ q.op = "read"
  <2>1. q.todo \in StoreTodo /\ q.seen # 0 /\ q.op # "idle"
    BY <1>2, ReadSteps DEF Good
  <2>2. /\ req' = [req EXCEPT ![r] = Idle]
        /\ said' = [to |-> r, kind |-> "row", version |-> q.seen]
    BY <1>2 DEF Advance, Finish, ARow
  <2>3. ~Waits(Idle)
    BY DEF Waits, Idle
  <2>4. Promise!AnswerRow(r)
    BY <2>1, <2>2, <2>3, AnswersSeen
  <2>. QED  BY <2>4 DEF Promise!Next
<1>3. CASE Tail(q.todo) = <<>> /\ q.op # "read"
  BY <1>3, AnswersOther DEF Advance, Promise!Next
<1>. QED  BY <1>1, <1>2, <1>3

(* Each step of the handlers is a step of the promise. *)
LEMMA KeepCacheGet ==
    ASSUME IInv, NEW r \in Requests, CacheGet(r)
    PROVE  Promise!Next
<1>1. Still /\ Busy(r)
  BY DEF CacheGet, Still, At
<1>2. /\ DOMAIN req[r] = DOMAIN Idle /\ Good(req[r], clock, since)
      /\ req[r].id \in Ids /\ req[r].worker \in Workers /\ req[r].start \in Nat
      /\ req[r].start <= clock /\ clock \in Nat /\ Row(req[r].id) \in Nat
  BY <1>1, BusyFacts
<1>3. ASSUME Advance(r, req[r])
      PROVE  Promise!Next
  BY <1>1, <1>2, <1>3, AdvanceKeeps
<1>4. ASSUME cache[PlaceOf(req[r].worker)][req[r].id] # None,
             Finish(r, ARow(cache[PlaceOf(req[r].worker)][req[r].id].version))
      PROVE  Promise!Next
  <2>. DEFINE b == cache[PlaceOf(req[r].worker)][req[r].id]
              h == since[req[r].id]
              v == b.version
  <2>1. Kept(b, clock, Window, h)
    BY <1>2, <1>4, PlaceIsPlace DEF IInv, CacheInv
  <2>2. Window \in Nat /\ h \in Seq(Nat)
    BY <1>2, EntryShape, CrudAssumption DEF IInv, TimeShape, Window, Histories
  <2>3. /\ req' = [req EXCEPT ![r] = Idle]
        /\ said' = [to |-> r, kind |-> "row", version |-> v]
    BY <1>4 DEF Finish, ARow
  <2>4. Len(h) = Row(req[r].id)
    BY DEF Row
  <2>. HIDE DEF b, h
  <2>5. v \in 0 .. Len(h) /\ b.from \in Nat /\ clock < b.from + Window
    BY <1>2, <2>1, <2>2 DEF Kept
  <2>6. v < Len(h) => h[v + 1] >= b.from /\ h[v + 1] \in Nat
    <3>1. v < Len(h) => v + 1 \in 1 .. Len(h)
      BY <2>2, <2>5
    <3>. QED  BY <2>1, <2>2, <2>5, <3>1 DEF Kept
  <2>7. v < Len(h) => h[v + 1] >= req[r].start - Window
    <3>1. \A x, y \in Nat : x >= b.from /\ y <= clock => x >= y - Window
      BY <1>2, <2>2, <2>5
    <3>. QED  BY <1>2, <2>6, <3>1
  <2>8. ~Waits(Idle)
    BY DEF Waits, Idle
  <2>9. Promise!AnswerRow(r)
    BY <1>1, <2>3, <2>4, <2>5, <2>7, <2>8, AnswersRow DEF h
  <2>. QED  BY <2>9 DEF Promise!Next
<1>. QED  BY <1>3, <1>4 DEF CacheGet

LEMMA KeepSelect ==
    ASSUME IInv, NEW r \in Requests, Select(r)
    PROVE  Promise!Next
<1>. DEFINE q == [req[r] EXCEPT !.seen = Row(req[r].id), !.from = clock]
<1>1. Still /\ Busy(r)
  BY DEF Select, Still, At
<1>2. ASSUME Row(req[r].id) = 0
      PROVE  Promise!Next
  BY <1>1, <1>2, AnswersNotFound DEF Select, Promise!Next
<1>3. ASSUME Row(req[r].id) # 0
      PROVE  Promise!Next
  <2>1. Advance(r, q)
    BY <1>3 DEF Select
  <2>2. /\ DOMAIN q = DOMAIN Idle /\ q.seen = Row(req[r].id) /\ q.from = clock
        /\ q.op = req[r].op /\ q.id = req[r].id /\ q.worker = req[r].worker
        /\ q.start = req[r].start /\ q.own = req[r].own /\ q.todo = req[r].todo
    BY <1>1, BusyFacts DEF Idle
  <2>. HIDE DEF q
  <2>3. Good(q, clock, since)
    BY <1>1, <1>3, <2>2, BusyFacts DEF Good, Row
  <2>. QED  BY <1>1, <2>1, <2>2, <2>3, AdvanceKeeps
<1>. QED  BY <1>2, <1>3

LEMMA KeepOn ==
    ASSUME IInv, Still, NEW r \in Requests, Busy(r), Advance(r, req[r])
    PROVE  Promise!Next
  BY BusyFacts, AdvanceKeeps

LEMMA KeepRest ==
    ASSUME IInv, NEW r \in Requests,
           UpdateNothing(r) \/ Found(r) \/ Reply(r) \/ Del(r) \/ Set(r)
    PROVE  Promise!Next
<1>1. Still /\ Busy(r)
  BY DEF UpdateNothing, Found, Reply, Del, Set, Still, At
<1>2. CASE Advance(r, req[r])
  BY <1>1, <1>2, KeepOn
<1>3. CASE UpdateNothing(r) /\ NotFound(r)
  <2>1. Row(req[r].id) = 0
    BY <1>3 DEF UpdateNothing
  <2>. QED  BY <1>1, <1>3, <2>1, AnswersNotFound DEF Promise!Next
<1>4. CASE Found(r) /\ req[r].own = 0 /\ NotFound(r)
  <2>1. Head(req[r].todo) = "found"
    BY <1>4 DEF Found, At
  <2>2. req[r].op \in {"create", "update"} /\ req[r].todo \in FoundTodo
    BY <1>1, <2>1, BusyFacts, ReadSteps, WriteSteps DEF Busy
  <2>3. Row(req[r].id) # 0 => req[r].start <= since[req[r].id][1]
    BY <1>1, <1>4, <2>2, BusyFacts DEF Good, Row
  <2>. QED  BY <1>1, <1>4, <2>3, AnswersNotFound DEF Promise!Next
<1>. QED  BY <1>2, <1>3, <1>4 DEF UpdateNothing, Found, Reply, Del, Set

LEMMA KeepSend ==
    ASSUME IInv, NEW r \in Requests, Send(r)
    PROVE  Promise!Next
<1>1. Still /\ Busy(r) /\ Head(req[r].todo) = "send"
  BY DEF Send, Still, At
<1>2. req[r].op = "read" /\ req[r].todo \in StoreTodo
  BY <1>1, BusyFacts, ReadSteps, WriteSteps
<1>3. Good(req[r], clock, since) /\ req[r].seen # 0 /\ req[r].op # "idle"
      /\ DOMAIN req[r] = DOMAIN Idle
  BY <1>1, <1>2, BusyFacts DEF Good
<1>4. PICK n : ~Waits(n) /\ req' = [req EXCEPT ![r] = n]
  <2>1. ~Waits(Idle) /\ ~Waits([req[r] EXCEPT !.op = "landing"])
    BY <1>3 DEF Waits, Idle
  <2>. QED  BY <2>1 DEF Send
<1>5. said' = [to |-> r, kind |-> "row", version |-> req[r].seen]
  BY DEF Send
<1>6. Promise!AnswerRow(r)
  BY <1>1, <1>3, <1>4, <1>5, AnswersSeen
<1>. QED  BY <1>6 DEF Promise!Next

LEMMA KeepLand ==
    ASSUME IInv, NEW r \in Requests, Land(r)
    PROVE  Promise!Next
<1>1. Still /\ ~Busy(r) /\ said' = None /\ req' = [req EXCEPT ![r] = Idle]
  BY DEF Land, Landing, Still, Busy
<1>2. ~Waits(Idle)
  BY DEF Waits, Idle
<1>3. Asked' = [Asked EXCEPT ![r] = None]
  BY <1>1, <1>2, AskedOne
<1>4. Asked' = Asked
  BY <1>1, <1>3 DEF Asked
<1>. QED  BY <1>1, <1>4, Behind DEF Promise!Next

LEMMA KeepRejected ==
    ASSUME IInv, NEW r \in Requests, NEW dies \in BOOLEAN, Rejected(r, dies)
    PROVE  Promise!Next
<1>1. Still /\ ~Busy(r) /\ said' = None
  BY DEF Rejected, Landing, Still, Busy
<1>2. PICK gone : req' = [q \in Requests |-> IF q \in gone THEN Idle ELSE req[q]]
  <2>1. CASE dies
    BY <2>1 DEF Rejected
  <2>2. CASE ~dies
    <3>1. req' = [req EXCEPT ![r] = Idle]
      BY <2>2 DEF Rejected
    <3>2. req' = [q \in Requests |-> IF q \in {r} THEN Idle ELSE req[q]]
      BY <3>1 DEF IInv, ReqShape
    <3>. QED  BY <3>2
  <2>. QED  BY <2>1, <2>2
<1>. DEFINE lost == {q \in Requests : Asked[q] # None} \cap gone
<1>3. Asked' = [q \in Requests |-> IF q \in lost THEN None ELSE Asked[q]]
  <2>. SUFFICES ASSUME NEW q \in Requests
                PROVE  Asked'[q] = IF q \in lost THEN None ELSE Asked[q]
    BY DEF Asked
  <2>1. CASE q \in gone
    BY <1>2, <2>1 DEF Asked, Busy, Idle
  <2>2. CASE q \notin gone
    BY <1>2, <2>2 DEF Asked, Busy
  <2>. QED  BY <2>1, <2>2
<1>4. lost \in SUBSET {q \in Requests : Asked[q] # None}
  OBVIOUS
<1>. HIDE DEF lost
<1>5. UNCHANGED <<clock, since, entry.ttl + Lag>>
  BY <1>1 DEF Still
<1>. QED  BY <1>1, <1>3, <1>4, <1>5 DEF Promise!Next, Promise!LoseMany, Asked

LEMMA KeepFail ==
    ASSUME IInv, NEW r \in Requests, Fail(r)
    PROVE  Promise!Next
<1>1. Still /\ Busy(r) /\ Finish(r, Other("error"))
  BY DEF Fail, Still, At
<1>. QED  BY <1>1, AnswersOther DEF Promise!Next

LEMMA KeepAsk ==
    ASSUME IInv, NEW r \in Requests, NEW op \in {"read", "create", "update"},
           NEW i \in Ids, NEW w \in Workers, Ask(r, op, i, w)
    PROVE  Promise!Next
<1>1. UNCHANGED <<clock, since, entry.ttl + Lag>> /\ said' = None /\ ~Busy(r)
  BY DEF Ask, Busy
<1>2. PICK n : req' = [req EXCEPT ![r] = n] /\ n.op = op /\ n.id = i /\ n.start = clock
  <2>. DEFINE n(m) == [Idle EXCEPT !.op = op, !.id = i, !.worker = w, !.todo = entry[op],
                                  !.start = clock, !.must = m]
  <2>1. PICK m : req' = [req EXCEPT ![r] = n(m)]
    BY DEF Ask
  <2>2. n(m).op = op /\ n(m).id = i /\ n(m).start = clock
    BY DEF Idle
  <2>. QED  BY <2>1, <2>2
<1>3. Asked[r] = None
  BY <1>1, AskedBusy
<1>4. Asked' = [Asked EXCEPT ![r] = [id |-> i, at |-> clock]]
  <2>1. Waits(n)
    BY <1>2 DEF Waits
  <2>2. Asked' = [Asked EXCEPT ![r] = IF Waits(n) THEN [id |-> n.id, at |-> n.start] ELSE None]
    BY <1>2, AskedOne
  <2>. QED  BY <1>2, <2>1, <2>2
<1>5. Promise!Ask(r, i)
  BY <1>1, <1>3, <1>4 DEF Promise!Ask, Asked
<1>. QED  BY <1>5 DEF Promise!Next

LEMMA KeepWrite ==
    ASSUME IInv, NEW r \in Requests, NEW ok \in BOOLEAN, Write(r, ok)
    PROVE  Promise!Next
<1>. DEFINE n(b) == [req[r] EXCEPT !.todo = IF ok THEN Tail(@) ELSE <<"raise">>,
                            !.seen = Row(req[r].id) + 1, !.own = Row(req[r].id) + 1,
                            !.from = clock, !.raced = b]
<1>1. Busy(r) /\ NewVersion(r, ok)
  BY DEF Write, At
<1>2. PICK b : req' = [req EXCEPT ![r] = n(b)]
  BY <1>1 DEF NewVersion
<1>3. n(b).op = req[r].op /\ n(b).id = req[r].id /\ n(b).start = req[r].start
  BY <1>1, BusyFacts DEF Idle
<1>. HIDE DEF n
<1>4. Asked' = Asked
  <2>1. Waits(n(b))
    BY <1>1, <1>3 DEF Waits, Busy
  <2>2. Asked' = [Asked EXCEPT ![r] = IF Waits(n(b)) THEN [id |-> n(b).id, at |-> n(b).start]
                                      ELSE None]
    BY <1>2, AskedOne
  <2>3. Asked' = [Asked EXCEPT ![r] = [id |-> req[r].id, at |-> req[r].start]]
    BY <1>3, <2>1, <2>2
  <2>. QED  BY <1>1, <2>3 DEF Asked
<1>5. Promise!Write(req[r].id)
  BY <1>1, <1>4 DEF Promise!Write, NewVersion, Asked
<1>6. req[r].id \in Ids
  BY <1>1, BusyFacts
<1>. QED  BY <1>5, <1>6 DEF Promise!Next

LEMMA KeepInit == Init => Promise!Init
<1>. SUFFICES ASSUME Init PROVE Promise!Init
  OBVIOUS
<1>1. entry.ttl + Lag \in Nat
  BY EntryShape, CrudAssumption DEF Init
<1>2. Asked = [r \in Requests |-> None]
  BY DEF Asked, Init, Busy, Idle
<1>. QED  BY <1>1, <1>2 DEF Init, Promise!Init, Asked

LEMMA KeepStep == IInv /\ [Next]_vars => [Promise!Next]_(Promise!absVars)
<1>. SUFFICES ASSUME IInv, [Next]_vars PROVE [Promise!Next]_(Promise!absVars)
  OBVIOUS
<1>1. CASE UNCHANGED vars
  BY <1>1 DEF vars, Promise!absVars, Busy
<1>2. CASE Tick
  <2>1. Promise!Tick
    BY <1>2 DEF Tick, Promise!Tick, Busy
  <2>. QED  BY <2>1 DEF Promise!Next
<1>3. ASSUME NEW w \in Workers, Refork(w)
      PROVE  Promise!Next
  <2>1. Still /\ said' = None /\ Asked' = Asked
    BY <1>3 DEF Refork, Still, Asked, Busy
  <2>. QED  BY <2>1, Behind DEF Promise!Next
<1>4. ASSUME NEW r \in Requests, NEW op \in {"read", "create", "update"}, NEW i \in Ids,
             NEW w \in Workers, Ask(r, op, i, w)
      PROVE  Promise!Next
  BY <1>4, KeepAsk
<1>5. ASSUME NEW r \in Requests, Serve(r)
      PROVE  Promise!Next
  BY <1>5, KeepCacheGet, KeepSelect, KeepRest, KeepSend, KeepLand, KeepFail, KeepWrite,
     KeepRejected DEF Serve
<1>. QED  BY <1>1, <1>2, <1>3, <1>4, <1>5 DEF Next

(* The routes of every entry, over any cache, keep the promise made to the
   client: no answer shows a row older than the TTL and one request's time
   before the read began. *)
THEOREM KeepsPromiseTheorem == Spec => KeepsPromise
  BY InvInit, InvStep, KeepInit, KeepStep, PTL DEF Spec, KeepsPromise, Promise!Spec

------------------------------------------------------------------------------
(* An acknowledged update is seen.  Three things promise a version of item i   *)
(* to the readers of place p: the floor, a read under way (`must'), and an     *)
(* update that has written and raced no read.  No row is behind a promise, and *)
(* no read on its way into the cache is; no cached body is, once the update    *)
(* has deleted the body it outdates.                                           *)
Fills(q) == q.op \in {"read", "landing"} /\ q.seen # 0
Owes(q) == q.op = "update" /\ q.own # 0 /\ ~q.raced
UpdateTodo == {<<"change", "del">>, <<"del">>, <<"update", "del", "found", "select">>,
               <<"del", "found", "select">>, <<"found", "select">>, <<"select">>, <<"raise">>}
Deleted == {<<"found", "select">>, <<"select">>}

Bound(p, i, v) ==
    /\ v \in Nat /\ v <= Row(i)
    /\ \A r \in Requests :
          Fills(req[r]) /\ req[r].id = i /\ PlaceOf(req[r].worker) = p => v <= req[r].seen
Fresh(p, i, v) == cache[p][i] # None => v <= cache[p][i].version

FloorShape == DOMAIN floor = Places /\ \A p \in Places : DOMAIN floor[p] = Ids
FloorInv == \A p \in Places, i \in Ids : Bound(p, i, floor[p][i]) /\ Fresh(p, i, floor[p][i])
MustInv ==
    \A r \in Requests : req[r].op = "read" =>
        /\ Bound(PlaceOf(req[r].worker), req[r].id, req[r].must)
        /\ Fresh(PlaceOf(req[r].worker), req[r].id, req[r].must)
UpdateInv ==
    \A r \in Requests : req[r].op = "update" =>
        /\ req[r].todo \in UpdateTodo
        /\ Owes(req[r]) =>
              /\ Bound(PlaceOf(req[r].worker), req[r].id, req[r].own)
              /\ req[r].todo \in Deleted =>
                    Fresh(PlaceOf(req[r].worker), req[r].id, req[r].own)
SeenInv == FloorShape /\ FloorInv /\ MustInv /\ UpdateInv

LEMMA UpdateSteps ==
    ASSUME NEW t \in UpdateTodo
    PROVE  /\ Head(t) \notin {"get", "set", "send", "insert", "reply"}
           /\ Tail(t) # <<>> => Tail(t) \in UpdateTodo
           /\ Head(t) \in {"change", "update"} => Tail(t) # <<>> /\ Tail(t) \notin Deleted
           /\ Head(t) \in {"found", "select"} => t \in Deleted
<1>. USE DEF UpdateTodo, Deleted
<1>1. CASE t = <<"change", "del">>
  <2>1. Head(t) = "change" /\ Tail(t) = <<"del">> /\ Len(t) = 2
    BY <1>1
  <2>. QED  BY <2>1, <1>1
<1>2. CASE t = <<"del">>
  <2>1. Head(t) = "del" /\ Tail(t) = <<>> /\ Len(t) = 1
    BY <1>2
  <2>. QED  BY <2>1, <1>2
<1>3. CASE t = <<"update", "del", "found", "select">>
  <2>1. Head(t) = "update" /\ Tail(t) = <<"del", "found", "select">> /\ Len(t) = 4
    BY <1>3
  <2>. QED  BY <2>1, <1>3
<1>4. CASE t = <<"del", "found", "select">>
  <2>1. Head(t) = "del" /\ Tail(t) = <<"found", "select">> /\ Len(t) = 3
    BY <1>4
  <2>. QED  BY <2>1, <1>4
<1>5. CASE t = <<"found", "select">>
  <2>1. Head(t) = "found" /\ Tail(t) = <<"select">> /\ Len(t) = 2
    BY <1>5
  <2>. QED  BY <2>1, <1>5
<1>6. CASE t = <<"select">>
  <2>1. Head(t) = "select" /\ Tail(t) = <<>> /\ Len(t) = 1
    BY <1>6
  <2>. QED  BY <2>1, <1>6
<1>7. CASE t = <<"raise">>
  <2>1. Head(t) = "raise" /\ Tail(t) = <<>> /\ Len(t) = 1
    BY <1>7
  <2>. QED  BY <2>1, <1>7
<1>. QED  BY <1>1, <1>2, <1>3, <1>4, <1>5, <1>6, <1>7

LEMMA EntryUpdates ==
    ASSUME NEW e \in Entries
    PROVE  e["update"] \in UpdateTodo
<1>. USE DEF UpdateTodo, InvalidatingUpdate, Entry
<1>1. CASE e \in NodeCrud \cup BunCrud \cup DenoCrud \cup ElysiaCrud
  BY <1>1 DEF NodeCrud, NodeUpdate, BunCrud, BunUpdate, DenoCrud, DenoUpdate,
              ElysiaCrud, ElysiaUpdate
<1>2. CASE e \in ExpressCrud \cup HyperCrud \cup UltimateCrud
  BY <1>2 DEF ExpressCrud, ExpressUpdate, HyperCrud, HyperUpdate, UltimateCrud, UltimateUpdate
<1>3. CASE e \in FulmineCrud \cup TunedCrud
  BY <1>3 DEF FulmineCrud, FulmineUpdate, FulmineItemPost, TunedCrud, TunedUpdate, TunedItemPost
<1>4. CASE e \in HonoBunCrud \cup BananaCrud
  BY <1>4 DEF HonoBunCrud, HonoBunUpdate, BananaCrud, BananaUpdate
<1>. QED  BY <1>1, <1>2, <1>3, <1>4 DEF Entries

(* How a step that leaves the rows alone moves a request from o to n, fills a  *)
(* cache, and raises the floor.                                                *)
Turn(o, n) ==
    /\ Fills(n) => \/ Fills(o) /\ n.id = o.id /\ n.worker = o.worker /\ n.seen = o.seen
                   \/ n.seen = Row(n.id)
    /\ n.op = "read" => \/ o.op = "read" /\ n.id = o.id /\ n.worker = o.worker /\ n.must = o.must
                        \/ n.must = floor[PlaceOf(n.worker)][n.id]
    /\ n.op = "update" => n.todo \in UpdateTodo
    /\ Owes(n) => /\ Owes(o) /\ n.id = o.id /\ n.worker = o.worker /\ n.own = o.own
                  /\ n.todo \in Deleted => \/ o.todo \in Deleted
                                           \/ cache'[PlaceOf(n.worker)][n.id] = None
Turns == \A r \in Requests : Turn(req[r], req'[r])

CacheFrom ==
    \A p \in Places, i \in Ids :
        \/ cache'[p][i] = None
        \/ cache'[p][i] = cache[p][i]
        \/ \E r \in Requests : /\ Fills(req[r]) /\ req[r].id = i /\ PlaceOf(req[r].worker) = p
                               /\ cache'[p][i].version = req[r].seen

FloorFrom ==
    /\ FloorShape'
    /\ \A p \in Places, i \in Ids :
          \/ floor'[p][i] = floor[p][i]
          \/ floor'[p][i] = 0 /\ cache'[p][i] = None
          \/ \E r \in Requests :
                /\ Owes(req[r]) /\ req[r].id = i /\ PlaceOf(req[r].worker) = p
                /\ floor'[p][i] = req[r].own
                /\ req[r].todo \in Deleted \/ cache'[p][i] = None

LEMMA BusyPlace ==
    ASSUME IInv, NEW r \in Requests, req[r].op # "idle"
    PROVE  req[r].id \in Ids /\ req[r].worker \in Workers /\ PlaceOf(req[r].worker) \in Places
  BY PlaceIsPlace DEF IInv, ReqInv, Good

LEMMA SeenKept ==
    ASSUME IInv, IInv', SeenInv, UNCHANGED <<entry, since>>, Turns, CacheFrom, FloorFrom
    PROVE  SeenInv'
<1>1. \A w : PlaceOf(w)' = PlaceOf(w)
  BY DEF PlaceOf
<1>2. \A i \in Ids : Row(i)' = Row(i) /\ Row(i) \in Nat
  BY DEF Row, IInv, TimeShape, Histories
<1>3. ASSUME NEW p \in Places, NEW i \in Ids, NEW v, Bound(p, i, v)
      PROVE  Bound(p, i, v)'
  <2>. SUFFICES ASSUME NEW r \in Requests, Fills(req'[r]), req'[r].id = i,
                       PlaceOf(req'[r].worker) = p
                PROVE  v <= req'[r].seen
    BY <1>1, <1>2, <1>3 DEF Bound, PlaceOf
  <2>. QED  BY <1>2, <1>3 DEF Bound, Turns, Turn
<1>4. ASSUME NEW p \in Places, NEW i \in Ids, NEW v, Bound(p, i, v), Fresh(p, i, v)
      PROVE  Fresh(p, i, v)'
  BY <1>4 DEF Bound, Fresh, CacheFrom
<1>5. ASSUME NEW r \in Requests, Owes(req[r])
      PROVE  Bound(PlaceOf(req[r].worker), req[r].id, req[r].own)
  BY <1>5 DEF SeenInv, UpdateInv, Owes
<1>6. FloorInv'
  <2>. SUFFICES ASSUME NEW p \in Places, NEW i \in Ids
                PROVE  \E v : v = floor'[p][i] /\ Bound(p, i, v)' /\ Fresh(p, i, v)'
    BY DEF FloorInv, Places, Bound, Fresh
  <2>1. CASE floor'[p][i] = floor[p][i]
    BY <1>3, <1>4, <2>1 DEF SeenInv, FloorInv
  <2>2. CASE floor'[p][i] = 0 /\ cache'[p][i] = None
    <3>1. Fresh(p, i, 0)'
      BY <2>2 DEF Fresh
    <3>2. ASSUME NEW r \in Requests, Fills(req'[r])
          PROVE  0 <= req'[r].seen
      <4>1. Good(req'[r], clock', since')
        BY DEF IInv, ReqInv
      <4>. QED  BY <3>2, <4>1 DEF Good, Fills
    <3>3. Bound(p, i, 0)'
      BY <1>2, <3>2 DEF Bound
    <3>. QED  BY <2>2, <3>1, <3>3
  <2>3. ASSUME NEW r \in Requests, Owes(req[r]), req[r].id = i, PlaceOf(req[r].worker) = p,
               floor'[p][i] = req[r].own, req[r].todo \in Deleted \/ cache'[p][i] = None
        PROVE  \E v : v = floor'[p][i] /\ Bound(p, i, v)' /\ Fresh(p, i, v)'
    <3>1. PICK w : w = req[r].own
      OBVIOUS
    <3>2. Bound(p, i, w) /\ Bound(p, i, w)'
      BY <1>3, <1>5, <2>3, <3>1
    <3>3. CASE cache'[p][i] = None
      <4>1. Fresh(p, i, w)'
        BY <3>3 DEF Fresh
      <4>. QED  BY <2>3, <3>1, <3>2, <4>1
    <3>4. CASE req[r].todo \in Deleted
      <4>1. Fresh(p, i, w)
        BY <2>3, <3>1, <3>4 DEF SeenInv, UpdateInv, Owes
      <4>2. Fresh(p, i, w)'
        BY <1>4, <3>2, <4>1
      <4>. QED  BY <2>3, <3>1, <3>2, <4>2
    <3>. QED  BY <2>3, <3>3, <3>4
  <2>. QED  BY <2>1, <2>2, <2>3 DEF FloorFrom
<1>7. MustInv'
  <2>. SUFFICES ASSUME NEW r \in Requests, req'[r].op = "read",
                       NEW p, p = PlaceOf(req'[r].worker), NEW i, i = req'[r].id,
                       NEW v, v = req'[r].must
                PROVE  Bound(p, i, v)' /\ Fresh(p, i, v)'
    BY <1>1 DEF MustInv, Bound, Fresh, PlaceOf
  <2>1. p \in Places /\ i \in Ids
    <3>1. Good(req'[r], clock', since')
      BY DEF IInv, ReqInv
    <3>. QED  BY <3>1, PlaceIsPlace DEF Good
  <2>2. Bound(p, i, v) /\ Fresh(p, i, v)
    BY <2>1 DEF SeenInv, MustInv, FloorInv, Turns, Turn
  <2>. QED  BY <1>3, <1>4, <2>1, <2>2
<1>8. UpdateInv'
  <2>1. ASSUME NEW r \in Requests, Owes(req'[r]),
               NEW p, p = PlaceOf(req'[r].worker), NEW i, i = req'[r].id,
               NEW v, v = req'[r].own
        PROVE  Bound(p, i, v)' /\ (req'[r].todo \in Deleted => Fresh(p, i, v)')
    <3>1. p \in Places /\ i \in Ids
      <4>1. Good(req'[r], clock', since')
        BY DEF IInv, ReqInv
      <4>. QED  BY <2>1, <4>1, PlaceIsPlace DEF Good, Owes
    <3>2. /\ Owes(req[r]) /\ i = req[r].id /\ req[r].worker = req'[r].worker /\ v = req[r].own
          /\ req'[r].todo \in Deleted => req[r].todo \in Deleted \/ cache'[p][i] = None
      BY <2>1 DEF Turns, Turn
    <3>3. Bound(p, i, v) /\ Bound(p, i, v)'
      BY <1>3, <1>5, <2>1, <3>1, <3>2
    <3>4. CASE cache'[p][i] = None
      BY <3>3, <3>4 DEF Fresh
    <3>5. CASE req[r].todo \in Deleted
      <4>1. Fresh(p, i, v)
        BY <2>1, <3>2, <3>5 DEF SeenInv, UpdateInv, Owes
      <4>. QED  BY <1>4, <3>1, <3>3, <4>1
    <3>. QED  BY <3>2, <3>3, <3>4, <3>5
  <2>2. \A r \in Requests : req'[r].op = "update" => req'[r].todo \in UpdateTodo
    BY DEF Turns, Turn
  <2>. QED  BY <1>1, <2>1, <2>2 DEF UpdateInv, Bound, Fresh, PlaceOf
<1>. QED  BY <1>6, <1>7, <1>8 DEF SeenInv, FloorFrom

LEMMA TurnSame ==
    ASSUME SeenInv, NEW r \in Requests
    PROVE  Turn(req[r], req[r])
  BY DEF SeenInv, UpdateInv, Turn

LEMMA TurnIdle == \A o : Turn(o, Idle)
  BY DEF Turn, Idle, Fills, Owes

LEMMA OneTurn ==
    ASSUME IInv, SeenInv, NEW r \in Requests, NEW n, Turn(req[r], n),
           req' = [req EXCEPT ![r] = n]
    PROVE  Turns
<1>1. \A q \in Requests : req'[q] = IF q = r THEN n ELSE req[q]
  BY DEF IInv, ReqShape
<1>. QED  BY <1>1, TurnSame DEF Turns

LEMMA FloorStays ==
    ASSUME SeenInv, floor' = floor
    PROVE  FloorFrom
  BY DEF SeenInv, FloorShape, FloorFrom, Places

LEMMA CacheStays ==
    ASSUME cache' = cache
    PROVE  CacheFrom
  BY DEF CacheFrom

LEMMA CacheStored ==
    ASSUME IInv, NEW r \in Requests, Fills(req[r]), cache' \in {cache, Stored(req[r])}
    PROVE  CacheFrom
<1>1. req[r].id \in Ids /\ PlaceOf(req[r].worker) \in Places
  BY BusyPlace DEF Fills
<1>2. Body(req[r]).version = req[r].seen
  BY DEF Body
<1>3. CASE cache' = cache
  BY <1>3, CacheStays
<1>4. CASE cache' = [cache EXCEPT ![PlaceOf(req[r].worker)][req[r].id] = Body(req[r])]
  BY <1>1, <1>2, <1>4 DEF CacheFrom, IInv, CacheShape
<1>. QED  BY <1>3, <1>4 DEF Stored

LEMMA CacheDeleted ==
    ASSUME IInv, NEW p \in Places, NEW i \in Ids,
           cache' \in {cache, [cache EXCEPT ![p][i] = None]}
    PROVE  CacheFrom
  BY DEF CacheFrom, IInv, CacheShape

(* An update that ends well, its body deleted, raises the floor to what it wrote. *)
LEMMA PromisedFrom ==
    ASSUME IInv, SeenInv, NEW r \in Requests, Busy(r), NEW q,
           q.op = req[r].op, q.id = req[r].id, q.worker = req[r].worker,
           q.own = req[r].own, q.raced = req[r].raced, floor' = Promised(q),
           q.op = "update" => \/ req[r].todo \in Deleted
                              \/ cache'[PlaceOf(q.worker)][q.id] = None
    PROVE  FloorFrom
<1>. DEFINE p == PlaceOf(q.worker)
<1>1. p \in Places /\ q.id \in Ids
  BY BusyPlace DEF Busy
<1>2. floor[p][q.id] \in Nat
  BY <1>1 DEF SeenInv, FloorInv, Bound
<1>3. CASE floor' = floor
  BY <1>3, FloorStays
<1>4. CASE /\ q.op = "update" /\ ~q.raced /\ q.own > floor[p][q.id]
           /\ floor' = [floor EXCEPT ![p][q.id] = q.own]
  <2>1. Owes(req[r])
    <3>1. q.own # 0
      BY <1>2, <1>4
    <3>. QED  BY <1>4, <3>1 DEF Owes
  <2>. QED  BY <1>1, <1>4, <2>1 DEF FloorFrom, SeenInv, FloorShape, Places
<1>. QED  BY <1>3, <1>4 DEF Promised

LEMMA AdvanceSeen ==
    ASSUME IInv, SeenInv, UNCHANGED <<entry, since>>, NEW r \in Requests, Busy(r), NEW q,
           DOMAIN q = DOMAIN Idle,
           q.op = req[r].op, q.id = req[r].id, q.worker = req[r].worker,
           q.own = req[r].own, q.raced = req[r].raced, q.must = req[r].must,
           q.todo = req[r].todo, q.seen = req[r].seen \/ q.seen = Row(q.id), Advance(r, q),
           q.op = "update" => \/ Head(q.todo) \in {"found", "select", "update"}
                              \/ cache'[PlaceOf(q.worker)][q.id] = None
    PROVE  Turns /\ FloorFrom
<1>1. ASSUME q.op = "update"
      PROVE  /\ q.todo \in UpdateTodo
             /\ Tail(q.todo) # <<>> => Tail(q.todo) \in UpdateTodo
             /\ Head(q.todo) \in {"found", "select"} => q.todo \in Deleted
             /\ Head(q.todo) = "update" => Tail(q.todo) # <<>> /\ Tail(q.todo) \notin Deleted
  BY <1>1, UpdateSteps DEF SeenInv, UpdateInv
<1>2. CASE Tail(q.todo) # <<>>
  <2>. DEFINE n == [q EXCEPT !.todo = Tail(@)]
  <2>1. req' = [req EXCEPT ![r] = n] /\ floor' = floor
    BY <1>2 DEF Advance
  <2>2. /\ n.todo = Tail(q.todo) /\ n.op = q.op /\ n.id = q.id /\ n.worker = q.worker
        /\ n.seen = q.seen /\ n.own = q.own /\ n.raced = q.raced /\ n.must = q.must
    BY DEF Idle
  <2>. HIDE DEF n
  <2>3. Fills(n) => \/ Fills(req[r]) /\ n.id = req[r].id /\ n.worker = req[r].worker
                       /\ n.seen = req[r].seen
                    \/ n.seen = Row(n.id)
    BY <2>2 DEF Fills
  <2>4. Owes(n) => Owes(req[r])
    BY <2>2 DEF Owes
  <2>5. n.op = "update" /\ n.todo \in Deleted =>
            req[r].todo \in Deleted \/ cache'[PlaceOf(n.worker)][n.id] = None
    BY <1>1, <2>2
  <2>6. Turn(req[r], n)
    BY <1>1, <1>2, <2>2, <2>3, <2>4, <2>5 DEF Turn, Owes
  <2>. QED  BY <2>1, <2>6, OneTurn, FloorStays
<1>3. CASE Tail(q.todo) = <<>>
  <2>1. req' = [req EXCEPT ![r] = Idle] /\ floor' = Promised(q)
    BY <1>3 DEF Advance, Finish
  <2>2. q.op = "update" => req[r].todo \in Deleted \/ cache'[PlaceOf(q.worker)][q.id] = None
    BY <1>1, <1>3
  <2>3. FloorFrom
    BY <2>1, <2>2, PromisedFrom
  <2>. QED  BY <2>1, <2>3, TurnIdle, OneTurn
<1>. QED  BY <1>2, <1>3

LEMMA IdleSeen ==
    ASSUME IInv, SeenInv, NEW r \in Requests, req' = [req EXCEPT ![r] = Idle], floor' = floor
    PROVE  Turns /\ FloorFrom
  BY TurnIdle, OneTurn, FloorStays

LEMMA SeenCacheGet ==
    ASSUME IInv, IInv', SeenInv, NEW r \in Requests, CacheGet(r)
    PROVE  SeenInv'
<1>1. UNCHANGED <<entry, since>> /\ CacheFrom
  BY CacheStays DEF CacheGet
<1>2. Busy(r) /\ Head(req[r].todo) = "get"
  BY DEF CacheGet, At
<1>3. req[r].op # "update" /\ DOMAIN req[r] = DOMAIN Idle
  BY <1>2, BusyFacts, WriteSteps
<1>4. CASE Advance(r, req[r])
  BY <1>1, <1>2, <1>3, <1>4, AdvanceSeen, SeenKept
<1>5. CASE req' = [req EXCEPT ![r] = Idle] /\ floor' = floor
  BY <1>1, <1>5, IdleSeen, SeenKept
<1>. QED  BY <1>4, <1>5 DEF CacheGet, Finish

LEMMA SeenSelect ==
    ASSUME IInv, IInv', SeenInv, NEW r \in Requests, Select(r)
    PROVE  SeenInv'
<1>. DEFINE q == [req[r] EXCEPT !.seen = Row(req[r].id), !.from = clock]
<1>1. UNCHANGED <<entry, since>> /\ CacheFrom
  BY CacheStays DEF Select
<1>2. Busy(r) /\ Head(req[r].todo) = "select"
  BY DEF Select, At
<1>3. CASE Row(req[r].id) = 0
  BY <1>1, <1>3, IdleSeen, SeenKept DEF Select, NotFound, Finish
<1>4. CASE Row(req[r].id) # 0
  <2>1. Advance(r, q)
    BY <1>4 DEF Select
  <2>2. /\ DOMAIN q = DOMAIN Idle /\ q.seen = Row(q.id) /\ q.op = req[r].op
        /\ q.id = req[r].id /\ q.worker = req[r].worker /\ q.todo = req[r].todo
        /\ q.own = req[r].own /\ q.raced = req[r].raced /\ q.must = req[r].must
    BY <1>2, BusyFacts DEF Idle
  <2>. HIDE DEF q
  <2>3. Turns /\ FloorFrom
    BY <1>1, <1>2, <2>1, <2>2, AdvanceSeen
  <2>. QED  BY <1>1, <2>3, SeenKept
<1>. QED  BY <1>3, <1>4

LEMMA SeenGoesOn ==
    ASSUME IInv, IInv', SeenInv, NEW r \in Requests,
           Reply(r) \/ Found(r) \/ Del(r) \/ UpdateNothing(r)
    PROVE  SeenInv'
<1>1. UNCHANGED <<entry, since>> /\ Busy(r)
  BY DEF Reply, Found, Del, UpdateNothing, At
<1>2. req[r].id \in Ids /\ PlaceOf(req[r].worker) \in Places /\ DOMAIN req[r] = DOMAIN Idle
  BY <1>1, BusyFacts, PlaceIsPlace
<1>3. CacheFrom
  BY <1>2, CacheStays, CacheDeleted DEF Reply, Found, Del, UpdateNothing
<1>4. CASE Advance(r, req[r])
  <2>1. req[r].op = "update" => \/ Head(req[r].todo) \in {"found", "select", "update"}
                                \/ cache'[PlaceOf(req[r].worker)][req[r].id] = None
    <3>1. CASE Reply(r)
      <4>1. Head(req[r].todo) = "reply"
        BY <3>1 DEF Reply, At
      <4>. QED  BY <4>1, UpdateSteps DEF SeenInv, UpdateInv
    <3>2. CASE Found(r)
      BY <3>2 DEF Found, At
    <3>3. CASE Del(r)
      BY <1>2, <3>3 DEF Del, IInv, CacheShape
    <3>4. CASE UpdateNothing(r)
      <4>1. CASE At(r, "update")
        BY <4>1 DEF At
      <4>2. CASE At(r, "change") /\ NotFound(r)
        <5>1. Head(req[r].todo) = "change" /\ req' = [req EXCEPT ![r] = Idle]
          BY <4>2 DEF At, NotFound, Finish
        <5>2. ASSUME req[r].op = "update" PROVE FALSE
          <6>1. req[r].todo \in UpdateTodo /\ Tail(req[r].todo) # <<>>
            BY <5>1, <5>2, UpdateSteps DEF SeenInv, UpdateInv
          <6>2. req' = [req EXCEPT ![r] = [req[r] EXCEPT !.todo = Tail(@)]]
            BY <1>4, <6>1 DEF Advance
          <6>3. req'[r].op = "update" /\ req'[r].op = "idle"
            BY <1>2, <5>1, <5>2, <6>2 DEF IInv, ReqShape, Idle
          <6>. QED  BY <6>3
        <5>. QED  BY <5>2
      <4>. QED  BY <3>4, <4>1, <4>2 DEF UpdateNothing
    <3>. QED  BY <3>1, <3>2, <3>3, <3>4
  <2>2. Turns /\ FloorFrom
    BY <1>1, <1>2, <1>4, <2>1, AdvanceSeen
  <2>. QED  BY <1>1, <1>3, <2>2, SeenKept
<1>5. CASE req' = [req EXCEPT ![r] = Idle] /\ floor' = floor
  BY <1>1, <1>3, <1>5, IdleSeen, SeenKept
<1>. QED  BY <1>4, <1>5 DEF Reply, Found, Del, UpdateNothing, NotFound, Finish

(* A read about to store what it saw. *)
LEMMA ReadFills ==
    ASSUME IInv, NEW r \in Requests, Busy(r), Head(req[r].todo) \in {"send", "set"}
    PROVE  req[r].op = "read" /\ Tail(req[r].todo) = <<>> /\ Fills(req[r])
<1>1. req[r].op = "read" /\ req[r].todo \in StoreTodo /\ Tail(req[r].todo) = <<>>
  BY BusyFacts, ReadSteps, WriteSteps
<1>. QED  BY <1>1, BusyFacts DEF Good, Fills

LEMMA SeenSet ==
    ASSUME IInv, IInv', SeenInv, NEW r \in Requests, Set(r)
    PROVE  SeenInv'
<1>1. UNCHANGED <<entry, since>> /\ Busy(r) /\ Head(req[r].todo) = "set"
  BY DEF Set, At
<1>2. req[r].op = "read" /\ Tail(req[r].todo) = <<>> /\ Fills(req[r])
  BY <1>1, ReadFills
<1>3. CacheFrom
  BY <1>2, CacheStored DEF Set
<1>4. req' = [req EXCEPT ![r] = Idle] /\ floor' = floor
  BY <1>2 DEF Set, Advance, Finish, Promised
<1>. QED  BY <1>1, <1>3, <1>4, IdleSeen, SeenKept

LEMMA SeenSend ==
    ASSUME IInv, IInv', SeenInv, NEW r \in Requests, Send(r)
    PROVE  SeenInv'
<1>. DEFINE n == [req[r] EXCEPT !.op = "landing"]
<1>1. UNCHANGED <<entry, since, floor>> /\ Busy(r) /\ Head(req[r].todo) = "send"
  BY DEF Send, At
<1>2. req[r].op = "read" /\ Fills(req[r])
  BY <1>1, ReadFills
<1>3. CacheFrom
  BY <1>2, CacheStored DEF Send
<1>4. /\ n.op = "landing" /\ n.id = req[r].id /\ n.worker = req[r].worker
      /\ n.seen = req[r].seen
  BY <1>1, BusyFacts DEF Idle
<1>5. req' = [req EXCEPT ![r] = Idle] \/ req' = [req EXCEPT ![r] = n]
  BY DEF Send
<1>. HIDE DEF n
<1>6. Turn(req[r], n)
  BY <1>2, <1>4 DEF Turn, Fills, Owes
<1>7. Turns
  BY <1>5, <1>6, TurnIdle, OneTurn
<1>. QED  BY <1>1, <1>3, <1>7, FloorStays, SeenKept

LEMMA SeenLand ==
    ASSUME IInv, IInv', SeenInv, NEW r \in Requests, Land(r)
    PROVE  SeenInv'
<1>1. UNCHANGED <<entry, since, floor>> /\ req' = [req EXCEPT ![r] = Idle]
  BY DEF Land
<1>2. Fills(req[r])
  BY LandingFacts DEF Land, Landing, Fills
<1>3. CacheFrom
  BY <1>2, CacheStored DEF Land
<1>. QED  BY <1>1, <1>3, IdleSeen, SeenKept

LEMMA SeenFail ==
    ASSUME IInv, IInv', SeenInv, NEW r \in Requests, Fail(r)
    PROVE  SeenInv'
<1>1. UNCHANGED <<entry, since, floor>> /\ req' = [req EXCEPT ![r] = Idle] /\ Busy(r)
  BY DEF Fail, Finish, At
<1>2. Shared \in Places /\ req[r].id \in Ids
  BY <1>1, BusyFacts DEF Places
<1>3. CASE cache' \in {cache, [cache EXCEPT ![Shared][req[r].id] = None]}
  BY <1>1, <1>2, <1>3, CacheDeleted, IdleSeen, SeenKept
<1>4. CASE At(r, "set") /\ cache' \in {cache, Stored(req[r])}
  <2>1. Fills(req[r])
    BY <1>1, <1>4, ReadFills DEF At
  <2>. QED  BY <1>1, <1>4, <2>1, CacheStored, IdleSeen, SeenKept
<1>. QED  BY <1>3, <1>4 DEF Fail

LEMMA SeenRejected ==
    ASSUME IInv, IInv', SeenInv, NEW r \in Requests, NEW dies \in BOOLEAN, Rejected(r, dies)
    PROVE  SeenInv'
<1>1. UNCHANGED <<entry, since, floor>>
  BY DEF Rejected
<1>2. Fills(req[r])
  BY LandingFacts DEF Rejected, Landing, Fills
<1>3. CacheFrom
  BY <1>2, CacheStored DEF Rejected
<1>4. Turns
  <2>1. CASE dies
    <3>1. PICK gone : req' = [q \in Requests |-> IF q \in gone THEN Idle ELSE req[q]]
      BY <2>1 DEF Rejected
    <3>. QED  BY <3>1, TurnIdle, TurnSame DEF Turns
  <2>2. CASE ~dies
    BY <2>2, TurnIdle, OneTurn DEF Rejected
  <2>. QED  BY <2>1, <2>2
<1>. QED  BY <1>1, <1>3, <1>4, FloorStays, SeenKept

LEMMA SeenAsk ==
    ASSUME IInv, IInv', SeenInv, NEW r \in Requests, NEW op \in {"read", "create", "update"},
           NEW i \in Ids, NEW w \in Workers, Ask(r, op, i, w)
    PROVE  SeenInv'
<1>1. UNCHANGED <<entry, since, floor>> /\ CacheFrom
  BY CacheStays DEF Ask
<1>2. PICK n : /\ req' = [req EXCEPT ![r] = n]
               /\ n.op = op /\ n.id = i /\ n.worker = w /\ n.todo = entry[op]
               /\ n.seen = 0 /\ n.own = 0 /\ (op = "read" => n.must = floor[PlaceOf(w)][i])
  <2>. DEFINE n(m) == [Idle EXCEPT !.op = op, !.id = i, !.worker = w, !.todo = entry[op],
                                  !.start = clock, !.must = m]
  <2>1. req' = [req EXCEPT ![r] = n(IF op = "read" THEN floor[PlaceOf(w)][i] ELSE 0)]
    BY DEF Ask
  <2>2. \A m : /\ n(m).op = op /\ n(m).id = i /\ n(m).worker = w /\ n(m).todo = entry[op]
               /\ n(m).seen = 0 /\ n(m).own = 0 /\ n(m).must = m
    BY DEF Idle
  <2>. HIDE DEF n
  <2>. QED  BY <2>1, <2>2
<1>3. Turn(req[r], n)
  BY <1>2, EntryUpdates DEF Turn, Fills, Owes, IInv, TimeShape
<1>. QED  BY <1>1, <1>2, <1>3, OneTurn, FloorStays, SeenKept

LEMMA SeenTick ==
    ASSUME IInv, IInv', SeenInv, Tick
    PROVE  SeenInv'
<1>1. Turns
  BY TurnSame DEF Tick, Turns
<1>2. CacheFrom
  BY DEF Tick, CacheFrom
<1>. QED  BY <1>1, <1>2, FloorStays, SeenKept DEF Tick

LEMMA SeenRefork ==
    ASSUME IInv, IInv', SeenInv, NEW w \in Workers, Refork(w)
    PROVE  SeenInv'
<1>1. Turns
  BY TurnSame DEF Refork, Turns
<1>2. CacheFrom
  BY DEF Refork, CacheFrom, IInv, CacheShape, Places
<1>3. FloorFrom
  BY DEF Refork, FloorFrom, SeenInv, FloorShape, IInv, CacheShape, Places
<1>. QED  BY <1>1, <1>2, <1>3, SeenKept DEF Refork

(* A row moves on: every promise stays behind it, and an update that writes it *)
(* promises it unless a read of an older row is on its way into the cache.     *)
LEMMA SeenWrite ==
    ASSUME IInv, IInv', SeenInv, NEW r \in Requests, NEW ok \in BOOLEAN, Write(r, ok)
    PROVE  SeenInv'
<1>. DEFINE q == req[r]
            new == Row(q.id) + 1
            behind == {o \in Requests \ {r} :
                          /\ req[o].op \in {"read", "landing"}
                          /\ req[o].id = q.id /\ req[o].seen # 0
                          /\ PlaceOf(req[o].worker) = PlaceOf(q.worker)}
            n == [q EXCEPT !.todo = IF ok THEN Tail(@) ELSE <<"raise">>,
                           !.seen = new, !.own = new, !.from = clock, !.raced = behind # {}]
<1>1. Busy(r) /\ Head(q.todo) \in {"insert", "change", "update"} /\ NewVersion(r, ok)
  BY DEF Write, At
<1>2. q.op # "read" /\ q.op # "landing" /\ q.id \in Ids /\ DOMAIN q = DOMAIN Idle
  BY <1>1, BusyFacts, ReadSteps DEF Busy
<1>3. UNCHANGED <<entry, cache, floor>> /\ req' = [req EXCEPT ![r] = n]
  BY <1>1 DEF NewVersion
<1>4. /\ n.op = q.op /\ n.id = q.id /\ n.worker = q.worker /\ n.own = new
      /\ n.raced = (behind # {}) /\ n.todo = IF ok THEN Tail(q.todo) ELSE <<"raise">>
  BY <1>2 DEF Idle
<1>5. \A i \in Ids : /\ Row(i) \in Nat /\ Row(i)' \in Nat /\ Row(i) <= Row(i)'
                     /\ i = q.id => Row(i)' = new
  <2>1. since' = [since EXCEPT ![q.id] = Append(@, clock)]
    BY <1>1 DEF NewVersion
  <2>2. since \in Histories /\ clock \in Nat
    BY DEF IInv, TimeShape
  <2>. QED  BY <1>2, <2>1, <2>2 DEF Row, Histories
<1>6. \A w : PlaceOf(w)' = PlaceOf(w)
  BY <1>3 DEF PlaceOf
<1>. HIDE DEF n
<1>7. \A o \in Requests : req'[o] = IF o = r THEN n ELSE req[o]
  BY <1>3 DEF IInv, ReqShape
<1>8. ASSUME NEW p, NEW i \in Ids, NEW v, Bound(p, i, v)
      PROVE  Bound(p, i, v)'
  <2>1. v \in Nat /\ v <= Row(i)'
    BY <1>5, <1>8 DEF Bound
  <2>2. ASSUME NEW o \in Requests, Fills(req'[o]), req'[o].id = i, PlaceOf(req'[o].worker) = p
        PROVE  v <= req'[o].seen
    <3>1. req'[o] = req[o]
      BY <1>2, <1>4, <1>7, <2>2 DEF Fills
    <3>. QED  BY <1>8, <2>2, <3>1 DEF Bound
  <2>. QED  BY <1>3, <2>1, <2>2 DEF Bound, PlaceOf
<1>9. ASSUME NEW p, NEW i, NEW v, Fresh(p, i, v)
      PROVE  Fresh(p, i, v)'
  BY <1>3, <1>9 DEF Fresh
<1>10. FloorShape' /\ FloorInv'
  <2>. SUFFICES ASSUME NEW p \in Places, NEW i \in Ids, NEW v, v = floor[p][i]
                PROVE  Bound(p, i, v)' /\ Fresh(p, i, v)'
    BY <1>3 DEF FloorShape, FloorInv, SeenInv, Bound, Fresh, Places
  <2>. QED  BY <1>8, <1>9 DEF SeenInv, FloorInv
<1>11. MustInv'
  <2>. SUFFICES ASSUME NEW o \in Requests, req'[o].op = "read",
                       NEW p, p = PlaceOf(req'[o].worker), NEW i, i = req'[o].id,
                       NEW v, v = req'[o].must
                PROVE  Bound(p, i, v)' /\ Fresh(p, i, v)'
    BY <1>3, <1>6 DEF MustInv, Bound, Fresh, PlaceOf
  <2>1. req'[o] = req[o] /\ i \in Ids
    BY <1>2, <1>4, <1>7, BusyPlace
  <2>2. Bound(p, i, v) /\ Fresh(p, i, v)
    BY <2>1 DEF SeenInv, MustInv
  <2>. QED  BY <1>8, <1>9, <2>1, <2>2
<1>12. UpdateInv'
  <2>1. ASSUME NEW o \in Requests, o # r, req'[o].op = "update",
               NEW p, p = PlaceOf(req'[o].worker), NEW i, i = req'[o].id,
               NEW v, v = req'[o].own
        PROVE  /\ req'[o].todo \in UpdateTodo
               /\ Owes(req'[o]) => Bound(p, i, v)' /\ (req'[o].todo \in Deleted => Fresh(p, i, v)')
    <3>1. req'[o] = req[o] /\ i \in Ids
      BY <1>7, <2>1, BusyPlace
    <3>2. /\ req[o].todo \in UpdateTodo
          /\ Owes(req[o]) => Bound(p, i, v) /\ (req[o].todo \in Deleted => Fresh(p, i, v))
      BY <2>1, <3>1 DEF SeenInv, UpdateInv
    <3>. QED  BY <1>8, <1>9, <3>1, <3>2
  <2>2. ASSUME n.op = "update", NEW p, p = PlaceOf(n.worker), NEW i, i = n.id,
               NEW v, v = n.own
        PROVE  /\ n.todo \in UpdateTodo
               /\ Owes(n) => Bound(p, i, v)' /\ (n.todo \in Deleted => Fresh(p, i, v)')
    <3>1. q.todo \in UpdateTodo
      BY <1>4, <2>2 DEF SeenInv, UpdateInv
    <3>2. n.todo \in UpdateTodo /\ n.todo \notin Deleted
      <4>1. Tail(q.todo) \in UpdateTodo /\ Tail(q.todo) \notin Deleted
        BY <1>1, <3>1, UpdateSteps
      <4>2. <<"raise">> \in UpdateTodo /\ <<"raise">> \notin Deleted
        BY DEF UpdateTodo, Deleted
      <4>. QED  BY <1>4, <4>1, <4>2
    <3>3. ASSUME Owes(n)
          PROVE  Bound(p, i, v)'
      <4>1. behind = {}
        BY <1>4, <3>3 DEF Owes
      <4>2. ASSUME NEW o \in Requests, Fills(req'[o]), req'[o].id = i, PlaceOf(req'[o].worker) = p
            PROVE  FALSE
        <5>1. o # r /\ req'[o] = req[o]
          BY <1>2, <1>4, <1>7, <4>2 DEF Fills
        <5>2. o \in behind
          BY <1>4, <2>2, <4>2, <5>1 DEF Fills
        <5>. QED  BY <4>1, <5>2
      <4>3. v \in Nat /\ v <= Row(i)'
        BY <1>2, <1>4, <1>5, <2>2
      <4>. QED  BY <1>3, <4>2, <4>3 DEF Bound, PlaceOf
    <3>. QED  BY <3>2, <3>3
  <2>3. ASSUME NEW o \in Requests, req'[o].op = "update",
               NEW p, p = PlaceOf(req'[o].worker), NEW i, i = req'[o].id,
               NEW v, v = req'[o].own
        PROVE  /\ req'[o].todo \in UpdateTodo
               /\ Owes(req'[o]) => Bound(p, i, v)' /\ (req'[o].todo \in Deleted => Fresh(p, i, v)')
    BY <1>7, <2>1, <2>2, <2>3
  <2>. QED  BY <1>3, <1>6, <2>3 DEF UpdateInv, Bound, Fresh, PlaceOf
<1>. QED  BY <1>10, <1>11, <1>12 DEF SeenInv

LEMMA SeenInit == Init => SeenInv
<1>. SUFFICES ASSUME Init PROVE SeenInv
  OBVIOUS
<1>1. FloorShape
  BY DEF Init, FloorShape
<1>2. \A r \in Requests : req[r].op = "idle" /\ req[r].seen = 0
  BY DEF Init, Idle
<1>3. \A i \in Ids : Row(i) \in Nat
  BY DEF Init, Row
<1>4. FloorInv
  BY <1>2, <1>3 DEF Init, FloorInv, Bound, Fresh, Fills
<1>. QED  BY <1>1, <1>2, <1>4 DEF SeenInv, MustInv, UpdateInv

LEMMA SeenStep == IInv /\ IInv' /\ SeenInv /\ [Next]_vars => SeenInv'
<1>. SUFFICES ASSUME IInv, IInv', SeenInv, [Next]_vars PROVE SeenInv'
  OBVIOUS
<1>1. CASE UNCHANGED vars
  <2>1. Turns
    BY <1>1, TurnSame DEF vars, Turns
  <2>. QED  BY <1>1, <2>1, CacheStays, FloorStays, SeenKept DEF vars
<1>2. CASE Tick
  BY <1>2, SeenTick
<1>3. ASSUME NEW w \in Workers, Refork(w) PROVE SeenInv'
  BY <1>3, SeenRefork
<1>4. ASSUME NEW r \in Requests, NEW op \in {"read", "create", "update"}, NEW i \in Ids,
             NEW w \in Workers, Ask(r, op, i, w)
      PROVE  SeenInv'
  BY <1>4, SeenAsk
<1>5. ASSUME NEW r \in Requests, Serve(r) PROVE SeenInv'
  BY <1>5, SeenCacheGet, SeenSelect, SeenGoesOn, SeenSet, SeenSend, SeenLand, SeenFail,
     SeenWrite, SeenRejected DEF Serve
<1>. QED  BY <1>1, <1>2, <1>3, <1>4, <1>5 DEF Next

(* Every row a read answers is one the invariant holds against its promise. *)
Seen(r) ==
    (req[r].op = "read" /\ said' # None)
        => (said'.to = r /\ said'.kind = "row" => said'.version >= req[r].must)

LEMMA AnswerIsSeen ==
    ASSUME IInv, SeenInv, NEW r \in Requests, Serve(r), req[r].op = "read", said' # None,
           said'.kind = "row"
    PROVE  said'.version >= req[r].must
<1>. DEFINE p == PlaceOf(req[r].worker)
            i == req[r].id
<1>1. /\ Busy(r) /\ DOMAIN req[r] = DOMAIN Idle
      /\ i \in Ids /\ p \in Places /\ req[r].todo \in ReadTodo
  BY BusyFacts, PlaceIsPlace DEF Busy
<1>2. Bound(p, i, req[r].must) /\ Fresh(p, i, req[r].must)
  BY DEF SeenInv, MustInv
<1>3. req[r].must \in Nat /\ req[r].must <= Row(i) /\ Row(i) \in Nat
  BY <1>1, <1>2, BusyFacts DEF Bound
<1>4. Head(req[r].todo) \in {"get", "select", "send", "set"}
  BY <1>1, ReadSteps
<1>5. Fills(req[r]) => req[r].must <= req[r].seen /\ req[r].seen \in Nat
  BY <1>1, <1>2, BusyFacts DEF Bound, Good
<1>6. CASE CacheGet(r)
  <2>1. Tail(req[r].todo) # <<>>
    BY <1>1, <1>6, ReadSteps DEF CacheGet, At
  <2>2. said' # None => /\ cache[p][i] # None
                        /\ said' = [to |-> r, kind |-> "row", version |-> cache[p][i].version]
    BY <1>6, <2>1 DEF CacheGet, Advance, Finish, ARow
  <2>3. cache[p][i].version \in Nat
    BY <1>1, <2>2 DEF IInv, CacheInv, Kept
  <2>. QED  BY <1>2, <1>3, <2>2, <2>3 DEF Fresh
<1>7. CASE Select(r)
  <2>. DEFINE q == [req[r] EXCEPT !.seen = Row(req[r].id), !.from = clock]
  <2>1. q.todo = req[r].todo
    BY <1>1 DEF Idle
  <2>2. Tail(q.todo) # <<>>
    BY <1>1, <1>7, <2>1, ReadSteps DEF Select, At
  <2>3. CASE Row(i) = 0
    <3>1. said' = [to |-> r, kind |-> "row", version |-> 0]
      BY <1>7, <2>3 DEF Select, NotFound, Finish, ARow
    <3>. QED  BY <1>3, <2>3, <3>1
  <2>4. CASE Row(i) # 0
    BY <1>7, <2>2, <2>4 DEF Select, Advance
  <2>. QED  BY <2>3, <2>4
<1>8. CASE Set(r) \/ Send(r)
  <2>1. Tail(req[r].todo) = <<>> /\ Fills(req[r])
    BY <1>1, <1>8, ReadFills DEF Set, Send, At
  <2>2. said' = [to |-> r, kind |-> "row", version |-> req[r].seen]
    BY <1>8, <2>1 DEF Set, Send, Advance, Finish, ARow
  <2>. QED  BY <1>3, <1>5, <2>1, <2>2
<1>9. CASE Fail(r)
  BY <1>9 DEF Fail, Finish, Other
<1>. QED
  BY <1>4, <1>6, <1>7, <1>8, <1>9 DEF Serve, UpdateNothing, Found, Reply, Del, Land, Landing,
     Write, Rejected, At

LEMMA SaysToItself ==
    ASSUME NEW r \in Requests, Serve(r), said' # None
    PROVE  said'.to = r
<1>1. \A a : Finish(r, a) => said'.to = r
  BY DEF Finish
<1>2. \A q : Advance(r, q) => said'.to = r
  BY <1>1 DEF Advance
<1>3. CASE CacheGet(r) \/ Select(r)
  BY <1>1, <1>2, <1>3 DEF CacheGet, Select, NotFound
<1>4. CASE UpdateNothing(r) \/ Found(r) \/ Reply(r)
  BY <1>1, <1>2, <1>4 DEF UpdateNothing, Found, Reply, NotFound
<1>5. CASE Del(r) \/ Set(r) \/ Send(r) \/ Fail(r)
  BY <1>1, <1>2, <1>5 DEF Del, Set, Send, Fail
<1>. QED
  BY <1>3, <1>4, <1>5 DEF Serve, Land, Write, NewVersion, Rejected

LEMMA StepSeen ==
    ASSUME IInv, SeenInv, Next, NEW r \in Requests
    PROVE  Seen(r)
<1>. SUFFICES ASSUME req[r].op = "read", said' # None, said'.to = r, said'.kind = "row"
              PROVE  said'.version >= req[r].must
  BY DEF Seen
<1>1. PICK q \in Requests : Serve(q)
  BY DEF Next, Tick, Refork, Ask
<1>2. q = r
  BY <1>1, SaysToItself
<1>. QED  BY <1>1, <1>2, AnswerIsSeen

(* For any number of requests, items and workers, over any cache and with
   anything failing: a read that began after an update was acknowledged
   answers that update's row or a newer one, if no read of an older row was
   on its way into the cache when the update wrote. *)
THEOREM UpdateIsSeenTheorem == Spec => UpdateIsSeen
<1>. DEFINE A == \A r \in Requests :
                    (req[r].op = "read" /\ said' # None)
                       => (said'.to = r /\ said'.kind = "row" => said'.version >= req[r].must)
<1>1. IInv /\ SeenInv /\ [Next]_vars => [A]_vars
  BY StepSeen DEF Seen
<1>. QED  BY <1>1, InvInit, InvStep, SeenInit, SeenStep, PTL DEF Spec, UpdateIsSeen

------------------------------------------------------------------------------
(* Types.  The invariant above bounds the versions by the rows. *)
LEMMA StepNames ==
    /\ {"raise", "insert", "reply", "del", "change", "update", "found", "select"} \subseteq Step
    /\ ReadTodo \subseteq Seq(Step) /\ WriteTodo \subseteq Seq(Step)
<1>1. \A s \in {"get", "select", "update", "change", "found", "insert", "reply", "del", "set",
                "send", "raise"} : s \in Step
  BY DEF Step
<1>. HIDE DEF Step
<1>2. ReadTodo \subseteq Seq(Step)
  BY <1>1 DEF ReadTodo
<1>3. WriteTodo \subseteq Seq(Step)
  BY <1>1 DEF WriteTodo
<1>. QED  BY <1>1, <1>2, <1>3

LEMMA IdleType == Idle \in Request
<1>1. <<>> \in Seq(Step) /\ 0 \in Version
  BY CrudAssumption DEF Version
<1>. QED  BY <1>1 DEF Idle, Request

(* What a step may change, and stay in its type. *)
LEMMA TypeOne ==
    ASSUME TypeOK, NEW r \in Requests, NEW n \in Request, req' = [req EXCEPT ![r] = n]
    PROVE  req' \in [Requests -> Request]
  BY DEF TypeOK

LEMMA TypeSaid ==
    ASSUME NEW r \in Requests, NEW a, a.kind \in {"row", "done", "error"}, a.version \in Version,
           Finish(r, a), TypeOK
    PROVE  said' \in Answers \cup {None} /\ req' \in [Requests -> Request]
<1>1. said' \in Answers
  BY DEF Finish, Answers
<1>2. req' \in [Requests -> Request]
  BY IdleType, TypeOne DEF Finish
<1>. QED  BY <1>1, <1>2

LEMMA TypeAdvance ==
    ASSUME TypeOK, NEW r \in Requests, NEW q \in Request, q.todo # <<>>, Advance(r, q),
           q.id \in Ids, q.worker \in Workers
    PROVE  /\ said' \in Answers \cup {None} /\ req' \in [Requests -> Request]
           /\ floor' \in [Places -> [Ids -> Version]]
<1>. USE CrudAssumption
<1>1. q.todo \in Seq(Step) /\ q.seen \in Version /\ q.own \in Version
  BY DEF Request
<1>2. Tail(q.todo) \in Seq(Step)
  BY <1>1
<1>3. CASE Tail(q.todo) # <<>>
  <2>1. [q EXCEPT !.todo = Tail(@)] \in Request
    BY <1>2 DEF Request
  <2>. QED  BY <1>3, <2>1, TypeOne DEF Advance, TypeOK
<1>4. CASE Tail(q.todo) = <<>>
  <2>1. Finish(r, ARow(q.seen)) \/ Finish(r, Other("done"))
    BY <1>4 DEF Advance
  <2>2. /\ ARow(q.seen).kind = "row" /\ ARow(q.seen).version = q.seen
        /\ Other("done").kind = "done" /\ Other("done").version = 0 /\ 0 \in Version
    BY DEF ARow, Other, Version
  <2>3. said' \in Answers \cup {None} /\ req' \in [Requests -> Request]
    BY <1>1, <2>1, <2>2, TypeSaid
  <2>4. floor' \in [Places -> [Ids -> Version]]
    <3>1. PlaceOf(q.worker) \in Places
      BY PlaceIsPlace
    <3>2. floor' = Promised(q)
      BY <1>4 DEF Advance
    <3>. QED  BY <1>1, <3>1, <3>2 DEF Promised, TypeOK
  <2>. QED  BY <2>3, <2>4
<1>. QED  BY <1>3, <1>4

LEMMA TypeNotFound ==
    ASSUME TypeOK, NEW r \in Requests, NotFound(r)
    PROVE  /\ said' \in Answers \cup {None} /\ req' \in [Requests -> Request]
           /\ floor' \in [Places -> [Ids -> Version]]
<1>1. ARow(0).kind = "row" /\ ARow(0).version = 0 /\ 0 \in Version
  BY CrudAssumption DEF ARow, Version
<1>. QED  BY <1>1, TypeSaid DEF NotFound, TypeOK

LEMMA TypeStored ==
    ASSUME IInv, TypeOK, NEW r \in Requests, req[r].op # "idle"
    PROVE  Stored(req[r]) \in [Places -> [Ids -> CachedBody \cup {None}]]
<1>1. req[r].id \in Ids /\ PlaceOf(req[r].worker) \in Places
  BY BusyPlace
<1>2. Body(req[r]) \in CachedBody
  <2>1. entry.ttl \in Nat /\ clock \in Nat /\ req[r] \in Request
    BY EntryShape DEF TypeOK
  <2>. QED  BY <2>1 DEF Body, CachedBody, Request
<1>. QED  BY <1>1, <1>2 DEF Stored, TypeOK

LEMMA BusyType ==
    ASSUME IInv, TypeOK, NEW r \in Requests, Busy(r)
    PROVE  req[r] \in Request /\ req[r].id \in Ids /\ req[r].worker \in Workers
  BY BusyFacts DEF TypeOK

(* Steps of a handler that answer or go on. *)
LEMMA TypeServe ==
    ASSUME IInv, TypeOK, NEW r \in Requests,
           \/ CacheGet(r) \/ Select(r) \/ UpdateNothing(r) \/ Found(r) \/ Reply(r) \/ Del(r)
           \/ Set(r) \/ Fail(r)
    PROVE  TypeOK'
<1>1. Busy(r) /\ UNCHANGED <<entry, clock, since, alive>> /\ req[r].todo # <<>>
  BY DEF CacheGet, Select, UpdateNothing, Found, Reply, Del, Set, Fail, At
<1>2. /\ req[r] \in Request /\ req[r].id \in Ids /\ req[r].worker \in Workers
      /\ PlaceOf(req[r].worker) \in Places
  BY <1>1, BusyType, PlaceIsPlace
<1>3. cache' \in [Places -> [Ids -> CachedBody \cup {None}]]
  <2>1. Stored(req[r]) \in [Places -> [Ids -> CachedBody \cup {None}]]
    BY <1>1, TypeStored DEF Busy
  <2>. DEFINE i == req[r].id
              without(p) == [cache EXCEPT ![p][i] = None]
  <2>2. \A p : without(p) \in [Places -> [Ids -> CachedBody \cup {None}]]
    BY DEF TypeOK
  <2>3. cache \in [Places -> [Ids -> CachedBody \cup {None}]]
    BY DEF TypeOK
  <2>4. \/ cache' = cache \/ cache' = Stored(req[r])
        \/ cache' = without(Shared) \/ cache' = without(PlaceOf(req[r].worker))
    BY DEF CacheGet, Select, UpdateNothing, Found, Reply, Fail, Del, Set
  <2>. HIDE DEF without, i
  <2>. QED  BY <2>1, <2>2, <2>3, <2>4
<1>. DEFINE Typed == /\ said' \in Answers \cup {None} /\ req' \in [Requests -> Request]
                     /\ floor' \in [Places -> [Ids -> Version]]
<1>4. Advance(r, req[r]) => Typed
  BY <1>1, <1>2, TypeAdvance
<1>5. NotFound(r) => Typed
  BY TypeNotFound
<1>6. ASSUME CacheGet(r) PROVE Typed
  <2>1. ASSUME NEW b \in CachedBody, Finish(r, ARow(b.version)), floor' = floor
        PROVE  Typed
    <3>1. ARow(b.version).kind = "row" /\ ARow(b.version).version \in Version
      BY DEF ARow, CachedBody
    <3>. QED  BY <2>1, <3>1, TypeSaid DEF TypeOK
  <2>2. cache[PlaceOf(req[r].worker)][req[r].id] \in CachedBody \cup {None}
    BY <1>2 DEF TypeOK
  <2>. HIDE DEF Typed
  <2>. QED  BY <1>4, <1>6, <2>1, <2>2 DEF CacheGet
<1>7. ASSUME Select(r) PROVE Typed
  <2>. DEFINE q == [req[r] EXCEPT !.seen = Row(req[r].id), !.from = clock]
  <2>1. q \in Request /\ q.todo = req[r].todo /\ q.id = req[r].id /\ q.worker = req[r].worker
    <3>1. Row(req[r].id) \in Version /\ clock \in Nat
      BY <1>1, <1>2, BusyFacts, CrudAssumption DEF TypeOK, Version
    <3>. QED  BY <1>2, <3>1 DEF Request
  <2>2. NotFound(r) \/ Advance(r, q)
    BY <1>7 DEF Select
  <2>. HIDE DEF q
  <2>. QED  BY <1>1, <1>2, <1>5, <2>1, <2>2, TypeAdvance
<1>8. ASSUME Fail(r) PROVE Typed
  <2>1. Other("error").kind = "error" /\ Other("error").version = 0 /\ 0 \in Version
    BY CrudAssumption DEF Other, Version
  <2>2. Finish(r, Other("error")) /\ floor' = floor
    BY <1>8 DEF Fail
  <2>. QED  BY <2>1, <2>2, TypeSaid DEF TypeOK
<1>9. Typed
  <2>. HIDE DEF Typed
  <2>. QED  BY <1>4, <1>5, <1>6, <1>7, <1>8 DEF UpdateNothing, Found, Reply, Del, Set
<1>. QED  BY <1>1, <1>3, <1>9 DEF TypeOK, Row

LEMMA TypeBehind ==
    ASSUME IInv, TypeOK, NEW r \in Requests,
           Send(r) \/ Land(r) \/ \E dies \in BOOLEAN : Rejected(r, dies)
    PROVE  TypeOK'
<1>1. req[r].op # "idle" /\ UNCHANGED <<entry, clock, since, floor>> /\ alive' \subseteq Workers
  BY DEF Send, Land, Rejected, At, Busy, Landing, TypeOK
<1>2. cache' \in [Places -> [Ids -> CachedBody \cup {None}]]
  BY <1>1, TypeStored DEF Send, Land, Rejected, TypeOK
<1>3. req' \in [Requests -> Request]
  <2>1. [req[r] EXCEPT !.op = "landing"] \in Request
    BY DEF TypeOK, Request
  <2>2. ASSUME NEW dies \in BOOLEAN, Rejected(r, dies)
        PROVE  req' \in [Requests -> Request]
    <3>1. CASE dies
      <4>1. PICK gone : req' = [q \in Requests |-> IF q \in gone THEN Idle ELSE req[q]]
        BY <2>2, <3>1 DEF Rejected
      <4>. QED  BY <4>1, IdleType DEF TypeOK
    <3>2. CASE ~dies
      BY <2>2, <3>2, IdleType, TypeOne DEF Rejected
    <3>. QED  BY <3>1, <3>2
  <2>. QED  BY <2>1, <2>2, IdleType, TypeOne DEF Send, Land
<1>4. said' \in Answers \cup {None}
  <2>1. Send(r) => said' \in Answers
    BY DEF Send, Answers, TypeOK, Request
  <2>. QED  BY <2>1 DEF Land, Rejected
<1>. QED  BY <1>1, <1>2, <1>3, <1>4 DEF TypeOK, Row

LEMMA TypeWrite ==
    ASSUME IInv, TypeOK, NEW r \in Requests, NEW ok \in BOOLEAN, Write(r, ok)
    PROVE  TypeOK'
<1>1. Busy(r) /\ req[r].todo # <<>> /\ NewVersion(r, ok)
  BY DEF Write, At
<1>2. req[r] \in Request /\ req[r].id \in Ids
  BY <1>1, BusyType
<1>3. PICK b \in BOOLEAN :
          req' = [req EXCEPT ![r] =
                    [req[r] EXCEPT !.todo = IF ok THEN Tail(@) ELSE <<"raise">>,
                                   !.seen = Row(req[r].id) + 1, !.own = Row(req[r].id) + 1,
                                   !.from = clock, !.raced = b]]
  BY <1>1 DEF NewVersion
<1>4. /\ UNCHANGED <<entry, clock, cache, alive, floor>> /\ said' = None
      /\ since' = [since EXCEPT ![req[r].id] = Append(@, clock)]
      /\ Row(req[r].id) < MaxVersions
  BY <1>1 DEF NewVersion
<1>5. clock \in Nat /\ Row(req[r].id) \in Nat
  BY <1>1, BusyFacts
<1>6. since' \in [Ids -> Seq(Nat)] /\ \A i \in Ids : Row(i)' <= MaxVersions
  BY <1>2, <1>4, <1>5, CrudAssumption DEF TypeOK, Row
<1>7. req' \in [Requests -> Request]
  <2>1. /\ Tail(req[r].todo) \in Seq(Step) /\ <<"raise">> \in Seq(Step)
        /\ Row(req[r].id) + 1 \in Version
    BY <1>1, <1>2, <1>4, <1>5, StepNames, CrudAssumption DEF Request, Version
  <2>2. [req[r] EXCEPT !.todo = IF ok THEN Tail(@) ELSE <<"raise">>,
                       !.seen = Row(req[r].id) + 1, !.own = Row(req[r].id) + 1,
                       !.from = clock, !.raced = b] \in Request
    BY <1>2, <1>5, <2>1 DEF Request
  <2>. QED  BY <1>3, <2>2, TypeOne
<1>. QED  BY <1>4, <1>6, <1>7 DEF TypeOK

LEMMA TypeAsk ==
    ASSUME IInv, TypeOK, NEW r \in Requests, NEW op \in {"read", "create", "update"},
           NEW i \in Ids, NEW w \in Workers, Ask(r, op, i, w)
    PROVE  TypeOK'
<1>1. UNCHANGED <<entry, clock, since, cache, alive, floor>> /\ said' = None
  BY DEF Ask
<1>2. /\ entry[op] \in Seq(Step) /\ clock \in Nat
      /\ floor[PlaceOf(w)][i] \in Version /\ 0 \in Version
  BY EntryShape, StepNames, PlaceIsPlace, CrudAssumption DEF TypeOK, Version
<1>3. PICK m \in Version :
          req' = [req EXCEPT ![r] = [Idle EXCEPT !.op = op, !.id = i, !.worker = w,
                     !.todo = entry[op], !.start = clock, !.must = m]]
  BY <1>2 DEF Ask
<1>4. [Idle EXCEPT !.op = op, !.id = i, !.worker = w,
                   !.todo = entry[op], !.start = clock, !.must = m] \in Request
  BY <1>2, IdleType DEF Request
<1>5. req' \in [Requests -> Request]
  BY <1>3, <1>4, TypeOne
<1>. QED  BY <1>1, <1>5 DEF TypeOK, Row

LEMMA TypeInit == Init => TypeOK
<1>. SUFFICES ASSUME Init PROVE TypeOK
  OBVIOUS
<1>1. since \in [Ids -> Seq(Nat)] /\ \A i \in Ids : Row(i) <= MaxVersions
  <2>1. <<>> \in Seq(Nat) /\ <<0>> \in Seq(Nat) /\ Len(<<>>) = 0 /\ Len(<<0>>) = 1
    OBVIOUS
  <2>2. 0 <= MaxVersions /\ 1 <= MaxVersions
    BY CrudAssumption
  <2>3. \A i \in Ids : since[i] = <<>> \/ since[i] = <<0>>
    BY DEF Init
  <2>4. \A i \in Ids : Len(since[i]) = 0 \/ Len(since[i]) = 1
    BY <2>1, <2>3
  <2>5. \A i \in Ids : Row(i) <= MaxVersions
    BY <2>2, <2>4 DEF Row
  <2>. QED  BY <2>1, <2>5 DEF Init
<1>2. req \in [Requests -> Request] /\ 0 \in Version
  BY IdleType, CrudAssumption DEF Init, Version
<1>. QED  BY <1>1, <1>2 DEF Init, TypeOK

LEMMA TypeStep == IInv /\ TypeOK /\ [Next]_vars => TypeOK'
<1>. SUFFICES ASSUME IInv, TypeOK, [Next]_vars PROVE TypeOK'
  OBVIOUS
<1>1. CASE UNCHANGED vars
  BY <1>1 DEF vars, TypeOK, Row
<1>2. CASE Tick
  BY <1>2 DEF Tick, TypeOK, Row
<1>3. ASSUME NEW w \in Workers, Refork(w) PROVE TypeOK'
  <2>1. 0 \in Version
    BY CrudAssumption DEF Version
  <2>. QED  BY <1>3, <2>1 DEF Refork, TypeOK, Row
<1>4. ASSUME NEW r \in Requests, NEW op \in {"read", "create", "update"}, NEW i \in Ids,
             NEW w \in Workers, Ask(r, op, i, w)
      PROVE  TypeOK'
  BY <1>4, TypeAsk
<1>5. ASSUME NEW r \in Requests, Serve(r) PROVE TypeOK'
  BY <1>5, TypeServe, TypeBehind, TypeWrite DEF Serve
<1>. QED  BY <1>1, <1>2, <1>3, <1>4, <1>5 DEF Next

(* Every variable keeps its type, and no row outgrows the bound on versions. *)
THEOREM TypeCorrect == Spec => []TypeOK
  BY InvInit, InvStep, TypeInit, TypeStep, PTL DEF Spec

==============================================================================
