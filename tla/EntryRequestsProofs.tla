------------------------ MODULE EntryRequestsProofs -------------------------
(***************************************************************************)
(* What a worker answers, for every set of connections and of requests,     *)
(* however their bodies, timers and queries interleave.                     *)
(***************************************************************************)
EXTENDS EntryRequests, SequenceTheorems, WellFoundedInduction, NaturalsInduction,
        FiniteSetTheorems, TLAPS

Bodies == {"baseline11", "echo"}
Databases == {"async-db", "list", "fortunes"}

-----------------------------------------------------------------------------
(* The tables of entries, and the routes they are for *)

LEMMA JsonTable ==
  ASSUME NEW r, NEW m
  PROVE  /\ DOMAIN Json(r, m) =
              {"node", "deno", "bun", "node_h3", "elysia", "hono_bun", "hono_node", "koa",
               "nestjs", "fastify", "express", "ultimate_express", "hyper_express", "fulmine",
               "fulmine_tuned", "bananabread"}
         /\ Json(r, m)["node"] = NodeJson(r, m)
         /\ Json(r, m)["deno"] = DenoJson(r, m)
         /\ Json(r, m)["bun"] = BunJson(r, m)
         /\ Json(r, m)["node_h3"] = H3Json(r, m)
         /\ Json(r, m)["elysia"] = ElysiaJson(r, m)
         /\ Json(r, m)["hono_bun"] = HonoBunJson(r, m)
         /\ Json(r, m)["hono_node"] = HonoNodeJson(r, m)
         /\ Json(r, m)["koa"] = KoaJson(r, m)
         /\ Json(r, m)["nestjs"] = NestJson(r, m)
         /\ Json(r, m)["fastify"] = FastifyJson(r, m)
         /\ Json(r, m)["express"] = ExpressJson(r, m)
         /\ Json(r, m)["ultimate_express"] = UltimateJson(r, m)
         /\ Json(r, m)["hyper_express"] = HyperJson(r, m)
         /\ Json(r, m)["fulmine"] = FulmineJson(r, m)
         /\ Json(r, m)["fulmine_tuned"] = TunedJson(r, m)
         /\ Json(r, m)["bananabread"] = BananaJson(r, m)
  BY DEF Json

LEMMA StaticTable ==
  ASSUME NEW r
  PROVE  /\ DOMAIN Static(r) =
              {"node", "deno", "express", "fastify", "bun", "hono_bun", "ultimate_express",
               "hyper_express", "elysia"}
         /\ Static(r)["node"] = NodeStatic(r)
         /\ Static(r)["deno"] = DenoStatic(r)
         /\ Static(r)["express"] = ExpressStatic(r)
         /\ Static(r)["fastify"] = FastifyStatic(r)
         /\ Static(r)["bun"] = BunStatic(r)
         /\ Static(r)["hono_bun"] = HonoBunStatic(r)
         /\ Static(r)["ultimate_express"] = UltimateStatic(r)
         /\ Static(r)["hyper_express"] = HyperStatic(r)
         /\ Static(r)["elysia"] = ElysiaStatic(r)
  BY DEF Static

LEMMA BodyTable ==
  ASSUME NEW r, NEW bytes
  PROVE  /\ DOMAIN Body(r, bytes) =
              {"node", "deno", "bun", "elysia", "hono_bun", "hono_node", "node_h3", "koa",
               "nestjs", "fastify", "express", "ultimate_express", "hyper_express", "fulmine",
               "fulmine_tuned", "bananabread"}
         /\ Body(r, bytes)["node"] = NodeBody(r, bytes)
         /\ Body(r, bytes)["deno"] = DenoBody(r, bytes)
         /\ Body(r, bytes)["bun"] = BunBody(r, bytes)
         /\ Body(r, bytes)["elysia"] = ElysiaBody(r, bytes)
         /\ Body(r, bytes)["hono_bun"] = HonoBunBody(r, bytes)
         /\ Body(r, bytes)["hono_node"] = HonoNodeBody(r, bytes)
         /\ Body(r, bytes)["node_h3"] = H3Body(r, bytes)
         /\ Body(r, bytes)["koa"] = KoaBody(r, bytes)
         /\ Body(r, bytes)["nestjs"] = NestBody(r, bytes)
         /\ Body(r, bytes)["fastify"] = FastifyBody(r, bytes)
         /\ Body(r, bytes)["express"] = ExpressBody(r, bytes)
         /\ Body(r, bytes)["ultimate_express"] = UltimateBody(r, bytes)
         /\ Body(r, bytes)["hyper_express"] = HyperBody(r, bytes)
         /\ Body(r, bytes)["fulmine"] = FulmineBody(r, bytes)
         /\ Body(r, bytes)["fulmine_tuned"] = TunedBody(r, bytes)
         /\ Body(r, bytes)["bananabread"] = BananaBody(r, bytes)
  BY DEF Body

LEMMA AsyncDbTable ==
  ASSUME NEW r, NEW out
  PROVE  /\ DOMAIN AsyncDb(r, out) =
              {"node", "deno", "bun", "elysia", "hono_bun", "fastify", "express",
               "ultimate_express", "hyper_express", "fulmine", "fulmine_tuned", "bananabread"}
         /\ AsyncDb(r, out)["node"] = NodeAsyncDb(r, out)
         /\ AsyncDb(r, out)["deno"] = DenoAsyncDb(r, out)
         /\ AsyncDb(r, out)["bun"] = BunAsyncDb(r, out)
         /\ AsyncDb(r, out)["elysia"] = ElysiaAsyncDb(r, out)
         /\ AsyncDb(r, out)["hono_bun"] = HonoBunAsyncDb(r, out)
         /\ AsyncDb(r, out)["fastify"] = FastifyAsyncDb(r, out)
         /\ AsyncDb(r, out)["express"] = ExpressAsyncDb(r, out)
         /\ AsyncDb(r, out)["ultimate_express"] = UltimateAsyncDb(r, out)
         /\ AsyncDb(r, out)["hyper_express"] = HyperAsyncDb(r, out)
         /\ AsyncDb(r, out)["fulmine"] = FulmineAsyncDb(r, out)
         /\ AsyncDb(r, out)["fulmine_tuned"] = TunedAsyncDb(r, out)
         /\ AsyncDb(r, out)["bananabread"] = BananaAsyncDb(r, out)
  BY DEF AsyncDb

LEMMA ListTable ==
  ASSUME NEW r, NEW out
  PROVE  /\ DOMAIN List(r, out) =
              {"node", "deno", "bun", "elysia", "hono_bun", "express", "ultimate_express",
               "hyper_express", "fulmine", "fulmine_tuned", "bananabread"}
         /\ List(r, out)["node"] = NodeList(r, out)
         /\ List(r, out)["deno"] = DenoList(r, out)
         /\ List(r, out)["bun"] = BunList(r, out)
         /\ List(r, out)["elysia"] = ElysiaList(r, out)
         /\ List(r, out)["hono_bun"] = HonoBunList(r, out)
         /\ List(r, out)["express"] = ExpressList(r, out)
         /\ List(r, out)["ultimate_express"] = UltimateList(r, out)
         /\ List(r, out)["hyper_express"] = HyperList(r, out)
         /\ List(r, out)["fulmine"] = FulmineList(r, out)
         /\ List(r, out)["fulmine_tuned"] = TunedList(r, out)
         /\ List(r, out)["bananabread"] = BananaList(r, out)
  BY DEF List

LEMMA FortunesOfTable ==
  ASSUME NEW out
  PROVE  /\ DOMAIN FortunesOf(out) =
              {"node", "deno", "bun", "elysia", "hono_bun", "express", "ultimate_express",
               "hyper_express", "fulmine", "fulmine_tuned"}
         /\ FortunesOf(out)["node"] = NodeFortunes(out)
         /\ FortunesOf(out)["deno"] = DenoFortunes(out)
         /\ FortunesOf(out)["bun"] = BunFortunes(out)
         /\ FortunesOf(out)["elysia"] = ElysiaFortunes(out)
         /\ FortunesOf(out)["hono_bun"] = HonoBunFortunes(out)
         /\ FortunesOf(out)["express"] = ExpressFortunes(out)
         /\ FortunesOf(out)["ultimate_express"] = UltimateFortunes(out)
         /\ FortunesOf(out)["hyper_express"] = HyperFortunes(out)
         /\ FortunesOf(out)["fulmine"] = FulmineFortunes(out)
         /\ FortunesOf(out)["fulmine_tuned"] = TunedFortunes(out)
  BY DEF FortunesOf

LEMMA DelayTable ==
  ASSUME NEW r
  PROVE  /\ DOMAIN Delay(r) =
              {"bun", "express", "fulmine", "fulmine_tuned"}
         /\ Delay(r)["bun"] = BunDelay(r)
         /\ Delay(r)["express"] = ExpressDelay(r)
         /\ Delay(r)["fulmine"] = FulmineDelay(r)
         /\ Delay(r)["fulmine_tuned"] = TunedDelay(r)
  BY DEF Delay

LEMMA HavingRoute ==
  ASSUME NEW r
  PROVE  /\ r.route = "json" => Having(r) = DOMAIN Json(r, TRUE)
         /\ r.route \in Bodies => Having(r) = Http
         /\ r.route = "delay" => Having(r) = DOMAIN Delay(r)
         /\ r.route = "async-db" => Having(r) = DOMAIN AsyncDb(r, "rows")
         /\ r.route = "list" => Having(r) = DOMAIN List(r, "rows")
         /\ r.route = "fortunes" => Having(r) = DOMAIN FortunesOf("rows")
         /\ r.route = "static" => Having(r) = DOMAIN Static(r)
         /\ r.route = "ws" => Having(r) = DOMAIN Ws("text")
  BY DEF Having, Bodies

\* An entry that has the route has it in the table of its answers.
LEMMA InTable ==
  ASSUME NEW r, NEW e \in Having(r), NEW x
  PROVE  /\ r.route = "json" => e \in DOMAIN Json(r, x)
         /\ r.route \in Bodies => e \in DOMAIN Body(r, x)
         /\ r.route = "async-db" => e \in DOMAIN AsyncDb(r, x)
         /\ r.route = "list" => e \in DOMAIN List(r, x)
         /\ r.route = "fortunes" => e \in DOMAIN FortunesOf(x)
         /\ r.route = "ws" => e \in DOMAIN Ws(x)
<1>1. r.route = "json" => e \in DOMAIN Json(r, x)
  <2>1. DOMAIN Json(r, x) = DOMAIN Json(r, TRUE)
    BY DEF Json
  <2>. QED
    BY <2>1, HavingRoute
<1>2. r.route \in Bodies => e \in DOMAIN Body(r, x)
  <2>1. DOMAIN Body(r, x) = Http
    BY DEF Body, Http
  <2>. QED
    BY <2>1, HavingRoute
<1>3. r.route = "async-db" => e \in DOMAIN AsyncDb(r, x)
  <2>1. DOMAIN AsyncDb(r, x) = DOMAIN AsyncDb(r, "rows")
    BY DEF AsyncDb
  <2>. QED
    BY <2>1, HavingRoute
<1>4. r.route = "list" => e \in DOMAIN List(r, x)
  <2>1. DOMAIN List(r, x) = DOMAIN List(r, "rows")
    BY DEF List
  <2>. QED
    BY <2>1, HavingRoute
<1>5. r.route = "fortunes" => e \in DOMAIN FortunesOf(x)
  <2>1. DOMAIN FortunesOf(x) = DOMAIN FortunesOf("rows")
    BY DEF FortunesOf
  <2>. QED
    BY <2>1, HavingRoute
<1>6. r.route = "ws" => e \in DOMAIN Ws(x)
  <2>1. DOMAIN Ws(x) = DOMAIN Ws("text")
    BY DEF Ws
  <2>. QED
    BY <2>1, HavingRoute
<1>. QED
  BY <1>1, <1>2, <1>3, <1>4, <1>5, <1>6

LEMMA RowsRoute ==
  ASSUME NEW r, NEW out
  PROVE  /\ r.route = "async-db" => Rows(r, out) = AsyncDb(r, out)[entry]
         /\ r.route = "list" => Rows(r, out) = List(r, out)[entry]
         /\ r.route = "fortunes" => Rows(r, out) = FortunesOf(out)[entry]
  BY DEF Rows

LEMMA DocumentedRoute ==
  ASSUME NEW r, NEW out
  PROVE  /\ r.route = "json" =>
              Documented(r, out) = Ok(Items(Wanted(r), IfNumber(r.m, 0)))
         /\ r.route = "baseline11" =>
              Documented(r, out) = Ok(<<IfNumber(r.a, 0) + IfNumber(r.b, 0)
                                          + (IF r.post THEN Digits(r.body) ELSE 0)>>)
         /\ r.route \in {"echo", "ws"} => Documented(r, out) = Ok(r.body)
         /\ r.route = "delay" => Documented(r, out) = Ok(<<IfNumber(r.ms, 0)>>)
         /\ r.route = "static" => Documented(r, out) = File("identity")
         /\ r.route = "async-db" =>
              Documented(r, out) =
                IF out \in Returned THEN Ok(PriceRange(IfNumber, r)) ELSE EmptyItems
         /\ r.route = "list" =>
              Documented(r, out) = IF out \in Returned THEN Page(IfNumber, r) ELSE Fail
         /\ r.route = "fortunes" =>
              Documented(r, out) =
                IF out \in Returned THEN Ok(Listing) ELSE Fail
  BY DEF Documented

-----------------------------------------------------------------------------
(* The invariant: what a connection holds in each state of its request *)

\* What the worker keeps of the first n pieces of a body.
Came(e, r, n) == [i \in 1 .. n |-> IF r.route = "ws" THEN Ws(r.body[i])[e] ELSE r.body[i]]

\* Kept, of any entry and request.
KeptOf(e, r, piece) ==
  IF r.route = "ws" THEN [i \in DOMAIN piece |-> Ws(piece[i])[e]] ELSE piece

Reading(e, c) ==
  /\ c.ask.route \in Bodies \cup {"ws"} /\ (c.ask.route \in Bodies => c.ask.post)
  /\ \E n \in 0 .. Len(c.ask.body) : c.bytes = Came(e, c.ask, n)
  /\ c.out = "none" /\ c.left = 0 /\ c.age = 0

\* A timer has run for as long as it has not to run any more.
Waiting(e, c) ==
  /\ c.ask.route = "delay" /\ c.out = "none"
  /\ c.left \in Nat /\ c.age \in Nat /\ c.left + c.age = Delay(c.ask)[e]

Querying(c) == c.ask.route \in Databases /\ c.out = "none" /\ c.left = 0 /\ c.age = 0

\* The answer is what the handler makes of the whole request, late enough.
Done(e, m, c) ==
  /\ c.left = 0 /\ c.age \in Nat
  /\ c.ask.route \in Databases => c.out \in {"nopool", "rows", "full", "fails"}
  /\ c.ask.route \notin Databases => c.out = "none"
  /\ c.ask.route = "json" => c.ans = Json(c.ask, m)[e]
  /\ c.ask.route = "static" => c.ans = Static(c.ask)[e]
  /\ c.ask.route \in Bodies =>
       c.ans = Body(c.ask, IF c.ask.post THEN c.ask.body ELSE <<>>)[e]
  /\ c.ask.route = "delay" => c.ans = Ok(<<Delay(c.ask)[e]>>) /\ c.age >= Delay(c.ask)[e]
  /\ c.ask.route = "async-db" => c.ans = AsyncDb(c.ask, c.out)[e]
  /\ c.ask.route = "list" => c.ans = List(c.ask, c.out)[e]
  /\ c.ask.route = "fortunes" => c.ans = FortunesOf(c.out)[e]
  /\ c.ask.route = "ws" => c.ans = Ok(Came(e, c.ask, Len(c.ask.body)))

Good(e, m, R, c) ==
  /\ DOMAIN c = DOMAIN Free
  /\ c.st \in {"free", "reading", "waiting", "querying", "done"}
  /\ c.st = "free" => c = Free
  /\ c.st # "free" => c.ask \in R /\ e \in Having(c.ask)
  /\ c.st = "reading" => Reading(e, c)
  /\ c.st = "waiting" => Waiting(e, c)
  /\ c.st = "querying" => Querying(c)
  /\ c.st = "done" => Done(e, m, c)

IInv ==
  /\ entry \in Entries /\ mounted \in BOOLEAN /\ pool \in BOOLEAN
  /\ DOMAIN slot = Slots /\ \A s \in Slots : Good(entry, mounted, Requests[s], slot[s])

LEMMA InitIInv == Init => IInv
  BY DEF Init, IInv, Good, Free

\* A step that changes one connection keeps the invariant if the connection keeps its part.
LEMMA OneSlot ==
  ASSUME IInv, NEW s \in Slots, NEW c, slot' = [slot EXCEPT ![s] = c],
         UNCHANGED <<entry, mounted, pool>>, Good(entry, mounted, Requests[s], c)
  PROVE  IInv'
  BY DEF IInv

LEMMA AnsweredCell ==
  ASSUME NEW c, DOMAIN c = DOMAIN Free, NEW out, NEW answer
  PROVE  LET d == [c EXCEPT !.st = "done", !.out = out, !.ans = answer]
         IN /\ DOMAIN d = DOMAIN Free /\ d.st = "done" /\ d.out = out /\ d.ans = answer
            /\ d.ask = c.ask /\ d.left = c.left /\ d.age = c.age
  BY DEF Free

\* A request that is answered where it is asked.
LEMMA AnsweredAtOnce ==
  ASSUME IInv, NEW s \in Slots, NEW r \in Requests[s], Asks(s, r), NEW out, NEW answer,
         Answered(s, [Free EXCEPT !.ask = r], out, answer),
         \A c : c.ask = r /\ c.out = out /\ c.ans = answer /\ c.left = 0 /\ c.age = 0
                  => Done(entry, mounted, c)
  PROVE  IInv'
<1>. DEFINE b == [Free EXCEPT !.ask = r]
            d == [b EXCEPT !.st = "done", !.out = out, !.ans = answer]
<1>1. DOMAIN b = DOMAIN Free /\ b.ask = r /\ b.left = 0 /\ b.age = 0
  BY DEF Free
<1>2. slot' = [slot EXCEPT ![s] = d]
  BY DEF Answered
<1>3. /\ DOMAIN d = DOMAIN Free /\ d.st = "done" /\ d.ask = r /\ d.out = out
      /\ d.ans = answer /\ d.left = 0 /\ d.age = 0
  <2>. HIDE DEF b
  <2>. QED
    BY <1>1, AnsweredCell
<1>. HIDE DEF d
<1>4. Done(entry, mounted, d)
  BY <1>3
<1>5. Good(entry, mounted, Requests[s], d)
  BY <1>3, <1>4 DEF Good, Asks
<1>. QED
  BY <1>2, <1>5, OneSlot DEF Asks

\* A request that is suspended where it is asked.
LEMMA SuspendedAtFirst ==
  ASSUME IInv, NEW s \in Slots, NEW r \in Requests[s], Asks(s, r), NEW left,
         NEW st \in {"reading", "waiting", "querying"}, Suspended(s, r, st, left),
         \A c : c.ask = r /\ c.out = "none" /\ c.left = left /\ c.age = 0 /\ c.bytes = <<>> =>
                  /\ st = "reading" => Reading(entry, c)
                  /\ st = "waiting" => Waiting(entry, c)
                  /\ st = "querying" => Querying(c)
  PROVE  IInv'
<1>. DEFINE d == [Free EXCEPT !.st = st, !.ask = r, !.left = left]
<1>1. slot' = [slot EXCEPT ![s] = d]
  BY DEF Suspended
<1>2. /\ DOMAIN d = DOMAIN Free /\ d.st = st /\ d.ask = r /\ d.out = "none"
      /\ d.left = left /\ d.age = 0 /\ d.bytes = <<>>
  BY DEF Free
<1>. HIDE DEF d
<1>3. Good(entry, mounted, Requests[s], d)
  BY <1>2 DEF Good, Asks
<1>. QED
  BY <1>1, <1>3, OneSlot DEF Asks

-----------------------------------------------------------------------------
(* The steps *)

\* What is known of a request by its route.
LEMMA RequestShape ==
  ASSUME NEW r \in Request
  PROVE  /\ r.route \in {"json", "static", "delay", "ws"} \cup Bodies \cup Databases
         /\ r.route = "json" =>
              r.count \in Parameter /\ r.m \in Parameter /\ r.accept \in Header
         /\ r.route = "static" => r.have \subseteq {"br", "gzip"} /\ r.accept \in Header
         /\ r.route = "baseline11" =>
              r.a \in Parameter /\ r.b \in Parameter /\ r.post \in BOOLEAN /\ r.body \in Seq(Nat)
         /\ r.route = "echo" => r.post = TRUE /\ r.body \in Seq(Nat)
         /\ r.route = "delay" => r.ms \in {Absent, Junk} \cup Nat
         /\ r.route = "async-db" =>
              /\ r.min \in Parameter /\ r.max \in Parameter /\ r.limit \in Parameter
              /\ r.accept \in Header
         /\ r.route = "list" =>
              r.page \in Parameter /\ r.limit \in Parameter /\ r.accept \in Header
         /\ r.route = "ws" => r.body \in Seq(Frame)
<1>. DEFINE Kind(route) ==
       \/ route = "json" /\ r \in [route : {"json"}, count : Parameter, m : Parameter, accept : Header]
       \/ route = "static" /\ r \in [route : {"static"}, have : SUBSET {"br", "gzip"}, accept : Header]
       \/ route = "baseline11" /\ r \in [route : {"baseline11"}, a : Parameter, b : Parameter,
                                         post : BOOLEAN, body : Seq(Nat)]
       \/ route = "echo" /\ r \in [route : {"echo"}, post : {TRUE}, body : Seq(Nat)]
       \/ route = "delay" /\ r \in [route : {"delay"}, ms : {Absent, Junk} \cup Nat]
       \/ route = "async-db" /\ r \in [route : {"async-db"}, min : Parameter, max : Parameter,
                                       limit : Parameter, accept : Header]
       \/ route = "list" /\ r \in [route : {"list"}, page : Parameter, limit : Parameter,
                                   accept : Header]
       \/ route = "fortunes" /\ r \in [route : {"fortunes"}]
       \/ route = "ws" /\ r \in [route : {"ws"}, body : Seq(Frame)]
<1>1. \E route : Kind(route) /\ r.route = route
  BY DEF Request
<1>. QED
  BY <1>1 DEF Bodies, Databases

LEMMA CameNone == ASSUME NEW e, NEW r PROVE Came(e, r, 0) = <<>>
  BY DEF Came

\* A delay is never negative, so its timer runs out.
LEMMA DelayNat ==
  ASSUME NEW r \in Request, r.route = "delay", NEW e \in DOMAIN Delay(r)
  PROVE  Delay(r)[e] = Or(r.ms, 0) /\ Or(r.ms, 0) \in Nat /\ Or(r.ms, 0) = IfNumber(r.ms, 0)
<1>1. r.ms \in {Absent, Junk} \cup Nat
  BY RequestShape
<1>2. Or(r.ms, 0) \in Nat /\ Or(r.ms, 0) = IfNumber(r.ms, 0)
  BY <1>1 DEF Or, IfNumber, ParseInt
<1>3. Delay(r)[e] = Or(r.ms, 0)
  BY DEF Delay, BunDelay, ExpressDelay, FulmineDelay, TunedDelay
<1>. QED
  BY <1>2, <1>3

LEMMA StepAskJson ==
  ASSUME IInv, NEW s \in Slots, NEW r \in Requests[s], AskJson(s, r) PROVE IInv'
<1>1. r.route = "json" /\ Asks(s, r)
      /\ Answered(s, [Free EXCEPT !.ask = r], "none", Json(r, mounted)[entry])
  BY DEF AskJson
<1>2. \A c : c.ask = r /\ c.out = "none" /\ c.ans = Json(r, mounted)[entry] /\ c.left = 0
               /\ c.age = 0 => Done(entry, mounted, c)
  BY <1>1 DEF Done, Bodies, Databases
<1>. QED
  BY <1>1, <1>2, AnsweredAtOnce

LEMMA StepAskStatic ==
  ASSUME IInv, NEW s \in Slots, NEW r \in Requests[s], AskStatic(s, r) PROVE IInv'
<1>1. r.route = "static" /\ Asks(s, r)
      /\ Answered(s, [Free EXCEPT !.ask = r], "none", Static(r)[entry])
  BY DEF AskStatic
<1>2. \A c : c.ask = r /\ c.out = "none" /\ c.ans = Static(r)[entry] /\ c.left = 0
               /\ c.age = 0 => Done(entry, mounted, c)
  BY <1>1 DEF Done, Bodies, Databases
<1>. QED
  BY <1>1, <1>2, AnsweredAtOnce

LEMMA StepAskBody ==
  ASSUME IInv, NEW s \in Slots, NEW r \in Requests[s], AskBody(s, r) PROVE IInv'
<1>1. r.route \in Bodies /\ Asks(s, r) /\ r \in Request /\ r.body \in Seq(Nat)
  BY RequestsAssumption, RequestShape DEF AskBody, Bodies
<1>2. CASE r.post
  <2>1. Suspended(s, r, "reading", 0)
    BY <1>2 DEF AskBody
  <2>2. <<>> = Came(entry, r, 0) /\ 0 \in 0 .. Len(r.body)
    BY <1>1, CameNone
  <2>3. \A c : c.ask = r /\ c.out = "none" /\ c.left = 0 /\ c.age = 0 /\ c.bytes = <<>> =>
                 Reading(entry, c)
    BY <1>1, <1>2, <2>2 DEF Reading
  <2>. QED
    BY <1>1, <2>1, <2>3, SuspendedAtFirst
<1>3. CASE ~r.post
  <2>1. Answered(s, [Free EXCEPT !.ask = r], "none", Body(r, <<>>)[entry])
    BY <1>3 DEF AskBody
  <2>2. \A c : c.ask = r /\ c.out = "none" /\ c.ans = Body(r, <<>>)[entry] /\ c.left = 0
                 /\ c.age = 0 => Done(entry, mounted, c)
    BY <1>1, <1>3 DEF Done, Bodies, Databases
  <2>. QED
    BY <1>1, <2>1, <2>2, AnsweredAtOnce
<1>. QED
  BY <1>2, <1>3

LEMMA StepAskDelay ==
  ASSUME IInv, NEW s \in Slots, NEW r \in Requests[s], AskDelay(s, r) PROVE IInv'
<1>1. r.route = "delay" /\ Asks(s, r) /\ r \in Request /\ entry \in DOMAIN Delay(r)
  BY RequestsAssumption, HavingRoute DEF AskDelay, Asks
<1>2. Delay(r)[entry] \in Nat
  BY <1>1, DelayNat
<1>3. CASE entry = "bun" /\ Delay(r)[entry] = 0
  <2>1. Answered(s, [Free EXCEPT !.ask = r], "none", Ok(<<0>>))
    BY <1>3 DEF AskDelay
  <2>2. \A c : c.ask = r /\ c.out = "none" /\ c.ans = Ok(<<0>>) /\ c.left = 0
                 /\ c.age = 0 => Done(entry, mounted, c)
    BY <1>1, <1>3 DEF Done, Bodies, Databases
  <2>. QED
    BY <1>1, <2>1, <2>2, AnsweredAtOnce
<1>4. CASE ~(entry = "bun" /\ Delay(r)[entry] = 0)
  <2>1. Suspended(s, r, "waiting", Delay(r)[entry])
    BY <1>4 DEF AskDelay
  <2>2. \A c : c.ask = r /\ c.out = "none" /\ c.left = Delay(r)[entry] /\ c.age = 0
                 /\ c.bytes = <<>> => Waiting(entry, c)
    BY <1>1, <1>2 DEF Waiting
  <2>. QED
    BY <1>1, <2>1, <2>2, SuspendedAtFirst
<1>. QED
  BY <1>3, <1>4

LEMMA StepAskRows ==
  ASSUME IInv, NEW s \in Slots, NEW r \in Requests[s], AskRows(s, r) PROVE IInv'
<1>1. r.route \in Databases /\ Asks(s, r)
  BY DEF AskRows, Databases
<1>2. CASE pool
  <2>1. Suspended(s, r, "querying", 0)
    BY <1>2 DEF AskRows
  <2>2. \A c : c.ask = r /\ c.out = "none" /\ c.left = 0 /\ c.age = 0 /\ c.bytes = <<>> =>
                 Querying(c)
    BY <1>1 DEF Querying
  <2>. QED
    BY <1>1, <2>1, <2>2, SuspendedAtFirst
<1>3. CASE ~pool
  <2>1. Answered(s, [Free EXCEPT !.ask = r], "nopool", Rows(r, "nopool"))
    BY <1>3 DEF AskRows
  <2>2. \A c : c.ask = r /\ c.out = "nopool" /\ c.ans = Rows(r, "nopool") /\ c.left = 0
                 /\ c.age = 0 => Done(entry, mounted, c)
    BY <1>1, RowsRoute DEF Done, Bodies, Databases
  <2>. QED
    BY <1>1, <2>1, <2>2, AnsweredAtOnce
<1>. QED
  BY <1>2, <1>3

LEMMA StepAskWs ==
  ASSUME IInv, NEW s \in Slots, NEW r \in Requests[s], AskWs(s, r) PROVE IInv'
<1>1. r.route = "ws" /\ Asks(s, r) /\ Suspended(s, r, "reading", 0) /\ r.body \in Seq(Frame)
  BY RequestsAssumption, RequestShape DEF AskWs
<1>2. <<>> = Came(entry, r, 0) /\ 0 \in 0 .. Len(r.body)
  BY <1>1, CameNone
<1>3. \A c : c.ask = r /\ c.out = "none" /\ c.left = 0 /\ c.age = 0 /\ c.bytes = <<>> =>
               Reading(entry, c)
  BY <1>1, <1>2 DEF Reading, Bodies
<1>. QED
  BY <1>1, <1>3, SuspendedAtFirst

\* A few more pieces of the body continue what has come.
LEMMA CameMore ==
  ASSUME NEW r, NEW S, r.body \in Seq(S), NEW e, NEW k \in 0 .. Len(r.body),
         NEW n \in 1 .. Len(SubSeq(r.body, k + 1, Len(r.body)))
  PROVE  LET rest == SubSeq(r.body, k + 1, Len(r.body))
         IN /\ k + n \in 0 .. Len(r.body)
            /\ Came(e, r, k) \o KeptOf(e, r, SubSeq(rest, 1, n)) = Came(e, r, k + n)
<1>. DEFINE rest == SubSeq(r.body, k + 1, Len(r.body))
            kept == KeptOf(e, r, SubSeq(rest, 1, n))
<1>1. /\ rest \in Seq(S) /\ Len(rest) = Len(r.body) - k
      /\ \A i \in 1 .. Len(rest) : rest[i] = r.body[k + i]
  OBVIOUS
<1>2. k \in Nat /\ n \in Nat /\ k + n \in 0 .. Len(r.body)
  BY <1>1
<1>3. /\ SubSeq(rest, 1, n) \in Seq(S) /\ Len(SubSeq(rest, 1, n)) = n
      /\ DOMAIN SubSeq(rest, 1, n) = 1 .. n
      /\ \A i \in 1 .. n : SubSeq(rest, 1, n)[i] = r.body[k + i]
  BY <1>1
<1>. DEFINE P(i) == IF r.route = "ws" THEN Ws(r.body[i])[e] ELSE r.body[i]
<1>4. kept = [i \in 1 .. n |-> P(k + i)]
  <2>. HIDE DEF rest
  <2>1. CASE r.route = "ws"
    BY <1>3, <2>1 DEF KeptOf
  <2>2. CASE r.route # "ws"
    <3>1. SubSeq(rest, 1, n) = [i \in 1 .. n |-> SubSeq(rest, 1, n)[i]]
      BY <1>3
    <3>. QED
      BY <1>3, <2>2, <3>1 DEF KeptOf
  <2>. QED
    BY <2>1, <2>2
<1>5. Came(e, r, k) = [i \in 1 .. k |-> P(i)] /\ Came(e, r, k + n) = [i \in 1 .. k + n |-> P(i)]
  BY DEF Came
<1>. HIDE DEF P, rest, kept
<1>6. [i \in 1 .. k |-> P(i)] \o [i \in 1 .. n |-> P(k + i)] = [i \in 1 .. k + n |-> P(i)]
  <2>. DEFINE a == [i \in 1 .. k |-> P(i)]
              b == [i \in 1 .. n |-> P(k + i)]
              c == [i \in 1 .. k + n |-> P(i)]
              T == {P(i) : i \in 1 .. k + n}
  <2>1. a \in Seq(T) /\ b \in Seq(T) /\ c \in Seq(T) /\ Len(a) = k /\ Len(b) = n /\ Len(c) = k + n
    <3>1. /\ \A i \in 1 .. k : i \in 1 .. k + n
          /\ \A i \in 1 .. n : k + i \in 1 .. k + n
      BY <1>2
    <3>2. a \in [1 .. k -> T] /\ b \in [1 .. n -> T] /\ c \in [1 .. k + n -> T]
      BY <3>1
    <3>. HIDE DEF a, b, c, T
    <3>3. k + n \in Nat
      BY <1>2
    <3>. QED
      BY <1>2, <3>2, <3>3
  <2>2. \A i \in 1 .. k + n : (a \o b)[i] = c[i]
    <3>. SUFFICES ASSUME NEW i \in 1 .. k + n PROVE (a \o b)[i] = c[i]
      OBVIOUS
    <3>1. CASE i <= k
      BY <2>1, <3>1
    <3>2. CASE i > k
      <4>1. (a \o b)[i] = b[i - k] /\ i - k \in 1 .. n
        BY <2>1, <3>2
      <4>. QED
        BY <4>1
    <3>. QED
      BY <3>1, <3>2
  <2>3. (a \o b) \in Seq(T) /\ Len(a \o b) = k + n
    BY <2>1
  <2>. HIDE DEF a, b, c, T
  <2>4. \A i \in 1 .. Len(a \o b) : (a \o b)[i] = c[i]
    BY <2>2, <2>3
  <2>5. a \o b = c
    BY <2>1, <2>3, <2>4, SeqEqual
  <2>. QED
    BY <2>5 DEF a, b, c
<1>7. k + n \in 0 .. Len(r.body) /\ Came(e, r, k) \o kept = Came(e, r, k + n)
  BY <1>2, <1>4, <1>5, <1>6
<1>. QED
  BY <1>7 DEF kept, rest

\* All of the body is what was sent.
LEMMA CameAll ==
  ASSUME NEW e, NEW r, NEW S, r.body \in Seq(S), r.route # "ws"
  PROVE  Came(e, r, Len(r.body)) = r.body
  BY DEF Came

\* A request that reads a body has one.
LEMMA ReadingBody ==
  ASSUME IInv, NEW s \in Slots, slot[s].st = "reading"
  PROVE  /\ slot[s].ask \in Requests[s] /\ slot[s].ask \in Request
         /\ \E S : slot[s].ask.body \in Seq(S)
         /\ \E n \in 0 .. Len(slot[s].ask.body) : slot[s].bytes = Came(entry, slot[s].ask, n)
         /\ Reading(entry, slot[s])
<1>1. slot[s].ask \in Requests[s] /\ slot[s].ask \in Request /\ Reading(entry, slot[s])
  BY RequestsAssumption DEF IInv, Good
<1>. QED
  BY <1>1, RequestShape DEF Reading, Bodies

LEMMA StepData == ASSUME IInv, NEW s \in Slots, Data(s) PROVE IInv'
<1>. DEFINE r == slot[s].ask
            b == slot[s].bytes
<1>0. slot[s].st = "reading" /\ UNCHANGED <<entry, mounted, pool>>
  BY DEF Data
<1>1. PICK n \in 1 .. Len(Coming(s)) :
        slot' = [slot EXCEPT ![s] =
          [slot[s] EXCEPT !.bytes = slot[s].bytes \o Kept(s, SubSeq(Coming(s), 1, n))]]
  BY DEF Data
<1>2. PICK S : r.body \in Seq(S)
  BY <1>0, ReadingBody
<1>3. PICK k \in 0 .. Len(r.body) : b = Came(entry, r, k)
  BY <1>0, ReadingBody
<1>4. Len(b) = k
  BY <1>3 DEF Came
<1>5. Coming(s) = SubSeq(r.body, k + 1, Len(r.body))
  BY <1>4 DEF Coming
<1>. DEFINE kept == Kept(s, SubSeq(Coming(s), 1, n))
            d == [slot[s] EXCEPT !.bytes = b \o kept]
<1>6. kept = KeptOf(entry, r, SubSeq(Coming(s), 1, n))
  BY DEF Kept, KeptOf
<1>7. slot' = [slot EXCEPT ![s] = d]
  BY <1>1 DEF IInv
<1>. HIDE DEF kept
<1>8. k + n \in 0 .. Len(r.body) /\ b \o kept = Came(entry, r, k + n)
  <2>. HIDE DEF r, b
  <2>1. n \in 1 .. Len(SubSeq(r.body, k + 1, Len(r.body)))
    BY <1>1, <1>5
  <2>2. /\ k + n \in 0 .. Len(r.body)
        /\ Came(entry, r, k) \o KeptOf(entry, r, SubSeq(SubSeq(r.body, k + 1, Len(r.body)), 1, n))
             = Came(entry, r, k + n)
    BY <1>2, <1>3, <2>1, CameMore
  <2>. QED
    BY <1>3, <1>5, <1>6, <2>2
<1>9. /\ DOMAIN d = DOMAIN Free /\ d.st = "reading" /\ d.ask = r /\ d.bytes = b \o kept
      /\ d.out = slot[s].out /\ d.left = slot[s].left /\ d.age = slot[s].age
  BY <1>0 DEF IInv, Good, Free
<1>. HIDE DEF d
<1>10. Reading(entry, d)
  BY <1>0, <1>8, <1>9, ReadingBody DEF Reading
<1>11. Good(entry, mounted, Requests[s], d)
  BY <1>0, <1>9, <1>10 DEF Good, IInv
<1>. QED
  BY <1>0, <1>7, <1>11, OneSlot

\* A suspended request that is answered.
LEMMA AnsweredLater ==
  ASSUME IInv, NEW s \in Slots, slot[s].st \in {"reading", "waiting", "querying"},
         NEW out, NEW answer, Answered(s, slot[s], out, answer),
         UNCHANGED <<entry, mounted, pool>>,
         \A c : c.ask = slot[s].ask /\ c.out = out /\ c.ans = answer /\ c.left = slot[s].left
                  /\ c.age = slot[s].age => Done(entry, mounted, c)
  PROVE  IInv'
<1>. DEFINE d == [slot[s] EXCEPT !.st = "done", !.out = out, !.ans = answer]
<1>1. slot' = [slot EXCEPT ![s] = d]
  BY DEF Answered
<1>2. /\ DOMAIN d = DOMAIN Free /\ d.st = "done" /\ d.ask = slot[s].ask /\ d.out = out
      /\ d.ans = answer /\ d.left = slot[s].left /\ d.age = slot[s].age
  BY AnsweredCell DEF IInv, Good
<1>. HIDE DEF d
<1>3. Good(entry, mounted, Requests[s], d)
  BY <1>2 DEF Good, IInv
<1>. QED
  BY <1>1, <1>3, OneSlot

LEMMA StepEnd == ASSUME IInv, NEW s \in Slots, End(s) PROVE IInv'
<1>. DEFINE r == slot[s].ask
            answer == IF r.route = "ws" THEN Ok(slot[s].bytes) ELSE Body(r, slot[s].bytes)[entry]
<1>1. /\ slot[s].st = "reading" /\ Coming(s) = <<>> /\ UNCHANGED <<entry, mounted, pool>>
      /\ Answered(s, slot[s], "none", answer)
  BY DEF End
<1>2. PICK S : r.body \in Seq(S)
  BY <1>1, ReadingBody
<1>3. PICK k \in 0 .. Len(r.body) : slot[s].bytes = Came(entry, r, k)
  BY <1>1, ReadingBody
<1>4. k = Len(r.body)
  <2>1. Len(slot[s].bytes) = k
    BY <1>3 DEF Came
  <2>2. SubSeq(r.body, k + 1, Len(r.body)) = <<>>
    BY <1>1, <2>1 DEF Coming
  <2>3. Len(SubSeq(r.body, k + 1, Len(r.body))) = Len(r.body) - k
    BY <1>2
  <2>4. Len(SubSeq(r.body, k + 1, Len(r.body))) = 0
    BY <2>2, EmptySeq
  <2>5. Len(r.body) \in Nat
    BY <1>2, LenProperties
  <2>. QED
    BY <2>3, <2>4, <2>5
<1>5. r.route # "ws" => slot[s].bytes = r.body
  BY <1>2, <1>3, <1>4, CameAll
<1>6. Reading(entry, slot[s])
  BY <1>1, ReadingBody
<1>. HIDE DEF r
<1>7. \A c : c.ask = r /\ c.out = "none" /\ c.ans = answer /\ c.left = slot[s].left
               /\ c.age = slot[s].age => Done(entry, mounted, c)
  BY <1>3, <1>4, <1>5, <1>6 DEF Done, Reading, Bodies, Databases, r
<1>. QED
  BY <1>1, <1>7, AnsweredLater DEF r

LEMMA StepFire == ASSUME IInv, NEW s \in Slots, Fire(s) PROVE IInv'
<1>1. /\ slot[s].st = "waiting" /\ slot[s].left = 0 /\ UNCHANGED <<entry, mounted, pool>>
      /\ Answered(s, slot[s], "none", Ok(<<Delay(slot[s].ask)[entry]>>))
  BY DEF Fire
<1>2. Waiting(entry, slot[s])
  BY <1>1 DEF IInv, Good
<1>3. slot[s].age \in Nat /\ slot[s].age >= Delay(slot[s].ask)[entry]
  BY <1>1, <1>2 DEF Waiting
<1>4. \A c : c.ask = slot[s].ask /\ c.out = "none" /\ c.ans = Ok(<<Delay(slot[s].ask)[entry]>>)
               /\ c.left = slot[s].left /\ c.age = slot[s].age => Done(entry, mounted, c)
  BY <1>1, <1>2, <1>3 DEF Done, Waiting, Bodies, Databases
<1>. QED
  BY <1>1, <1>4, AnsweredLater

LEMMA StepQuery == ASSUME IInv, NEW s \in Slots, Query(s) PROVE IInv'
<1>1. slot[s].st = "querying" /\ UNCHANGED <<entry, mounted, pool>>
  BY DEF Query
<1>2. PICK out \in {"rows", "full", "fails"} : Answered(s, slot[s], out, Rows(slot[s].ask, out))
  BY DEF Query, Outcomes
<1>3. Querying(slot[s])
  BY <1>1 DEF IInv, Good
<1>4. \A c : c.ask = slot[s].ask /\ c.out = out /\ c.ans = Rows(slot[s].ask, out)
               /\ c.left = slot[s].left /\ c.age = slot[s].age => Done(entry, mounted, c)
  BY <1>3, RowsRoute DEF Done, Querying, Bodies, Databases
<1>. QED
  BY <1>1, <1>2, <1>4, AnsweredLater

LEMMA StepSent == ASSUME IInv, NEW s \in Slots, Sent(s) PROVE IInv'
<1>1. Good(entry, mounted, Requests[s], Free)
  BY DEF Good, Free
<1>. QED
  BY <1>1, OneSlot DEF Sent

LEMMA StepTick == ASSUME IInv, Tick PROVE IInv'
<1>. DEFINE Ticked(c) == IF c.left > 0 THEN [c EXCEPT !.left = @ - 1, !.age = @ + 1] ELSE c
<1>1. slot' = [s \in Slots |-> Ticked(slot[s])] /\ UNCHANGED <<entry, mounted, pool>>
  BY DEF Tick
<1>2. ASSUME NEW s \in Slots PROVE Good(entry, mounted, Requests[s], Ticked(slot[s]))
  <2>1. Good(entry, mounted, Requests[s], slot[s])
    BY DEF IInv
  <2>2. CASE slot[s].left > 0
    <3>1. slot[s].st = "waiting"
      BY <2>1, <2>2 DEF Good, Free, Reading, Querying, Done
    <3>2. slot[s].left \in Nat /\ slot[s].age \in Nat
      BY <2>1, <3>1 DEF Good, Waiting
    <3>. DEFINE d == Ticked(slot[s])
    <3>3. /\ DOMAIN d = DOMAIN Free /\ d.st = "waiting" /\ d.ask = slot[s].ask
          /\ d.out = slot[s].out /\ d.left = slot[s].left - 1 /\ d.age = slot[s].age + 1
      BY <2>1, <2>2, <3>1 DEF Good, Free
    <3>. HIDE DEF d
    <3>4. Waiting(entry, d)
      BY <2>1, <2>2, <3>1, <3>2, <3>3 DEF Good, Waiting
    <3>. QED
      BY <2>1, <3>1, <3>3, <3>4 DEF Good, d
  <2>3. CASE ~(slot[s].left > 0)
    BY <2>1, <2>3
  <2>. QED
    BY <2>2, <2>3
<1>. QED
  BY <1>1, <1>2 DEF IInv

LEMMA NextIInv == IInv /\ [Next]_vars => IInv'
<1>. SUFFICES ASSUME IInv, [Next]_vars PROVE IInv'
  OBVIOUS
<1>1. CASE UNCHANGED vars
  BY <1>1 DEF vars, IInv
<1>2. CASE Tick
  BY <1>2, StepTick
<1>3. ASSUME NEW s \in Slots, NEW r \in Requests[s],
             \/ AskJson(s, r) \/ AskStatic(s, r) \/ AskBody(s, r)
             \/ AskDelay(s, r) \/ AskRows(s, r) \/ AskWs(s, r)
      PROVE  IInv'
  BY <1>3, StepAskJson, StepAskStatic, StepAskBody, StepAskDelay, StepAskRows, StepAskWs
<1>4. ASSUME NEW s \in Slots, Goes(s) \/ Sent(s) PROVE IInv'
  BY <1>4, StepData, StepEnd, StepFire, StepQuery, StepSent DEF Goes
<1>. QED
  BY <1>1, <1>2, <1>3, <1>4 DEF Next

\* The invariant every property of the answers follows from.
THEOREM RequestsInvariant == Spec => []IInv
  BY InitIInv, NextIInv, PTL DEF Spec

\* Every variable keeps its shape, for every set of connections and requests.
THEOREM TypeCorrect == Spec => []TypeOK
<1>1. IInv => TypeOK
  <2>. SUFFICES ASSUME IInv PROVE TypeOK
    OBVIOUS
  <2>1. ASSUME NEW s \in Slots
        PROVE  /\ slot[s].st \in {"free", "reading", "waiting", "querying", "done"}
               /\ slot[s].left \in Nat /\ slot[s].age \in Nat
               /\ slot[s].out \in {"none", "nopool", "rows", "full", "fails"}
               /\ slot[s].st # "free" => slot[s].ask \in Requests[s]
    <3>1. Good(entry, mounted, Requests[s], slot[s])
      BY DEF IInv
    <3>2. CASE slot[s].st = "free"
      BY <3>1, <3>2 DEF Good, Free
    <3>3. CASE slot[s].st \in {"reading", "waiting", "querying"}
      BY <3>1, <3>3 DEF Good, Reading, Waiting, Querying
    <3>4. CASE slot[s].st = "done"
      BY <3>1, <3>4 DEF Good, Done
    <3>. QED
      BY <3>1, <3>2, <3>3, <3>4 DEF Good
  <2>. QED
    BY <2>1 DEF IInv, TypeOK
<1>. QED
  BY <1>1, RequestsInvariant, PTL

\* No response leaves before its own delay has elapsed, whatever delays it overlaps.
THEOREM DelaysAreKeptTheorem == Spec => []DelaysAreKept
<1>1. IInv => DelaysAreKept
  <2>. SUFFICES ASSUME IInv, NEW s \in Slots, slot[s].st = "done", slot[s].ask.route = "delay"
                PROVE  slot[s].age >= IfNumber(slot[s].ask.ms, 0)
    BY DEF DelaysAreKept
  <2>1. /\ slot[s].ask \in Request /\ entry \in DOMAIN Delay(slot[s].ask)
        /\ Done(entry, mounted, slot[s])
    BY RequestsAssumption, HavingRoute DEF IInv, Good
  <2>2. slot[s].age >= Delay(slot[s].ask)[entry]
    BY <2>1 DEF Done
  <2>. QED
    BY <2>1, <2>2, DelayNat
<1>. QED
  BY <1>1, RequestsInvariant, PTL

-----------------------------------------------------------------------------
(* Encodings *)

LEMMA LeastOf ==
  ASSUME NEW S \in SUBSET Nat, S # {}
  PROVE  \E x \in S : \A y \in S : x <= y
<1>1. PICK x \in S : \A y \in S : ~(<<y, x>> \in OpToRel(<, Nat))
  BY NatLessThanWellFounded, WFMin
<1>2. ASSUME NEW y \in S PROVE x <= y
  <2>1. ~(<<y, x>> \in {ss \in Nat \X Nat : ss[1] < ss[2]})
    BY <1>1 DEF OpToRel
  <2>. QED
    BY <2>1
<1>. QED
  BY <1>2

LEMMA LeastIndex ==
  ASSUME NEW S \in SUBSET Nat, S # {}
  PROVE  Min(S) \in S
<1>1. \E x \in S : \A y \in S : x <= y
  BY LeastOf
<1>. QED
  BY <1>1, Zenon DEF Min

\* The client named the encoding, and with a weight if the entry reads weights.
Named(e, r, enc) ==
  \/ enc = "identity"
  \/ \E i \in DOMAIN r.accept : r.accept[i].token = enc /\ (e = "elysia" => r.accept[i].q > 0)

LEMMA SniffedWasNamed ==
  ASSUME NEW r, NEW e, e # "elysia"
  PROVE  /\ Named(e, r, Gzip(r.accept)) /\ Named(e, r, GzipThenBr(r.accept))
         /\ Named(e, r, BrThenGzip(r))
  BY DEF Named, Gzip, GzipThenBr, BrThenGzip, Offers

LEMMA PickedWasNamed ==
  ASSUME NEW r, NEW e, r.accept \in Header
  PROVE  Named(e, r, PickEncoding(r.accept))
<1>. DEFINE S == {i \in DOMAIN r.accept : r.accept[i].token \in {"br", "gzip"} /\ r.accept[i].q > 0}
<1>1. CASE S = {}
  BY <1>1 DEF PickEncoding, FirstOf, Named
<1>2. CASE S # {}
  <2>1. S \in SUBSET Nat
    BY DEF Header
  <2>2. Min(S) \in S
    BY <1>2, <2>1, LeastIndex
  <2>3. PickEncoding(r.accept) = r.accept[Min(S)].token
    BY <1>2 DEF PickEncoding, FirstOf
  <2>. HIDE DEF S
  <2>. QED
    BY <2>2, <2>3 DEF S, Named
<1>. QED
  BY <1>1, <1>2

LEMMA JsonNamed ==
  ASSUME NEW r, r.accept \in Header, NEW m, NEW e \in DOMAIN Json(r, m)
  PROVE  Named(e, r, Json(r, m)[e].enc)
<1>0. e \in {"node", "deno", "bun", "node_h3", "elysia", "hono_bun", "hono_node", "koa", "nestjs",
             "fastify", "express", "ultimate_express", "hyper_express", "fulmine",
             "fulmine_tuned", "bananabread"}
  BY JsonTable
<1>1. \A body : Ok(body).enc = "identity"
  BY DEF Ok
<1>2. \A body, enc : Encoded(body, enc).enc = enc
  BY DEF Encoded
<1>3. Fail.enc = "identity" /\ Named(e, r, "identity")
  BY DEF Fail, Named
<1>4. CASE e \in {"node", "deno", "bun", "node_h3"}
  BY <1>2, <1>4, SniffedWasNamed, JsonTable DEF NodeJson, DenoJson, BunJson, H3Json
<1>5. CASE e = "elysia"
  BY <1>1, <1>2, <1>3, <1>5, PickedWasNamed, JsonTable DEF ElysiaJson, Mapped
<1>6. CASE e \in {"hono_bun", "hono_node", "koa", "nestjs"}
  BY <1>1, <1>3, <1>6, JsonTable DEF HonoBunJson, HonoNodeJson, KoaJson, NestJson
<1>7. CASE e \in {"fastify", "express", "fulmine", "fulmine_tuned", "bananabread"}
  BY <1>1, <1>3, <1>7, JsonTable DEF FastifyJson, ExpressJson, FulmineJson, TunedJson, BananaJson
<1>8. CASE e \in {"ultimate_express", "hyper_express"}
  <2>1. Named(e, r, GzipThenBr(r.accept))
    BY <1>8, SniffedWasNamed
  <2>. QED
    BY <1>2, <1>3, <1>8, <2>1, JsonTable DEF UltimateJson, HyperJson
<1>. QED
  BY <1>0, <1>4, <1>5, <1>6, <1>7, <1>8

\* Of a file only a variant that is there is sent.
LEMMA StaticNamed ==
  ASSUME NEW r, r.accept \in Header, NEW e \in DOMAIN Static(r)
  PROVE  LET enc == Static(r)[e].enc
         IN Named(e, r, enc) /\ (enc # "identity" => enc \in r.have)
<1>. USE StaticTable
<1>1. \A enc : File(enc).enc = enc
  BY DEF File, Encoded
<1>2. Named(e, r, "identity")
  BY DEF Named
<1>3. CASE e \in {"node", "deno", "express", "fastify"}
  BY <1>1, <1>2, <1>3 DEF NodeStatic, DenoStatic, ExpressStatic, FastifyStatic
<1>4. CASE e \in {"bun", "hono_bun", "ultimate_express", "hyper_express"}
  <2>1. Static(r)[e] = File(BrThenGzip(r))
    BY <1>4 DEF BunStatic, HonoBunStatic, UltimateStatic, HyperStatic
  <2>2. BrThenGzip(r) # "identity" => BrThenGzip(r) \in r.have
    BY DEF BrThenGzip
  <2>. QED
    BY <1>1, <1>4, <2>1, <2>2, SniffedWasNamed
<1>5. CASE e = "elysia"
  <2>. DEFINE enc == IF PickEncoding(r.accept) \in r.have THEN PickEncoding(r.accept) ELSE "identity"
  <2>1. Static(r)["elysia"] = File(enc)
    BY DEF ElysiaStatic
  <2>2. Named(e, r, enc) /\ (enc # "identity" => enc \in r.have)
    BY <1>2, PickedWasNamed
  <2>. HIDE DEF enc
  <2>. QED
    BY <1>1, <1>5, <2>1, <2>2
<1>. QED
  BY <1>3, <1>4, <1>5

\* Bodies and fortunes leave as they are.
LEMMA OthersPlain ==
  ASSUME NEW r, NEW out, NEW bytes, NEW e
  PROVE  /\ e \in DOMAIN Body(r, bytes) => Body(r, bytes)[e].enc = "identity"
         /\ e \in DOMAIN FortunesOf(out) => FortunesOf(out)[e].enc = "identity"
<1>1. (\A body : Ok(body).enc = "identity") /\ Fail.enc = "identity"
  BY DEF Ok, Fail
<1>2. e \in DOMAIN Body(r, bytes) => Body(r, bytes)[e].enc = "identity"
  <2>1. \A query : EchoOrSum(r, bytes, query).enc = "identity"
    BY <1>1 DEF EchoOrSum
  <2>. QED
    BY <2>1, BodyTable DEF NodeBody, DenoBody, BunBody, ElysiaBody, HonoBunBody, HonoNodeBody,
       H3Body, KoaBody, NestBody, FastifyBody, ExpressBody, UltimateBody, HyperBody,
       FulmineBody, TunedBody, BananaBody
<1>3. e \in DOMAIN FortunesOf(out) => FortunesOf(out)[e].enc = "identity"
  <2>1. OrFail(Fortunes, out).enc = "identity"
    BY <1>1 DEF OrFail, Fortunes
  <2>. QED
    BY <2>1, FortunesOfTable DEF NodeFortunes, DenoFortunes, BunFortunes, ElysiaFortunes,
       HonoBunFortunes, ExpressFortunes, UltimateFortunes, HyperFortunes, FulmineFortunes,
       TunedFortunes
<1>. QED
  BY <1>2, <1>3

\* The hook encodes as the client asked, or leaves the answer as it is.
LEMMA MappedNamed ==
  ASSUME NEW r, r.accept \in Header, NEW e, NEW items, NEW answer, answer.enc = "identity"
  PROVE  Named(e, r, Mapped(r, items, answer).enc)
<1>1. Mapped(r, items, answer).enc \in {"identity", PickEncoding(r.accept)}
  BY DEF Mapped, Encoded
<1>. QED
  BY <1>1, PickedWasNamed DEF Named

\* Of the rows of a query only elysia encodes any.
LEMMA AsyncDbNamed ==
  ASSUME NEW r, r.accept \in Header, NEW out, NEW e \in DOMAIN AsyncDb(r, out)
  PROVE  Named(e, r, AsyncDb(r, out)[e].enc)
<1>1. Fail.enc = "identity" /\ \A body : OrEmpty(body, out).enc = "identity"
  BY DEF Ok, Fail, OrEmpty, EmptyItems
<1>2. CASE e = "elysia"
  <2>. DEFINE items == Fetched(Clamp(Or(r.limit, 50), 1, 50), out)
              answer == OrEmpty(PriceRange(Or, r), out)
  <2>1. AsyncDb(r, out)[e] = Mapped(r, items, answer) /\ answer.enc = "identity"
    BY <1>1, <1>2, AsyncDbTable DEF ElysiaAsyncDb
  <2>. HIDE DEF items, answer
  <2>. QED
    BY <2>1, MappedNamed
<1>3. CASE e # "elysia"
  <2>1. AsyncDb(r, out)[e].enc = "identity"
    BY <1>1, <1>3, AsyncDbTable DEF NodeAsyncDb, DenoAsyncDb, BunAsyncDb, HonoBunAsyncDb,
       FastifyAsyncDb, ExpressAsyncDb, UltimateAsyncDb, HyperAsyncDb, FulmineAsyncDb,
       TunedAsyncDb, BananaAsyncDb
  <2>. QED
    BY <2>1 DEF Named
<1>. QED
  BY <1>2, <1>3

LEMMA ListNamed ==
  ASSUME NEW r, r.accept \in Header, NEW out, NEW e \in DOMAIN List(r, out)
  PROVE  Named(e, r, List(r, out)[e].enc)
<1>1. /\ Fail.enc = "identity"
      /\ Page(IfNumber, r).enc = "identity" /\ Page(Or, r).enc = "identity"
  BY DEF Ok, Fail, Page, Window
<1>2. OrFail(Page(IfNumber, r), out).enc = "identity" /\ OrFail(Page(Or, r), out).enc = "identity"
  BY <1>1 DEF OrFail
<1>3. CASE e = "elysia"
  <2>. DEFINE items == Fetched(Clamp(Or(r.limit, 10), 1, 50), out)
              answer == OrFail(Page(Or, r), out)
  <2>1. List(r, out)[e] = Mapped(r, items, answer) /\ answer.enc = "identity"
    BY <1>2, <1>3, ListTable DEF ElysiaList
  <2>. HIDE DEF items, answer
  <2>. QED
    BY <2>1, MappedNamed
<1>4. CASE e # "elysia"
  <2>1. List(r, out)[e].enc = "identity"
    BY <1>1, <1>2, <1>4, ListTable DEF NodeList, DenoList, BunList, HonoBunList,
       ExpressList, UltimateList, HyperList, FulmineList, TunedList, BananaList
  <2>. QED
    BY <2>1 DEF Named
<1>. QED
  BY <1>3, <1>4

\* No answer leaves in an encoding its client did not name or, from elysia, refuses, and no
\* file as a variant it does not have, whatever entry runs.
THEOREM EncodingWasOfferedTheorem == Spec => []EncodingWasOffered
<1>1. IInv => EncodingWasOffered
  <2>. SUFFICES ASSUME IInv, NEW s \in Slots, slot[s].st = "done",
                       slot[s].ans.enc # "identity"
                PROVE  /\ slot[s].ask.route = "static" => slot[s].ans.enc \in slot[s].ask.have
                       /\ \E i \in DOMAIN slot[s].ask.accept :
                            /\ slot[s].ask.accept[i].token = slot[s].ans.enc
                            /\ entry = "elysia" => slot[s].ask.accept[i].q > 0
    BY DEF EncodingWasOffered
  <2>. DEFINE r == slot[s].ask
              enc == slot[s].ans.enc
  <2>1. r \in Request /\ entry \in Having(r) /\ Done(entry, mounted, slot[s])
    BY RequestsAssumption DEF IInv, Good
  <2>2. \A body : Ok(body).enc = "identity"
    BY DEF Ok
  <2>3. CASE r.route = "json"
    <3>1. r.accept \in Header /\ entry \in DOMAIN Json(r, mounted)
      BY <2>1, <2>3, RequestShape, InTable
    <3>2. slot[s].ans = Json(r, mounted)[entry]
      BY <2>1, <2>3 DEF Done
    <3>3. Named(entry, r, enc)
      BY <3>1, <3>2, JsonNamed
    <3>. QED
      BY <2>3, <3>3 DEF Named
  <2>4. CASE r.route = "static"
    <3>1. r.accept \in Header /\ entry \in DOMAIN Static(r)
      BY <2>1, <2>4, RequestShape, HavingRoute
    <3>2. slot[s].ans = Static(r)[entry]
      BY <2>1, <2>4 DEF Done
    <3>3. Named(entry, r, enc) /\ enc \in r.have
      BY <3>1, <3>2, StaticNamed
    <3>. QED
      BY <3>3 DEF Named
  <2>5. CASE r.route \in Bodies
    <3>. DEFINE bytes == IF r.post THEN r.body ELSE <<>>
    <3>1. slot[s].ans = Body(r, bytes)[entry]
      BY <2>1, <2>5 DEF Done
    <3>2. entry \in DOMAIN Body(r, bytes)
      BY <2>1, <2>5, InTable
    <3>. HIDE DEF bytes
    <3>. QED
      BY <3>1, <3>2, OthersPlain
  <2>6. CASE r.route = "async-db"
    <3>1. /\ entry \in DOMAIN AsyncDb(r, slot[s].out) /\ r.accept \in Header
          /\ slot[s].ans = AsyncDb(r, slot[s].out)[entry]
      BY <2>1, <2>6, InTable, RequestShape DEF Done
    <3>2. Named(entry, r, enc)
      BY <3>1, AsyncDbNamed
    <3>. QED
      BY <2>6, <3>2 DEF Named
  <2>7. CASE r.route = "list"
    <3>1. /\ entry \in DOMAIN List(r, slot[s].out) /\ r.accept \in Header
          /\ slot[s].ans = List(r, slot[s].out)[entry]
      BY <2>1, <2>7, InTable, RequestShape DEF Done
    <3>2. Named(entry, r, enc)
      BY <3>1, ListNamed
    <3>. QED
      BY <2>7, <3>2 DEF Named
  <2>8. CASE r.route = "fortunes"
    <3>1. entry \in DOMAIN FortunesOf(slot[s].out) /\ slot[s].ans = FortunesOf(slot[s].out)[entry]
      BY <2>1, <2>8, InTable DEF Done
    <3>. QED
      BY <3>1, OthersPlain
  <2>9. CASE r.route \in {"delay", "ws"}
    BY <2>1, <2>2, <2>9 DEF Done
  <2>. QED
    BY <2>1, <2>3, <2>4, <2>5, <2>6, <2>7, <2>8, <2>9, RequestShape DEF Databases
<1>. QED
  BY <1>1, RequestsInvariant, PTL

-----------------------------------------------------------------------------
(* Answers *)

LEMMA StatusAndBody ==
  /\ \A b : Ok(b).status = 200 /\ Ok(b).body = b
  /\ \A b, enc : Encoded(b, enc).status = 200 /\ Encoded(b, enc).body = b
  /\ Fail.status = 500 /\ Fail.body = <<>>
  /\ EmptyItems.status = 200 /\ EmptyItems.body = <<>>
<1>1. \A b : Ok(b).status = 200 /\ Ok(b).body = b
  BY DEF Ok
<1>2. \A b, enc : Encoded(b, enc).status = 200 /\ Encoded(b, enc).body = b
  BY DEF Encoded
<1>3. Fail.status = 500 /\ Fail.body = <<>>
  BY DEF Fail
<1>. QED
  BY <1>1, <1>2, <1>3 DEF EmptyItems

\* `parseInt(v) || d' is the value or d, but for a zero.
LEMMA OrIsIfNumber ==
  ASSUME NEW v \in Parameter, NEW d \in Int
  PROVE  /\ Or(v, d) \in Int /\ IfNumber(v, d) \in Int
         /\ v # 0 => Or(v, d) = IfNumber(v, d)
         /\ v = 0 => Or(v, d) = d /\ IfNumber(v, d) = 0
  BY RoutesAssumption DEF Or, IfNumber, ParseInt, Parameter

LEMMA OrZero == ASSUME NEW v PROVE Or(v, 0) = IfNumber(v, 0)
  BY DEF Or, IfNumber

Some(r, m) == Clamp(IfNumber(r.count, 0), 0, Available(m))

LEMMA CountIsSome == ASSUME NEW r, NEW m PROVE Count(r, m) = Some(r, m)
  BY OrZero DEF Count, Some

LEMMA SomeNat ==
  ASSUME NEW r, r.count \in Parameter, NEW m \in BOOLEAN
  PROVE  Some(r, m) \in Nat /\ (~m => Some(r, m) = 0)
<1>1. IfNumber(r.count, 0) \in Int
  BY OrIsIfNumber
<1>2. Available(m) \in Nat /\ (~m => Available(m) = 0)
  BY RoutesAssumption DEF Available
<1>. QED
  BY <1>1, <1>2 DEF Some, Clamp

\* The factors tell the items apart, if there are any.
LEMMA ItemsDiffer ==
  ASSUME NEW n \in Nat
  PROVE  /\ Items(n, 1) = Items(n, 0) <=> n = 0
         /\ \A m : Items(n, m) = <<>> <=> n = 0
<1>1. \A m : DOMAIN Items(n, m) = 1 .. n
  BY DEF Items
<1>2. Items(n, 1) = Items(n, 0) => n = 0
  <2>. SUFFICES ASSUME Items(n, 1) = Items(n, 0), n # 0 PROVE FALSE
    OBVIOUS
  <2>1. Items(n, 1)[1] = 1 * 1 /\ Items(n, 0)[1] = 1 * 0
    BY DEF Items
  <2>. QED
    BY <2>1
<1>3. ASSUME NEW m PROVE Items(n, m) = <<>> => n = 0
  <2>. SUFFICES ASSUME Items(n, m) = <<>>, n # 0 PROVE FALSE
    OBVIOUS
  <2>1. 1 \in DOMAIN Items(n, m)
    BY <1>1
  <2>. QED
    BY <2>1
<1>4. ASSUME n = 0, NEW m PROVE Items(n, m) = <<>>
  BY <1>4 DEF Items
<1>. QED
  BY <1>2, <1>3, <1>4

\* The hook changes the encoding only.
LEMMA MappedAnswer ==
  ASSUME NEW r, NEW items, NEW answer, items >= Threshold => answer.status = 200
  PROVE  /\ Mapped(r, items, answer).status = answer.status
         /\ Mapped(r, items, answer).body = answer.body
  BY StatusAndBody DEF Mapped

\* What any entry answers to /json.
LEMMA JsonAnswer ==
  ASSUME NEW r, NEW m \in BOOLEAN, NEW e \in DOMAIN Json(r, m)
  PROVE  LET a == Json(r, m)[e]
         IN IF ~m /\ e \in RefusesNoDataset THEN a.status = 500 /\ a.body = <<>>
            ELSE /\ a.status = 200
                 /\ a.body = Items(Some(r, m),
                                   IF e \in {"bun", "bananabread"} THEN IfNumber(r.m, 1)
                                   ELSE Or(r.m, 1))
<1>0. e \in {"node", "deno", "bun", "node_h3", "elysia", "hono_bun", "hono_node", "koa", "nestjs",
             "fastify", "express", "ultimate_express", "hyper_express", "fulmine",
             "fulmine_tuned", "bananabread"}
  BY JsonTable
<1>. USE StatusAndBody, CountIsSome DEF RefusesNoDataset
<1>1. CASE e \in {"node", "deno", "node_h3", "hyper_express"}
  BY <1>1, JsonTable DEF NodeJson, DenoJson, H3Json, HyperJson
<1>2. CASE e = "bun"
  BY <1>2, JsonTable DEF BunJson
<1>3. CASE e = "elysia"
  BY <1>3, JsonTable, MappedAnswer DEF ElysiaJson
<1>4. CASE e \in {"hono_bun", "hono_node", "koa", "nestjs"}
  BY <1>4, JsonTable DEF HonoBunJson, HonoNodeJson, KoaJson, NestJson
<1>5. CASE e \in {"fastify", "express", "fulmine", "fulmine_tuned"}
  BY <1>5, JsonTable DEF FastifyJson, ExpressJson, FulmineJson, TunedJson
<1>6. CASE e = "ultimate_express"
  BY <1>6, JsonTable DEF UltimateJson
<1>7. CASE e = "bananabread"
  BY <1>7, JsonTable DEF BananaJson, Some, Available
<1>. QED
  BY <1>0, <1>1, <1>2, <1>3, <1>4, <1>5, <1>6, <1>7

\* A body is answered the same by every entry: digits added to the query, or echoed.
LEMMA BodyAnswer ==
  ASSUME NEW r, NEW bytes, NEW e \in DOMAIN Body(r, bytes)
  PROVE  Body(r, bytes)[e] = EchoOrSum(r, bytes, SumNumbers(r))
<1>1. SumOrZero(r) = SumNumbers(r)
  BY OrZero DEF SumOrZero, SumNumbers
<1>. QED
  BY <1>1, BodyTable DEF NodeBody, DenoBody, BunBody, ElysiaBody, HonoBunBody, HonoNodeBody,
     H3Body, KoaBody, NestBody, FastifyBody, ExpressBody, UltimateBody, HyperBody,
     FulmineBody, TunedBody, BananaBody

AsyncDbOf(e, r, out) ==
  IF out \in Returned THEN Ok(IF e \in KeepsZero THEN PriceRange(IfNumber, r)
                              ELSE PriceRange(Or, r))
  ELSE IF out = "fails" /\ e = "bananabread" THEN Fail ELSE EmptyItems

\* No row is fetched by a query that has not returned some.
LEMMA FetchedNone ==
  ASSUME NEW limit, NEW out, out # "full" PROVE ~(Fetched(limit, out) >= Threshold)
  BY RoutesAssumption DEF Fetched

LEMMA AsyncDbAnswer ==
  ASSUME NEW r, NEW out, NEW e \in DOMAIN AsyncDb(r, out)
  PROVE  /\ AsyncDb(r, out)[e].status = AsyncDbOf(e, r, out).status
         /\ AsyncDb(r, out)[e].body = AsyncDbOf(e, r, out).body
<1>1. CASE e \in {"node", "deno"}
  BY <1>1, AsyncDbTable DEF AsyncDbOf, NodeAsyncDb, DenoAsyncDb, OrEmpty, KeepsZero
<1>2. CASE e = "bananabread"
  BY <1>2, AsyncDbTable DEF AsyncDbOf, BananaAsyncDb, OrEmpty, KeepsZero, Returned
<1>3. CASE e \notin {"node", "deno", "elysia", "bananabread"}
  BY <1>3, AsyncDbTable DEF AsyncDbOf, BunAsyncDb, HonoBunAsyncDb, FastifyAsyncDb,
     ExpressAsyncDb, UltimateAsyncDb, HyperAsyncDb, FulmineAsyncDb, TunedAsyncDb, OrEmpty, KeepsZero
<1>4. CASE e = "elysia"
  <2>. DEFINE answer == OrEmpty(PriceRange(Or, r), out)
              items == Fetched(Clamp(Or(r.limit, 50), 1, 50), out)
  <2>1. answer = AsyncDbOf(e, r, out) /\ answer.status = 200
    BY <1>4, StatusAndBody DEF AsyncDbOf, OrEmpty, KeepsZero
  <2>2. AsyncDb(r, out)[e] = Mapped(r, items, answer)
    BY <1>4, AsyncDbTable DEF ElysiaAsyncDb
  <2>. HIDE DEF answer, items
  <2>. QED
    BY <2>1, <2>2, MappedAnswer
<1>. QED
  BY <1>1, <1>2, <1>3, <1>4

ListOf(e, r, out) ==
  IF e = "bananabread" THEN (IF out = "fails" THEN Fail ELSE Page(IfNumber, r))
  ELSE IF out \notin Returned THEN Fail
  ELSE IF e \in KeepsZero THEN Page(IfNumber, r) ELSE Page(Or, r)

LEMMA ListAnswer ==
  ASSUME NEW r, NEW out, NEW e \in DOMAIN List(r, out)
  PROVE  /\ List(r, out)[e].status = ListOf(e, r, out).status
         /\ List(r, out)[e].body = ListOf(e, r, out).body
<1>1. CASE e \in {"node", "deno", "bananabread"}
  BY <1>1, ListTable DEF ListOf, NodeList, DenoList, BananaList, OrFail, KeepsZero
<1>2. CASE e \notin {"node", "deno", "elysia", "bananabread"}
  BY <1>2, ListTable DEF ListOf, BunList, HonoBunList, ExpressList, UltimateList, HyperList,
     FulmineList, TunedList, OrFail, KeepsZero
<1>3. CASE e = "elysia"
  <2>. DEFINE answer == OrFail(Page(Or, r), out)
              items == Fetched(Clamp(Or(r.limit, 10), 1, 50), out)
  <2>1. answer = ListOf(e, r, out)
    BY <1>3 DEF ListOf, OrFail, KeepsZero
  <2>2. List(r, out)[e] = Mapped(r, items, answer)
    BY <1>3, ListTable DEF ElysiaList
  <2>3. out \in Returned => answer.status = 200
    BY StatusAndBody DEF OrFail, Page, Window
  <2>4. items >= Threshold => answer.status = 200
    BY <2>3, FetchedNone DEF Returned
  <2>. HIDE DEF answer, items
  <2>. QED
    BY <2>1, <2>2, <2>4, MappedAnswer
<1>. QED
  BY <1>1, <1>2, <1>3

LEMMA FortunesAnswer ==
  ASSUME NEW out, NEW e \in DOMAIN FortunesOf(out)
  PROVE  FortunesOf(out)[e] = OrFail(Fortunes, out)
  BY FortunesOfTable DEF NodeFortunes, DenoFortunes, BunFortunes, ElysiaFortunes,
     HonoBunFortunes, ExpressFortunes, UltimateFortunes, HyperFortunes, FulmineFortunes,
     TunedFortunes

\* The parameters of a query differ from the documented ones if and only if one is zero.
LEMMA PriceRangesDiffer ==
  ASSUME NEW r, r.min \in Parameter, r.max \in Parameter, r.limit \in Parameter
  PROVE  PriceRange(Or, r) = PriceRange(IfNumber, r) <=> 0 \notin {r.min, r.max, r.limit}
<1>1. /\ Or(r.min, 10) = IfNumber(r.min, 10) <=> r.min # 0
      /\ Or(r.max, 50) = IfNumber(r.max, 50) <=> r.max # 0
  BY OrIsIfNumber
<1>2. Clamp(Or(r.limit, 50), 1, 50) = Clamp(IfNumber(r.limit, 50), 1, 50) <=> r.limit # 0
  BY OrIsIfNumber DEF Clamp
<1>3. /\ PriceRange(Or, r) = <<Or(r.min, 10), Or(r.max, 50), Clamp(Or(r.limit, 50), 1, 50)>>
      /\ PriceRange(IfNumber, r) =
           <<IfNumber(r.min, 10), IfNumber(r.max, 50), Clamp(IfNumber(r.limit, 50), 1, 50)>>
  BY DEF PriceRange
<1>. QED
  BY <1>1, <1>2, <1>3

\* So does a page, if and only if its limit is zero.
LEMMA PagesDiffer ==
  ASSUME NEW r, r.page \in Parameter, r.limit \in Parameter
  PROVE  /\ Page(IfNumber, r).status = 200 /\ Page(Or, r).status = 200
         /\ Page(Or, r).body = Page(IfNumber, r).body <=> r.limit # 0
<1>. DEFINE p == AtLeast(IfNumber(r.page, 1), 1)
            f == Clamp(IfNumber(r.limit, 10), 1, 50)
            o == Clamp(Or(r.limit, 10), 1, 50)
<1>1. AtLeast(Or(r.page, 1), 1) = p
  BY OrIsIfNumber DEF AtLeast
<1>2. o = f <=> r.limit # 0
  BY OrIsIfNumber DEF Clamp
<1>3. Page(IfNumber, r) = Ok(<<f, (p - 1) * f, p>>) /\ Page(Or, r) = Ok(<<o, (p - 1) * o, p>>)
  BY <1>1 DEF Page, Window
<1>. HIDE DEF p, f, o
<1>4. <<o, (p - 1) * o, p>> = <<f, (p - 1) * f, p>> <=> o = f
  OBVIOUS
<1>. QED
  BY <1>2, <1>3, <1>4, StatusAndBody

\* What comes back over a socket is what was sent, but for text from the `ws' package.
LEMMA FramesDiffer ==
  ASSUME NEW r, r.route = "ws", r.body \in Seq(Frame), NEW e \in DOMAIN Ws("text")
  PROVE  Came(e, r, Len(r.body)) = r.body <=> ~("text" \in ToSet(r.body) /\ e = "node_websocket")
<1>1. \A frame : e # "node_websocket" => Ws(frame)[e] = frame
  BY DEF Ws, BunWs, DenoWs, FulmineWs, TunedWs
<1>2. \A frame : e = "node_websocket" => Ws(frame)[e] = "binary"
  BY DEF Ws, NodeWs
<1>3. Came(e, r, Len(r.body)) = [i \in 1 .. Len(r.body) |-> Ws(r.body[i])[e]]
  BY DEF Came
<1>4. r.body = [i \in 1 .. Len(r.body) |-> r.body[i]]
  OBVIOUS
<1>5. CASE e # "node_websocket"
  BY <1>1, <1>3, <1>4, <1>5
<1>6. CASE e = "node_websocket"
  <2>1. Came(e, r, Len(r.body)) = [i \in 1 .. Len(r.body) |-> "binary"]
    BY <1>2, <1>3, <1>6
  <2>2. \A i \in 1 .. Len(r.body) : r.body[i] \in {"text", "binary"}
    BY DEF Frame
  <2>3. "text" \in ToSet(r.body) <=> \E i \in 1 .. Len(r.body) : r.body[i] = "text"
    BY DEF ToSet
  <2>4. CASE \E i \in 1 .. Len(r.body) : r.body[i] = "text"
    BY <1>6, <2>1, <2>3, <2>4
  <2>5. CASE ~\E i \in 1 .. Len(r.body) : r.body[i] = "text"
    <3>1. \A i \in 1 .. Len(r.body) : r.body[i] = "binary"
      BY <2>2, <2>5
    <3>2. r.body = [i \in 1 .. Len(r.body) |-> "binary"]
      BY <1>4, <3>1
    <3>. QED
      BY <1>6, <2>1, <2>3, <2>5, <3>2
  <2>. QED
    BY <2>4, <2>5
<1>. QED
  BY <1>5, <1>6

-----------------------------------------------------------------------------
(* The sort of the fortunes: every sequence of numbers has an ascending order, *)
(* and numbers that differ have only one.                                      *)
Sorts(f, n, p) ==
  /\ p \in Bijection(1 .. n, 1 .. n)
  /\ \A i, j \in 1 .. n : i < j => f[p[i]] <= f[p[j]]

LEMMA SortsParts ==
  ASSUME NEW n, NEW f, NEW p
  PROVE  Sorts(f, n, p) <=>
           /\ p \in [1 .. n -> 1 .. n]
           /\ \A i, j \in 1 .. n : p[i] = p[j] => i = j
           /\ \A o \in 1 .. n : \E i \in 1 .. n : p[i] = o
           /\ \A i, j \in 1 .. n : i < j => f[p[i]] <= f[p[j]]
<1>1. p \in Bijection(1 .. n, 1 .. n) <=>
           /\ p \in [1 .. n -> 1 .. n]
           /\ \A i, j \in 1 .. n : p[i] = p[j] => i = j
           /\ \A o \in 1 .. n : \E i \in 1 .. n : p[i] = o
  BY DEF Bijection, Injection, Surjection, IsInjective
<1>. QED
  BY <1>1 DEF Sorts

\* The last of m + 1 numbers goes before the first greater one of the others in order.
LEMMA Inserted ==
  ASSUME NEW m \in Nat, NEW f, f \in [1 .. m + 1 -> Nat], NEW q, Sorts(f, m, q)
  PROVE  \E p : Sorts(f, m + 1, p)
<1>. DEFINE n == m + 1
            greater == {i \in 1 .. m : f[q[i]] > f[n]} \cup {n}
<1>1. /\ n \in Nat /\ n \in 1 .. n /\ n \notin 1 .. m
      /\ \A i \in 1 .. m : i \in 1 .. n
      /\ \A i \in 1 .. n : i # n => i \in 1 .. m
  OBVIOUS
<1>2. /\ q \in [1 .. m -> 1 .. m]
      /\ \A i, j \in 1 .. m : q[i] = q[j] => i = j
      /\ \A o \in 1 .. m : \E i \in 1 .. m : q[i] = o
      /\ \A i, j \in 1 .. m : i < j => f[q[i]] <= f[q[j]]
  BY SortsParts
<1>3. f \in [1 .. n -> Nat] /\ f[n] \in Nat /\ \A i \in 1 .. m : q[i] \in 1 .. m /\ f[q[i]] \in Nat
  BY <1>1, <1>2
<1>4. PICK k \in greater : \A i \in greater : k <= i
  <2>1. greater \in SUBSET Nat /\ greater # {}
    BY <1>1
  <2>. QED
    BY <2>1, LeastOf
<1>. HIDE DEF n
<1>5. k \in 1 .. n /\ k \in Nat
  BY <1>1, <1>4
<1>6. ASSUME NEW i \in 1 .. m, i < k PROVE f[q[i]] <= f[n]
  <2>1. i \notin greater
    BY <1>4, <1>5, <1>6
  <2>. QED
    BY <1>3, <2>1
<1>7. ASSUME NEW i \in 1 .. m, i >= k PROVE f[n] <= f[q[i]]
  <2>1. k # n
    BY <1>1, <1>7 DEF n
  <2>2. k \in 1 .. m /\ f[q[k]] > f[n]
    BY <1>4, <2>1
  <2>3. i = k \/ k < i
    BY <1>5, <1>7
  <2>4. k < i => f[q[k]] <= f[q[i]]
    BY <1>2, <2>2
  <2>5. f[n] \in Nat /\ f[q[k]] \in Nat /\ f[q[i]] \in Nat
    BY <1>3, <2>2
  <2>6. CASE i = k
    <3>1. f[n] < f[q[i]]
      BY <2>2, <2>5, <2>6
    <3>. QED
      BY <2>5, <3>1
  <2>7. CASE k < i
    <3>1. f[n] < f[q[k]] /\ f[q[k]] <= f[q[i]]
      BY <2>2, <2>4, <2>5, <2>7
    <3>. QED
      BY <2>5, <3>1
  <2>. QED
    BY <2>3, <2>6, <2>7
<1>. HIDE DEF greater
<1>. DEFINE p == [i \in 1 .. n |-> IF i < k THEN q[i] ELSE IF i = k THEN n ELSE q[i - 1]]
<1>8. ASSUME NEW i \in 1 .. n
      PROVE  \/ i < k /\ i \in 1 .. m /\ p[i] = q[i]
             \/ i = k /\ p[i] = n
             \/ k < i /\ i - 1 \in 1 .. m /\ i - 1 >= k /\ p[i] = q[i - 1]
  <2>1. i < k \/ i = k \/ k < i
    BY <1>5
  <2>2. i < k => i \in 1 .. m
    BY <1>5 DEF n
  <2>3. k < i => i - 1 \in 1 .. m /\ i - 1 >= k
    BY <1>5 DEF n
  <2>. QED
    BY <1>5, <2>1, <2>2, <2>3
<1>9. DOMAIN p = 1 .. n /\ p = [i \in 1 .. n |-> p[i]]
  OBVIOUS
<1>. HIDE DEF p
<1>10. \A i \in 1 .. n : p[i] \in 1 .. n
  BY <1>1, <1>3, <1>8
<1>11. p \in [1 .. n -> 1 .. n]
  BY <1>9, <1>10
<1>12. ASSUME NEW i \in 1 .. n, NEW j \in 1 .. n, p[i] = p[j] PROVE i = j
  <2>1. i < k /\ j < k => i = j
    BY <1>2, <1>8, <1>12, <1>5
  <2>2. k < i /\ k < j => i = j
    <3>1. ASSUME k < i, k < j PROVE i - 1 = j - 1
      BY <1>2, <1>8, <1>12, <1>5, <3>1
    <3>. QED
      BY <3>1
  <2>3. ASSUME i < k, k < j PROVE FALSE
    <3>1. i \in 1 .. m /\ j - 1 \in 1 .. m /\ q[i] = q[j - 1] /\ j - 1 >= k
      BY <1>5, <1>8, <1>12, <2>3
    <3>2. i = j - 1
      BY <1>2, <3>1
    <3>. QED
      BY <1>5, <2>3, <3>1, <3>2
  <2>4. ASSUME j < k, k < i PROVE FALSE
    <3>1. j \in 1 .. m /\ i - 1 \in 1 .. m /\ q[j] = q[i - 1] /\ i - 1 >= k
      BY <1>5, <1>8, <1>12, <2>4
    <3>2. j = i - 1
      BY <1>2, <3>1
    <3>. QED
      BY <1>5, <2>4, <3>1, <3>2
  <2>5. \A x \in 1 .. n : p[x] = n <=> x = k
    <3>. SUFFICES ASSUME NEW x \in 1 .. n PROVE p[x] = n <=> x = k
      OBVIOUS
    <3>1. CASE x < k
      <4>1. p[x] \in 1 .. m
        BY <1>3, <1>5, <1>8, <3>1
      <4>. QED
        BY <1>1, <1>5, <3>1, <4>1
    <3>2. CASE x = k
      BY <1>5, <1>8, <3>2
    <3>3. CASE k < x
      <4>1. x - 1 \in 1 .. m /\ p[x] = q[x - 1]
        BY <1>5, <1>8, <3>3
      <4>2. p[x] \in 1 .. m
        BY <1>3, <4>1
      <4>. QED
        BY <1>1, <1>5, <3>3, <4>2
    <3>. QED
      BY <1>5, <3>1, <3>2, <3>3
  <2>6. (p[i] = n <=> i = k) /\ (p[j] = n <=> j = k)
    BY <2>5
  <2>7. (i < k \/ i = k \/ k < i) /\ (j < k \/ j = k \/ k < j)
    BY <1>5
  <2>. QED
    BY <1>12, <2>1, <2>2, <2>3, <2>4, <2>5, <2>6, <2>7
<1>13. ASSUME NEW o \in 1 .. n PROVE \E i \in 1 .. n : p[i] = o
  <2>1. CASE o = n
    <3>1. p[k] = n
      BY <1>5, <1>8
    <3>. QED
      BY <1>5, <2>1, <3>1
  <2>2. CASE o # n
    <3>1. o \in 1 .. m
      BY <1>1, <2>2
    <3>2. PICK i \in 1 .. m : q[i] = o
      BY <1>2, <3>1
    <3>3. CASE i < k
      <4>1. i \in 1 .. n /\ p[i] = q[i]
        BY <1>1, <1>5, <1>8, <3>3
      <4>. QED
        BY <3>2, <4>1
    <3>4. CASE i >= k
      <4>1. i + 1 \in 1 .. n /\ k < i + 1 /\ (i + 1) - 1 = i
        BY <1>5, <3>4 DEF n
      <4>2. p[i + 1] = q[(i + 1) - 1]
        BY <1>5, <1>8, <4>1
      <4>. QED
        BY <3>2, <4>1, <4>2
    <3>. QED
      BY <1>5, <3>3, <3>4
  <2>. QED
    BY <2>1, <2>2
<1>14. ASSUME NEW i \in 1 .. n, NEW j \in 1 .. n, i < j PROVE f[p[i]] <= f[p[j]]
  <2>1. CASE j < k
    <3>1. i < k
      BY <1>5, <1>14, <2>1
    <3>2. i \in 1 .. m /\ j \in 1 .. m /\ p[i] = q[i] /\ p[j] = q[j]
      BY <1>5, <1>8, <2>1, <3>1
    <3>. QED
      BY <1>2, <1>14, <3>2
  <2>2. CASE j = k
    <3>1. i \in 1 .. m /\ p[i] = q[i] /\ p[j] = n /\ i < k
      BY <1>5, <1>8, <1>14, <2>2
    <3>. QED
      BY <1>6, <3>1
  <2>3. CASE i < k /\ k < j
    <3>1. /\ p[i] = q[i] /\ p[j] = q[j - 1] /\ i \in 1 .. m /\ j - 1 \in 1 .. m
          /\ j - 1 >= k
      BY <1>5, <1>8, <2>3
    <3>2. f[q[i]] <= f[n] /\ f[n] <= f[q[j - 1]]
      BY <1>6, <1>7, <2>3, <3>1
    <3>3. f[q[i]] \in Nat /\ f[n] \in Nat /\ f[q[j - 1]] \in Nat
      BY <1>3, <3>1
    <3>4. f[q[i]] <= f[q[j - 1]]
      BY <3>2, <3>3
    <3>. QED
      BY <3>1, <3>4
  <2>4. CASE i = k
    <3>1. p[i] = n /\ p[j] = q[j - 1] /\ j - 1 \in 1 .. m /\ j - 1 >= k
      BY <1>5, <1>8, <1>14, <2>4
    <3>. QED
      BY <1>7, <3>1
  <2>5. CASE k < i
    <3>1. /\ i - 1 \in 1 .. m /\ j - 1 \in 1 .. m /\ i - 1 < j - 1
          /\ p[i] = q[i - 1] /\ p[j] = q[j - 1]
      BY <1>5, <1>8, <1>14, <2>5
    <3>2. f[q[i - 1]] <= f[q[j - 1]]
      BY <1>2, <3>1
    <3>. QED
      BY <3>1, <3>2
  <2>6. j < k \/ j = k \/ (i < k /\ k < j) \/ i = k \/ k < i
    BY <1>5, <1>14
  <2>. QED
    BY <2>1, <2>2, <2>3, <2>4, <2>5, <2>6
<1>15. Sorts(f, n, p)
  BY <1>11, <1>12, <1>13, <1>14, SortsParts
<1>. QED
  BY <1>15 DEF n

LEMMA SortExists ==
  ASSUME NEW n \in Nat, NEW f, f \in [1 .. n -> Nat]
  PROVE  \E p : Sorts(f, n, p)
<1>. DEFINE Sortable(l) == \A g \in [1 .. l -> Nat] : \E p : Sorts(g, l, p)
            bad == {l \in Nat : ~Sortable(l)}
<1>1. Sortable(0)
  <2>. SUFFICES ASSUME NEW g \in [1 .. 0 -> Nat]
                PROVE  \E p : Sorts(g, 0, p)
    OBVIOUS
  <2>1. 1 .. 0 = {}
    OBVIOUS
  <2>2. Sorts(g, 0, [i \in 1 .. 0 |-> 0])
    BY <2>1, SortsParts
  <2>. QED
    BY <2>2
<1>2. ASSUME NEW m \in Nat, Sortable(m) PROVE Sortable(m + 1)
  <2>. SUFFICES ASSUME NEW g \in [1 .. m + 1 -> Nat]
                PROVE  \E p : Sorts(g, m + 1, p)
    OBVIOUS
  <2>. DEFINE h == [i \in 1 .. m |-> g[i]]
  <2>1. h \in [1 .. m -> Nat] /\ \A i \in 1 .. m : h[i] = g[i]
    OBVIOUS
  <2>. HIDE DEF h
  <2>2. PICK q : Sorts(h, m, q)
    BY <1>2, <2>1
  <2>3. /\ q \in [1 .. m -> 1 .. m]
        /\ \A i, j \in 1 .. m : q[i] = q[j] => i = j
        /\ \A o \in 1 .. m : \E i \in 1 .. m : q[i] = o
        /\ \A i, j \in 1 .. m : i < j => h[q[i]] <= h[q[j]]
    BY <2>2, SortsParts
  <2>4. \A i \in 1 .. m : h[q[i]] = g[q[i]]
    BY <2>1, <2>3
  <2>5. Sorts(g, m, q)
    BY <2>3, <2>4, SortsParts
  <2>. QED
    BY <2>5, Inserted
<1>. HIDE DEF Sortable
<1>3. ASSUME bad # {} PROVE FALSE
  <2>1. PICK l \in bad : \A k \in bad : l <= k
    <3>1. bad \in SUBSET Nat
      OBVIOUS
    <3>. QED
      BY <1>3, <3>1, LeastOf
  <2>2. l # 0 /\ l - 1 \in Nat /\ l - 1 \notin bad
    BY <1>1, <2>1
  <2>3. Sortable(l - 1) /\ (l - 1) + 1 = l
    BY <2>2
  <2>4. Sortable(l)
    BY <1>2, <2>2, <2>3
  <2>. QED
    BY <2>1, <2>4
<1>4. Sortable(n)
  BY <1>3
<1>. QED
  BY <1>4 DEF Sortable

LEMMA OrderedAscends ==
  ASSUME NEW rows \in Seq(Nat)
  PROVE  Ordered(rows) \in Reordered(rows) /\ Ascends(Ordered(rows))
<1>. DEFINE n == Len(rows)
<1>1. n \in Nat /\ rows \in [1 .. n -> Nat] /\ DOMAIN rows = 1 .. n
  OBVIOUS
<1>. HIDE DEF n
<1>2. PICK p : Sorts(rows, n, p)
  BY <1>1, SortExists
<1>. DEFINE s == [i \in 1 .. n |-> rows[p[i]]]
<1>3. s \in Reordered(rows)
  BY <1>1, <1>2 DEF Reordered, Sorts
<1>4. Ascends(s)
  BY <1>2 DEF Ascends, Sorts
<1>. HIDE DEF s
<1>. QED
  BY <1>3, <1>4 DEF Ordered

\* A set has one enumeration in strict order.
Enumerates(s, n, S) ==
  /\ s \in [1 .. n -> S]
  /\ \A x \in S : \E i \in 1 .. n : s[i] = x
  /\ \A i, j \in 1 .. n : i < j => s[i] < s[j]

LEMMA OneListing ==
  ASSUME NEW n \in Nat, NEW S \in SUBSET Nat, NEW s, NEW t,
         Enumerates(s, n, S), Enumerates(t, n, S)
  PROVE  s = t
<1>0. /\ s \in [1 .. n -> S] /\ t \in [1 .. n -> S]
      /\ \A x \in S : \E i \in 1 .. n : s[i] = x
      /\ \A x \in S : \E i \in 1 .. n : t[i] = x
      /\ \A i, j \in 1 .. n : i < j => s[i] < s[j]
      /\ \A i, j \in 1 .. n : i < j => t[i] < t[j]
  BY DEF Enumerates
<1>. DEFINE D == {i \in 1 .. n : s[i] # t[i]}
<1>1. ASSUME D # {} PROVE FALSE
  <2>1. PICK k \in D : \A i \in D : k <= i
    <3>1. D \in SUBSET Nat
      OBVIOUS
    <3>. QED
      BY <1>1, <3>1, LeastOf
  <2>2. \A i \in 1 .. n : i < k => s[i] = t[i]
    BY <2>1
  <2>3. \A i \in 1 .. n : s[i] \in Nat /\ t[i] \in Nat /\ s[i] \in S /\ t[i] \in S
    BY <1>0
  <2>4. CASE s[k] < t[k]
    <3>1. PICK j \in 1 .. n : t[j] = s[k]
      BY <1>0, <2>1, <2>3
    <3>2. j \in Int /\ k \in 1 .. n /\ k \in Int /\ (j < k \/ j = k \/ k < j)
      BY <2>1
    <3>3. ASSUME j < k PROVE FALSE
      <4>1. s[j] < s[k] /\ s[j] = t[j]
        BY <1>0, <2>2, <3>2, <3>3
      <4>. QED
        BY <2>3, <3>1, <3>2, <4>1
    <3>4. ASSUME k < j PROVE FALSE
      <4>1. t[k] < t[j]
        BY <1>0, <3>2, <3>4
      <4>. QED
        BY <2>3, <2>4, <3>1, <3>2, <4>1
    <3>5. j # k
      BY <2>3, <2>4, <3>1, <3>2
    <3>. QED
      BY <3>2, <3>3, <3>4, <3>5
  <2>5. CASE t[k] < s[k]
    <3>1. PICK j \in 1 .. n : s[j] = t[k]
      BY <1>0, <2>1, <2>3
    <3>2. j \in Int /\ k \in 1 .. n /\ k \in Int /\ (j < k \/ j = k \/ k < j)
      BY <2>1
    <3>3. ASSUME j < k PROVE FALSE
      <4>1. t[j] < t[k] /\ t[j] = s[j]
        BY <1>0, <2>2, <3>2, <3>3
      <4>. QED
        BY <2>3, <3>1, <3>2, <4>1
    <3>4. ASSUME k < j PROVE FALSE
      <4>1. s[k] < s[j]
        BY <1>0, <3>2, <3>4
      <4>. QED
        BY <2>3, <2>5, <3>1, <3>2, <4>1
    <3>5. j # k
      BY <2>3, <2>5, <3>1, <3>2
    <3>. QED
      BY <3>2, <3>3, <3>4, <3>5
  <2>. QED
    BY <2>1, <2>3, <2>4, <2>5
<1>. QED
  BY <1>0, <1>1

\* What the handlers' sort makes of the table's rows and the runtime one.
LEMMA FortunesInOrder == Ordered(Append(Seed, Runtime)) = Listing
<1>. DEFINE rows == Append(Seed, Runtime)
            n == Len(Seed) + 1
            S == ToSet(Seed) \cup {Runtime}
            s == Ordered(rows)
<1>1. /\ Seed \in Seq(Nat) /\ Runtime \in Nat /\ n \in Nat /\ rows \in Seq(Nat)
      /\ DOMAIN rows = 1 .. n /\ S \in SUBSET Nat
      /\ \A i \in 1 .. n : rows[i] \in S
      /\ \A x \in S : \E i \in 1 .. n : rows[i] = x
      /\ \A i, j \in 1 .. n : rows[i] = rows[j] => i = j
  <2>1. Seed \in Seq(Nat) /\ Runtime \in Nat /\ Runtime \notin ToSet(Seed)
        /\ \A i, j \in DOMAIN Seed : Seed[i] = Seed[j] => i = j
    BY RoutesAssumption DEF IsInjective
  <2>2. /\ n \in Nat /\ rows \in Seq(Nat) /\ DOMAIN rows = 1 .. n /\ DOMAIN Seed = 1 .. n - 1
        /\ rows[n] = Runtime /\ \A i \in 1 .. n - 1 : rows[i] = Seed[i] /\ Seed[i] \in Nat
    BY <2>1
  <2>3. ToSet(Seed) = {Seed[i] : i \in 1 .. n - 1}
    BY <2>2 DEF ToSet
  <2>4. \A i \in 1 .. n : i = n \/ i \in 1 .. n - 1
    BY <2>2
  <2>5. 1 .. n - 1 \subseteq 1 .. n /\ n \in 1 .. n
    BY <2>2
  <2>6. S = {Seed[i] : i \in 1 .. n - 1} \cup {Runtime}
    BY <2>3
  <2>. HIDE DEF rows, n, S
  <2>7. S \in SUBSET Nat
    BY <2>1, <2>2, <2>6
  <2>8. \A i \in 1 .. n : rows[i] \in S
    BY <2>2, <2>4, <2>6
  <2>9. \A x \in S : \E i \in 1 .. n : rows[i] = x
    BY <2>2, <2>5, <2>6
  <2>10. \A i \in 1 .. n - 1 : Seed[i] # Runtime
    BY <2>1, <2>3
  <2>11. ASSUME NEW i \in 1 .. n, NEW j \in 1 .. n, rows[i] = rows[j] PROVE i = j
    BY <2>1, <2>2, <2>4, <2>10, <2>11
  <2>. QED
    BY <2>1, <2>2, <2>7, <2>8, <2>9, <2>11
<1>2. s \in Reordered(rows) /\ Ascends(s)
  BY <1>1, OrderedAscends
<1>. HIDE DEF rows, n, S, s
<1>3. PICK p \in Bijection(1 .. n, 1 .. n) : s = [i \in 1 .. n |-> rows[p[i]]]
  BY <1>1, <1>2 DEF Reordered
<1>4. /\ p \in [1 .. n -> 1 .. n] /\ \A i, j \in 1 .. n : p[i] = p[j] => i = j
      /\ \A o \in 1 .. n : \E i \in 1 .. n : p[i] = o
  BY DEF Bijection, Injection, Surjection, IsInjective
<1>5. /\ s \in [1 .. n -> S] /\ \A x \in S : \E i \in 1 .. n : s[i] = x
      /\ \A i, j \in 1 .. n : s[i] = s[j] => i = j
  <2>1. \A i \in 1 .. n : s[i] = rows[p[i]] /\ p[i] \in 1 .. n
    BY <1>3, <1>4
  <2>2. s \in [1 .. n -> S]
    BY <1>1, <1>3, <1>4
  <2>3. ASSUME NEW x \in S PROVE \E i \in 1 .. n : s[i] = x
    <3>1. PICK o \in 1 .. n : rows[o] = x
      BY <1>1
    <3>2. PICK i \in 1 .. n : p[i] = o
      BY <1>4
    <3>. QED
      BY <2>1, <3>1, <3>2
  <2>4. ASSUME NEW i \in 1 .. n, NEW j \in 1 .. n, s[i] = s[j] PROVE i = j
    <3>1. p[i] = p[j]
      BY <1>1, <2>1, <2>4
    <3>. QED
      BY <1>4, <3>1
  <2>. QED
    BY <2>2, <2>3, <2>4
<1>6. \A i, j \in 1 .. n : i < j => s[i] < s[j]
  <2>1. \A i, j \in 1 .. n : i < j => s[i] <= s[j] /\ s[i] # s[j]
    BY <1>2, <1>5 DEF Ascends
  <2>2. \A i \in 1 .. n : s[i] \in Nat
    BY <1>1, <1>5
  <2>. QED
    BY <2>1, <2>2
<1>7. ASSUME NEW t \in [1 .. n -> S]
      PROVE  (ToSet(t) = S /\ (\A i, j \in DOMAIN t : i < j => t[i] < t[j]))
               <=> Enumerates(t, n, S)
  <2>1. DOMAIN t = 1 .. n /\ \A i \in 1 .. n : t[i] \in S
    OBVIOUS
  <2>2. ToSet(t) = {t[i] : i \in 1 .. n}
    BY <2>1 DEF ToSet
  <2>3. ToSet(t) = S <=> \A x \in S : \E i \in 1 .. n : t[i] = x
    BY <2>1, <2>2
  <2>. QED
    BY <2>1, <2>3 DEF Enumerates
<1>8. Listing = CHOOSE t \in [1 .. n -> S] :
                  ToSet(t) = S /\ \A i, j \in DOMAIN t : i < j => t[i] < t[j]
  BY DEF Listing, n, S
<1>9. Enumerates(s, n, S)
  BY <1>5, <1>6 DEF Enumerates
<1>10. Enumerates(Listing, n, S)
  BY <1>5, <1>7, <1>8, <1>9
<1>11. s = Listing
  BY <1>1, <1>9, <1>10, OneListing
<1>. QED
  BY <1>11 DEF s, rows

\* Every request of every connection is answered from its own parameters and body alone,
\* as documented but where the entry's code departs from that, and there it does not.
THEOREM AnswersAsDocumentedTheorem == Spec => []AnswersAsDocumented
<1>1. IInv => AnswersAsDocumented
  <2>. SUFFICES ASSUME IInv, NEW s \in Slots, slot[s].st = "done"
                PROVE  SameAnswer(s) <=> ~Departs(slot[s].ask, slot[s].out)
    BY DEF AnswersAsDocumented
  <2>. DEFINE r == slot[s].ask
              out == slot[s].out
              a == slot[s].ans
              d == Documented(r, out)
  <2>0. r \in Request /\ entry \in Having(r) /\ Done(entry, mounted, slot[s])
        /\ mounted \in BOOLEAN
    BY RequestsAssumption DEF IInv, Good
  <2>1. ~NoMultiplier(r) => (SameAnswer(s) <=> a.status = d.status /\ a.body = d.body)
    BY DEF SameAnswer
  <2>10. r.route # "json" => ~NoMultiplier(r)
    BY DEF NoMultiplier
  <2>2. CASE r.route = "json"
    <3>1. r.count \in Parameter /\ r.m \in Parameter /\ entry \in DOMAIN Json(r, mounted)
      BY <2>0, <2>2, RequestShape, InTable
    <3>2. a = Json(r, mounted)[entry]
      BY <2>0, <2>2 DEF Done
    <3>3. d.status = 200 /\ d.body = Items(Some(r, mounted), IfNumber(r.m, 0))
      <4>1. d = Ok(Items(Some(r, mounted), IfNumber(r.m, 0)))
        BY <2>2, DocumentedRoute DEF Some, Wanted
      <4>. QED
        BY <4>1, StatusAndBody
    <3>4. Some(r, mounted) \in Nat /\ (~mounted => Some(r, mounted) = 0)
      BY <2>0, <3>1, SomeNat
    <3>5. /\ Wanted(r) = Some(r, mounted)
          /\ NoMultiplier(r) <=> r.m \in {Absent, Junk} /\ Some(r, mounted) # 0
          /\ Departs(r, out) <=>
               \/ NoMultiplier(r)
               \/ IF mounted
                  THEN r.m = 0 /\ Some(r, mounted) # 0 /\ entry \notin {"bun", "bananabread"}
                  ELSE entry \in RefusesNoDataset
      BY <2>2 DEF Departs, NoMultiplier, Wanted, Some
    <3>6. CASE ~mounted /\ entry \in RefusesNoDataset
      <4>1. ~NoMultiplier(r)
        BY <3>4, <3>5, <3>6
      <4>. QED
        BY <2>0, <2>1, <3>1, <3>2, <3>3, <3>5, <3>6, <4>1, JsonAnswer
    <3>7. CASE ~(~mounted /\ entry \in RefusesNoDataset)
      <4>1. a.status = 200
            /\ a.body = Items(Some(r, mounted), IF entry \in {"bun", "bananabread"}
                                                  THEN IfNumber(r.m, 1) ELSE Or(r.m, 1))
        BY <2>0, <3>1, <3>2, <3>7, JsonAnswer
      <4>2. CASE NoMultiplier(r)
        <5>1. IfNumber(r.m, 1) = 1 /\ Or(r.m, 1) = 1
          BY <3>5, <4>2, RoutesAssumption DEF IfNumber, Or, ParseInt
        <5>. QED
          BY <3>5, <4>1, <4>2, <5>1 DEF SameAnswer
      <4>3. CASE ~NoMultiplier(r)
        <5>1. SameAnswer(s) <=> a.status = d.status /\ a.body = d.body
          BY <2>1, <4>3
        <5>2. CASE Some(r, mounted) = 0
          BY <3>3, <3>4, <3>5, <3>7, <4>1, <4>3, <5>1, <5>2, ItemsDiffer
        <5>3. CASE Some(r, mounted) # 0
          <6>1. mounted /\ r.m \in Int
            BY <3>1, <3>4, <3>5, <4>3, <5>3, <2>0 DEF Parameter
          <6>2. IfNumber(r.m, 0) = r.m /\ IfNumber(r.m, 1) = r.m
            BY <6>1, RoutesAssumption DEF IfNumber, ParseInt
          <6>3. Or(r.m, 1) = IF r.m = 0 THEN 1 ELSE r.m
            BY <6>1, RoutesAssumption DEF Or, ParseInt
          <6>4. d.body = Items(Some(r, mounted), r.m)
            BY <3>3, <6>2
          <6>5. a.body = d.body <=> ~(r.m = 0 /\ entry \notin {"bun", "bananabread"})
            <7>1. r.m # 0 \/ entry \in {"bun", "bananabread"} => a.body = d.body
              BY <4>1, <6>2, <6>3, <6>4
            <7>2. r.m = 0 /\ entry \notin {"bun", "bananabread"} => a.body # d.body
              <8>. SUFFICES ASSUME r.m = 0, entry \notin {"bun", "bananabread"}, a.body = d.body
                            PROVE FALSE
                OBVIOUS
              <8>1. /\ a.body = Items(Some(r, mounted), 1)
                    /\ d.body = Items(Some(r, mounted), 0)
                BY <4>1, <6>3, <6>4
              <8>. QED
                BY <3>4, <5>3, <8>1, ItemsDiffer
            <7>. QED
              BY <7>1, <7>2
          <6>. QED
            BY <3>3, <3>5, <4>1, <4>3, <5>1, <5>3, <6>1, <6>5
        <5>. QED
          BY <5>2, <5>3
      <4>. QED
        BY <4>2, <4>3
    <3>. QED
      BY <3>6, <3>7
  <2>3. CASE r.route = "static"
    <3>1. a = Static(r)[entry] /\ entry \in DOMAIN Static(r) /\ ~Departs(r, out)
      BY <2>0, <2>3, <2>10, HavingRoute DEF Done, Departs
    <3>2. d = File("identity")
      BY <2>3, DocumentedRoute
    <3>3. \E enc : a = File(enc)
      BY <3>1, StaticTable DEF NodeStatic, DenoStatic, ExpressStatic, FastifyStatic, BunStatic,
         HonoBunStatic, UltimateStatic, HyperStatic, ElysiaStatic
    <3>. QED
      BY <2>1, <2>3, <2>10, <3>1, <3>2, <3>3, StatusAndBody DEF File
  <2>4. CASE r.route \in Bodies
    <3>. DEFINE bytes == IF r.post THEN r.body ELSE <<>>
    <3>1. a = Body(r, bytes)[entry] /\ entry \in DOMAIN Body(r, bytes) /\ ~Departs(r, out)
      BY <2>0, <2>4, <2>10, InTable DEF Done, Departs, Bodies
    <3>2. a = EchoOrSum(r, bytes, SumNumbers(r))
      BY <3>1, BodyAnswer
    <3>3. d = a
      BY <2>0, <2>4, <3>2, DocumentedRoute, RequestShape DEF Bodies, EchoOrSum, SumNumbers
    <3>. QED
      BY <2>1, <2>4, <2>10, <3>1, <3>3 DEF Bodies
  <2>5. CASE r.route = "delay"
    <3>1. a = Ok(<<Delay(r)[entry]>>) /\ entry \in DOMAIN Delay(r) /\ ~Departs(r, out)
      BY <2>0, <2>5, <2>10, HavingRoute DEF Done, Departs
    <3>2. Delay(r)[entry] = IfNumber(r.ms, 0)
      BY <2>0, <2>5, <3>1, DelayNat
    <3>3. d = a
      BY <2>5, <3>1, <3>2, DocumentedRoute
    <3>. QED
      BY <2>1, <2>5, <2>10, <3>1, <3>3
  <2>6. CASE r.route = "async-db"
    <3>1. /\ a = AsyncDb(r, out)[entry] /\ entry \in DOMAIN AsyncDb(r, out)
          /\ out \in {"nopool", "rows", "full", "fails"}
      BY <2>0, <2>6, InTable DEF Done, Databases
    <3>2. d = IF out \in Returned THEN Ok(PriceRange(IfNumber, r)) ELSE EmptyItems
      BY <2>6, DocumentedRoute
    <3>3. PriceRange(Or, r) = PriceRange(IfNumber, r) <=> 0 \notin {r.min, r.max, r.limit}
      BY <2>0, <2>6, RequestShape, PriceRangesDiffer
    <3>4. Departs(r, out) <=> \/ out \in Returned /\ 0 \in {r.min, r.max, r.limit}
                                   /\ entry \notin KeepsZero
                              \/ out = "fails" /\ entry = "bananabread"
      BY <2>6, <2>10 DEF Departs
    <3>. QED
      BY <2>1, <2>6, <2>10, <3>1, <3>2, <3>3, <3>4, AsyncDbAnswer, StatusAndBody
         DEF AsyncDbOf, Returned
  <2>7. CASE r.route = "list"
    <3>1. /\ a = List(r, out)[entry] /\ entry \in DOMAIN List(r, out)
          /\ out \in {"nopool", "rows", "full", "fails"}
      BY <2>0, <2>7, InTable DEF Done, Databases
    <3>2. d = IF out \in Returned THEN Page(IfNumber, r) ELSE Fail
      BY <2>7, DocumentedRoute
    <3>3. /\ Page(IfNumber, r).status = 200 /\ Page(Or, r).status = 200
          /\ Page(Or, r).body = Page(IfNumber, r).body <=> r.limit # 0
      BY <2>0, <2>7, RequestShape, PagesDiffer
    <3>4. Departs(r, out) <=> \/ out \in Returned /\ r.limit = 0 /\ entry \notin KeepsZero
                              \/ out = "nopool" /\ entry = "bananabread"
      BY <2>7, <2>10 DEF Departs
    <3>. QED
      BY <2>1, <2>7, <2>10, <3>1, <3>2, <3>3, <3>4, ListAnswer, StatusAndBody
         DEF ListOf, KeepsZero, Returned
  <2>8. CASE r.route = "fortunes"
    <3>1. a = FortunesOf(out)[entry] /\ entry \in DOMAIN FortunesOf(out) /\ ~Departs(r, out)
      BY <2>0, <2>8, <2>10, InTable DEF Done, Departs
    <3>2. d = a
      <4>1. d = IF out \in Returned THEN Ok(Listing) ELSE Fail
        BY <2>8, DocumentedRoute
      <4>2. a = IF out \in Returned THEN Ok(Ordered(Append(Seed, Runtime))) ELSE Fail
        BY <3>1, FortunesAnswer DEF OrFail, Fortunes
      <4>3. Ordered(Append(Seed, Runtime)) = Listing
        BY FortunesInOrder
      <4>. QED
        BY <4>1, <4>2, <4>3
    <3>. QED
      BY <2>1, <2>8, <2>10, <3>1, <3>2
  <2>9. CASE r.route = "ws"
    <3>1. /\ a = Ok(Came(entry, r, Len(r.body))) /\ entry \in DOMAIN Ws("text")
          /\ r.body \in Seq(Frame)
      BY <2>0, <2>9, InTable, RequestShape DEF Done
    <3>2. d = Ok(r.body)
      BY <2>9, DocumentedRoute
    <3>3. Departs(r, out) <=> "text" \in ToSet(r.body) /\ entry = "node_websocket"
      BY <2>9, <2>10 DEF Departs
    <3>. QED
      BY <2>1, <2>9, <2>10, <3>1, <3>2, <3>3, FramesDiffer, StatusAndBody
  <2>. QED
    BY <2>0, <2>2, <2>3, <2>4, <2>5, <2>6, <2>7, <2>8, <2>9, RequestShape DEF Databases
<1>. QED
  BY <1>1, RequestsInvariant, PTL

=============================================================================
