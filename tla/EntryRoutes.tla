---------------------------- MODULE EntryRoutes ----------------------------
(***************************************************************************)
(* What the handlers of the JavaScript entries compute, route by route: one *)
(* operator per entry and handler, from the request to the answer.          *)
(*                                                                         *)
(* A parameter is what the client wrote: an integer, Junk (text that is no *)
(* number), or Absent.  An answer is a status, the values the body is made *)
(* of, and the encoding it leaves in.                                      *)
(***************************************************************************)
EXTENDS Integers, Sequences, SequencesExt

CONSTANTS Absent, Junk, NaN,
          DatasetSize,   \* items of data/dataset.json: 50
          Threshold,     \* items that make elysia's 1024 characters
          Seed,          \* the messages of the fortune table, in table order
          Runtime        \* the message every fortunes handler adds

ASSUME RoutesAssumption ==
    /\ \A v \in {Absent, Junk, NaN} : v \notin Int
    /\ DatasetSize \in Nat /\ Threshold \in Nat \ {0}
    /\ Seed \in Seq(Nat) /\ IsInjective(Seed) /\ Runtime \in Nat /\ Runtime \notin ToSet(Seed)

------------------------------------------------------------------------------
(* JavaScript. *)
ParseInt(v) == IF v \in {Absent, Junk} THEN NaN ELSE v
\* `parseInt(v) || d': zero is as good as missing.
Or(v, d) == IF ParseInt(v) \in {NaN, 0} THEN d ELSE ParseInt(v)
\* `n === n ? n : d', and a typed parameter with a default.
IfNumber(v, d) == IF ParseInt(v) = NaN THEN d ELSE ParseInt(v)

AtLeast(n, low) == IF n < low THEN low ELSE n
\* Mutant: no lower bound.
ClampAbove(n, low, high) == IF n > high THEN high ELSE n
Clamp(n, low, high) == IF n < low THEN low ELSE IF n > high THEN high ELSE n
\* A body of digits, parsed.
Digits(bytes) == FoldLeft(LAMBDA n, digit : 10 * n + digit, 0, bytes)

------------------------------------------------------------------------------
(* Answers. *)
Ok(body) == [status |-> 200, body |-> body, enc |-> "identity"]
Encoded(body, enc) == [status |-> 200, body |-> body, enc |-> enc]
Fail == [status |-> 500, body |-> <<>>, enc |-> "identity"]
\* '{"items":[],"count":0}'
EmptyItems == Ok(<<>>)

Offers(accept, token) == \E i \in DOMAIN accept : accept[i].token = token

\* `accept.includes('gzip')'.
Gzip(accept) == IF Offers(accept, "gzip") THEN "gzip" ELSE "identity"
GzipThenBr(accept) ==
    IF Offers(accept, "gzip") THEN "gzip"
    ELSE IF Offers(accept, "br") THEN "br" ELSE "identity"
FirstOf(accept, parts) == IF parts = {} THEN "identity" ELSE accept[Min(parts)].token
\* Mutant: the weight is not read.
PickIgnoringQ(accept) ==
    FirstOf(accept, {i \in DOMAIN accept : accept[i].token \in {"br", "gzip"}})
\* In the client's order, and none it gives weight zero.
PickEncoding(accept) ==
    FirstOf(accept, {i \in DOMAIN accept : accept[i].token \in {"br", "gzip"} /\ accept[i].q > 0})

------------------------------------------------------------------------------
(* GET /json/{count}?m={multiplier}.  An item stands for price * quantity; the
   dataset may not be mounted.  Where a middleware negotiates, the handler's
   answer is not encoded. *)
Items(count, m) == [i \in 1 .. count |-> i * m]
Available(mounted) == IF mounted THEN DatasetSize ELSE 0
\* Zero, or the first `count' items, or all.
Count(r, mounted) == Clamp(Or(r.count, 0), 0, Available(mounted))

NodeJson(r, mounted) == Encoded(Items(Count(r, mounted), Or(r.m, 1)), Gzip(r.accept))
DenoJson(r, mounted) == Encoded(Items(Count(r, mounted), Or(r.m, 1)), Gzip(r.accept))
BunJson(r, mounted) == Encoded(Items(Count(r, mounted), IfNumber(r.m, 1)), Gzip(r.accept))
H3Json(r, mounted) == Encoded(Items(Count(r, mounted), Or(r.m, 1)), Gzip(r.accept))
\* The hook that every object goes through leaves short ones alone.
Mapped(r, items, answer) ==
    IF items >= Threshold THEN Encoded(answer.body, PickEncoding(r.accept)) ELSE answer
ElysiaJson(r, mounted) ==
    Mapped(r, Count(r, mounted), Ok(Items(Count(r, mounted), Or(r.m, 1))))
HonoBunJson(r, mounted) == Ok(Items(Count(r, mounted), Or(r.m, 1)))
HonoNodeJson(r, mounted) == Ok(Items(Count(r, mounted), Or(r.m, 1)))
KoaJson(r, mounted) == Ok(Items(Count(r, mounted), Or(r.m, 1)))
NestJson(r, mounted) == Ok(Items(Count(r, mounted), Or(r.m, 1)))
FastifyJson(r, mounted) ==
    IF mounted THEN Ok(Items(Count(r, mounted), Or(r.m, 1))) ELSE Fail
ExpressJson(r, mounted) ==
    IF mounted THEN Ok(Items(Count(r, mounted), Or(r.m, 1))) ELSE Fail
UltimateJson(r, mounted) ==
    IF mounted THEN Encoded(Items(Count(r, mounted), Or(r.m, 1)), GzipThenBr(r.accept))
    ELSE Fail
HyperJson(r, mounted) == Encoded(Items(Count(r, mounted), Or(r.m, 1)), GzipThenBr(r.accept))
FulmineJson(r, mounted) ==
    IF mounted THEN Ok(Items(Count(r, mounted), Or(r.m, 1))) ELSE Fail
TunedJson(r, mounted) ==
    IF mounted THEN Ok(Items(Count(r, mounted), Or(r.m, 1))) ELSE Fail
BananaJson(r, mounted) ==
    IF mounted THEN Ok(Items(Clamp(IfNumber(r.count, 0), 0, DatasetSize), IfNumber(r.m, 1))) ELSE Fail

Json(r, mounted) ==
    [node |-> NodeJson(r, mounted), deno |-> DenoJson(r, mounted),
     bun |-> BunJson(r, mounted), node_h3 |-> H3Json(r, mounted),
     elysia |-> ElysiaJson(r, mounted), hono_bun |-> HonoBunJson(r, mounted),
     hono_node |-> HonoNodeJson(r, mounted), koa |-> KoaJson(r, mounted),
     nestjs |-> NestJson(r, mounted), fastify |-> FastifyJson(r, mounted),
     express |-> ExpressJson(r, mounted), ultimate_express |-> UltimateJson(r, mounted),
     hyper_express |-> HyperJson(r, mounted), fulmine |-> FulmineJson(r, mounted),
     fulmine_tuned |-> TunedJson(r, mounted), bananabread |-> BananaJson(r, mounted)]

\* The dataset is read without a try: such an entry does not start without it.
NeedsDataset == {"elysia", "hono_bun"}
------------------------------------------------------------------------------
(* GET /async-db?min=&max=&limit=.  `out' is what became of the query: "full",
   as many rows as its limit lets through, "rows", fewer than Threshold of them,
   "fails" or, without a pool, "nopool".  The body is the parameters it ran with,
   which decide the rows. *)
Returned == {"rows", "full"}
PriceRange(Read(_, _), r) ==
    <<Read(r.min, 10), Read(r.max, 50), Clamp(Read(r.limit, 50), 1, 50)>>
OrEmpty(body, out) == IF out \in Returned THEN Ok(body) ELSE EmptyItems

NodeAsyncDb(r, out) == OrEmpty(PriceRange(IfNumber, r), out)
DenoAsyncDb(r, out) == OrEmpty(PriceRange(IfNumber, r), out)
BunAsyncDb(r, out) == OrEmpty(PriceRange(Or, r), out)
\* How many rows the hook has to encode.
Fetched(limit, out) == IF out = "full" THEN limit ELSE 0
ElysiaAsyncDb(r, out) ==
    Mapped(r, Fetched(Clamp(Or(r.limit, 50), 1, 50), out), OrEmpty(PriceRange(Or, r), out))
HonoBunAsyncDb(r, out) == OrEmpty(PriceRange(Or, r), out)
FastifyAsyncDb(r, out) == OrEmpty(PriceRange(Or, r), out)
ExpressAsyncDb(r, out) == OrEmpty(PriceRange(Or, r), out)
UltimateAsyncDb(r, out) == OrEmpty(PriceRange(Or, r), out)
HyperAsyncDb(r, out) == OrEmpty(PriceRange(Or, r), out)
FulmineAsyncDb(r, out) == OrEmpty(PriceRange(Or, r), out)
TunedAsyncDb(r, out) == OrEmpty(PriceRange(Or, r), out)
\* A query that fails goes up to the framework.
BananaAsyncDb(r, out) ==
    IF out = "fails" THEN Fail ELSE OrEmpty(PriceRange(IfNumber, r), out)

AsyncDb(r, out) ==
    [node |-> NodeAsyncDb(r, out), deno |-> DenoAsyncDb(r, out),
     bun |-> BunAsyncDb(r, out), elysia |-> ElysiaAsyncDb(r, out),
     hono_bun |-> HonoBunAsyncDb(r, out), fastify |-> FastifyAsyncDb(r, out),
     express |-> ExpressAsyncDb(r, out), ultimate_express |-> UltimateAsyncDb(r, out),
     hyper_express |-> HyperAsyncDb(r, out), fulmine |-> FulmineAsyncDb(r, out),
     fulmine_tuned |-> TunedAsyncDb(r, out), bananabread |-> BananaAsyncDb(r, out)]

------------------------------------------------------------------------------
(* GET /crud/items?page=&limit=: LIMIT, OFFSET and the page it answers. *)
Window(page, limit) == Ok(<<limit, (page - 1) * limit, page>>)
Page(Read(_, _), r) ==
    Window(AtLeast(Read(r.page, 1), 1), Clamp(Read(r.limit, 10), 1, 50))
OrFail(answer, out) == IF out \in Returned THEN answer ELSE Fail

NodeList(r, out) == OrFail(Page(IfNumber, r), out)
DenoList(r, out) == OrFail(Page(IfNumber, r), out)
BunList(r, out) == OrFail(Page(Or, r), out)
ElysiaList(r, out) ==
    Mapped(r, Fetched(Clamp(Or(r.limit, 10), 1, 50), out), OrFail(Page(Or, r), out))
\* No catch: Hono's own error answer.
HonoBunList(r, out) == OrFail(Page(Or, r), out)
ExpressList(r, out) == OrFail(Page(Or, r), out)
UltimateList(r, out) == OrFail(Page(Or, r), out)
HyperList(r, out) == OrFail(Page(Or, r), out)
FulmineList(r, out) == OrFail(Page(Or, r), out)
TunedList(r, out) == OrFail(Page(Or, r), out)
BananaList(r, out) == IF out = "fails" THEN Fail ELSE Page(IfNumber, r)

List(r, out) ==
    [node |-> NodeList(r, out), deno |-> DenoList(r, out), bun |-> BunList(r, out),
     elysia |-> ElysiaList(r, out), hono_bun |-> HonoBunList(r, out),
     express |-> ExpressList(r, out), ultimate_express |-> UltimateList(r, out),
     hyper_express |-> HyperList(r, out), fulmine |-> FulmineList(r, out),
     fulmine_tuned |-> TunedList(r, out), bananabread |-> BananaList(r, out)]

------------------------------------------------------------------------------
(* GET /fortunes: the table's rows and the runtime one, in ordinal order.  No
   handler writes the table, so every query of it returns the same rows. *)
Reordered(rows) ==
    {[i \in DOMAIN rows |-> rows[p[i]]] : p \in Bijection(DOMAIN rows, DOMAIN rows)}
Ascends(rows) == \A i, j \in DOMAIN rows : i < j => rows[i] <= rows[j]
Ordered(rows) == CHOOSE s \in Reordered(rows) : Ascends(s)
Fortunes == Ok(Ordered(Append(Seed, Runtime)))

NodeFortunes(out) == OrFail(Fortunes, out)
DenoFortunes(out) == OrFail(Fortunes, out)
BunFortunes(out) == OrFail(Fortunes, out)
ElysiaFortunes(out) == OrFail(Fortunes, out)
HonoBunFortunes(out) == OrFail(Fortunes, out)
ExpressFortunes(out) == OrFail(Fortunes, out)
UltimateFortunes(out) == OrFail(Fortunes, out)
HyperFortunes(out) == OrFail(Fortunes, out)
FulmineFortunes(out) == OrFail(Fortunes, out)
TunedFortunes(out) == OrFail(Fortunes, out)

FortunesOf(out) ==
    [node |-> NodeFortunes(out), deno |-> DenoFortunes(out), bun |-> BunFortunes(out),
     elysia |-> ElysiaFortunes(out), hono_bun |-> HonoBunFortunes(out),
     express |-> ExpressFortunes(out), ultimate_express |-> UltimateFortunes(out),
     hyper_express |-> HyperFortunes(out), fulmine |-> FulmineFortunes(out),
     fulmine_tuned |-> TunedFortunes(out)]
------------------------------------------------------------------------------
(* /baseline11 and /echo: what is answered once the whole body is in. *)
\* A parameter that is no number adds nothing.
SumNumbers(r) == IfNumber(r.a, 0) + IfNumber(r.b, 0)
SumOrZero(r) == Or(r.a, 0) + Or(r.b, 0)
\* GET has no body; an empty one is no number.  The body is parsed once it has
\* been put together.
EchoOrSum(r, bytes, query) ==
    IF r.route = "echo" THEN Ok(bytes)
    ELSE Ok(<<query + (IF r.post THEN Digits(bytes) ELSE 0)>>)

NodeBody(r, bytes) == EchoOrSum(r, bytes, SumNumbers(r))
DenoBody(r, bytes) == EchoOrSum(r, bytes, SumNumbers(r))
BunBody(r, bytes) == EchoOrSum(r, bytes, SumNumbers(r))
ElysiaBody(r, bytes) == EchoOrSum(r, bytes, SumOrZero(r))
HonoBunBody(r, bytes) == EchoOrSum(r, bytes, SumOrZero(r))
HonoNodeBody(r, bytes) == EchoOrSum(r, bytes, SumOrZero(r))
H3Body(r, bytes) == EchoOrSum(r, bytes, SumNumbers(r))
KoaBody(r, bytes) == EchoOrSum(r, bytes, SumNumbers(r))
NestBody(r, bytes) == EchoOrSum(r, bytes, SumNumbers(r))
FastifyBody(r, bytes) == EchoOrSum(r, bytes, SumNumbers(r))
ExpressBody(r, bytes) == EchoOrSum(r, bytes, SumNumbers(r))
UltimateBody(r, bytes) == EchoOrSum(r, bytes, SumNumbers(r))
HyperBody(r, bytes) == EchoOrSum(r, bytes, SumNumbers(r))
FulmineBody(r, bytes) == EchoOrSum(r, bytes, SumNumbers(r))
TunedBody(r, bytes) == EchoOrSum(r, bytes, SumNumbers(r))
BananaBody(r, bytes) == EchoOrSum(r, bytes, SumNumbers(r))

Body(r, bytes) ==
    [node |-> NodeBody(r, bytes), deno |-> DenoBody(r, bytes), bun |-> BunBody(r, bytes),
     elysia |-> ElysiaBody(r, bytes), hono_bun |-> HonoBunBody(r, bytes),
     hono_node |-> HonoNodeBody(r, bytes), node_h3 |-> H3Body(r, bytes),
     koa |-> KoaBody(r, bytes), nestjs |-> NestBody(r, bytes),
     fastify |-> FastifyBody(r, bytes), express |-> ExpressBody(r, bytes),
     ultimate_express |-> UltimateBody(r, bytes), hyper_express |-> HyperBody(r, bytes),
     fulmine |-> FulmineBody(r, bytes), fulmine_tuned |-> TunedBody(r, bytes),
     bananabread |-> BananaBody(r, bytes)]

------------------------------------------------------------------------------
(* GET /static/{file}: which of the file and the variants beside it is sent. *)
File(enc) == Encoded(<<>>, enc)
BrThenGzip(r) ==
    IF "br" \in r.have /\ Offers(r.accept, "br") THEN "br"
    ELSE IF "gzip" \in r.have /\ Offers(r.accept, "gzip") THEN "gzip" ELSE "identity"

NodeStatic(r) == File("identity")
DenoStatic(r) == File("identity")
ExpressStatic(r) == File("identity")
FastifyStatic(r) == File("identity")
BunStatic(r) == File(BrThenGzip(r))
\* Weights are cut off the header before Hono's own handler reads it.
HonoBunStatic(r) == File(BrThenGzip(r))
\* From a table of the variants that is made once, at startup.
UltimateStatic(r) == File(BrThenGzip(r))
HyperStatic(r) == File(BrThenGzip(r))
\* Without the variant it picked, the plugin sends the file itself.
ElysiaStatic(r) ==
    File(IF PickEncoding(r.accept) \in r.have THEN PickEncoding(r.accept) ELSE "identity")

Static(r) ==
    [node |-> NodeStatic(r), deno |-> DenoStatic(r), express |-> ExpressStatic(r),
     fastify |-> FastifyStatic(r), bun |-> BunStatic(r), hono_bun |-> HonoBunStatic(r),
     ultimate_express |-> UltimateStatic(r), hyper_express |-> HyperStatic(r),
     elysia |-> ElysiaStatic(r)]

------------------------------------------------------------------------------
(* GET /delay/{ms}: how long the handler waits, and what it answers then. *)
BunDelay(r) == Or(r.ms, 0)
ExpressDelay(r) == Or(r.ms, 0)
FulmineDelay(r) == Or(r.ms, 0)
TunedDelay(r) == Or(r.ms, 0)

Delay(r) == [bun |-> BunDelay(r), express |-> ExpressDelay(r),
             fulmine |-> FulmineDelay(r), fulmine_tuned |-> TunedDelay(r)]

(* /ws: a frame comes back as it came.  The `ws' package hands every message
   over as a Buffer, and sends a Buffer as a binary frame. *)
NodeWs(frame) == "binary"
BunWs(frame) == frame
DenoWs(frame) == frame
FulmineWs(frame) == frame
TunedWs(frame) == frame

Ws(frame) == [node_websocket |-> NodeWs(frame), bun_websocket |-> BunWs(frame),
              deno_websocket |-> DenoWs(frame), fulmine |-> FulmineWs(frame),
              fulmine_tuned |-> TunedWs(frame)]
=============================================================================
