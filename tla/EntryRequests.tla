--------------------------- MODULE EntryRequests ---------------------------
(***************************************************************************)
(* One worker process of a JavaScript entry and the requests that overlap   *)
(* in it.                                                                   *)
(*                                                                         *)
(* Handlers run to their first await; then a body comes in, in pieces the   *)
(* handler does not choose, a timer runs, or a query is out, and any other  *)
(* request may be handled in between.  What each handler computes is in     *)
(* EntryRoutes.                                                             *)
(***************************************************************************)
EXTENDS EntryRoutes, FiniteSets

CONSTANTS Slots,      \* connections to the worker, one request at a time each
          Requests    \* Requests[s]: what connection s may ask

(* A request as far as the handlers read it: a delay is never negative, and a
   body is digits or bytes, or the frames of a socket. *)
Parameter == {Absent, Junk} \cup Int
Header == Seq([token : STRING, q : Nat])
Frame == {"text", "binary"}
Request ==
    [route : {"json"}, count : Parameter, m : Parameter, accept : Header]
      \cup [route : {"static"}, have : SUBSET {"br", "gzip"}, accept : Header]
      \cup [route : {"baseline11"}, a : Parameter, b : Parameter, post : BOOLEAN,
            body : Seq(Nat)]
      \cup [route : {"echo"}, post : {TRUE}, body : Seq(Nat)]
      \cup [route : {"delay"}, ms : {Absent, Junk} \cup Nat]
      \cup [route : {"async-db"}, min : Parameter, max : Parameter, limit : Parameter,
            accept : Header]
      \cup [route : {"list"}, page : Parameter, limit : Parameter, accept : Header]
      \cup [route : {"fortunes"}]
      \cup [route : {"ws"}, body : Seq(Frame)]

ASSUME RequestsAssumption == \A s \in Slots : Requests[s] \subseteq Request

VARIABLES entry,      \* which entry the worker runs
          mounted,    \* whether the dataset is mounted
          pool,       \* whether DATABASE_URL was given
          slot        \* slot[s]: the request of connection s

vars == <<entry, mounted, pool, slot>>

Free == [st |-> "free", ask |-> <<>>, bytes |-> <<>>, left |-> 0, age |-> 0,
         out |-> "none", ans |-> <<>>]
Http == DOMAIN Body([route |-> "echo"], <<>>)
Entries == Http \cup DOMAIN Ws("text")

\* The entries that have the route of r.
Having(r) ==
    CASE r.route = "json" -> DOMAIN Json(r, TRUE)
      [] r.route \in {"baseline11", "echo"} -> Http
      [] r.route = "delay" -> DOMAIN Delay(r)
      [] r.route = "async-db" -> DOMAIN AsyncDb(r, "rows")
      [] r.route = "list" -> DOMAIN List(r, "rows")
      [] r.route = "fortunes" -> DOMAIN FortunesOf("rows")
      [] r.route = "static" -> DOMAIN Static(r)
      [] r.route = "ws" -> DOMAIN Ws("text")

Init ==
    /\ entry \in Entries
    /\ mounted \in BOOLEAN
    /\ (entry \in NeedsDataset => mounted)
    /\ pool \in BOOLEAN
    /\ slot = [s \in Slots |-> Free]

\* What becomes of a request: answered, or suspended in state st.
Answered(s, request, out, answer) ==
    slot' = [slot EXCEPT ![s] = [request EXCEPT !.st = "done", !.out = out, !.ans = answer]]
Suspended(s, r, st, left) ==
    slot' = [slot EXCEPT ![s] = [Free EXCEPT !.st = st, !.ask = r, !.left = left]]

\* seagreen refuses text where a number is declared, and a parameter without
\* default that is absent: bananabread is only asked what it takes.
Asks(s, r) ==
    /\ slot[s] = Free
    /\ r \in Requests[s]
    /\ entry \in Having(r)
    /\ entry = "bananabread" =>
          /\ \A field \in DOMAIN r : r[field] # Junk
          /\ r.route = "baseline11" => r.a # Absent /\ r.b # Absent
    /\ UNCHANGED <<entry, mounted, pool>>

AskJson(s, r) ==
    /\ r.route = "json"
    /\ Asks(s, r)
    /\ Answered(s, [Free EXCEPT !.ask = r], "none", Json(r, mounted)[entry])

AskStatic(s, r) ==
    /\ r.route = "static"
    /\ Asks(s, r)
    /\ Answered(s, [Free EXCEPT !.ask = r], "none", Static(r)[entry])

\* GET is answered at once; a body is read first.
AskBody(s, r) ==
    /\ r.route \in {"baseline11", "echo"}
    /\ Asks(s, r)
    /\ IF r.post THEN Suspended(s, r, "reading", 0)
       ELSE Answered(s, [Free EXCEPT !.ask = r], "none", Body(r, <<>>)[entry])

\* Mutant: the delay is kept in one place for all requests.
AskDelayShared(s, r) ==
    /\ r.route = "delay"
    /\ Asks(s, r)
    /\ slot' = [x \in Slots |->
                   IF x = s
                   THEN [Free EXCEPT !.st = "waiting", !.ask = r, !.left = Delay(r)[entry]]
                   ELSE IF slot[x].st = "waiting"
                   THEN [slot[x] EXCEPT !.left = Delay(r)[entry]] ELSE slot[x]]

\* bun arms no timer for zero; the others arm one.
AskDelay(s, r) ==
    /\ r.route = "delay"
    /\ Asks(s, r)
    /\ IF entry = "bun" /\ Delay(r)[entry] = 0
       THEN Answered(s, [Free EXCEPT !.ask = r], "none", Ok(<<0>>))
       ELSE Suspended(s, r, "waiting", Delay(r)[entry])

\* What a database route answers.
Rows(r, out) ==
    CASE r.route = "async-db" -> AsyncDb(r, out)[entry]
      [] r.route = "list" -> List(r, out)[entry]
      [] r.route = "fortunes" -> FortunesOf(out)[entry]

AskRows(s, r) ==
    /\ r.route \in {"async-db", "list", "fortunes"}
    /\ Asks(s, r)
    /\ IF pool THEN Suspended(s, r, "querying", 0)
       ELSE Answered(s, [Free EXCEPT !.ask = r], "nopool", Rows(r, "nopool"))

AskWs(s, r) ==
    /\ r.route = "ws"
    /\ Asks(s, r)
    /\ Suspended(s, r, "reading", 0)

Coming(s) == SubSeq(slot[s].ask.body, Len(slot[s].bytes) + 1, Len(slot[s].ask.body))
\* What the handler keeps of a piece of the body; a frame it sends back.
Kept(s, piece) ==
    IF slot[s].ask.route = "ws" THEN [i \in DOMAIN piece |-> Ws(piece[i])[entry]] ELSE piece

\* Mutant: the chunks are gathered outside the request.
DataShared(s) ==
    /\ slot[s].st = "reading"
    /\ \E n \in 1 .. Len(Coming(s)) :
          slot' = [x \in Slots |->
                      IF slot[x].st = "reading"
                      THEN [slot[x] EXCEPT !.bytes = @ \o Kept(s, SubSeq(Coming(s), 1, n))]
                      ELSE slot[x]]
    /\ UNCHANGED <<entry, mounted, pool>>

\* A `data' event, or a frame: any number of bytes at a time.
Data(s) ==
    /\ slot[s].st = "reading"
    /\ \E n \in 1 .. Len(Coming(s)) :
          slot' = [slot EXCEPT ![s] =
             [slot[s] EXCEPT !.bytes = slot[s].bytes \o Kept(s, SubSeq(Coming(s), 1, n))]]
    /\ UNCHANGED <<entry, mounted, pool>>

\* hyper-express emits no `end' for an empty body, but its buffer() resolves.
\* Mutant: hyper-express on events.
HyperOnEvents(s) == slot[s].ask.body # <<>>
HyperEnds(s) == TRUE

\* The whole body is in, or the client closes the socket.
End(s) ==
    /\ slot[s].st = "reading"
    /\ Coming(s) = <<>>
    /\ entry = "hyper_express" => HyperEnds(s)
    /\ Answered(s, slot[s], "none",
                IF slot[s].ask.route = "ws" THEN Ok(slot[s].bytes)
                ELSE Body(slot[s].ask, slot[s].bytes)[entry])
    /\ UNCHANGED <<entry, mounted, pool>>

\* Mutant: a timer runs on below zero.
TickOn ==
    /\ \E s \in Slots : slot[s].left > 0
    /\ slot' = [s \in Slots |->
                   IF slot[s].st = "waiting"
                   THEN [slot[s] EXCEPT !.left = @ - 1, !.age = @ + 1] ELSE slot[s]]
    /\ UNCHANGED <<entry, mounted, pool>>

\* A millisecond goes by for every timer that runs.
Tick ==
    /\ \E s \in Slots : slot[s].left > 0
    /\ slot' = [s \in Slots |->
                   IF slot[s].left > 0
                   THEN [slot[s] EXCEPT !.left = @ - 1, !.age = @ + 1] ELSE slot[s]]
    /\ UNCHANGED <<entry, mounted, pool>>

\* The value was read out of the path before the timer was armed.
Fire(s) ==
    /\ slot[s].st = "waiting"
    /\ slot[s].left = 0
    /\ Answered(s, slot[s], "none", Ok(<<Delay(slot[s].ask)[entry]>>))
    /\ UNCHANGED <<entry, mounted, pool>>

\* The query of the fortunes has no limit to reach.
Outcomes(r) == {"rows", "fails"} \cup (IF r.route = "fortunes" THEN {} ELSE {"full"})

Query(s) ==
    /\ slot[s].st = "querying"
    /\ \E out \in Outcomes(slot[s].ask) : Answered(s, slot[s], out, Rows(slot[s].ask, out))
    /\ UNCHANGED <<entry, mounted, pool>>

\* The connection is free for its next request.
Sent(s) ==
    /\ slot[s].st = "done"
    /\ slot' = [slot EXCEPT ![s] = Free]
    /\ UNCHANGED <<entry, mounted, pool>>

Goes(s) == Data(s) \/ End(s) \/ Fire(s) \/ Query(s)

Next ==
    \/ \E s \in Slots : \E r \in Requests[s] :
          \/ AskJson(s, r) \/ AskStatic(s, r) \/ AskBody(s, r)
          \/ AskDelay(s, r) \/ AskRows(s, r) \/ AskWs(s, r)
    \/ \E s \in Slots : Goes(s) \/ Sent(s)
    \/ Tick

\* The client sends the body it announced, the pool settles every query, and
\* the event loop gets round to every event.
Fairness == WF_vars(Tick) /\ \A s \in Slots : WF_vars(Goes(s))
Spec == Init /\ [][Next]_vars /\ Fairness
------------------------------------------------------------------------------
\* Every message of the table and the runtime one, each once and in order.
Listing ==
    LET messages == ToSet(Seed) \cup {Runtime}
    IN  CHOOSE s \in [1 .. Len(Seed) + 1 -> messages] :
            ToSet(s) = messages /\ \A i, j \in DOMAIN s : i < j => s[i] < s[j]

\* How many items a request to /json gets.
Wanted(r) == Clamp(IfNumber(r.count, 0), 0, Available(mounted))

(* A request that leaves the multiplier of its items out.  The json-compressed
   page says that it "is never implicitly 1", and no page what is answered. *)
NoMultiplier(r) == r.route = "json" /\ r.m \in {Absent, Junk} /\ Wanted(r) # 0

(* The answer the documentation of the profiles gives for any other request: a
   missing parameter takes its default, a limit is clamped, no database or no
   dataset is an empty list, whatever it would be multiplied by. *)
Documented(r, out) ==
    CASE r.route = "json" -> Ok(Items(Wanted(r), IfNumber(r.m, 0)))
      [] r.route = "baseline11" ->
           Ok(<<IfNumber(r.a, 0) + IfNumber(r.b, 0) + (IF r.post THEN Digits(r.body) ELSE 0)>>)
      [] r.route \in {"echo", "ws"} -> Ok(r.body)
      [] r.route = "delay" -> Ok(<<IfNumber(r.ms, 0)>>)
      [] r.route = "static" -> File("identity")
      [] r.route = "async-db" -> IF out \in Returned THEN Ok(PriceRange(IfNumber, r)) ELSE EmptyItems
      [] r.route = "list" -> IF out \in Returned THEN Page(IfNumber, r) ELSE Fail
      [] r.route = "fortunes" ->
           IF out \in Returned THEN Ok(Listing) ELSE Fail

KeepsZero == {"node", "deno", "bananabread"}
RefusesNoDataset ==
    {"express", "fastify", "ultimate_express", "fulmine", "fulmine_tuned", "bananabread"}

(* Where the code departs from it: every entry takes a missing multiplier for 1,
   a zero is taken for a missing parameter, a dataset or a database that is not
   there is answered with the other of empty list and error, and the `ws' package
   answers text with a binary frame. *)
Departs(r, out) ==
    \/ NoMultiplier(r)
    \/ r.route = "json" /\ IF mounted
          THEN r.m = 0 /\ Wanted(r) # 0 /\ entry \notin {"bun", "bananabread"}
          ELSE entry \in RefusesNoDataset
    \/ r.route = "async-db" /\ out \in Returned /\ 0 \in {r.min, r.max, r.limit}
          /\ entry \notin KeepsZero
    \/ r.route = "list" /\ out \in Returned /\ r.limit = 0 /\ entry \notin KeepsZero
    \/ r.route = "async-db" /\ out = "fails" /\ entry = "bananabread"
    \/ r.route = "list" /\ out = "nopool" /\ entry = "bananabread"
    \/ r.route = "ws" /\ "text" \in ToSet(r.body) /\ entry = "node_websocket"

SameAnswer(s) ==
    LET documented == Documented(slot[s].ask, slot[s].out)
    IN  IF NoMultiplier(slot[s].ask)
        THEN slot[s].ans.body # Items(Wanted(slot[s].ask), 1)
        ELSE <<slot[s].ans.status, slot[s].ans.body>> = <<documented.status, documented.body>>

(* Every variable has the shape the actions give it. *)
TypeOK ==
    /\ entry \in Entries /\ mounted \in BOOLEAN /\ pool \in BOOLEAN
    /\ \A s \in Slots :
          /\ slot[s].st \in {"free", "reading", "waiting", "querying", "done"}
          /\ slot[s].left \in Nat /\ slot[s].age \in Nat
          /\ slot[s].out \in {"none", "nopool", "rows", "full", "fails"}
          /\ slot[s].st # "free" => slot[s].ask \in Requests[s]

(* However the pieces of the bodies, the timers and the queries of overlapping
   requests interleave, every request is answered from its own parameters and
   body, as documented but where the entry's code departs from that, and there it
   is not: which entries depart on which requests is exactly Departs. *)
AnswersAsDocumented ==
    \A s \in Slots : slot[s].st = "done" =>
        (SameAnswer(s) <=> ~Departs(slot[s].ask, slot[s].out))

(* No answer leaves in an encoding the client did not name, no file in one it
   has no variant for; elysia, which reads the weights, does not use one the
   client refuses. *)
EncodingWasOffered ==
    \A s \in Slots : slot[s].st = "done" /\ slot[s].ans.enc # "identity" =>
        /\ slot[s].ask.route = "static" => slot[s].ans.enc \in slot[s].ask.have
        /\ \E i \in DOMAIN slot[s].ask.accept :
            /\ slot[s].ask.accept[i].token = slot[s].ans.enc
            /\ entry = "elysia" => slot[s].ask.accept[i].q > 0

(* No response leaves before its own delay has elapsed, whatever the delays of
   the requests it overlaps. *)
DelaysAreKept ==
    \A s \in Slots : slot[s].st = "done" /\ slot[s].ask.route = "delay" =>
        slot[s].age >= IfNumber(slot[s].ask.ms, 0)

(* Every request is answered: no empty body, split body, failed query or delay
   leaves one hanging. *)
EveryRequestIsAnswered == \A s \in Slots : slot[s].st # "free" ~> slot[s].st = "done"

=============================================================================
