-------------------------- MODULE MCEntryRequests --------------------------
(* Instance for TLC: a dataset of two items, three fortunes, and two
   connections.  The first asks every route with values below, at and above each
   bound, missing ones and text; the second overlaps it with the requests that
   are suspended. *)
EXTENDS EntryRequests

Offer(gzip, br) == <<[token |-> "gzip", q |-> gzip], [token |-> "br", q |-> br]>>

JsonRequests ==
    [route : {"json"}, count : {Junk, -1, 1, 3}, m : {Absent, Junk, 0, 2},
     accept : {<<>>, Offer(1, 1), Offer(0, 1)}]
StaticRequests ==
    [route : {"static"}, have : SUBSET {"br", "gzip"}, accept : {<<>>, Offer(1, 1), Offer(0, 1)}]
BaselineRequests ==
    [route : {"baseline11"}, a : {Absent, Junk, 13}, b : {42}, post : {TRUE},
     body : {<<2, 0>>}]
      \cup [route : {"baseline11"}, a : {13}, b : {Absent, Junk, 42}, post : {FALSE},
            body : {<<>>}]
EchoRequests(bodies) == [route : {"echo"}, post : {TRUE}, body : bodies]
DelayRequests(delays) == [route : {"delay"}, ms : delays]
AsyncDbRequests ==
    [route : {"async-db"}, min : {Absent, 0, 7}, max : {Absent, 0, 40},
     limit : {Absent, Junk, -1, 0, 20, 51}, accept : {<<>>, Offer(0, 1)}]
ListRequests ==
    [route : {"list"}, page : {Absent, -1, 0, 3}, limit : {Absent, Junk, -1, 0, 20, 51},
     accept : {<<>>, Offer(0, 1)}]
FortunesRequest == [route |-> "fortunes"]
WsRequests(bodies) == [route : {"ws"}, body : bodies]

MCRequests ==
    << JsonRequests \cup StaticRequests \cup BaselineRequests \cup EchoRequests({<<>>, <<1, 2, 3>>})
         \cup DelayRequests({Junk, 0, 1, 3}) \cup AsyncDbRequests \cup ListRequests
         \cup {FortunesRequest} \cup WsRequests({<<"text", "binary">>}),
       EchoRequests({<<4, 5>>}) \cup DelayRequests({2}) \cup {FortunesRequest}
         \cup WsRequests({<<"binary">>, <<"text">>}) >>
MCSlots == {1, 2}
MCSeed == <<5, 2, 9>>
=============================================================================
