-------------------------- MODULE BoundedStaleReads --------------------------
(***************************************************************************)
(* What an entry's /crud routes promise a client, with no cache in sight:  *)
(* a read answers a version of the row that was current at some moment of  *)
(* the last `window' ticks before the read began, or later.  A write is    *)
(* acknowledged, a request may fail, and nothing else happens.             *)
(* CrudEntries implements this specification.                              *)
(***************************************************************************)
EXTENDS Integers, Sequences

CONSTANTS Requests,   \* request slots of the clients
          Ids,        \* item ids
          None        \* a slot that waits for no answer

VARIABLES clock,      \* ticks of wall-clock time
          since,      \* since[i][v]: the tick at which version v of row i began
          window,     \* how far back an answer may reach; never changes
          asked,      \* asked[r]: what r waits for, or None
          said        \* the answer the last step sent to a client, or None

absVars == <<clock, since, window, asked, said>>

\* Version v of row i was current at tick t or afterwards.  Version 0 is the
\* row not being there yet.
CurrentAfter(i, v, t) ==
    /\ v \in 0 .. Len(since[i])
    /\ v < Len(since[i]) => since[i][v + 1] >= t

Init ==
    /\ clock = 0
    /\ since \in [Ids -> {<<>>, <<0>>}]
    /\ window \in Nat
    /\ asked = [r \in Requests |-> None]
    /\ said = None

Tick == clock' = clock + 1 /\ said' = None /\ UNCHANGED <<since, window, asked>>

Ask(r, i) ==
    /\ asked[r] = None
    /\ asked' = [asked EXCEPT ![r] = [id |-> i, at |-> clock]]
    /\ said' = None
    /\ UNCHANGED <<clock, since, window>>

Write(i) ==
    /\ since' = [since EXCEPT ![i] = Append(@, clock)]
    /\ said' = None
    /\ UNCHANGED <<clock, window, asked>>

AnswerRow(r) ==
    /\ asked[r] # None
    /\ \E v \in 0 .. Len(since[asked[r].id]) :
          /\ CurrentAfter(asked[r].id, v, asked[r].at - window)
          /\ said' = [to |-> r, kind |-> "row", version |-> v]
    /\ asked' = [asked EXCEPT ![r] = None]
    /\ UNCHANGED <<clock, since, window>>

\* An acknowledged write or an error page.
AnswerOther(r) ==
    /\ asked[r] # None
    /\ \E kind \in {"done", "error"} : said' = [to |-> r, kind |-> kind, version |-> 0]
    /\ asked' = [asked EXCEPT ![r] = None]
    /\ UNCHANGED <<clock, since, window>>

\* A process that dies takes with it every request it was serving.  With none
\* it is work behind the answers, which the client does not see.
LoseMany ==
    /\ \E gone \in SUBSET {r \in Requests : asked[r] # None} :
          asked' = [r \in Requests |-> IF r \in gone THEN None ELSE asked[r]]
    /\ said' = None
    /\ UNCHANGED <<clock, since, window>>

Next ==
    \/ Tick
    \/ LoseMany
    \/ \E i \in Ids : Write(i)
    \/ \E r \in Requests :
          \/ \E i \in Ids : Ask(r, i)
          \/ AnswerRow(r)
          \/ AnswerOther(r)

Spec == Init /\ [][Next]_absVars
=============================================================================
