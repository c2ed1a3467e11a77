---------------------------- MODULE TlsRotation ----------------------------
(***************************************************************************)
(* A certificate pair replaced under a running server: the validator's two  *)
(* rotation probes, and the workers of fulmine and fulmine-tuned, which     *)
(* build a new listener when the pair on disk has changed.                  *)
(*                                                                         *)
(* The pair is two files moved one after the other, and a worker looks at   *)
(* them in four system calls, so either may fall between the other's.      *)
(***************************************************************************)
EXTENDS Integers

CONSTANTS Workers,     \* the processes that share port 9000
          Window       \* seconds the probe waits for the new pair: 30

\* The timers: every worker has one, and the validator's second is another.
Probing == "validator"

ASSUME RotationAssumption == Window \in Nat /\ Window >= 2 /\ Probing \notin Workers

VARIABLES crt, key,    \* the files: their inode, and the pair they belong to
          pc,          \* where the validator is
          waited,      \* polls of this wait
          due,         \* whose second is over: workers, and the validator
          rotated,     \* the probe has seen another certificate than before
          alive,       \* and been answered after that
          st,          \* st[w]: where worker w is
          live,        \* live[w]: the pair its listener serves
          stamp,       \* stamp[w]: the inodes of key and certificate it knows
          now,         \* now[w]: those it is looking at
          next,        \* next[w]: the certificate a context is being built from
          half,        \* workers that met half a pair
          missed       \* workers that could not bind, or booted across a move

server == <<st, live, stamp, now, next, half, missed>>
validator == <<pc, waited, rotated, alive>>
vars == <<crt, key, due, server, validator>>

Files == [ino : Nat, pair : {0, 1}]
Accepting == {"idle", "statting", "building", "loading", "binding"}
Booting == {"booting", "bootloading", "stamping", "listening"}
\* Locals of a callback that has returned.
NoInodes == <<0, 0>>
NoFile == [ino |-> 0, pair |-> 0]

Init ==
    /\ crt = [ino |-> 0, pair |-> 0] /\ key = [ino |-> 0, pair |-> 0]
    /\ pc = "before" /\ waited = 0
    /\ due = {}
    /\ rotated = FALSE /\ alive = FALSE
    /\ st = [w \in Workers |-> "idle"]
    /\ live = [w \in Workers |-> 0]
    /\ stamp = [w \in Workers |-> <<0, 0>>]
    /\ now = [w \in Workers |-> NoInodes]
    /\ next = [w \in Workers |-> NoFile]
    /\ half = {} /\ missed = {}

------------------------------------------------------------------------------
(* The server.  A tick stats the key and then the certificate. *)
StatKey(w) ==
    /\ st[w] = "idle" /\ w \in due
    /\ due' = due \ {w}
    /\ st' = [st EXCEPT ![w] = "statting"]
    /\ now' = [now EXCEPT ![w] = <<key.ino, 0>>]
    /\ UNCHANGED <<crt, key, live, stamp, next, half, missed, validator>>

\* Mutant: sizes only, which the replacement keeps.
CompareSizes(w) ==
    /\ st[w] = "statting"
    /\ st' = [st EXCEPT ![w] = "idle"]
    /\ now' = [now EXCEPT ![w] = NoInodes]
    /\ UNCHANGED <<crt, key, due, live, stamp, next, half, missed, validator>>

\* The stamp is taken before the listener is built, and whatever becomes of it.
Compare(w) ==
    /\ st[w] = "statting"
    /\ now' = [now EXCEPT ![w] = NoInodes]
    /\ LET pair == <<now[w][1], crt.ino>>
       IN  IF pair = stamp[w]
           THEN st' = [st EXCEPT ![w] = "idle"] /\ UNCHANGED stamp
           ELSE /\ st' = [st EXCEPT ![w] = "building"]
                /\ stamp' = [stamp EXCEPT ![w] = pair]
    /\ UNCHANGED <<crt, key, due, live, next, half, missed, validator>>

LoadCrt(w) ==
    /\ st[w] \in {"building", "booting"}
    /\ st' = [st EXCEPT ![w] = IF @ = "building" THEN "loading" ELSE "bootloading"]
    /\ next' = [next EXCEPT ![w] = crt]
    /\ UNCHANGED <<crt, key, due, live, stamp, now, half, missed, validator>>

\* Of two pairs no context can be made: the exception is nobody's to catch.
LoadKey(w) ==
    /\ st[w] \in {"loading", "bootloading"}
    /\ IF key.pair = next[w].pair
       THEN /\ st' = [st EXCEPT ![w] = IF @ = "loading" THEN "binding" ELSE "stamping"]
            /\ now' = [now EXCEPT ![w] = <<key.ino, next[w].ino>>]
            /\ UNCHANGED <<next, half>>
       ELSE /\ st' = [st EXCEPT ![w] = "down"]
            /\ next' = [next EXCEPT ![w] = NoFile]
            /\ half' = half \cup {w}
            /\ UNCHANGED now
    /\ UNCHANGED <<crt, key, due, live, stamp, missed, validator>>

Returns(w) ==
    now' = [now EXCEPT ![w] = NoInodes] /\ next' = [next EXCEPT ![w] = NoFile]

\* Mutant: the old listener is closed before the new one is bound.
ListensClosing(w) ==
    /\ st[w] \in {"binding", "listening"}
    /\ st' = [st EXCEPT ![w] = IF @ = "binding" THEN "listening" ELSE "idle"]
    /\ live' = [live EXCEPT ![w] = next[w].pair]
    /\ UNCHANGED <<crt, key, due, stamp, now, next, half, missed, validator>>

\* Mutant: the pair is stamped when its listener is up.
ListensStamping(w) ==
    /\ st[w] \in {"binding", "listening"}
    /\ st' = [st EXCEPT ![w] = "idle"]
    /\ live' = [live EXCEPT ![w] = next[w].pair]
    /\ stamp' = [stamp EXCEPT ![w] = <<key.ino, crt.ino>>]
    /\ missed' = IF st[w] = "binding" THEN missed \ {w} ELSE missed
    /\ Returns(w)
    /\ UNCHANGED <<crt, key, due, half, validator>>

\* The old listener is closed once the new one is up.
Listens(w) ==
    /\ st[w] \in {"binding", "listening"}
    /\ st' = [st EXCEPT ![w] = "idle"]
    /\ live' = [live EXCEPT ![w] = next[w].pair]
    /\ missed' = IF st[w] = "binding" THEN missed \ {w} ELSE missed
    /\ Returns(w)
    /\ UNCHANGED <<crt, key, due, stamp, half, validator>>

\* The old listener stays, and the pair that could not be bound is not retried.
ListenFails(w) ==
    /\ st[w] = "binding"
    /\ st' = [st EXCEPT ![w] = "idle"]
    /\ missed' = missed \cup {w}
    /\ Returns(w)
    /\ UNCHANGED <<crt, key, due, live, stamp, half, validator>>

\* The primary forks another; its timer starts with its listener.
Refork(w) ==
    /\ st[w] = "down"
    /\ st' = [st EXCEPT ![w] = "booting"]
    /\ UNCHANGED <<crt, key, due, live, stamp, now, next, half, missed, validator>>

\* The first stamp is taken after the context was built.
Stamps(w) ==
    /\ st[w] = "stamping"
    /\ st' = [st EXCEPT ![w] = "listening"]
    /\ stamp' = [stamp EXCEPT ![w] = <<key.ino, crt.ino>>]
    /\ missed' = IF stamp'[w] = now[w] THEN missed \ {w} ELSE missed \cup {w}
    /\ UNCHANGED <<crt, key, due, live, now, next, half, validator>>

Serves(w) == StatKey(w) \/ Compare(w) \/ LoadCrt(w) \/ LoadKey(w) \/ Listens(w)
                \/ Refork(w) \/ Stamps(w)

------------------------------------------------------------------------------
(* The validator. *)
\* mv: another inode; where the validator goes on to.
MoveIn(file, pair) == file' = [ino |-> file.ino + 1, pair |-> pair]
Goes(from, to) ==
    pc = from /\ pc' = to /\ waited' = 0 /\ UNCHANGED <<due, rotated, alive, server>>

SwapIn ==
    \/ Goes("before", "crt in") /\ MoveIn(crt, 1) /\ UNCHANGED key
    \/ Goes("crt in", "polling") /\ MoveIn(key, 1) /\ UNCHANGED crt
    \/ Goes("second", "second crt in") /\ MoveIn(crt, 1) /\ UNCHANGED key
    \/ Goes("second crt in", "requesting") /\ MoveIn(key, 1) /\ UNCHANGED crt

\* restore_tls_certs: in the same order.
Restore ==
    \/ Goes("restore", "crt back") /\ MoveIn(crt, 0) /\ UNCHANGED key
    \/ Goes("crt back", "backing") /\ MoveIn(key, 0) /\ UNCHANGED crt
    \/ Goes("requesting", "last crt back") /\ MoveIn(crt, 0) /\ UNCHANGED key
    \/ Goes("last crt back", "done") /\ MoveIn(key, 0) /\ UNCHANGED crt

Listeners == {w \in Workers : st[w] \in Accepting}
\* The certificates a handshake may meet; an empty fingerprint when it is refused.
Empty == -1
Fingerprints == IF Listeners = {} THEN {Empty} ELSE {live[w] : w \in Listeners}

\* One poll: it goes on when it sees what it waits for or has waited enough.
Polls(at, seen, then) ==
    /\ pc = at
    /\ waited = 0 \/ Probing \in due
    /\ due' = due \ {Probing}
    /\ IF seen \/ waited = Window
       THEN pc' = then /\ waited' = 0 ELSE waited' = waited + 1 /\ UNCHANGED pc
    /\ UNCHANGED <<crt, key, alive, server>>

PollNew ==
    \E fingerprint \in Fingerprints :
        /\ Polls("polling", fingerprint # 0, "asking")
        /\ rotated' = (rotated \/ fingerprint # 0)

\* Mutant: it is not asked whether the server still answers.
AskNobody ==
    /\ pc = "asking"
    /\ pc' = "restore"
    /\ alive' = TRUE
    /\ UNCHANGED <<crt, key, due, waited, rotated, server>>

\* "Rotating by dying is not rotating."
AskAlive ==
    /\ pc = "asking"
    /\ pc' = "restore"
    /\ alive' = (Listeners # {})
    /\ UNCHANGED <<crt, key, due, waited, rotated, server>>

PollBack ==
    \E fingerprint \in Fingerprints :
        Polls("backing", fingerprint = 0, "second") /\ UNCHANGED rotated

Validates == SwapIn \/ Restore \/ PollNew \/ AskAlive \/ PollBack

\* A second goes by only once what was due has been done: a rotation takes
\* milliseconds, a poll or a boot less than a second.
Second ==
    /\ due = {}
    /\ \A w \in Workers : st[w] = "idle"
    /\ due' = Workers \cup IF pc \in {"polling", "backing"} THEN {Probing} ELSE {}
    /\ UNCHANGED <<crt, key, server, validator>>

Next == (\E w \in Workers : Serves(w) \/ ListenFails(w)) \/ Validates \/ Second

Fairness == WF_vars(Second) /\ WF_vars(Validates) /\ \A w \in Workers : WF_vars(Serves(w))
Spec == Init /\ [][Next]_vars /\ Fairness
------------------------------------------------------------------------------
(* Every variable has the shape the actions give it, and only a timer that runs
   is due. *)
TypeOK ==
    /\ crt \in Files /\ key \in Files
    /\ pc \in {"before", "crt in", "polling", "asking", "restore", "crt back", "backing",
              "second", "second crt in", "requesting", "last crt back", "done"}
    /\ waited \in 0 .. Window
    /\ due \in SUBSET (Workers \cup {Probing})
    /\ rotated \in BOOLEAN /\ alive \in BOOLEAN
    /\ st \in [Workers -> Accepting \cup Booting \cup {"down"}]
    /\ live \in [Workers -> {0, 1}]
    /\ stamp \in [Workers -> Nat \X Nat] /\ now \in [Workers -> Nat \X Nat]
    /\ next \in [Workers -> Files]
    /\ half \in SUBSET Workers /\ missed \in SUBSET Workers

(* "Nothing is refused and no response is cut short": whatever the validator
   moves and whatever fails to bind, every worker has a listener up at every
   moment, unless it once built a context from half of each pair. *)
NothingIsRefused == \A w \in Workers : st[w] \in Accepting \/ w \in half

(* The window is wide enough: when the probe stops waiting it has seen another
   certificate, unless a worker could not bind or booted across a move. *)
RotationIsSeenInTime ==
    pc \in {"asking", "restore"} => rotated \/ missed # {}

(* The probe does not pass a server that rotated by dying: at its verdict some
   listener is up and serves the new pair. *)
PassMeansServed ==
    pc = "restore" /\ rotated /\ alive =>
        \E w \in Listeners : live[w] = 1

(* Once the validator is done, every worker ends up serving the pair on disk,
   unless it could not bind it or booted across its replacement. *)
RotationIsServed == <>[](\A w \in Workers : live[w] = key.pair \/ w \in missed)

(* "instead of building a context out of half of one pair and half of the
   other". *)
NoHalfPairIsBuilt == half = {}
=============================================================================
