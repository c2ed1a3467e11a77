------------------------ MODULE TlsRotationProofs ------------------------
(***************************************************************************)
(* What holds of a certificate rotation for every number of workers and     *)
(* every window of the probe: the types, that nothing is refused, that the  *)
(* probe passes no server that does not serve the new pair, and that it     *)
(* waits long enough to see one that does.                                  *)
(***************************************************************************)
EXTENDS TlsRotation, TLAPS

------------------------------------------------------------------------------
(* Types. *)
LEMMA TypeInit == Init => TypeOK
<1>. SUFFICES ASSUME Init PROVE TypeOK
  OBVIOUS
<1>1. waited \in 0 .. Window
  BY RotationAssumption DEF Init
<1>2. crt \in Files /\ key \in Files /\ NoFile \in Files
  BY DEF Init, Files, NoFile
<1>3. rotated \in BOOLEAN /\ alive \in BOOLEAN
  BY DEF Init
<1>4. /\ st \in [Workers -> Accepting \cup Booting \cup {"down"}]
      /\ live \in [Workers -> {0, 1}]
      /\ stamp \in [Workers -> Nat \X Nat] /\ now \in [Workers -> Nat \X Nat]
      /\ next \in [Workers -> Files]
  BY <1>2 DEF Init, Accepting, NoInodes
<1>5. pc = "before" /\ due = {} /\ half = {} /\ missed = {}
  BY DEF Init
<1>. QED  BY <1>1, <1>2, <1>3, <1>4, <1>5 DEF TypeOK

LEMMA TypeLoadKey ==
    ASSUME TypeOK, NEW w \in Workers, LoadKey(w)
    PROVE  TypeOK'
<1>1. /\ now \in [Workers -> Nat \X Nat] /\ next \in [Workers -> Files] /\ key \in Files
      /\ st \in [Workers -> Accepting \cup Booting \cup {"down"}] /\ half \in SUBSET Workers
  BY DEF TypeOK
<1>2. <<key.ino, next[w].ino>> \in Nat \X Nat /\ NoFile \in Files
  BY <1>1 DEF Files, NoFile
<1>3. now' \in [Workers -> Nat \X Nat] /\ next' \in [Workers -> Files] /\ half' \in SUBSET Workers
  <2>1. CASE key.pair = next[w].pair
    <3>1. now' = [now EXCEPT ![w] = <<key.ino, next[w].ino>>] /\ next' = next /\ half' = half
      BY <2>1 DEF LoadKey
    <3>. QED  BY <1>1, <1>2, <3>1
  <2>2. CASE key.pair # next[w].pair
    <3>1. now' = now /\ next' = [next EXCEPT ![w] = NoFile] /\ half' = half \cup {w}
      BY <2>2 DEF LoadKey
    <3>. QED  BY <1>1, <1>2, <3>1
  <2>. QED  BY <2>1, <2>2
<1>4. st' \in [Workers -> Accepting \cup Booting \cup {"down"}]
  <2>1. \E to \in {"binding", "stamping", "down"} : st' = [st EXCEPT ![w] = to]
    BY <1>1 DEF LoadKey
  <2>. QED  BY <1>1, <2>1 DEF Accepting, Booting
<1>5. UNCHANGED <<crt, key, due, live, stamp, missed, validator>>
  BY DEF LoadKey
<1>. QED  BY <1>3, <1>4, <1>5 DEF TypeOK, validator

LEMMA TypeServes ==
    ASSUME TypeOK, NEW w \in Workers, Serves(w) \/ ListenFails(w)
    PROVE  TypeOK'
<1>. USE DEF TypeOK, Files, Accepting, Booting, NoInodes, NoFile, validator
<1>1. CASE StatKey(w)
  BY <1>1 DEF StatKey
<1>2. CASE Compare(w)
  <2>1. <<now[w][1], crt.ino>> \in Nat \X Nat
    OBVIOUS
  <2>2. /\ now' \in [Workers -> Nat \X Nat] /\ stamp' \in [Workers -> Nat \X Nat]
        /\ st' \in [Workers -> Accepting \cup Booting \cup {"down"}]
    BY <1>2, <2>1 DEF Compare
  <2>. QED  BY <1>2, <2>2 DEF Compare
<1>3. CASE LoadCrt(w)
  BY <1>3 DEF LoadCrt
<1>4. CASE LoadKey(w)
  BY <1>4, TypeLoadKey
<1>5. CASE Listens(w)
  BY <1>5 DEF Listens, Returns
<1>6. CASE ListenFails(w)
  BY <1>6 DEF ListenFails, Returns
<1>7. CASE Refork(w)
  BY <1>7 DEF Refork
<1>8. CASE Stamps(w)
  BY <1>8 DEF Stamps
<1>. QED  BY <1>1, <1>2, <1>3, <1>4, <1>5, <1>6, <1>7, <1>8 DEF Serves

LEMMA TypeMoves ==
    ASSUME TypeOK, SwapIn \/ Restore
    PROVE  TypeOK'
<1>1. waited' \in 0 .. Window
  <2>1. waited' = 0
    BY DEF SwapIn, Restore, Goes
  <2>. QED  BY <2>1, RotationAssumption
<1>2. /\ crt' = crt \/ (\E pair \in {0, 1} : crt' = [ino |-> crt.ino + 1, pair |-> pair])
      /\ key' = key \/ (\E pair \in {0, 1} : key' = [ino |-> key.ino + 1, pair |-> pair])
  BY DEF SwapIn, Restore, MoveIn
<1>3. crt' \in Files /\ key' \in Files
  <2>1. crt \in Files /\ key \in Files
    BY DEF TypeOK
  <2>. QED  BY <1>2, <2>1 DEF Files
<1>4. /\ pc' \in {"crt in", "polling", "second crt in", "requesting", "crt back",
                 "backing", "last crt back", "done"}
      /\ UNCHANGED <<due, rotated, alive, server>>
  BY DEF SwapIn, Restore, Goes
<1>. QED  BY <1>1, <1>3, <1>4 DEF TypeOK, server

LEMMA TypePolls ==
    ASSUME TypeOK, PollNew \/ PollBack
    PROVE  TypeOK'
<1>1. PICK at, then \in {"polling", "asking", "backing", "second"}, seen \in BOOLEAN :
          Polls(at, seen, then)
  BY DEF PollNew, PollBack
<1>2. /\ waited' = 0 \/ (waited # Window /\ waited' = waited + 1)
      /\ pc' = then \/ pc' = pc
      /\ due' = due \ {Probing} /\ UNCHANGED <<crt, key, alive, server>>
  BY <1>1 DEF Polls
<1>3. waited' \in 0 .. Window
  <2>1. waited \in Int /\ 0 <= waited /\ waited <= Window /\ Window \in Nat
    <3>1. waited \in 0 .. Window
      BY DEF TypeOK
    <3>. QED  BY <3>1, RotationAssumption
  <2>. QED  BY <1>2, <2>1
<1>4. rotated' \in BOOLEAN
  BY DEF PollNew, PollBack, TypeOK
<1>. QED  BY <1>1, <1>2, <1>3, <1>4 DEF TypeOK, server

LEMMA TypeValidates ==
    ASSUME TypeOK, Validates
    PROVE  TypeOK'
<1>1. CASE AskAlive
  BY <1>1 DEF AskAlive, server, TypeOK
<1>. QED  BY <1>1, TypeMoves, TypePolls DEF Validates

LEMMA TypeNext == TypeOK /\ [Next]_vars => TypeOK'
<1>. SUFFICES ASSUME TypeOK, [Next]_vars PROVE TypeOK'
  OBVIOUS
<1>1. CASE \E w \in Workers : Serves(w) \/ ListenFails(w)
  BY <1>1, TypeServes
<1>2. CASE Validates
  BY <1>2, TypeValidates
<1>3. CASE Second
  BY <1>3 DEF Second, TypeOK, server, validator
<1>4. CASE UNCHANGED vars
  BY <1>4 DEF vars, server, validator, TypeOK
<1>. QED  BY <1>1, <1>2, <1>3, <1>4 DEF Next

(* Every variable keeps the shape the actions of the workers and the validator
   give it. *)
THEOREM TypeCorrect == Spec => []TypeOK
  BY TypeInit, TypeNext, PTL DEF Spec

------------------------------------------------------------------------------
(* A worker without a listener has met half a pair: the only step that takes a
   listener away is the one that counts its worker in half. *)
LEMMA RefusedServes ==
    ASSUME TypeOK, NothingIsRefused, NEW w \in Workers, Serves(w) \/ ListenFails(w)
    PROVE  NothingIsRefused'
<1>. USE DEF TypeOK, NothingIsRefused, Accepting
<1>1. CASE StatKey(w)
  BY <1>1 DEF StatKey
<1>2. CASE Compare(w)
  BY <1>2 DEF Compare
<1>3. CASE LoadCrt(w)
  BY <1>3 DEF LoadCrt
<1>4. CASE LoadKey(w)
  BY <1>4 DEF LoadKey
<1>5. CASE Listens(w)
  BY <1>5 DEF Listens
<1>6. CASE ListenFails(w)
  BY <1>6 DEF ListenFails
<1>7. CASE Refork(w)
  BY <1>7 DEF Refork
<1>8. CASE Stamps(w)
  BY <1>8 DEF Stamps
<1>. QED  BY <1>1, <1>2, <1>3, <1>4, <1>5, <1>6, <1>7, <1>8 DEF Serves

\* The validator's steps and the clock leave the server alone.
LEMMA ValidatorLeavesServer == Validates \/ Second => UNCHANGED server
  BY DEF Validates, SwapIn, Restore, Goes, PollNew, PollBack, Polls, AskAlive, Second

LEMMA RefusedNext == TypeOK /\ NothingIsRefused /\ [Next]_vars => NothingIsRefused'
<1>. SUFFICES ASSUME TypeOK, NothingIsRefused, [Next]_vars PROVE NothingIsRefused'
  OBVIOUS
<1>1. CASE \E w \in Workers : Serves(w) \/ ListenFails(w)
  BY <1>1, RefusedServes
<1>2. CASE Validates \/ Second
  BY <1>2, ValidatorLeavesServer DEF server, NothingIsRefused
<1>3. CASE UNCHANGED vars
  BY <1>3 DEF vars, server, NothingIsRefused
<1>. QED  BY <1>1, <1>2, <1>3 DEF Next

(* Whatever is moved and whatever fails to bind, a worker that never met half a
   pair has a listener up: the old one is closed after the new one is bound, and
   kept when it is not (rotate in the two app.js). *)
THEOREM NothingIsRefusedTheorem == Spec => []NothingIsRefused
<1>1. Init => NothingIsRefused
  BY DEF Init, NothingIsRefused, Accepting
<1>. QED  BY <1>1, RefusedNext, TypeCorrect, PTL DEF Spec

------------------------------------------------------------------------------
(* The probe's verdict.  Until the new pair comes in no worker builds anything;
   from then on until it is taken back, what a worker has loaded is of it. *)
Loaded == {"loading", "bootloading", "binding", "stamping", "listening"}
During == {"crt in", "polling", "asking", "restore"}

Untouched ==
    pc = "before" =>
        /\ crt = NoFile /\ key = NoFile
        /\ \A w \in Workers : /\ st[w] \in {"idle", "statting"}
                              /\ stamp[w] = NoInodes
                              /\ st[w] = "statting" => now[w] = NoInodes

NewPairIsIn ==
    /\ pc \in During => crt.pair = 1
    /\ pc \in During \ {"crt in"} => key.pair = 1
    /\ pc \in During => \A w \in Workers : st[w] \in Loaded => next[w].pair = 1

(* A listener of the new pair stays while the pair does, and where all workers
   have died, whichever comes up again comes up with it. *)
SeenIsServed ==
    /\ pc \in {"before", "crt in"} => ~rotated
    /\ pc \in {"polling", "asking", "restore"} /\ rotated =>
            \/ \E w \in Workers : st[w] \in Accepting /\ live[w] = 1
            \/ \A w \in Workers : st[w] \notin Accepting
    /\ pc = "restore" /\ rotated /\ alive =>
            \E w \in Workers : st[w] \in Accepting /\ live[w] = 1

VInv == TypeOK /\ Untouched /\ NewPairIsIn /\ SeenIsServed

LEMMA VerdictInit == Init => VInv
  BY TypeInit DEF Init, VInv, Untouched, NewPairIsIn, SeenIsServed, During, Loaded,
                  NoFile, NoInodes

LEMMA VerdictUntouched ==
    ASSUME VInv, NEW w \in Workers, Serves(w) \/ ListenFails(w)
    PROVE  Untouched'
<1>. SUFFICES ASSUME pc = "before" PROVE Untouched'
  BY DEF Untouched, Serves, StatKey, Compare, LoadCrt, LoadKey, Listens, ListenFails,
         Refork, Stamps, validator
<1>1. StatKey(w) \/ Compare(w)
  BY DEF VInv, Untouched, Serves, LoadCrt, LoadKey, Listens, ListenFails, Refork, Stamps
<1>2. CASE StatKey(w)
  BY <1>2 DEF VInv, TypeOK, Untouched, StatKey, NoInodes, NoFile
<1>3. CASE Compare(w)
  BY <1>3 DEF VInv, TypeOK, Untouched, Compare, NoInodes, NoFile
<1>. QED  BY <1>1, <1>2, <1>3

LEMMA VerdictNewPair ==
    ASSUME VInv, NEW w \in Workers, Serves(w) \/ ListenFails(w)
    PROVE  NewPairIsIn'
<1>. USE DEF VInv, TypeOK, Files, NewPairIsIn, Loaded, During, validator
<1>1. CASE StatKey(w)
  BY <1>1 DEF StatKey
<1>2. CASE Compare(w)
  BY <1>2 DEF Compare
<1>3. CASE LoadCrt(w)
  BY <1>3 DEF LoadCrt
<1>4. CASE LoadKey(w)
  BY <1>4 DEF LoadKey, NoFile
<1>5. CASE Listens(w)
  BY <1>5 DEF Listens, Returns
<1>6. CASE ListenFails(w)
  BY <1>6 DEF ListenFails, Returns
<1>7. CASE Refork(w)
  BY <1>7 DEF Refork
<1>8. CASE Stamps(w)
  BY <1>8 DEF Stamps
<1>. QED  BY <1>1, <1>2, <1>3, <1>4, <1>5, <1>6, <1>7, <1>8 DEF Serves

LEMMA VerdictSeen ==
    ASSUME VInv, NEW w \in Workers, Serves(w) \/ ListenFails(w)
    PROVE  SeenIsServed'
<1>. USE DEF VInv, TypeOK, NewPairIsIn, SeenIsServed, Accepting, Loaded, During, validator
<1>1. CASE StatKey(w)
  BY <1>1 DEF StatKey
<1>2. CASE Compare(w)
  BY <1>2 DEF Compare
<1>3. CASE LoadCrt(w)
  BY <1>3 DEF LoadCrt
<1>4. CASE LoadKey(w)
  BY <1>4 DEF LoadKey
<1>5. CASE Listens(w)
  BY <1>5 DEF Listens
<1>6. CASE ListenFails(w)
  BY <1>6 DEF ListenFails
<1>7. CASE Refork(w)
  BY <1>7 DEF Refork
<1>8. CASE Stamps(w)
  BY <1>8 DEF Stamps
<1>. QED  BY <1>1, <1>2, <1>3, <1>4, <1>5, <1>6, <1>7, <1>8 DEF Serves

LEMMA VerdictValidates ==
    ASSUME VInv, Validates
    PROVE  Untouched' /\ NewPairIsIn' /\ SeenIsServed'
<1>. USE DEF VInv, TypeOK, Untouched, NewPairIsIn, SeenIsServed, During, Loaded, server
<1>1. CASE SwapIn
  <2>1. CASE Goes("before", "crt in") /\ MoveIn(crt, 1) /\ UNCHANGED key
    BY <2>1 DEF Goes, MoveIn
  <2>2. CASE Goes("crt in", "polling") /\ MoveIn(key, 1) /\ UNCHANGED crt
    BY <2>2 DEF Goes, MoveIn
  <2>3. CASE pc' \in {"second crt in", "requesting"} /\ UNCHANGED server
    BY <2>3
  <2>. QED  BY <1>1, <2>1, <2>2, <2>3 DEF SwapIn, Goes
<1>2. CASE Restore
  <2>1. pc' \in {"crt back", "backing", "last crt back", "done"}
    BY <1>2 DEF Restore, Goes
  <2>. QED  BY <2>1
<1>3. CASE PollNew
  <2>1. PICK fingerprint \in Fingerprints :
            /\ Polls("polling", fingerprint # 0, "asking")
            /\ rotated' = (rotated \/ fingerprint # 0)
    BY <1>3 DEF PollNew
  <2>2. fingerprint # 0 => \/ \E w \in Workers : st[w] \in Accepting /\ live[w] = 1
                           \/ \A w \in Workers : st[w] \notin Accepting
    BY DEF Fingerprints, Listeners, Empty
  <2>. QED  BY <2>1, <2>2 DEF Polls
<1>4. CASE AskAlive
  BY <1>4 DEF AskAlive, Listeners
<1>5. CASE PollBack
  <2>1. PICK fingerprint \in Fingerprints :
            Polls("backing", fingerprint = 0, "second") /\ UNCHANGED rotated
    BY <1>5 DEF PollBack
  <2>. QED  BY <2>1 DEF Polls
<1>. QED  BY <1>1, <1>2, <1>3, <1>4, <1>5 DEF Validates

LEMMA VerdictNext == VInv /\ [Next]_vars => VInv'
<1>. SUFFICES ASSUME VInv, [Next]_vars PROVE Untouched' /\ NewPairIsIn' /\ SeenIsServed'
  BY TypeNext DEF VInv
<1>1. CASE \E w \in Workers : Serves(w) \/ ListenFails(w)
  BY <1>1, VerdictUntouched, VerdictNewPair, VerdictSeen
<1>2. CASE Validates
  BY <1>2, VerdictValidates
<1>3. CASE Second
  BY <1>3 DEF Second, VInv, Untouched, NewPairIsIn, SeenIsServed, server, validator
<1>4. CASE UNCHANGED vars
  BY <1>4 DEF vars, VInv, Untouched, NewPairIsIn, SeenIsServed, server, validator
<1>. QED  BY <1>1, <1>2, <1>3, <1>4 DEF Next

(* "Rotating by dying is not rotating": tls_rotation_probe takes the empty
   fingerprint of a refused handshake for a new certificate, and still passes no
   server without a listener that serves the new pair. *)
THEOREM PassMeansServedTheorem == Spec => []PassMeansServed
<1>1. VInv => PassMeansServed
  BY DEF VInv, SeenIsServed, PassMeansServed, Listeners
<1>. QED  BY <1>1, VerdictInit, VerdictNext, PTL DEF Spec

------------------------------------------------------------------------------
(* The window.  The second poll comes after every worker's timer has run once  *)
(* since the first, the third after each has looked at the files meanwhile and *)
(* built a listener, unless it could not.                                      *)
OnDisk == <<key.ino, crt.ino>>

\* What a worker knows is not newer than the files.
KnownIsOlder == \A w \in Workers : stamp[w][1] <= key.ino /\ now[w][1] <= key.ino

\* A worker that takes the new pair for known serves it, or could not.
KnownIsServed ==
    pc = "polling" => \A w \in Workers :
        st[w] \in {"idle", "statting"} /\ stamp[w] = OnDisk => live[w] = 1 \/ w \in missed

\* A worker that has looked, or is looking, at the files since they were replaced.
Looked(w) ==
    /\ st[w] = "statting" => now[w][1] = key.ino
    /\ st[w] \in {"idle", "building", "loading", "binding", "listening"} => stamp[w] = OnDisk

\* A worker that serves the old pair and takes the new one for known.
Stuck(w) ==
    /\ w \in missed
    /\ st[w] \in {"idle", "statting"} /\ stamp[w] = OnDisk
    /\ st[w] = "statting" => now[w][1] = key.ino

OneTick ==
    pc = "polling" /\ (waited >= 2 \/ (waited = 1 /\ Probing \in due)) =>
        \A w \in Workers : w \in due \/ Looked(w)

TwoTicks ==
    pc = "polling" /\ (waited >= 3 \/ (waited = 2 /\ Probing \in due)) =>
        \A w \in Workers : live[w] = 1 \/ st[w] \notin Accepting \/ Stuck(w)

Verdict == pc \in {"asking", "restore"} => rotated \/ \E w \in Workers : Stuck(w)

WInv == VInv /\ KnownIsOlder /\ KnownIsServed /\ OneTick /\ TwoTicks /\ Verdict

LEMMA WaitedNat == TypeOK => waited \in Nat
<1>. SUFFICES ASSUME TypeOK PROVE waited \in Nat
  OBVIOUS
<1>1. waited \in 0 .. Window
  BY DEF TypeOK
<1>. QED  BY <1>1, RotationAssumption

LEMMA WindowInit == Init => WInv
<1>. SUFFICES ASSUME Init PROVE WInv
  OBVIOUS
<1>1. KnownIsOlder
  <2>1. key.ino = 0 /\ \A w \in Workers : stamp[w] = <<0, 0>> /\ now[w] = <<0, 0>>
    BY DEF Init, NoInodes
  <2>2. \A w \in Workers : stamp[w][1] = 0 /\ now[w][1] = 0
    BY <2>1, <<0, 0>>[1] = 0, Zenon
  <2>. QED  BY <2>1, <2>2, 0 <= 0 DEF KnownIsOlder
<1>. QED
  BY <1>1, VerdictInit DEF Init, WInv, KnownIsServed, OneTick, TwoTicks, Verdict

\* A worker's steps leave the validator and its second alone.
LEMMA ServesLeavesValidator ==
    ASSUME NEW w \in Workers, Serves(w) \/ ListenFails(w)
    PROVE  UNCHANGED validator /\ UNCHANGED <<crt, key>> /\ (Probing \in due' <=> Probing \in due)
<1>1. w # Probing
  BY RotationAssumption
<1>2. due' = due \/ due' = due \ {w}
  BY DEF Serves, StatKey, Compare, LoadCrt, LoadKey, Listens, ListenFails, Refork, Stamps
<1>3. UNCHANGED validator /\ UNCHANGED <<crt, key>>
  BY DEF Serves, StatKey, Compare, LoadCrt, LoadKey, Listens, ListenFails, Refork, Stamps
<1>. QED
  BY <1>1, <1>2, <1>3

LEMMA OlderServes ==
    ASSUME TypeOK, KnownIsOlder, NEW w \in Workers, Serves(w) \/ ListenFails(w)
    PROVE  KnownIsOlder'
<1>1. /\ key' = key /\ key.ino \in Nat
      /\ stamp \in [Workers -> Nat \X Nat] /\ now \in [Workers -> Nat \X Nat]
      /\ \A v \in Workers : stamp[v][1] <= key.ino /\ now[v][1] <= key.ino
  BY ServesLeavesValidator DEF TypeOK, Files, KnownIsOlder
<1>2. \A v \in Workers : v # w => stamp'[v] = stamp[v] /\ now'[v] = now[v]
  BY <1>1 DEF Serves, StatKey, Compare, LoadCrt, LoadKey, Listens, ListenFails, Refork, Stamps,
              Returns
<1>3. stamp'[w] = stamp[w] \/ stamp'[w][1] = now[w][1] \/ stamp'[w][1] = key.ino
  BY <1>1 DEF Serves, StatKey, Compare, LoadCrt, LoadKey, Listens, ListenFails, Refork, Stamps
<1>4. now'[w] = now[w] \/ now'[w][1] = 0 \/ now'[w][1] = key.ino
  BY <1>1 DEF Serves, StatKey, Compare, LoadCrt, LoadKey, Listens, ListenFails, Refork, Stamps,
              Returns, NoInodes
<1>5. stamp'[w][1] <= key.ino /\ now'[w][1] <= key.ino
  BY <1>1, <1>3, <1>4
<1>. QED
  BY <1>1, <1>2, <1>5 DEF KnownIsOlder

LEMMA KnownServes ==
    ASSUME VInv, KnownIsServed, NEW w \in Workers, Serves(w) \/ ListenFails(w)
    PROVE  KnownIsServed'
<1>0. pc' = pc /\ OnDisk' = OnDisk
  BY ServesLeavesValidator DEF validator, OnDisk
<1>. SUFFICES ASSUME pc = "polling", NEW v \in Workers,
                     st'[v] \in {"idle", "statting"}, stamp'[v] = OnDisk
              PROVE  live'[v] = 1 \/ v \in missed'
  BY <1>0 DEF KnownIsServed
<1>. DEFINE Known(u) == st[u] \in {"idle", "statting"} /\ stamp[u] = OnDisk
            Served(u) == live[u] = 1 \/ u \in missed
<1>1. Known(v) => Served(v)
  BY DEF KnownIsServed
<1>2. st[w] \in Loaded => next[w].pair = 1
  BY DEF VInv, NewPairIsIn, During
<1>. USE DEF VInv, TypeOK
<1>3. CASE StatKey(w)
  BY <1>1, <1>3 DEF StatKey
<1>4. CASE Compare(w)
  <2>1. /\ st[w] = "statting" /\ st' = [st EXCEPT ![w] = st'[w]] /\ UNCHANGED <<live, missed>>
        /\ \A u \in Workers : u # w => stamp'[u] = stamp[u]
        /\ stamp'[w] = stamp[w] \/ st'[w] = "building"
    BY <1>4 DEF Compare
  <2>. QED  BY <1>1, <2>1
<1>5. CASE LoadCrt(w)
  BY <1>1, <1>5 DEF LoadCrt
<1>6. CASE LoadKey(w)
  BY <1>1, <1>6 DEF LoadKey
<1>7. CASE Listens(w)
  BY <1>1, <1>2, <1>7 DEF Listens, Loaded
<1>8. CASE ListenFails(w)
  BY <1>1, <1>8 DEF ListenFails
<1>9. CASE Refork(w)
  BY <1>1, <1>9 DEF Refork
<1>10. CASE Stamps(w)
  BY <1>1, <1>10 DEF Stamps
<1>. QED  BY <1>3, <1>4, <1>5, <1>6, <1>7, <1>8, <1>9, <1>10 DEF Serves

\* A worker that has looked keeps what it saw, and one whose timer runs looks.
LEMMA LookedServes ==
    ASSUME TypeOK, NEW w \in Workers, Serves(w) \/ ListenFails(w),
           NEW v \in Workers, v \in due \/ Looked(v)
    PROVE  v \in due' \/ Looked(v)'
<1>. USE DEF TypeOK, Looked, OnDisk
<1>1. CASE StatKey(w)
  BY <1>1 DEF StatKey
<1>2. CASE Compare(w)
  <2>1. CASE v = w
    <3>1. Looked(w) => <<now[w][1], crt.ino>> = OnDisk
      BY <1>2 DEF Compare
    <3>2. /\ st[w] = "statting" /\ UNCHANGED <<crt, key, due>>
          /\ \/ st'[w] = "idle" /\ stamp'[w] = <<now[w][1], crt.ino>>
             \/ st'[w] = "building" /\ stamp'[w] = <<now[w][1], crt.ino>>
      BY <1>2 DEF Compare
    <3>. QED  BY <2>1, <3>1, <3>2
  <2>2. CASE v # w
    <3>1. /\ UNCHANGED <<crt, key, due>> /\ st'[v] = st[v] /\ now'[v] = now[v]
          /\ stamp'[v] = stamp[v]
      BY <1>2, <2>2 DEF Compare
    <3>. QED  BY <3>1
  <2>. QED  BY <2>1, <2>2
<1>3. CASE LoadCrt(w)
  BY <1>3 DEF LoadCrt
<1>4. CASE LoadKey(w)
  BY <1>4 DEF LoadKey
<1>5. CASE Listens(w)
  BY <1>5 DEF Listens, Returns
<1>6. CASE ListenFails(w)
  BY <1>6 DEF ListenFails, Returns
<1>7. CASE Refork(w)
  BY <1>7 DEF Refork
<1>8. CASE Stamps(w)
  BY <1>8 DEF Stamps
<1>. QED  BY <1>1, <1>2, <1>3, <1>4, <1>5, <1>6, <1>7, <1>8 DEF Serves

\* A worker that is stuck stays so while the files do.
LEMMA StuckServes ==
    ASSUME TypeOK, NEW w \in Workers, Serves(w) \/ ListenFails(w),
           NEW v \in Workers, Stuck(v)
    PROVE  Stuck(v)'
<1>. USE DEF TypeOK, Stuck, OnDisk
<1>1. CASE StatKey(w)
  BY <1>1 DEF StatKey
<1>2. CASE Compare(w)
  BY <1>2 DEF Compare
<1>3. CASE LoadCrt(w)
  BY <1>3 DEF LoadCrt
<1>4. CASE LoadKey(w)
  BY <1>4 DEF LoadKey
<1>5. CASE Listens(w)
  BY <1>5 DEF Listens, Returns
<1>6. CASE ListenFails(w)
  BY <1>6 DEF ListenFails, Returns
<1>7. CASE Refork(w)
  BY <1>7 DEF Refork
<1>8. CASE Stamps(w)
  BY <1>8 DEF Stamps
<1>. QED  BY <1>1, <1>2, <1>3, <1>4, <1>5, <1>6, <1>7, <1>8 DEF Serves

\* A listener of the new pair stays, and no listener of the old one comes up.
LEMMA NewServes ==
    ASSUME VInv, pc = "polling", NEW w \in Workers, Serves(w) \/ ListenFails(w),
           NEW v \in Workers, live[v] = 1 \/ st[v] \notin Accepting
    PROVE  live'[v] = 1 \/ st'[v] \notin Accepting
<1>. USE DEF VInv, TypeOK, NewPairIsIn, Accepting, Loaded, During
<1>1. CASE StatKey(w)
  BY <1>1 DEF StatKey
<1>2. CASE Compare(w)
  BY <1>2 DEF Compare
<1>3. CASE LoadCrt(w)
  BY <1>3 DEF LoadCrt
<1>4. CASE LoadKey(w)
  BY <1>4 DEF LoadKey
<1>5. CASE Listens(w)
  BY <1>5 DEF Listens
<1>6. CASE ListenFails(w)
  BY <1>6 DEF ListenFails
<1>7. CASE Refork(w)
  BY <1>7 DEF Refork
<1>8. CASE Stamps(w)
  BY <1>8 DEF Stamps
<1>. QED  BY <1>1, <1>2, <1>3, <1>4, <1>5, <1>6, <1>7, <1>8 DEF Serves

LEMMA WindowServes ==
    ASSUME WInv, NEW w \in Workers, Serves(w) \/ ListenFails(w)
    PROVE  KnownIsOlder' /\ KnownIsServed' /\ OneTick' /\ TwoTicks' /\ Verdict'
<1>0. /\ pc' = pc /\ waited' = waited /\ rotated' = rotated
      /\ (Probing \in due' <=> Probing \in due)
  BY ServesLeavesValidator DEF validator
<1>1. KnownIsOlder' /\ KnownIsServed'
  BY OlderServes, KnownServes DEF WInv, VInv
<1>2. OneTick'
  <2>. SUFFICES ASSUME pc = "polling", waited >= 2 \/ (waited = 1 /\ Probing \in due),
                       NEW v \in Workers
                PROVE  v \in due' \/ Looked(v)'
    BY <1>0 DEF OneTick
  <2>1. v \in due \/ Looked(v)
    BY DEF WInv, OneTick
  <2>. QED  BY <2>1, LookedServes DEF WInv, VInv
<1>3. TwoTicks'
  <2>. SUFFICES ASSUME pc = "polling", waited >= 3 \/ (waited = 2 /\ Probing \in due),
                       NEW v \in Workers
                PROVE  live'[v] = 1 \/ st'[v] \notin Accepting \/ Stuck(v)'
    BY <1>0 DEF TwoTicks
  <2>1. live[v] = 1 \/ st[v] \notin Accepting \/ Stuck(v)
    BY DEF WInv, TwoTicks
  <2>2. CASE Stuck(v)
    BY <2>2, StuckServes DEF WInv, VInv
  <2>3. CASE live[v] = 1 \/ st[v] \notin Accepting
    BY <2>3, NewServes DEF WInv
  <2>. QED  BY <2>1, <2>2, <2>3
<1>4. Verdict'
  <2>. SUFFICES ASSUME pc \in {"asking", "restore"}, ~rotated
                PROVE  \E v \in Workers : Stuck(v)'
    BY <1>0 DEF Verdict
  <2>1. PICK v \in Workers : Stuck(v)
    BY DEF WInv, Verdict
  <2>2. Stuck(v)'
    BY <2>1, StuckServes DEF WInv, VInv
  <2>. QED  BY <2>2
<1>. QED  BY <1>1, <1>2, <1>3, <1>4

LEMMA WindowMoves ==
    ASSUME WInv, SwapIn \/ Restore
    PROVE  KnownIsOlder' /\ KnownIsServed' /\ OneTick' /\ TwoTicks' /\ Verdict'
<1>1. /\ waited' = 0 /\ UNCHANGED server
      /\ pc' \in {"crt in", "polling", "second crt in", "requesting", "crt back",
                  "backing", "last crt back", "done"}
      /\ pc' = "polling" => key' # key
      /\ key' = key \/ \E pair \in {0, 1} : key' = [ino |-> key.ino + 1, pair |-> pair]
  <2>1. key' # [ino |-> key.ino + 1, pair |-> 1] \/ key' # key
    <3>1. key.ino \in Nat
      BY DEF WInv, VInv, TypeOK, Files
    <3>2. key.ino + 1 # key.ino
      BY <3>1
    <3>. QED  BY <3>2
  <2>. QED  BY <2>1 DEF SwapIn, Restore, Goes, MoveIn
<1>2. key' = key \/ key'.ino = key.ino + 1
  <2>1. ASSUME NEW pair, key' = [ino |-> key.ino + 1, pair |-> pair]
        PROVE  key'.ino = key.ino + 1
    BY <2>1
  <2>. QED  BY <1>1, <2>1, Zenon
<1>3. /\ key.ino \in Nat /\ stamp \in [Workers -> Nat \X Nat] /\ now \in [Workers -> Nat \X Nat]
      /\ \A w \in Workers : stamp[w][1] <= key.ino /\ now[w][1] <= key.ino
  BY DEF WInv, VInv, TypeOK, Files, KnownIsOlder
<1>4. KnownIsOlder'
  <2>1. key'.ino \in Nat /\ key.ino <= key'.ino
    BY <1>2, <1>3
  <2>2. UNCHANGED server
    BY <1>1
  <2>3. stamp' = stamp /\ now' = now
    BY <2>2 DEF server
  <2>. QED  BY <1>3, <2>1, <2>3 DEF KnownIsOlder
<1>5. KnownIsServed'
  <2>. SUFFICES ASSUME pc' = "polling", NEW w \in Workers PROVE stamp'[w] # OnDisk'
    BY DEF KnownIsServed
  <2>1. stamp'[w][1] < key'.ino
    BY <1>1, <1>2, <1>3 DEF server
  <2>2. key'.ino \in Nat
    BY <1>1, <1>2, <1>3
  <2>. QED  BY <1>1, <1>3, <2>1, <2>2 DEF OnDisk, server
<1>6. OneTick' /\ TwoTicks'
  <2>1. waited' = 0
    BY DEF SwapIn, Restore, Goes
  <2>2. ~(0 >= 2) /\ 0 # 1 /\ ~(0 >= 3) /\ 0 # 2
    OBVIOUS
  <2>. QED  BY <2>1, <2>2, Zenon DEF OneTick, TwoTicks
<1>7. Verdict'
  BY <1>1 DEF Verdict
<1>. QED  BY <1>4, <1>5, <1>6, <1>7

LEMMA WindowPollNew ==
    ASSUME WInv, PollNew
    PROVE  KnownIsOlder' /\ KnownIsServed' /\ OneTick' /\ TwoTicks' /\ Verdict'
<1>1. PICK fingerprint \in Fingerprints :
          /\ Polls("polling", fingerprint # 0, "asking")
          /\ rotated' = (rotated \/ fingerprint # 0)
  BY DEF PollNew
<1>2. /\ pc = "polling" /\ (waited = 0 \/ Probing \in due)
      /\ due' = due \ {Probing} /\ UNCHANGED <<crt, key, alive, server>>
      /\ IF fingerprint # 0 \/ waited = Window
         THEN pc' = "asking" /\ waited' = 0 ELSE waited' = waited + 1 /\ pc' = pc
  BY <1>1 DEF Polls
<1>3. waited \in Nat /\ Window \in Nat /\ Window >= 2
  BY WaitedNat, RotationAssumption DEF WInv, VInv
<1>4. \A w \in Workers : w \in due' <=> w \in due
  BY <1>2, RotationAssumption
<1>5. /\ \A w \in Workers : Looked(w)' <=> Looked(w)
      /\ \A w \in Workers : Stuck(w)' <=> Stuck(w)
  BY <1>2 DEF Looked, Stuck, OnDisk, server
<1>6. KnownIsOlder' /\ KnownIsServed'
  BY <1>2 DEF WInv, KnownIsOlder, KnownIsServed, OnDisk, server
<1>7. OneTick'
  <2>. SUFFICES ASSUME pc' = "polling", waited' >= 2 \/ (waited' = 1 /\ Probing \in due'),
                       NEW w \in Workers
                PROVE  w \in due' \/ Looked(w)'
    BY DEF OneTick
  <2>1. waited >= 1 /\ Probing \in due
    BY <1>2, <1>3
  <2>2. waited >= 2 \/ waited = 1
    BY <1>3, <2>1
  <2>. QED  BY <1>2, <1>4, <1>5, <2>1, <2>2 DEF WInv, OneTick
<1>8. TwoTicks'
  <2>. SUFFICES ASSUME pc' = "polling", waited' >= 3 \/ (waited' = 2 /\ Probing \in due'),
                       NEW w \in Workers
                PROVE  live'[w] = 1 \/ st'[w] \notin Accepting \/ Stuck(w)'
    BY DEF TwoTicks
  <2>1. waited >= 2 /\ Probing \in due
    BY <1>2, <1>3
  <2>2. waited >= 3 \/ waited = 2
    BY <1>3, <2>1
  <2>3. live[w] = 1 \/ st[w] \notin Accepting \/ Stuck(w)
    BY <1>2, <2>1, <2>2 DEF WInv, TwoTicks
  <2>. QED  BY <1>2, <1>5, <2>3 DEF server
<1>9. Verdict'
  <2>. SUFFICES ASSUME pc' = "asking", ~rotated' PROVE \E w \in Workers : Stuck(w)'
    BY <1>2 DEF Verdict
  <2>1. fingerprint = 0 /\ ~rotated
    BY <1>1
  <2>2. waited = Window /\ Probing \in due
    <3>1. pc' # pc
      BY <1>2
    <3>. QED  BY <1>2, <1>3, <2>1, <3>1
  <2>3. PICK w \in Workers : st[w] \in Accepting /\ live[w] = 0
    BY <2>1 DEF Fingerprints, Listeners, Empty
  <2>4. waited >= 3 \/ waited = 2
    BY <1>3, <2>2
  <2>5. Stuck(w)
    BY <1>2, <2>3, <2>4, <2>2 DEF WInv, TwoTicks
  <2>. QED  BY <1>5, <2>5
<1>. QED  BY <1>6, <1>7, <1>8, <1>9

LEMMA WindowAsks ==
    ASSUME WInv, AskAlive \/ PollBack
    PROVE  KnownIsOlder' /\ KnownIsServed' /\ OneTick' /\ TwoTicks' /\ Verdict'
<1>1. /\ pc \in {"asking", "backing"} /\ pc' \in {"restore", "backing", "second"}
      /\ UNCHANGED <<crt, key, rotated, server>>
      /\ pc' = "restore" => pc = "asking"
  BY DEF AskAlive, PollBack, Polls
<1>2. \A w \in Workers : Stuck(w)' <=> Stuck(w)
  BY <1>1 DEF Stuck, OnDisk, server
<1>3. Verdict'
  BY <1>1, <1>2 DEF WInv, Verdict
<1>. QED
  BY <1>1, <1>3 DEF WInv, KnownIsOlder, KnownIsServed, OneTick, TwoTicks, server

LEMMA WindowSecond ==
    ASSUME WInv, Second
    PROVE  KnownIsOlder' /\ KnownIsServed' /\ OneTick' /\ TwoTicks' /\ Verdict'
<1>1. /\ due = {} /\ \A w \in Workers : st[w] = "idle" /\ w \in due'
      /\ pc' = pc /\ waited' = waited /\ rotated' = rotated
      /\ UNCHANGED <<crt, key, server>>
  BY DEF Second, validator
<1>2. \A w \in Workers : Stuck(w)' <=> Stuck(w)
  BY <1>1 DEF Stuck, OnDisk, server
<1>3. KnownIsOlder' /\ KnownIsServed' /\ Verdict'
  BY <1>1, <1>2 DEF WInv, KnownIsOlder, KnownIsServed, Verdict, OnDisk, server
<1>4. OneTick'
  BY <1>1 DEF OneTick
<1>5. TwoTicks'
  <2>. SUFFICES ASSUME pc = "polling", waited >= 2, NEW w \in Workers
                PROVE  live[w] = 1 \/ Stuck(w)
    <3>1. waited \in Nat
      BY WaitedNat DEF WInv, VInv
    <3>. QED  BY <1>1, <1>2, <3>1 DEF TwoTicks, server
  <2>1. stamp[w] = OnDisk
    BY <1>1 DEF WInv, OneTick, Looked
  <2>. QED  BY <1>1, <2>1 DEF WInv, KnownIsServed, Stuck
<1>. QED  BY <1>3, <1>4, <1>5

LEMMA WindowNext == WInv /\ [Next]_vars => WInv'
<1>. SUFFICES ASSUME WInv, [Next]_vars
              PROVE  KnownIsOlder' /\ KnownIsServed' /\ OneTick' /\ TwoTicks' /\ Verdict'
  BY VerdictNext DEF WInv
<1>1. CASE \E w \in Workers : Serves(w) \/ ListenFails(w)
  BY <1>1, WindowServes
<1>2. CASE Validates
  BY <1>2, WindowMoves, WindowPollNew, WindowAsks DEF Validates
<1>3. CASE Second
  BY <1>3, WindowSecond
<1>4. CASE UNCHANGED vars
  <2>1. /\ \A w \in Workers : Stuck(w)' <=> Stuck(w)
        /\ \A w \in Workers : Looked(w)' <=> Looked(w)
    BY <1>4 DEF vars, server, Stuck, Looked, OnDisk
  <2>. QED  BY <1>4, <2>1 DEF vars, server, validator, WInv, KnownIsOlder, KnownIsServed, OneTick,
                             TwoTicks, Verdict, OnDisk
<1>. QED  BY <1>1, <1>2, <1>3, <1>4 DEF Next

(* A window of two seconds is enough for any number of workers, whose ticks of a
   second are not in step with the probe's: when it stops waiting it has seen
   another certificate, unless a worker could not bind or booted across a move. *)
THEOREM RotationIsSeenInTimeTheorem == Spec => []RotationIsSeenInTime
<1>1. WInv => RotationIsSeenInTime
  BY DEF WInv, Verdict, RotationIsSeenInTime, Stuck
<1>. QED  BY <1>1, WindowInit, WindowNext, PTL DEF Spec
=============================================================================
