---------------------------- MODULE PgPoolsProofs ----------------------------
(***************************************************************************)
(* That an entry which divides one budget among its workers is never       *)
(* turned away, for every number of workers, every budget and every load.  *)
(***************************************************************************)
EXTENDS PgPools, FiniteSetTheorems, TLAPS

(* A share times the number of workers stays within any limit that is at    *)
(* least the total divided, and one connection each.                        *)
LEMMA ShareFits ==
    ASSUME NEW total \in Nat, NEW limit \in Nat, NEW n \in Nat \ {0},
           total <= limit, n <= limit
    PROVE  Share(total, n) \in Nat /\ n * Share(total, n) <= limit
<1> DEFINE q == total \div n
<1>1. q \in Nat /\ n * q <= total
  OBVIOUS
<1> HIDE DEF q
<1>2. CASE q >= 1
  BY <1>1, <1>2 DEF Share, q
<1>3. CASE ~ q >= 1
  BY <1>1, <1>3 DEF Share, q
<1> QED
  BY <1>2, <1>3

(* The formulas of the dividing entries, all pools full at once.            *)
LEMMA PoolsFit ==
    ASSUME NEW name \in Dividing, NEW n \in Nat \ {0}, n <= MaxConn
    PROVE  Size(name, n) \in Nat /\ n * Size(name, n) <= MaxConn
<1>1. Share(MaxConn, n) \in Nat /\ n * Share(MaxConn, n) <= MaxConn
  BY ShareFits, PoolsAssumption
<1>2. Share(MaxConn - Headroom, n) \in Nat /\ n * Share(MaxConn - Headroom, n) <= MaxConn
  BY ShareFits, PoolsAssumption
<1>3. Share(Capped, n) \in Nat /\ n * Share(Capped, n) <= MaxConn
  BY ShareFits, PoolsAssumption
<1>4. Share(BananaTotal, n) \in Nat /\ n * Share(BananaTotal, n) <= MaxConn
  BY ShareFits, PoolsAssumption
<1> QED
  BY <1>1, <1>2, <1>3, <1>4
  DEF Dividing, Size, Pools, NodePool, BunPool, DenoPool, HonoBunPool, ElysiaPool, FulminePool,
      TunedPool, BananaPool

------------------------------------------------------------------------------
(* What TypeOK lacks to be inductive: a request that opens or uses a        *)
(* connection has one of the pool's places, and those being opened are      *)
(* neither open already nor shared.                                         *)
HasPlace ==
    \A r \in Requests : req[r].st \in {"opening", "running"} => req[r].conn \in Places
Distinct ==
    \A r \in Requests : req[r].st = "opening" =>
        /\ req[r].conn \notin conns
        /\ \A q \in Requests \ {r} : req[q].st = "opening" => req[q].conn # req[r].conn
Inv == TypeOK /\ HasPlace /\ Distinct

LEMMA InitInv == Init => Inv
<1> SUFFICES ASSUME Init PROVE Inv
  OBVIOUS
<1>1. req = [r \in Requests |-> Idle] /\ conns = {} /\ ghosts = {}
  BY DEF Init
<1>2. \A r \in Requests : req[r].st = "idle"
  BY <1>1 DEF Idle
<1>3. TypeOK
  BY <1>1, PoolsAssumption DEF Init, TypeOK, Idle
<1> QED
  BY <1>2, <1>3 DEF Inv, HasPlace, Distinct

(* The places are fixed once the workers are forked.                        *)
LEMMA PlacesStay ==
    ASSUME UNCHANGED <<entry, forked>>
    PROVE  Places' = Places
  BY DEF Places, PoolMax

LEMMA StepInv == Inv /\ [Next]_vars => Inv'
<1> SUFFICES ASSUME Inv, [Next]_vars PROVE Inv'
  OBVIOUS
<1> USE DEF Inv
<1>1. ASSUME NEW r \in Requests, NEW w \in Workers, Ask(r, w) PROVE Inv'
  <2>1. Places' = Places
    BY <1>1, PlacesStay DEF Ask
  <2>2. w \in forked
    BY <1>1 DEF Ask, TypeOK
  <2>3. TypeOK'
    BY <1>1, <2>1, <2>2 DEF Ask, TypeOK
  <2>4. HasPlace' /\ Distinct'
    BY <1>1, <2>1 DEF Ask, TypeOK, HasPlace, Distinct
  <2> QED
    BY <2>3, <2>4
<1>2. ASSUME NEW r \in Requests, CheckOut(r) PROVE Inv'
  <2>1. Places' = Places
    BY <1>2, PlacesStay DEF CheckOut
  <2>2. PICK c \in conns : Moves(r, "running", c)
    BY <1>2 DEF CheckOut, Usable
  <2>3. c \in Places
    BY DEF TypeOK
  <2>4. TypeOK'
    BY <1>2, <2>1, <2>2, <2>3 DEF Moves, CheckOut, TypeOK
  <2>5. HasPlace' /\ Distinct'
    BY <1>2, <2>1, <2>2, <2>3 DEF Moves, CheckOut, TypeOK, HasPlace, Distinct
  <2> QED
    BY <2>4, <2>5
<1>3. ASSUME NEW r \in Requests, Open(r) PROVE Inv'
  <2>1. Places' = Places
    BY <1>3, PlacesStay DEF Open
  <2>2. PICK c \in Places \ (conns \cup Opening) :
            Moves(r, "opening", c)
    BY <1>3 DEF Open, Free
  <2>3. TypeOK'
    BY <1>3, <2>1, <2>2 DEF Moves, Open, TypeOK
  <2>4. \A q \in Requests : req[q].st = "opening" => req[q].conn # c
    BY DEF Opening, InState
  <2>5. HasPlace' /\ Distinct'
    BY <1>3, <2>1, <2>2, <2>4 DEF Moves, Open, TypeOK, HasPlace, Distinct
  <2> QED
    BY <2>3, <2>5
<1>4. ASSUME NEW r \in Requests, Accepted(r) PROVE Inv'
  <2>1. Places' = Places
    BY <1>4, PlacesStay DEF Accepted
  <2>2. req[r].conn \in Places
    BY <1>4 DEF Accepted, HasPlace
  <2>3. TypeOK'
    BY <1>4, <2>1, <2>2 DEF Moves, Accepted, TypeOK
  <2>4. HasPlace' /\ Distinct'
    BY <1>4, <2>1, <2>2 DEF Moves, Accepted, TypeOK, HasPlace, Distinct
  <2> QED
    BY <2>3, <2>4
<1>5. ASSUME NEW r \in Requests, TurnedAway(r) \/ Finish(r) PROVE Inv'
  <2>1. UNCHANGED <<entry, forked, alive, conns, ghosts, deaths>>
    BY <1>5 DEF TurnedAway, Finish
  <2>2. req' = [req EXCEPT ![r] = Idle]
    BY <1>5 DEF TurnedAway, Finish
  <2>3. Places' = Places
    BY <2>1, PlacesStay
  <2>4. TypeOK'
    BY <2>1, <2>2, <2>3 DEF TypeOK, Idle
  <2>5. HasPlace' /\ Distinct'
    BY <2>1, <2>2, <2>3 DEF TypeOK, HasPlace, Distinct, Idle
  <2> QED
    BY <2>4, <2>5
<1>6. ASSUME NEW c \in conns, UNCHANGED <<entry, forked, alive, ghosts, req, deaths>>,
             conns' = conns \ {c}
      PROVE  Inv'
  <2>1. Places' = Places
    BY <1>6, PlacesStay
  <2> QED
    BY <1>6, <2>1 DEF TypeOK, HasPlace, Distinct
<1>7. ASSUME NEW c \in conns, CutInUse(c) PROVE Inv'
  <2>1. Places' = Places
    BY <1>7, PlacesStay DEF CutInUse
  <2>2. \A r \in Requests : req'[r] = req[r] \/ req'[r] = Idle
    BY <1>7 DEF CutInUse
  <2>3. TypeOK'
    BY <1>7, <2>1 DEF CutInUse, TypeOK, Idle
  <2>4. conns' \subseteq conns
    BY <1>7 DEF CutInUse
  <2>5. HasPlace' /\ Distinct'
    BY <2>1, <2>2, <2>4 DEF HasPlace, Distinct, Idle
  <2> QED
    BY <2>3, <2>5
<1>8. ASSUME NEW w, Dies(w) PROVE Inv'
  <2>1. Places' = Places
    BY <1>8, PlacesStay DEF Dies
  <2>2. \A r \in Requests : req'[r] = req[r] \/ req'[r] = Idle
    BY <1>8 DEF Dies
  <2>3. req' \in [Requests -> [st : {"idle", "waiting", "opening", "running"},
                     conn : Places \cup {None}, worker : forked \cup {None}]]
    BY <1>8 DEF Dies, TypeOK, Idle
  <2>4. Used \subseteq Places
    BY DEF Used, InState, HasPlace
  <2>5. deaths \in 0 .. MaxDeaths /\ deaths' \in 0 .. MaxDeaths
    BY <1>8, PoolsAssumption DEF Dies, TypeOK
  <2>6. ghosts' \subseteq Places \X (0 .. MaxDeaths)
    BY <1>8, <2>4, <2>5 DEF Dies, TypeOK
  <2>7. conns' \subseteq conns /\ alive' \subseteq alive
    BY <1>8 DEF Dies
  <2>8. TypeOK'
    BY <1>8, <2>1, <2>3, <2>5, <2>6, <2>7 DEF Dies, TypeOK
  <2>9. HasPlace' /\ Distinct'
    BY <2>1, <2>2, <2>7 DEF HasPlace, Distinct, Idle
  <2> QED
    BY <2>8, <2>9
<1>9. ASSUME NEW g \in ghosts, GhostEnds(g) PROVE Inv'
  <2>1. Places' = Places
    BY <1>9, PlacesStay DEF GhostEnds
  <2> QED
    BY <1>9, <2>1 DEF GhostEnds, TypeOK, HasPlace, Distinct
<1>10. ASSUME NEW w \in Workers, Refork(w) PROVE Inv'
  <2>1. Places' = Places
    BY <1>10, PlacesStay DEF Refork
  <2> QED
    BY <1>10, <2>1 DEF Refork, TypeOK, HasPlace, Distinct
<1>11. CASE UNCHANGED vars
  <2>1. Places' = Places
    BY <1>11, PlacesStay DEF vars
  <2> QED
    BY <1>11, <2>1 DEF vars, TypeOK, HasPlace, Distinct
<1>12. ASSUME NEW c \in conns, IdleOut(c) PROVE Inv'
  BY <1>6, <1>12 DEF IdleOut
<1>13. ASSUME NEW c \in conns, CutIdle(c) PROVE Inv'
  BY <1>6, <1>8, <1>13 DEF CutIdle
<1> QED
  BY <1>1, <1>2, <1>3, <1>4, <1>5, <1>7, <1>9, <1>10, <1>11, <1>12, <1>13 DEF Next, Serve

(* With every place taken an opening request would have none, so the open   *)
(* connections are fewer than the places, and the places fit.               *)
LEMMA InvFits == Inv => NeverTurnedAway
<1> SUFFICES ASSUME Inv, entry \in Dividing, Cardinality(forked) <= MaxConn, ghosts = {},
                    NEW r \in Requests, req[r].st = "opening"
             PROVE  Taken < MaxConn
  BY DEF NeverTurnedAway, InState
<1> DEFINE n == Cardinality(forked)
<1>1. IsFiniteSet(forked) /\ forked # {}
  <2>1. forked \in SUBSET Workers /\ forked # {}
    BY PoolsAssumption DEF Inv, TypeOK
  <2> QED
    BY <2>1, PoolsAssumption, FS_Subset
<1>2. n \in Nat \ {0}
  BY <1>1, FS_CardinalityType, FS_EmptySet
<1>3. PoolMax \in Nat /\ n * PoolMax <= MaxConn
  BY <1>2, PoolsFit DEF PoolMax
<1>4. IsFiniteSet(1 .. PoolMax) /\ Cardinality(1 .. PoolMax) = PoolMax
  BY <1>3, FS_Interval
<1>5. IsFiniteSet(Places) /\ Cardinality(Places) = n * PoolMax
  BY <1>1, <1>4, FS_Product DEF Places
<1>6. conns \subseteq Places /\ conns # Places
  BY DEF Inv, TypeOK, HasPlace, Distinct
<1>7. Cardinality(conns) < Cardinality(Places)
  <2>1. conns \in SUBSET Places
    BY <1>6
  <2>2. /\ IsFiniteSet(conns) /\ Cardinality(conns) <= Cardinality(Places)
        /\ Cardinality(Places) # Cardinality(conns)
    BY <1>5, <1>6, <2>1, FS_Subset
  <2>3. Cardinality(conns) \in Nat /\ Cardinality(Places) \in Nat
    BY <1>5, <2>2, FS_CardinalityType
  <2> QED
    BY <2>2, <2>3
<1>8. Cardinality(ghosts) = 0
  BY FS_EmptySet
<1>9. Cardinality(conns) \in Nat
  BY <1>5, <1>6, FS_Subset, FS_CardinalityType
<1>10. Cardinality(Places) <= MaxConn /\ Cardinality(Places) \in Nat
  BY <1>3, <1>5, FS_CardinalityType
<1> QED
  BY <1>7, <1>8, <1>9, <1>10, PoolsAssumption DEF Taken

(* Every reachable state is well typed, and requests and connections match. *)
THEOREM PoolsTyped == Spec => []TypeOK
<1>1. Spec => []Inv
  BY InitInv, StepInv, PTL DEF Spec
<1>2. Inv => TypeOK
  BY DEF Inv
<1> QED
  BY <1>1, <1>2, PTL

(* No entry that divides one budget is told `too many clients' while its    *)
(* workers live, whatever the number of CPUs, the budget and the load.      *)
THEOREM DividingNeverTurnedAway == Spec => []NeverTurnedAway
<1>1. Spec => []Inv
  BY InitInv, StepInv, PTL DEF Spec
<1> QED
  BY <1>1, InvFits, PTL
=============================================================================
