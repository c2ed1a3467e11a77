-------------------------- MODULE LiteDriverProofs ---------------------------
(***************************************************************************)
(* What holds of the lite driver for every set of frameworks, loop, table   *)
(* of lite profiles, list to run of them and subscription.                  *)
(***************************************************************************)
EXTENDS LiteDriver, TLAPS

\* The script is at work on a framework; its container is up only inside a run.
InFramework == {"build", "profile", "ready", "measure"}
InRun == {"ready", "measure"}

\* TypeOK in the parts the proofs treat apart.
LoopShape ==
  /\ pc \in {"clean", "loop", "exiting", "exited"} \cup InFramework
  /\ dirs \in Loops /\ k \in 1 .. Len(dirs) + 1 /\ pi \in 1 .. Len(LiteOrder) + 1
  /\ pc \in InFramework => k <= Len(dirs) /\ fw \in Frameworks \ Disabled
  /\ pc \in InRun => pi <= Len(LiteOrder)

RowsShape ==
  /\ meas \in [by : Servers, pg : PgStates] \cup {NoMeas}
  /\ started \subseteq {dirs[i] : i \in DOMAIN dirs}
  /\ results \subseteq Rows /\ site \subseteq Rows /\ code \in {0, 1}

\* From the clean slate on, nothing but the container of the run is up.
CleanInv ==
  /\ pc # "clean" => stack = NoStack /\ ~redis
  /\ pc \notin {"clean"} \cup InRun => bench = NoBench
  /\ pc \in InRun => bench \in {[NoBench EXCEPT ![fw] = s] : s \in BenchStates}
  /\ pc = "exited" => pg = "absent"

OwnInv == meas.by \notin Foreign

\* The database of a framework is untouched until its one database profile.
PgInv ==
  pc \in InFramework \ {"build"} /\ NeedPg(fw)
    /\ (\A i \in 1 .. pi - 1 : LiteOrder[i] # "async-db")
  => pg = "fresh"

\* The frameworks behind the loop have had their turn.
TurnInv ==
  /\ \A i \in DOMAIN dirs : i < k /\ dirs[i] \in Frameworks \ Disabled => dirs[i] \in started
  /\ pc \in InFramework => fw \in started
  /\ pc \in {"exiting", "exited"} /\ code = 0 => k > Len(dirs) /\ results \subseteq site
  /\ ~Save => results = {}

\* A run in progress is of a lite profile that the framework subscribes to.
MeasureInv == pc \in InRun => ToRun(fw, profile)

-----------------------------------------------------------------------------
LEMMA LoopLength == ASSUME dirs \in Loops PROVE Len(dirs) \in Nat /\ DOMAIN dirs = 1 .. Len(dirs)
  BY LoopsAssumption

LEMMA OrderLength == Len(LiteOrder) \in Nat /\ DOMAIN LiteOrder = 1 .. Len(LiteOrder)
  BY LiteOrderAssumption

LEMMA LoopInit == Init => LoopShape
  BY LoopLength, OrderLength DEF Init, LoopShape, InFramework, InRun

LEMMA LoopStep == LoopShape /\ [Next]_vars => LoopShape'
<1>. SUFFICES ASSUME LoopShape, [Next]_vars PROVE LoopShape'
  OBVIOUS
<1>. USE LoopLength, OrderLength DEF LoopShape, InFramework, InRun, fw, loopVars
<1>1. CASE UNCHANGED vars
  BY <1>1 DEF vars
<1>2. CASE CleanSlate
  BY <1>2 DEF CleanSlate, Fail
<1>3. CASE LoadMeta
  BY <1>3 DEF LoadMeta, Fail, Accepted
<1>4. CASE Build
  BY <1>4 DEF Build, Fail
<1>5. CASE SkipProfile
  BY <1>5 DEF SkipProfile
<1>6. CASE Launch
  BY <1>6 DEF Launch
<1>7. CASE ServerReady
  BY <1>7 DEF ServerReady
<1>8. CASE NotReady
  BY <1>8 DEF NotReady
<1>9. CASE Measure
  BY <1>9 DEF Measure
<1>10. CASE EndFramework
  BY <1>10 DEF EndFramework
<1>11. CASE Rebuild
  BY <1>11 DEF Rebuild, Fail
<1>12. CASE CleanupAll
  BY <1>12 DEF CleanupAll
<1>. QED
  BY <1>1, <1>2, <1>3, <1>4, <1>5, <1>6, <1>7, <1>8, <1>9, <1>10, <1>11, <1>12 DEF Next

LEMMA MeasureStep == LoopShape /\ MeasureInv /\ [Next]_vars => MeasureInv'
<1>. SUFFICES ASSUME LoopShape, MeasureInv, [Next]_vars PROVE MeasureInv'
  OBVIOUS
<1>. USE DEF MeasureInv, InRun, loopVars
<1>1. CASE UNCHANGED vars
  BY <1>1 DEF vars, fw, profile, ToRun, Subscribes
<1>2. CASE Launch
  BY <1>2 DEF Launch, fw, profile, ToRun, Subscribes
<1>3. CASE ServerReady
  BY <1>3 DEF ServerReady, fw, profile, ToRun, Subscribes
<1>4. CASE ~Launch /\ ~ServerReady /\ Next
  BY <1>4 DEF Next, CleanSlate, LoadMeta, Build, SkipProfile, NotReady, Measure, EndFramework,
     Rebuild, CleanupAll, Fail
<1>. QED
  BY <1>1, <1>2, <1>3, <1>4

-----------------------------------------------------------------------------
LEMMA HostInit == Init => HostTypeOK
<1>. SUFFICES ASSUME Init PROVE HostTypeOK
  OBVIOUS
<1>1. bench \in [Frameworks -> BenchStates]
  BY DEF Init, LeftOver
<1>2. stack \in [Projects -> SUBSET Services]
  <2>1. NoStack \in [Projects -> SUBSET Services]
    BY DEF NoStack
  <2>2. ASSUME NEW p \in ComposeFiles, NEW up \in SUBSET ServicesOf(p[2])
        PROVE  [NoStack EXCEPT ![p] = up] \in [Projects -> SUBSET Services]
    BY <2>1, <2>2 DEF ServicesOf, Services
  <2>. QED  BY <2>1, <2>2 DEF Init, LeftOver
<1>. QED  BY <1>1, <1>2 DEF Init, LeftOver, HostTypeOK

LEMMA HostStep == LoopShape /\ HostTypeOK /\ [Next]_vars => HostTypeOK'
<1>. SUFFICES ASSUME LoopShape, HostTypeOK, [Next]_vars PROVE HostTypeOK'
  OBVIOUS
<1>. USE DEF HostTypeOK, hostVars, shellVars
<1>1. CASE UNCHANGED vars
  BY <1>1 DEF vars
<1>2. CASE CleanSlate
  BY <1>2 DEF CleanSlate, ClearHost, NoBench, NoStack, BenchStates, PgStates
<1>3. CASE LoadMeta
  BY <1>3 DEF LoadMeta
<1>4. CASE Build
  BY <1>4 DEF Build, PostgresStart, PgStates
<1>5. CASE SkipProfile
  BY <1>5 DEF SkipProfile
<1>6. CASE Launch
  BY <1>6 DEF Launch, FrameworkStart
<1>7. CASE ServerReady
  BY <1>7 DEF ServerReady
<1>8. CASE NotReady
  BY <1>8 DEF NotReady, StoppedBench, BenchStates
<1>9. CASE Measure
  BY <1>9 DEF Measure, StoppedBench, BenchStates, PgStates
<1>10. CASE EndFramework
  BY <1>10 DEF EndFramework, PgStates
<1>11. CASE Rebuild
  BY <1>11 DEF Rebuild
<1>12. CASE CleanupAll
  BY <1>12 DEF CleanupAll, StoppedBench, BenchStates, PgStates
<1>. QED
  BY <1>1, <1>2, <1>3, <1>4, <1>5, <1>6, <1>7, <1>8, <1>9, <1>10, <1>11, <1>12 DEF Next

-----------------------------------------------------------------------------
LEMMA RowsInit == Init => RowsShape
  BY DEF Init, RowsShape

LEMMA RowsStep ==
  LoopShape /\ MeasureInv /\ HostTypeOK /\ RowsShape /\ [Next]_vars => RowsShape'
<1>. SUFFICES ASSUME LoopShape, MeasureInv, HostTypeOK, RowsShape, [Next]_vars PROVE RowsShape'
  OBVIOUS
<1>. USE DEF RowsShape, outVars, liteHist
<1>1. CASE UNCHANGED vars
  BY <1>1 DEF vars, loopVars
<1>2. CASE CleanSlate
  BY <1>2 DEF CleanSlate, Fail, loopVars
<1>3. CASE LoadMeta
  <2>1. fw \in {dirs[i] : i \in DOMAIN dirs} /\ dirs' = dirs
    BY <1>3, LoopLength DEF LoadMeta, fw, LoopShape
  <2>. QED  BY <1>3, <2>1 DEF LoadMeta, Fail
<1>4. CASE Build
  BY <1>4 DEF Build, Fail
<1>5. CASE SkipProfile
  BY <1>5 DEF SkipProfile
<1>6. CASE Launch
  BY <1>6 DEF Launch, loopVars
<1>7. CASE ServerReady
  BY <1>7 DEF ServerReady, loopVars
<1>8. CASE NotReady
  BY <1>8 DEF NotReady
<1>9. CASE Measure
  <2>1. profile \in LiteProfiles /\ fw \in Frameworks
    BY <1>9 DEF Measure, LoopShape, MeasureInv, ToRun, InRun, InFramework
  <2>2. ServedBy \in Servers /\ "nobody" \in Servers
    BY DEF ServedBy, Servers, Foreign
  <2>3. pg \in PgStates
    BY DEF HostTypeOK
  <2>4. meas' \in [by : Servers, pg : PgStates]
    BY <1>9, <2>2, <2>3 DEF Measure
  <2>5. (UsesZrk(profile) => ZrkInstalled) \in BOOLEAN
    OBVIOUS
  <2>6. results' \subseteq Rows
    <3>1. Row \in Rows
      BY <2>1, <2>5, Zenon DEF Row, Rows
    <3>. QED  BY <1>9, <3>1 DEF Measure
  <2>. QED  BY <1>9, <2>4, <2>6 DEF Measure
<1>10. CASE EndFramework
  BY <1>10 DEF EndFramework
<1>11. CASE Rebuild
  BY <1>11 DEF Rebuild, Published, Fail, loopVars
<1>12. CASE CleanupAll
  BY <1>12 DEF CleanupAll, loopVars
<1>. QED
  BY <1>1, <1>2, <1>3, <1>4, <1>5, <1>6, <1>7, <1>8, <1>9, <1>10, <1>11, <1>12 DEF Next

(* The types hold in every state of any loop. *)
LEMMA MeasureInit == Init => MeasureInv
  BY DEF Init, MeasureInv, InRun

LEMMA ShapeInit == Init => LoopShape /\ HostTypeOK /\ RowsShape
  BY LoopInit, HostInit, RowsInit

LEMMA ShapeStep ==
  LoopShape /\ MeasureInv /\ HostTypeOK /\ RowsShape /\ [Next]_vars
    => (LoopShape /\ MeasureInv /\ HostTypeOK /\ RowsShape)'
  BY LoopStep, MeasureStep, HostStep, RowsStep

LEMMA ShapeTypes == LoopShape /\ HostTypeOK /\ RowsShape => TypeOK
  BY DEF LoopShape, RowsShape, TypeOK, InFramework

\* Every variable of the lite driver keeps its type, and only an enabled framework
\* gets as far as a build (load_meta and validate_tests come first).
THEOREM TypeCorrect == Spec => []TypeOK
  BY ShapeInit, MeasureInit, ShapeStep, ShapeTypes, PTL DEF Spec

-----------------------------------------------------------------------------
(* A clean host *)

LEMMA CleanStep == LoopShape /\ CleanInv /\ [Next]_vars => CleanInv'
<1>. SUFFICES ASSUME LoopShape, CleanInv, [Next]_vars PROVE CleanInv'
  OBVIOUS
<1>. USE DEF CleanInv, InRun, hostVars, shellVars, loopVars
<1>0. /\ NoBench \in [Frameworks -> BenchStates]
      /\ pc \in InFramework => fw \in Frameworks
      /\ pc \in {"clean", "loop", "exiting", "exited"} \cup InFramework
  BY DEF NoBench, BenchStates, LoopShape
<1>1. CASE UNCHANGED vars
  BY <1>1 DEF vars, fw
<1>2. CASE CleanSlate
  BY <1>2 DEF CleanSlate, ClearHost, Fail
<1>3. CASE LoadMeta
  BY <1>3 DEF LoadMeta, Fail
<1>4. CASE Build
  BY <1>4 DEF Build, Fail, PostgresStart
<1>5. CASE SkipProfile
  BY <1>5 DEF SkipProfile
<1>6. CASE Launch
  <2>1. PICK s \in BenchStates : bench' = [bench EXCEPT ![fw] = s]
    BY <1>6 DEF Launch, FrameworkStart
  <2>2. bench = NoBench /\ fw' = fw
    BY <1>6 DEF Launch, fw
  <2>. QED  BY <1>6, <2>1, <2>2 DEF Launch, FrameworkStart
<1>7. CASE ServerReady
  BY <1>7 DEF ServerReady, fw
<1>8. CASE NotReady
  <2>1. bench' = NoBench
    BY <1>0, <1>8 DEF NotReady, StoppedBench, NoBench, InFramework
  <2>. QED  BY <1>8, <2>1 DEF NotReady
<1>9. CASE Measure
  <2>1. bench' = NoBench
    BY <1>0, <1>9 DEF Measure, StoppedBench, NoBench, InFramework
  <2>. QED  BY <1>9, <2>1 DEF Measure
<1>10. CASE EndFramework
  BY <1>10 DEF EndFramework
<1>11. CASE Rebuild
  BY <1>11 DEF Rebuild, Fail
<1>12. CASE CleanupAll
  <2>1. bench' = NoBench
    BY <1>0, <1>12 DEF CleanupAll, StoppedBench, NoBench
  <2>. QED  BY <1>12, <2>1 DEF CleanupAll
<1>. QED
  BY <1>1, <1>2, <1>3, <1>4, <1>5, <1>6, <1>7, <1>8, <1>9, <1>10, <1>11, <1>12 DEF Next

LEMMA CleanInit == Init => CleanInv
  BY DEF Init, CleanInv, InRun

\* However the script ends, the EXIT trap of benchmark-lite.sh leaves no container:
\* whatever another driver left went with the clean slate.
THEOREM TrapCleans == Spec => []TrapLeavesHostClean
<1>1. CleanInv => TrapLeavesHostClean
  BY DEF CleanInv, InRun, TrapLeavesHostClean, HostClean, ServersGone
<1>. QED
  BY <1>1, CleanInit, CleanStep, LoopInit, LoopStep, PTL DEF Spec

LEMMA OwnStep == CleanInv /\ OwnInv /\ [Next]_vars => OwnInv'
<1>. SUFFICES ASSUME CleanInv, OwnInv, [Next]_vars PROVE OwnInv'
  OBVIOUS
<1>1. CASE Measure
  <2>1. ~StackHolds("server")
    BY <1>1 DEF Measure, CleanInv, InRun, StackHolds, NoStack
  <2>2. \A f \in Frameworks : bench[f] = "serving" => f = fw
    BY <1>1 DEF Measure, CleanInv, InRun, NoBench
  <2>3. ServedBy \notin Foreign
    BY <2>1, <2>2 DEF ServedBy, Answers, Foreign
  <2>4. PICK by \in {ServedBy, "nobody"} : meas' = [by |-> by, pg |-> pg]
    BY <1>1 DEF Measure
  <2>. QED  BY <2>3, <2>4 DEF OwnInv, Foreign
<1>2. CASE Launch
  BY <1>2 DEF Launch, OwnInv, NoMeas, Foreign
<1>3. CASE UNCHANGED meas
  BY <1>3 DEF OwnInv
<1>. QED
  BY <1>1, <1>2, <1>3 DEF Next, vars, liteHist, CleanSlate, LoadMeta, Build, SkipProfile,
     ServerReady, NotReady, EndFramework, Rebuild, CleanupAll

\* Neither a framework container nor a stack that was left on the host, by whatever
\* script, is ever what the load of run_one reaches: none outlives the clean slate, and
\* a turn removes its own container before the next one's is started.
THEOREM RunsIsolated == Spec => []RunMeasuresItsOwnServer
<1>1. Init => OwnInv
  BY DEF Init, OwnInv, NoMeas, Foreign
<1>2. OwnInv => RunMeasuresItsOwnServer
  BY DEF OwnInv, RunMeasuresItsOwnServer
<1>. QED
  BY <1>1, <1>2, OwnStep, CleanInit, CleanStep, LoopInit, LoopStep, PTL DEF Spec

-----------------------------------------------------------------------------
(* The database *)

LEMMA PgStep == LoopShape /\ PgInv /\ [Next]_vars => PgInv'
<1>. SUFFICES ASSUME LoopShape, PgInv, [Next]_vars,
                     pc' \in InFramework \ {"build"}, NeedPg(fw)',
                     \A i \in 1 .. pi' - 1 : LiteOrder[i] # "async-db"
              PROVE  pg' = "fresh"
  BY DEF PgInv
<1>. USE DEF InFramework, InRun, hostVars, shellVars, loopVars
<1>0. /\ pi \in Nat /\ (pi' = pi + 1 => \A i \in 1 .. pi - 1 : i \in 1 .. pi' - 1)
      /\ pi' = pi + 1 => pi \in 1 .. pi' - 1
      /\ NeedPg(fw)' <=> NeedPg(fw')
  BY OrderLength DEF LoopShape, NeedPg, Subscribes
<1>1. CASE UNCHANGED vars
  BY <1>0, <1>1 DEF vars, fw, PgInv, NeedPg, Subscribes
<1>2. CASE Build
  BY <1>0, <1>2 DEF Build, Fail, PostgresStart, fw
<1>3. CASE SkipProfile
  BY <1>0, <1>3 DEF SkipProfile, PgInv, fw
<1>4. CASE Launch
  BY <1>0, <1>4 DEF Launch, FrameworkStart, PgInv, fw
<1>5. CASE ServerReady
  BY <1>0, <1>5 DEF ServerReady, PgInv, fw
<1>6. CASE NotReady
  BY <1>0, <1>6 DEF NotReady, PgInv, fw
<1>7. CASE Measure
  BY <1>0, <1>7 DEF Measure, PgInv, fw, profile
<1>8. CASE CleanSlate \/ LoadMeta \/ EndFramework \/ Rebuild \/ CleanupAll
  BY <1>8 DEF CleanSlate, LoadMeta, Fail, EndFramework, Rebuild, CleanupAll
<1>. QED
  BY <1>1, <1>2, <1>3, <1>4, <1>5, <1>6, <1>7, <1>8 DEF Next

\* Every framework with an async-db profile measures it on a Postgres that no other
\* framework has touched: run_framework starts and stops one per framework.
THEOREM DbRunsFresh == Spec => DbRunSeesFreshPostgres
<1>1. Init => PgInv /\ MeasureInv
  BY DEF Init, PgInv, MeasureInv, InFramework, InRun
<1>2. LoopShape /\ PgInv /\ MeasureInv /\ [Next]_vars
        => [pc = "measure" /\ profile = "async-db" => pg = "fresh"]_vars
  <2>. SUFFICES ASSUME LoopShape, PgInv, MeasureInv, pc = "measure", profile = "async-db"
                PROVE  pg = "fresh"
    OBVIOUS
  <2>1. pi \in 1 .. Len(LiteOrder) /\ Len(LiteOrder) \in Nat
    BY OrderLength DEF LoopShape, InRun
  <2>2. \A i \in 1 .. pi - 1 : LiteOrder[i] # "async-db"
    BY <2>1, LiteOrderAssumption, OrderLength DEF profile
  <2>3. NeedPg(fw)
    BY DEF MeasureInv, ToRun, InRun, NeedPg
  <2>. QED  BY <2>2, <2>3 DEF PgInv, InFramework
<1>. QED
  BY <1>1, <1>2, PgStep, MeasureStep, LoopInit, LoopStep, PTL DEF Spec, DbRunSeesFreshPostgres

-----------------------------------------------------------------------------
(* Success *)

LEMMA TurnInit == Init => TurnInv
  BY LoopLength DEF Init, TurnInv, InFramework

LEMMA TurnStep == LoopShape /\ TurnInv /\ [Next]_vars => TurnInv'
<1>. SUFFICES ASSUME LoopShape, TurnInv, [Next]_vars PROVE TurnInv'
  OBVIOUS
<1>. USE DEF TurnInv, InFramework, loopVars, liteHist, outVars
<1>0. dirs \in Loops /\ k \in Nat /\ DOMAIN dirs = 1 .. Len(dirs) /\ Len(dirs) \in Nat
  BY LoopLength DEF LoopShape
<1>1. CASE UNCHANGED vars
  BY <1>1 DEF vars, fw
<1>2. CASE CleanSlate
  BY <1>2 DEF CleanSlate, Fail
<1>3. CASE LoadMeta
  <2>1. dirs' = dirs /\ started' = started \cup {dirs[k]} /\ k' \in {k, k + 1}
    BY <1>3 DEF LoadMeta, Fail, fw
  <2>2. \A i \in DOMAIN dirs : i < k' /\ dirs[i] \in Frameworks \ Disabled => dirs[i] \in started'
    <3>. SUFFICES ASSUME NEW i \in DOMAIN dirs, i < k', dirs[i] \in Frameworks \ Disabled
                  PROVE  dirs[i] \in started'
      OBVIOUS
    <3>1. i < k \/ i = k
      BY <1>0, <2>1
    <3>. QED  BY <2>1, <3>1
  <2>. QED  BY <1>3, <2>1, <2>2 DEF LoadMeta, Fail, fw
<1>4. CASE Build
  BY <1>4 DEF Build, Fail, fw
<1>5. CASE SkipProfile
  BY <1>5 DEF SkipProfile, fw
<1>6. CASE Launch
  BY <1>6 DEF Launch, fw
<1>7. CASE ServerReady
  BY <1>7 DEF ServerReady, fw
<1>8. CASE NotReady
  BY <1>8 DEF NotReady, fw
<1>9. CASE Measure
  BY <1>9 DEF Measure, fw
<1>10. CASE EndFramework
  <2>1. dirs' = dirs /\ started' = started /\ k' = k + 1 /\ dirs[k] \in started
    BY <1>10 DEF EndFramework, fw
  <2>2. \A i \in DOMAIN dirs : i < k' /\ dirs[i] \in Frameworks \ Disabled => dirs[i] \in started'
    <3>. SUFFICES ASSUME NEW i \in DOMAIN dirs, i < k', dirs[i] \in Frameworks \ Disabled
                  PROVE  dirs[i] \in started'
      OBVIOUS
    <3>1. i < k \/ i = k
      BY <1>0, <2>1
    <3>. QED  BY <2>1, <3>1
  <2>. QED  BY <1>10, <2>1, <2>2 DEF EndFramework
<1>11. CASE Rebuild
  BY <1>11 DEF Rebuild, Published, Fail
<1>12. CASE CleanupAll
  BY <1>12 DEF CleanupAll
<1>. QED
  BY <1>1, <1>2, <1>3, <1>4, <1>5, <1>6, <1>7, <1>8, <1>9, <1>10, <1>11, <1>12 DEF Next

\* "Running every enabled framework": a script that succeeds has started each of
\* them and shows every row it saved.
THEOREM SuccessPublishes == Spec => []SuccessPublishesEverything
<1>1. LoopShape /\ TurnInv => SuccessPublishesEverything
  <2>. SUFFICES ASSUME LoopShape, TurnInv, pc = "exited", code = 0
                PROVE  /\ results \subseteq site
                       /\ \A i \in DOMAIN dirs : dirs[i] \in Frameworks \ Disabled => dirs[i] \in started
    BY DEF SuccessPublishesEverything
  <2>1. k > Len(dirs) /\ results \subseteq site
    BY DEF TurnInv
  <2>2. dirs \in Loops /\ k \in Nat /\ DOMAIN dirs = 1 .. Len(dirs) /\ Len(dirs) \in Nat
    BY LoopLength DEF LoopShape
  <2>3. \A i \in DOMAIN dirs : i < k
    BY <2>1, <2>2
  <2>. QED  BY <2>1, <2>3 DEF TurnInv
<1>. QED
  BY <1>1, TurnInit, TurnStep, LoopInit, LoopStep, PTL DEF Spec

-----------------------------------------------------------------------------
(* The promise to those who wait for results *)

Met ==
  IF pc \in {"profile", "ready", "measure"}
    THEN {LiteOrder[i] : i \in Behind} \cap Asked[fw] ELSE {}

LEMMA AskedOf ==
  ASSUME NEW f \in Frameworks \ Disabled
  PROVE  /\ \A p \in Asked[f] : ToRun(f, p)
         /\ \A i \in DOMAIN LiteOrder : ToRun(f, LiteOrder[i]) => LiteOrder[i] \in Asked[f]
         /\ Asked[f] \subseteq {LiteOrder[i] : i \in DOMAIN LiteOrder}
  BY DEF Asked, ToRun

\* The run at hand is one of those the turn has attended to.
LEMMA AtHand ==
  ASSUME LoopShape, MeasureInv, pc \in InRun
  PROVE  profile \in Met
<1>1. fw \in Frameworks \ Disabled /\ pi \in 1 .. Len(LiteOrder) /\ ToRun(fw, profile)
  BY OrderLength DEF LoopShape, MeasureInv, InRun, InFramework
<1>2. profile \in Asked[fw]
  BY <1>1, AskedOf, OrderLength DEF profile
<1>3. pi \in Behind
  BY <1>1, OrderLength DEF Behind, InRun
<1>. QED  BY <1>2, <1>3 DEF Met, profile, InRun

\* Moving on from a run leaves what was attended to as it is.
LEMMA Onward ==
  ASSUME LoopShape, pc \in InRun, pc' = "profile", pi' = pi + 1, UNCHANGED <<dirs, k>>
  PROVE  Met' = Met
<1>1. fw' = fw /\ Behind' = Behind
  BY OrderLength DEF fw, Behind, LoopShape, InRun
<1>. QED  BY <1>1 DEF Met, InRun

LEMMA PromiseStep ==
  LoopShape /\ TurnInv /\ MeasureInv /\ site \subseteq results /\ [Next]_vars
    => [Promise!Next]_(Promise!resultVars) /\ (site \subseteq results)'
<1>. SUFFICES ASSUME LoopShape, TurnInv, MeasureInv, site \subseteq results, [Next]_vars
              PROVE  /\ Promise!Next \/ UNCHANGED Promise!resultVars
                     /\ site' \subseteq results'
  OBVIOUS
<1>. USE DEF loopVars, liteHist, outVars, InFramework, InRun
<1>a. ASSUME UNCHANGED <<dirs, k, Met, results, site, code>>, pc # "exited", pc' # "exited"
      PROVE  UNCHANGED Promise!resultVars
  BY <1>a DEF Promise!resultVars, Met
<1>b. /\ DOMAIN dirs = 1 .. Len(dirs) /\ Len(dirs) \in Nat /\ k \in 1 .. Len(dirs) + 1
      /\ DOMAIN Asked = Frameworks
  BY LoopLength DEF LoopShape, Asked
<1>c. pc \in InFramework => /\ Promise!InTurn /\ Promise!Turn = fw
                            /\ fw \in Frameworks \ Disabled /\ k \in DOMAIN dirs
  BY <1>b DEF LoopShape, Promise!InTurn, Promise!Turn, fw
<1>1. CASE UNCHANGED vars
  BY <1>1 DEF vars, Promise!resultVars, Behind, fw
<1>2. CASE CleanSlate
  <2>1. /\ pc = "clean" /\ pc' \in {"loop", "exiting"} /\ UNCHANGED <<dirs, k, results, site>>
        /\ code' = code \/ code' = 1
    BY <1>2 DEF CleanSlate, Fail
  <2>2. Met' = Met
    BY <2>1 DEF Met
  <2>3. CASE code' = code
    BY <1>a, <2>1, <2>2, <2>3
  <2>4. CASE code' = 1
    <3>1. Promise!Fail
      BY <2>1, <2>4 DEF Promise!Fail
    <3>. QED  BY <2>1, <3>1 DEF Promise!Next
  <2>. QED  BY <2>1, <2>3, <2>4
<1>3. CASE LoadMeta
  <2>1. /\ pc = "loop" /\ pc' \in {"loop", "build", "exiting"} /\ k <= Len(dirs)
        /\ UNCHANGED <<dirs, results, site>>
    BY <1>3 DEF LoadMeta, Fail
  <2>2. Met = {} /\ Met' = {}
    BY <2>1 DEF Met
  <2>3. CASE ~Accepted(fw)
    <3>1. k' = k /\ code' = 1
      BY <1>3, <2>3 DEF LoadMeta, Fail
    <3>2. Promise!Fail
      BY <2>1, <3>1 DEF Promise!Fail
    <3>. QED  BY <2>1, <3>2 DEF Promise!Next
  <2>4. CASE Accepted(fw) /\ fw \in Disabled
    <3>1. k' = k + 1 /\ code' = code /\ pc' = "loop"
      BY <1>3, <2>4 DEF LoadMeta
    <3>2. fw \in Frameworks /\ Asked[fw] = {}
      BY <2>4 DEF Accepted, Asked
    <3>3. Promise!InTurn /\ Promise!Turn = fw
      BY <1>b, <2>1, <3>2 DEF Promise!InTurn, Promise!Turn, fw
    <3>4. Promise!Leave
      BY <1>b, <2>1, <3>1, <3>2, <3>3 DEF Promise!Leave
    <3>. QED  BY <2>1, <3>4 DEF Promise!Next
  <2>5. CASE Accepted(fw) /\ fw \notin Disabled
    <3>1. UNCHANGED <<k, code>>
      BY <1>3, <2>5 DEF LoadMeta
    <3>. QED  BY <1>a, <2>1, <2>2, <3>1
  <2>. QED  BY <2>3, <2>4, <2>5
<1>4. CASE Build
  <2>1. /\ pc = "build" /\ pc' \in {"profile", "exiting"} /\ pi' = 1
        /\ UNCHANGED <<dirs, k, results, site>> /\ (code' = code \/ code' = 1)
    BY <1>4 DEF Build, Fail
  <2>2. Behind' = {} \/ pc' = "exiting"
    BY <2>1 DEF Behind
  <2>3. Met = {} /\ Met' = {}
    BY <2>1, <2>2 DEF Met
  <2>4. CASE code' = code
    BY <1>a, <2>1, <2>3, <2>4
  <2>5. CASE code' = 1
    <3>1. Promise!Fail
      BY <2>1, <2>3, <2>5 DEF Promise!Fail, Met
    <3>. QED  BY <2>1, <3>1 DEF Promise!Next
  <2>. QED  BY <2>1, <2>4, <2>5
<1>5. CASE SkipProfile
  <2>1. /\ pc = "profile" /\ pc' = "profile" /\ pi' = pi + 1 /\ pi <= Len(LiteOrder)
        /\ UNCHANGED <<dirs, k, results, site, code>> /\ ~ToRun(fw, profile)
    BY <1>5 DEF SkipProfile
  <2>2. profile \notin Asked[fw] /\ fw' = fw
    BY <1>c, <2>1, AskedOf DEF fw
  <2>3. Behind' = Behind \cup {pi}
    BY <2>1, OrderLength DEF Behind, LoopShape
  <2>4. Met' = Met
    BY <2>1, <2>2, <2>3 DEF Met, profile
  <2>. QED  BY <1>a, <2>1, <2>4
<1>6. CASE Launch
  <2>1. /\ pc = "profile" /\ pc' = "ready" /\ pi <= Len(LiteOrder)
        /\ UNCHANGED <<dirs, k, pi, results, site, code>> /\ ToRun(fw, profile)
    BY <1>6 DEF Launch
  <2>2. pi \in 1 .. Len(LiteOrder) /\ fw' = fw
    BY <2>1, OrderLength DEF LoopShape, fw
  <2>3. profile \in Asked[fw]
    BY <1>c, <2>1, <2>2, AskedOf, OrderLength DEF profile
  <2>4. Behind' = Behind \cup {pi}
    BY <2>1, <2>2, OrderLength DEF Behind
  <2>5. Met' = Met \cup {profile}
    BY <2>1, <2>2, <2>3, <2>4 DEF Met, profile
  <2>6. Promise!Attend
    BY <1>c, <2>1, <2>3, <2>5 DEF Promise!Attend, Met
  <2>. QED  BY <2>1, <2>6 DEF Promise!Next
<1>7. CASE ServerReady
  <2>1. /\ pc = "ready" /\ pc' = "measure"
        /\ UNCHANGED <<dirs, k, pi, results, site, code>>
    BY <1>7 DEF ServerReady
  <2>2. Met' = Met
    BY <2>1 DEF Met, Behind, fw
  <2>. QED  BY <1>a, <2>1, <2>2
<1>8. CASE NotReady
  <2>1. /\ pc = "ready" /\ pc' = "profile" /\ pi' = pi + 1
        /\ UNCHANGED <<dirs, k, results, site, code>>
    BY <1>8 DEF NotReady
  <2>2. Met' = Met
    BY <2>1, Onward
  <2>. QED  BY <1>a, <2>1, <2>2
<1>9. CASE Measure
  <2>1. /\ pc = "measure" /\ pc' = "profile" /\ pi' = pi + 1
        /\ UNCHANGED <<dirs, k, site, code>>
    BY <1>9 DEF Measure
  <2>2. Row.fw = fw /\ Row.profile = profile
    BY DEF Row
  <2>3. Met' = Met /\ profile \in Met
    BY <2>1, Onward, AtHand
  <2>4. CASE results' = results \cup {Row}
    <3>1. Promise!SaveRow
      BY <1>c, <2>1, <2>2, <2>3, <2>4 DEF Promise!SaveRow, Met
    <3>. QED  BY <2>1, <2>4, <3>1 DEF Promise!Next
  <2>5. CASE results' = results
    BY <1>a, <2>1, <2>3, <2>5
  <2>. QED  BY <1>9, <2>4, <2>5 DEF Measure
<1>10. CASE EndFramework
  <2>1. /\ pc = "profile" /\ pc' = "loop" /\ pi > Len(LiteOrder) /\ k' = k + 1
        /\ UNCHANGED <<dirs, results, site, code>>
    BY <1>10 DEF EndFramework
  <2>2. Behind = DOMAIN LiteOrder
    BY <2>1, OrderLength DEF Behind, LoopShape
  <2>3. Met = Asked[fw] /\ Met' = {}
    BY <1>c, <2>1, <2>2, AskedOf DEF Met
  <2>4. Promise!Leave
    BY <1>b, <1>c, <2>1, <2>3 DEF Promise!Leave, Met
  <2>. QED  BY <2>1, <2>4 DEF Promise!Next
<1>11. CASE Rebuild
  <2>1. /\ pc = "loop" /\ pc' = "exiting" /\ UNCHANGED <<dirs, k, results>>
        /\ code' = code \/ code' = 1
    BY <1>11 DEF Rebuild, Fail
  <2>2. site \subseteq site' /\ site' \subseteq results'
    BY <1>11 DEF Rebuild, Published
  <2>3. Met = {} /\ Met' = {}
    BY <2>1 DEF Met
  <2>4. Promise!ShowRows
    BY <2>1, <2>2, <2>3 DEF Promise!ShowRows, Met
  <2>. QED  BY <2>2, <2>4 DEF Promise!Next
<1>12. CASE CleanupAll
  <2>1. /\ pc = "exiting" /\ pc' = "exited" /\ UNCHANGED <<dirs, k, results, site, code>>
    BY <1>12 DEF CleanupAll
  <2>2. code # 0 \/ (k = Len(dirs) + 1 /\ site = results)
    BY <1>b, <2>1 DEF TurnInv
  <2>3. Promise!End
    BY <2>1, <2>2 DEF Promise!End
  <2>. QED  BY <2>1, <2>3 DEF Promise!Next
<1>. QED
  BY <1>1, <1>2, <1>3, <1>4, <1>5, <1>6, <1>7, <1>8, <1>9, <1>10, <1>11, <1>12 DEF Next

\* benchmark-lite.sh implements ResultsPromise for any loop over frameworks.
THEOREM KeepsPromiseTheorem == Spec => KeepsPromise
<1>1. Init => Promise!Init /\ MeasureInv /\ site \subseteq results
  BY DEF Init, Promise!Init, MeasureInv, InRun
<1>. QED
  BY <1>1, LoopInit, LoopStep, TurnInit, TurnStep, MeasureStep, PromiseStep, PTL
  DEF Spec, KeepsPromise, Promise!Spec

=============================================================================
