------------------------ MODULE BenchmarkDriverProofs ------------------------
(***************************************************************************)
(* Theorems about BenchmarkDriver, for every set of frameworks, list,      *)
(* profile order, connection counts and subscription that meet its         *)
(* assumptions.                                                            *)
(***************************************************************************)
EXTENDS BenchmarkDriver, TLAPS

\* The script is inside run_one.
InRunOne == {"reset", "launch", "up", "ready", "measure", "save", "teardown"}

\* It is before a run_one, or before the first one.
BetweenRuns == {"setup", "postgres", "loop"}

\* It runs at all.
InScript == InRunOne \cup BetweenRuns \cup {"exiting", "exited"}

\* The loop variables point at something: at a framework while the script runs,
\* at a subscribed profile and one of its connection counts inside run_one.
PositionOK ==
  /\ pc \in InScript => k \in 1 .. Len(List)
  /\ pc \in InRunOne => /\ pi \in 1 .. Len(ProfilesToRun)
                        /\ profile \in Defined
                        /\ ci \in 1 .. Len(Conns[profile])
                        /\ Subscribes(fw, profile)
  /\ pc = "up" => <<fw, profile>> \in ComposeFiles
  /\ pc \in BetweenRuns /\ pi \in 1 .. Len(ProfilesToRun) /\ profile \in Defined =>
       ci \in 1 .. Len(Conns[profile])

\* TypeOK in the parts the proofs treat apart.
LoopTypeOK ==
  /\ pc \in PcValues
  /\ k \in 1 .. Len(List) + 1
  /\ pi \in 1 .. Len(ProfilesToRun) + 1
  /\ ci \in Nat \ {0}

RowsTypeOK ==
  /\ meas \in Measures
  /\ lateRedis \in BOOLEAN
  /\ tried \subseteq Defined \X Nat
  /\ code \in {0, 1}
  /\ results \subseteq Rows
  /\ site \subseteq Rows
  /\ failed \subseteq Frameworks

TypeInv ==
  /\ HostTypeOK
  /\ LoopTypeOK
  /\ PositionOK
  /\ pgDirty \in BOOLEAN
  /\ RowsTypeOK

-----------------------------------------------------------------------------
(* Type correctness *)

LEMMA TypeInvParts == TypeInv => TypeOK
  BY DEF TypeInv, TypeOK, LoopTypeOK, RowsTypeOK

\* A framework in the list is a framework directory.
LEMMA FwInFrameworks == ASSUME k \in 1 .. Len(List) PROVE fw \in Frameworks
  BY ListAssumption DEF fw

\* A defined profile has at least one connection count, and they are numbers.
LEMMA ConnsOfDefined ==
  ASSUME NEW p \in Defined
  PROVE /\ Len(Conns[p]) \in Nat /\ Len(Conns[p]) >= 1
        /\ \A i \in 1 .. Len(Conns[p]) : Conns[p][i] \in Nat
<1>1. Conns[p] \in Seq(Nat) /\ Conns[p] # <<>>
  BY ConnsAssumption
<1>. QED  BY <1>1

\* Advance keeps the loop variables in range.
LEMMA AdvanceKeepsPosition ==
  ASSUME TypeInv, pc \in InRunOne, Advance
  PROVE /\ pi' \in 1 .. Len(ProfilesToRun) + 1
        /\ ci' \in Nat \ {0}
        /\ pc' = "loop"
        /\ pi' \in 1 .. Len(ProfilesToRun) /\ ProfilesToRun[pi'] \in Defined =>
             ci' \in 1 .. Len(Conns[ProfilesToRun[pi']])
<1>. USE DEF TypeInv, LoopTypeOK, PositionOK
<1>1. Len(ProfilesToRun) \in Nat
  BY OrderAssumption
<1>2. Len(Conns[profile]) \in Nat
  BY ConnsOfDefined
<1>3. CASE ci < Len(Conns[profile])
  BY <1>1, <1>2, <1>3 DEF Advance, profile
<1>4. CASE ~(ci < Len(Conns[profile]))
  <2>1. pi' = pi + 1 /\ ci' = 1 /\ pc' = "loop"
    BY <1>4 DEF Advance, NextProfile
  <2>. QED  BY <1>1, <2>1, ConnsOfDefined
<1>. QED  BY <1>3, <1>4

LEMMA CleanHostType ==
  /\ NoBench \in [Frameworks -> BenchStates]
  /\ NoStack \in [Projects -> SUBSET Services]
  BY DEF NoBench, NoStack, BenchStates

LEMMA LeftOverType ==
  ASSUME LeftOver
  PROVE  /\ bench \in [Frameworks -> BenchStates]
         /\ stack \in [Projects -> SUBSET Services]
         /\ pg \in PgStates /\ redis \in BOOLEAN
<1>1. NoStack \in [Projects -> SUBSET Services]
  BY CleanHostType
<1>2. ASSUME NEW p \in ComposeFiles, NEW up \in SUBSET ServicesOf(p[2])
      PROVE  [NoStack EXCEPT ![p] = up] \in [Projects -> SUBSET Services]
  BY <1>1, <1>2 DEF ServicesOf, Services
<1>. QED  BY <1>1, <1>2 DEF LeftOver

LEMMA InitTypeInv == Init => TypeInv
<1>. SUFFICES ASSUME Init PROVE TypeInv
  OBVIOUS
<1>1. HostTypeOK
  BY LeftOverType DEF Init, HostTypeOK
<1>2. LoopTypeOK /\ PositionOK
  BY ListAssumption, OrderAssumption
  DEF Init, LoopTypeOK, PositionOK, PcValues, InScript, InRunOne, BetweenRuns
<1>3. pgDirty \in BOOLEAN
  BY DEF Init
<1>4. RowsTypeOK
  BY DEF Init, RowsTypeOK, Measures
<1>. QED
  BY <1>1, <1>2, <1>3, <1>4 DEF TypeInv

\* The host operations keep the types of the host's state.
LEMMA GatewayUpType ==
  ASSUME HostTypeOK, NEW p \in Projects, GatewayUp(p)
  PROVE HostTypeOK'
<1>1. [q \in Projects |-> IF q = p THEN stack[q] ELSE {}] \in [Projects -> SUBSET Services]
  BY DEF HostTypeOK
<1>2. stack' \in [Projects -> SUBSET Services]
  BY <1>1 DEF HostTypeOK, GatewayUp, ClearTheWay, ClearStale
<1>. QED
  BY <1>2 DEF HostTypeOK, GatewayUp, ClearTheWay, YieldsRedis

LEMMA ComposeUpType ==
  ASSUME HostTypeOK, NEW p \in Projects, ComposeUp(p)
  PROVE HostTypeOK'
<1>1. ServicesOf(p[2]) \subseteq Services
  BY DEF ServicesOf, Services
<1>2. stack' \in [Projects -> SUBSET Services]
  BY <1>1 DEF HostTypeOK, ComposeUp
<1>. QED
  BY <1>2 DEF HostTypeOK, ComposeUp

LEMMA ComposeDownType ==
  ASSUME HostTypeOK, ComposeDown
  PROVE /\ stack' \in [Projects -> SUBSET Services]
        /\ active' \in Projects \cup {NoProject}
  BY DEF HostTypeOK, ComposeDown, DownOutcomes

LEMMA GatewayDownType ==
  ASSUME HostTypeOK, GatewayDown, UNCHANGED pg,
         bench' \in [Frameworks -> BenchStates]
  PROVE HostTypeOK'
  BY ComposeDownType DEF HostTypeOK, GatewayDown, RedisAfterRestore, StackHolds

LEMMA PostgresStartType ==
  ASSUME HostTypeOK, NEW ready \in BOOLEAN, PostgresStart(ready)
  PROVE HostTypeOK'
  BY DEF HostTypeOK, PostgresStart, PgStates

LEMMA FrameworkStartType ==
  ASSUME HostTypeOK, NEW f \in Frameworks, FrameworkStart(f), UNCHANGED redis
  PROVE HostTypeOK'
  BY DEF HostTypeOK, FrameworkStart

LEMMA StoppedBenchType ==
  ASSUME HostTypeOK, NEW f \in Frameworks
  PROVE StoppedBench(f) \in [Frameworks -> BenchStates]
  BY DEF HostTypeOK, StoppedBench, BenchStates

LEMMA NextTypeInv == TypeInv /\ [Next]_vars => TypeInv'
<1>. SUFFICES ASSUME TypeInv, [Next]_vars PROVE TypeInv'
  OBVIOUS
<1>. USE DEF TypeInv
<1>a. Len(List) \in Nat /\ Len(ProfilesToRun) \in Nat
  BY ListAssumption, OrderAssumption
<1>b. pc \in InScript => fw \in Frameworks
  BY FwInFrameworks DEF PositionOK
<1>0. CASE UNCHANGED vars
  <2>. USE <1>0 DEF vars, hostVars, shellVars, posVars, histVars, outVars
  <2>1. HostTypeOK'  BY DEF HostTypeOK
  <2>2. LoopTypeOK' /\ PositionOK'  BY DEF LoopTypeOK, PositionOK, fw, profile
  <2>3. pgDirty' \in BOOLEAN  OBVIOUS
  <2>4. RowsTypeOK'  BY DEF RowsTypeOK
  <2>. QED  BY <2>1, <2>2, <2>3, <2>4
<1>1. CASE Invoke
  <2>1. HostTypeOK'
    BY <1>1, CleanHostType DEF Invoke, ClearHost, HostTypeOK, PgStates
  <2>2. k' \in 1 .. Len(List) /\ pi' = 1 /\ ci' = 1 /\ pc' = "setup"
    BY <1>1, <1>a DEF Invoke, LoopTypeOK
  <2>3. LoopTypeOK'
    BY <2>2, <1>a DEF LoopTypeOK, PcValues
  <2>4. profile' \in Defined => ci' \in 1 .. Len(Conns[profile'])
    <3>. SUFFICES ASSUME profile' \in Defined PROVE ci' \in 1 .. Len(Conns[profile'])
      OBVIOUS
    <3>1. Len(Conns[profile']) \in Nat /\ Len(Conns[profile']) >= 1
      BY ConnsOfDefined
    <3>. QED  BY <2>2, <3>1
  <2>5. PositionOK'
    BY <2>2, <2>4 DEF PositionOK, InRunOne
  <2>6. pgDirty' \in BOOLEAN  BY <1>1 DEF Invoke
  <2>7. RowsTypeOK'  BY <1>1 DEF Invoke, outVars, RowsTypeOK, Measures
  <2>. QED  BY <2>1, <2>3, <2>5, <2>6, <2>7
<1>2. CASE Setup
  <2>1. HostTypeOK'  BY <1>2 DEF Setup, hostVars, shellVars, HostTypeOK
  <2>2. LoopTypeOK' /\ PositionOK'
    BY <1>2
    DEF Setup, Fail, posVars, LoopTypeOK, PositionOK, PcValues, InScript, InRunOne, BetweenRuns,
        profile
  <2>3. pgDirty' \in BOOLEAN  BY <1>2 DEF Setup
  <2>4. RowsTypeOK'  BY <1>2 DEF Setup, Fail, histVars, outVars, RowsTypeOK
  <2>. QED  BY <2>1, <2>2, <2>3, <2>4
<1>3. CASE StartPostgres
  <2>1. HostTypeOK'
    BY <1>3, PostgresStartType DEF StartPostgres, HostTypeOK, hostVars, shellVars
  <2>2. UNCHANGED posVars /\ pc = "postgres" /\ pc' \in {"loop", "exiting"} /\ code' \in {0, 1}
    BY <1>3 DEF StartPostgres, Fail, RowsTypeOK
  <2>3. LoopTypeOK' /\ PositionOK'
    BY <2>2 DEF posVars, LoopTypeOK, PositionOK, PcValues, InScript, InRunOne, BetweenRuns, fw, profile
  <2>4. pgDirty' \in BOOLEAN  BY <1>3 DEF StartPostgres
  <2>5. RowsTypeOK'  BY <1>3, <2>2 DEF StartPostgres, histVars, outVars, RowsTypeOK
  <2>. QED  BY <2>1, <2>3, <2>4, <2>5
<1>4. CASE SkipProfile
  <2>1. HostTypeOK'  BY <1>4 DEF SkipProfile, hostVars, shellVars, HostTypeOK
  <2>2. LoopTypeOK' /\ PositionOK'
    BY <1>4, <1>a, ConnsOfDefined
    DEF SkipProfile, NextProfile, LoopTypeOK, PositionOK, InScript, InRunOne, BetweenRuns, profile
  <2>3. pgDirty' \in BOOLEAN  BY <1>4 DEF SkipProfile
  <2>4. RowsTypeOK'  BY <1>4 DEF SkipProfile, histVars, outVars, RowsTypeOK
  <2>. QED  BY <2>1, <2>2, <2>3, <2>4
<1>5. CASE EnterRunOne
  <2>1. HostTypeOK'  BY <1>5 DEF EnterRunOne, hostVars, shellVars, HostTypeOK
  <2>2. pi \in 1 .. Len(ProfilesToRun) /\ ci \in 1 .. Len(Conns[profile])
    BY <1>5, <1>a DEF EnterRunOne, LoopTypeOK, PositionOK, BetweenRuns
  <2>3. LoopTypeOK' /\ PositionOK'
    BY <1>5, <2>2
    DEF EnterRunOne, posVars, LoopTypeOK, PositionOK, PcValues, InScript, InRunOne, BetweenRuns,
        fw, profile
  <2>4. pgDirty' \in BOOLEAN  BY <1>5 DEF EnterRunOne
  <2>5. RowsTypeOK'
    <3>1. Conns[profile][ci] \in Nat
      BY <1>5, <2>2, ConnsOfDefined DEF EnterRunOne
    <3>2. tried' \subseteq Defined \X Nat
      BY <1>5, <3>1 DEF EnterRunOne, RowsTypeOK
    <3>. QED  BY <1>5, <3>2 DEF EnterRunOne, outVars, RowsTypeOK, Measures
  <2>. QED  BY <2>1, <2>3, <2>4, <2>5
<1>6. CASE ResetPostgres
  <2>1. HostTypeOK'
    BY <1>6, PostgresStartType DEF ResetPostgres, HostTypeOK, hostVars, shellVars
  <2>2. UNCHANGED posVars /\ pc = "reset" /\ pc' \in {"launch", "exiting"} /\ code' \in {0, 1}
    BY <1>6 DEF ResetPostgres, Fail, RowsTypeOK
  <2>3. LoopTypeOK' /\ PositionOK'
    BY <2>2 DEF posVars, LoopTypeOK, PositionOK, PcValues, InScript, InRunOne, BetweenRuns, fw, profile
  <2>4. pgDirty' \in BOOLEAN  BY <1>6 DEF ResetPostgres, PgDirtyAfter
  <2>5. RowsTypeOK'  BY <1>6, <2>2 DEF ResetPostgres, histVars, outVars, RowsTypeOK
  <2>. QED  BY <2>1, <2>3, <2>4, <2>5
<1>7. CASE LaunchStack
  <2>1. <<fw, profile>> \in Projects
    BY <1>7, <1>b DEF LaunchStack, isGateway, Projects, InScript, InRunOne
  <2>2. HostTypeOK'
    BY <1>7, <2>1, GatewayUpType DEF LaunchStack
  <2>3. /\ UNCHANGED posVars /\ pc = "launch" /\ pc' \in {"up", "exiting"} /\ code' \in {0, 1}
        /\ pc' = "up" => <<fw, profile>> \in ComposeFiles
    BY <1>7 DEF LaunchStack, Fail, RowsTypeOK
  <2>4. LoopTypeOK' /\ PositionOK'
    BY <2>3 DEF posVars, LoopTypeOK, PositionOK, PcValues, InScript, InRunOne, BetweenRuns, fw, profile
  <2>5. pgDirty' \in BOOLEAN  BY <1>7 DEF LaunchStack
  <2>6. RowsTypeOK'  BY <1>7, <2>3 DEF LaunchStack, outVars, RowsTypeOK
  <2>. QED  BY <2>2, <2>4, <2>5, <2>6
<1>19. CASE StackUp
  <2>1. <<fw, profile>> \in Projects
    BY <1>19, ComposeFilesAssumption DEF StackUp, PositionOK
  <2>2. HostTypeOK'
    BY <1>19, <2>1, ComposeUpType DEF StackUp
  <2>3. UNCHANGED posVars /\ pc = "up" /\ pc' \in {"ready", "exiting"} /\ code' \in {0, 1}
    BY <1>19 DEF StackUp, Fail, RowsTypeOK
  <2>4. LoopTypeOK' /\ PositionOK'
    BY <2>3 DEF posVars, LoopTypeOK, PositionOK, PcValues, InScript, InRunOne, BetweenRuns, fw, profile
  <2>5. pgDirty' \in BOOLEAN  BY <1>19 DEF StackUp
  <2>6. RowsTypeOK'  BY <1>19, <2>3 DEF StackUp, histVars, outVars, RowsTypeOK
  <2>. QED  BY <2>2, <2>4, <2>5, <2>6
<1>8. CASE LaunchFramework
  <2>1. HostTypeOK'
    BY <1>8, <1>b, FrameworkStartType DEF LaunchFramework, FrameworkStart, InScript, InRunOne
  <2>2. LoopTypeOK' /\ PositionOK'
    BY <1>8
    DEF LaunchFramework, posVars, LoopTypeOK, PositionOK, PcValues, InScript, InRunOne, BetweenRuns,
        fw, profile
  <2>3. pgDirty' \in BOOLEAN  BY <1>8 DEF LaunchFramework
  <2>4. RowsTypeOK'  BY <1>8 DEF LaunchFramework, histVars, outVars, RowsTypeOK
  <2>. QED  BY <2>1, <2>2, <2>3, <2>4
<1>9. CASE ServerReady
  <2>1. HostTypeOK'  BY <1>9 DEF ServerReady, hostVars, shellVars, HostTypeOK
  <2>2. LoopTypeOK' /\ PositionOK'
    BY <1>9
    DEF ServerReady, posVars, LoopTypeOK, PositionOK, PcValues, InScript, InRunOne, BetweenRuns,
        fw, profile
  <2>3. pgDirty' \in BOOLEAN  BY <1>9 DEF ServerReady
  <2>4. RowsTypeOK'  BY <1>9 DEF ServerReady, histVars, outVars, RowsTypeOK
  <2>. QED  BY <2>1, <2>2, <2>3, <2>4
<1>10. CASE NotReady
  <2>1. fw \in Frameworks /\ pc \in InRunOne
    BY <1>10, <1>b DEF NotReady, InScript, InRunOne
  <2>2. HostTypeOK'
    <3>1. bench' \in [Frameworks -> BenchStates] /\ UNCHANGED pg
      BY <1>10, <2>1, StoppedBenchType DEF NotReady
    <3>2. CASE isGateway
      BY <1>10, <3>1, <3>2, GatewayDownType DEF NotReady
    <3>3. CASE ~isGateway
      BY <1>10, <3>1, <3>3 DEF NotReady, HostTypeOK
    <3>. QED  BY <3>2, <3>3
  <2>3. LoopTypeOK' /\ PositionOK'
    BY <1>10, <2>1, AdvanceKeepsPosition
    DEF NotReady, LoopTypeOK, PositionOK, PcValues, InScript, InRunOne, BetweenRuns, profile
  <2>4. pgDirty' \in BOOLEAN  BY <1>10 DEF NotReady
  <2>5. RowsTypeOK'  BY <1>10 DEF NotReady, histVars, outVars, RowsTypeOK
  <2>. QED  BY <2>2, <2>3, <2>4, <2>5
<1>11. CASE Measure
  <2>1. HostTypeOK'  BY <1>11 DEF Measure, shellVars, HostTypeOK, PgStates
  <2>2. LoopTypeOK' /\ PositionOK'
    BY <1>11
    DEF Measure, posVars, LoopTypeOK, PositionOK, PcValues, InScript, InRunOne, BetweenRuns,
        fw, profile
  <2>3. pgDirty' \in BOOLEAN  BY <1>11 DEF Measure
  <2>4. meas' \in Measures
    <3>1. ServedBy \in Servers  BY DEF ServedBy, Servers, Foreign
    <3>2. CacheHeldBy \in Caches  BY DEF CacheHeldBy, Caches
    <3>3. PICK by \in {ServedBy, "nobody"} : meas' = [by |-> by, pg |-> pg, cache |-> CacheHeldBy]
      BY <1>11 DEF Measure
    <3>4. by \in Servers  BY <3>1, <3>3 DEF Servers
    <3>. QED  BY <3>2, <3>3, <3>4 DEF Measures, HostTypeOK
  <2>5. RowsTypeOK'  BY <1>11, <2>4 DEF Measure, outVars, RowsTypeOK
  <2>. QED  BY <2>1, <2>2, <2>3, <2>5
<1>12. CASE SaveResult
  <2>1. HostTypeOK'  BY <1>12 DEF SaveResult, hostVars, shellVars, HostTypeOK
  <2>2. LoopTypeOK' /\ PositionOK'
    BY <1>12
    DEF SaveResult, posVars, LoopTypeOK, PositionOK, PcValues, InScript, InRunOne, BetweenRuns,
        fw, profile
  <2>3. pgDirty' \in BOOLEAN  BY <1>12 DEF SaveResult
  <2>4. key \in Rows
    <3>1. fw \in Frameworks /\ profile \in Defined /\ ci \in 1 .. Len(Conns[profile])
      BY <1>12, <1>b DEF SaveResult, PositionOK, InScript, InRunOne
    <3>2. Conns[profile][ci] \in Nat
      BY <3>1, ConnsOfDefined
    <3>. QED  BY <3>1, <3>2 DEF key, Rows
  <2>5. RowsTypeOK'  BY <1>12, <2>4 DEF SaveResult, histVars, RowsTypeOK
  <2>. QED  BY <2>1, <2>2, <2>3, <2>5
<1>13. CASE Teardown
  <2>1. fw \in Frameworks /\ pc \in InRunOne
    BY <1>13, <1>b DEF Teardown, InScript, InRunOne
  <2>2. HostTypeOK'
    <3>1. CASE isGateway
      BY <1>13, <3>1, GatewayDownType DEF Teardown, StopRun, HostTypeOK
    <3>2. CASE ~isGateway
      BY <1>13, <2>1, <3>2, StoppedBenchType DEF Teardown, StopRun, HostTypeOK
    <3>. QED  BY <3>1, <3>2
  <2>3. LoopTypeOK' /\ PositionOK'
    BY <1>13, <2>1, AdvanceKeepsPosition
    DEF Teardown, LoopTypeOK, PositionOK, PcValues, InScript, InRunOne, BetweenRuns, profile
  <2>4. pgDirty' \in BOOLEAN  BY <1>13 DEF Teardown
  <2>5. RowsTypeOK'  BY <1>13 DEF Teardown, histVars, outVars, RowsTypeOK
  <2>. QED  BY <2>2, <2>3, <2>4, <2>5
<1>14. CASE Rebuild
  <2>1. HostTypeOK'  BY <1>14 DEF Rebuild, hostVars, shellVars, HostTypeOK
  <2>2. LoopTypeOK' /\ PositionOK'
    BY <1>14
    DEF Rebuild, Fail, posVars, LoopTypeOK, PositionOK, PcValues, InScript, InRunOne, BetweenRuns
  <2>3. pgDirty' \in BOOLEAN  BY <1>14 DEF Rebuild
  <2>4. RowsTypeOK'  BY <1>14 DEF Rebuild, Fail, Published, histVars, RowsTypeOK
  <2>. QED  BY <2>1, <2>2, <2>3, <2>4
<1>15. CASE CleanupAll
  <2>1. fw \in Frameworks
    BY <1>15, <1>b DEF CleanupAll, InScript
  <2>2. HostTypeOK'
    BY <1>15, <2>1, ComposeDownType, StoppedBenchType DEF CleanupAll, HostTypeOK, PgStates
  <2>3. LoopTypeOK' /\ PositionOK'
    BY <1>15
    DEF CleanupAll, posVars, LoopTypeOK, PositionOK, PcValues, InScript, InRunOne, BetweenRuns
  <2>4. pgDirty' \in BOOLEAN  BY <1>15 DEF CleanupAll
  <2>5. RowsTypeOK'  BY <1>15 DEF CleanupAll, outVars, RowsTypeOK
  <2>. QED  BY <2>2, <2>3, <2>4, <2>5
<1>16. CASE Killed \/ NextFramework
  <2>1. fw \in Frameworks /\ k \in 1 .. Len(List)
    BY <1>16, <1>b DEF Killed, NextFramework, PositionOK, InScript, InRunOne, BetweenRuns
  <2>2. HostTypeOK'  BY <1>16 DEF Killed, NextFramework, hostVars, shellVars, HostTypeOK
  <2>3. LoopTypeOK' /\ PositionOK'
    BY <1>16, <1>a, <2>1
    DEF Killed, NextFramework, LoopTypeOK, PositionOK, PcValues, InScript, InRunOne, BetweenRuns
  <2>4. pgDirty' \in BOOLEAN  BY <1>16 DEF Killed, NextFramework
  <2>5. RowsTypeOK'
    BY <1>16, <2>1 DEF Killed, NextFramework, FailedAfter, histVars, RowsTypeOK
  <2>. QED  BY <2>2, <2>3, <2>4, <2>5
<1>17. CASE Finish
  <2>1. HostTypeOK'  BY <1>17 DEF Finish, hostVars, shellVars, HostTypeOK
  <2>2. LoopTypeOK' /\ PositionOK'
    BY <1>17 DEF Finish, posVars, LoopTypeOK, PositionOK, PcValues, InScript, InRunOne, BetweenRuns
  <2>3. pgDirty' \in BOOLEAN  BY <1>17 DEF Finish
  <2>4. RowsTypeOK'  BY <1>17 DEF Finish, histVars, outVars, RowsTypeOK
  <2>. QED  BY <2>1, <2>2, <2>3, <2>4
<1>18. CASE RedisAppears
  <2>1. HostTypeOK'  BY <1>18 DEF RedisAppears, shellVars, HostTypeOK
  <2>2. LoopTypeOK' /\ PositionOK'
    BY <1>18
    DEF RedisAppears, posVars, LoopTypeOK, PositionOK, PcValues, InScript, InRunOne, BetweenRuns,
        fw, profile
  <2>3. pgDirty' \in BOOLEAN  BY <1>18 DEF RedisAppears
  <2>4. RowsTypeOK'  BY <1>18 DEF RedisAppears, outVars, RowsTypeOK
  <2>. QED  BY <2>1, <2>2, <2>3, <2>4
<1>. QED
  BY <1>0, <1>1, <1>2, <1>3, <1>4, <1>5, <1>6, <1>7, <1>8, <1>9, <1>10, <1>11, <1>12, <1>13, <1>14,
     <1>15, <1>16, <1>17, <1>18, <1>19
  DEF Next, Script, RunOne

LEMMA TypeInvariance == Spec => []TypeInv
<1>1. Init => TypeInv  BY InitTypeInv
<1>2. TypeInv /\ [Next]_vars => TypeInv'  BY NextTypeInv
<1>. QED  BY <1>1, <1>2, PTL DEF Spec

\* Every variable keeps its type, for all frameworks, profiles and options.
THEOREM TypeCorrect == Spec => []TypeOK
  BY TypeInvariance, TypeInvParts, PTL
-----------------------------------------------------------------------------
(* The Postgres sidecar *)

\* A database profile is still to come, the current one included.
DbAhead == \E j \in pi .. Len(ProfilesToRun) : ProfilesToRun[j] \in DbProfiles

\* The sidecar is up for whoever needs it, and untouched until the first database
\* profile has marked it dirty: no compose profile comes before one.
PgUp ==
  pc \in InRunOne \cup {"loop"} /\ NeedPg(fw) =>
    /\ pg \in {"fresh", "used"}
    /\ ~pgDirty /\ DbAhead => pg = "fresh"

\* From its reset on, a database profile has marked the sidecar dirty.
PgMarked ==
  pc \in InRunOne \ {"reset"} /\ profile \in DbProfiles => pgDirty

\* Until its load begins, a database profile has a fresh sidecar.
PgReset ==
  pc \in {"launch", "up", "ready", "measure"} /\ profile \in DbProfiles => pg = "fresh"

PgInv ==
  /\ PgUp /\ PgMarked /\ PgReset
  /\ DbProfileSeesFreshPostgres
  /\ StackHasPostgres

LEMMA InitPgInv == Init => PgInv
  BY DEF Init, PgInv, PgUp, PgMarked, PgReset, DbProfileSeesFreshPostgres, StackHasPostgres, InRunOne

\* Inside run_one the framework subscribes to the profile, so a database or
\* compose profile implies that the sidecar was asked for.
LEMMA RunNeedsPg ==
  ASSUME TypeInv, pc \in InRunOne, profile \in DbProfiles \cup GatewayProfiles
  PROVE NeedPg(fw)
  BY DEF TypeInv, PositionOK, NeedPg

\* No database profile comes after a compose profile.
LEMMA NoDbAfterStack ==
  ASSUME TypeInv, pc \in InRunOne, isGateway
  PROVE ~DbAhead
<1>. SUFFICES ASSUME NEW j \in pi .. Len(ProfilesToRun), ProfilesToRun[j] \in DbProfiles
              PROVE FALSE
  BY DEF DbAhead
<1>1. pi \in 1 .. Len(ProfilesToRun) /\ Len(ProfilesToRun) \in Nat
  BY OrderAssumption DEF TypeInv, PositionOK
<1>2. j # pi
  BY DEF isGateway, profile, GatewayProfiles, DbProfiles
<1>3. pi < j /\ j \in 1 .. Len(ProfilesToRun)
  BY <1>1, <1>2
<1>. QED  BY <1>1, <1>3, OrderAssumption DEF isGateway, profile

\* A step of the loop that leaves the sidecar and its mark alone keeps PgUp.
LEMMA AdvanceKeepsPgUp ==
  ASSUME TypeInv, PgInv, pc \in InRunOne \cup {"loop"}, Advance \/ (NextProfile /\ pc' = "loop"),
         UNCHANGED <<k, pg, pgDirty, meas>>
  PROVE PgInv'
<1>1. pi \in Nat /\ pi' \in Nat /\ pi' >= pi
  BY OrderAssumption DEF TypeInv, LoopTypeOK, Advance, NextProfile
<1>2. Len(ProfilesToRun) \in Nat
  BY OrderAssumption
<1>3. DbAhead' => DbAhead
  BY <1>1, <1>2 DEF DbAhead
<1>4. pc' = "loop"
  BY DEF Advance
<1>5. NeedPg(fw)' = NeedPg(fw)
  BY DEF NeedPg, Subscribes, fw
<1>. QED
  BY <1>3, <1>4, <1>5
  DEF PgInv, PgUp, PgMarked, PgReset, DbProfileSeesFreshPostgres, StackHasPostgres, InRunOne

LEMMA NextPgInv == TypeInv /\ PgInv /\ [Next]_vars => PgInv'
<1>. SUFFICES ASSUME TypeInv, PgInv, [Next]_vars PROVE PgInv'
  OBVIOUS
<1>. USE DEF PgInv, PgUp, PgMarked, PgReset, DbProfileSeesFreshPostgres, StackHasPostgres, InRunOne
<1>0. CASE UNCHANGED vars
  BY <1>0 DEF vars, hostVars, posVars, histVars, DbAhead, NeedPg, Subscribes, fw, profile, isGateway
<1>1. CASE Invoke \/ Setup \/ CleanupAll \/ Killed \/ NextFramework \/ Finish
  BY <1>1 DEF Invoke, Setup, Fail, CleanupAll, Killed, NextFramework, Finish
<1>2. CASE StartPostgres
  BY <1>2 DEF StartPostgres, PostgresStart, Fail, posVars, NeedPg, Subscribes, fw
<1>3. CASE SkipProfile \/ NotReady \/ Teardown
  BY <1>3, AdvanceKeepsPgUp
  DEF SkipProfile, NotReady, Teardown, hostVars, histVars
<1>4. CASE EnterRunOne
  BY <1>4 DEF EnterRunOne, hostVars, posVars, DbAhead, NeedPg, Subscribes, fw
<1>5. CASE ResetPostgres
  <2>1. UNCHANGED <<k, pi, ci>> /\ pc = "reset" /\ pc' \in {"launch", "exiting"}
    BY <1>5 DEF ResetPostgres, Fail, posVars
  <2>2. NeedPg(fw)' = NeedPg(fw) /\ DbAhead' = DbAhead /\ profile' = profile
    BY <2>1 DEF NeedPg, Subscribes, fw, DbAhead, profile
  <2>3. CASE profile \in DbProfiles /\ pgDirty
    <3>1. pc' = "launch" => pg' = "fresh" /\ pgDirty'
      BY <1>5, <2>3 DEF ResetPostgres, PostgresStart, Fail, PgDirtyAfter
    <3>. QED  BY <2>1, <2>2, <3>1
  <2>4. CASE profile \in DbProfiles /\ ~pgDirty
    <3>1. NeedPg(fw)  BY <2>1, <2>4, RunNeedsPg
    <3>2. DbAhead
      BY <2>1, <2>4, OrderAssumption DEF DbAhead, TypeInv, PositionOK, profile
    <3>3. pg = "fresh"  BY <2>1, <2>4, <3>1, <3>2
    <3>4. UNCHANGED pg /\ pgDirty' /\ pc' = "launch"
      BY <1>5, <2>4 DEF ResetPostgres, PgDirtyAfter, hostVars
    <3>. QED  BY <2>1, <2>2, <3>3, <3>4
  <2>5. CASE profile \notin DbProfiles
    <3>1. UNCHANGED <<pg, pgDirty>> /\ pc' = "launch"
      BY <1>5, <2>5 DEF ResetPostgres, PgDirtyAfter, hostVars, TypeInv
    <3>. QED  BY <2>1, <2>2, <2>5, <3>1
  <2>. QED  BY <2>3, <2>4, <2>5
<1>6. CASE LaunchStack \/ StackUp \/ LaunchFramework \/ ServerReady \/ SaveResult
  <2>1. UNCHANGED <<k, pi, ci, pg, pgDirty, meas>>
    BY <1>6
    DEF LaunchStack, GatewayUp, StackUp, ComposeUp, LaunchFramework, FrameworkStart, ServerReady, SaveResult,
        hostVars, posVars, histVars
  <2>2. NeedPg(fw)' = NeedPg(fw) /\ DbAhead' = DbAhead /\ profile' = profile
    BY <2>1 DEF NeedPg, Subscribes, fw, DbAhead, profile
  <2>3. \/ pc = "launch" /\ pc' \in {"up", "ready", "exiting"}
        \/ pc = "up" /\ pc' \in {"ready", "exiting"}
        \/ pc = "ready" /\ pc' = "measure"
        \/ pc = "save" /\ pc' = "teardown"
    BY <1>6 DEF LaunchStack, StackUp, Fail, LaunchFramework, ServerReady, SaveResult
  <2>. QED  BY <2>1, <2>2, <2>3
<1>7. CASE Measure
  <2>1. UNCHANGED <<k, pi, ci, pgDirty>> /\ pc = "measure" /\ pc' = "save" /\ meas'.pg = pg
    BY <1>7 DEF Measure, posVars
  <2>2. NeedPg(fw)' = NeedPg(fw) /\ DbAhead' = DbAhead /\ profile' = profile
    BY <2>1 DEF NeedPg, Subscribes, fw, DbAhead, profile
  <2>3. isGateway => NeedPg(fw) /\ ~DbAhead
    BY <2>1, RunNeedsPg, NoDbAfterStack DEF isGateway
  <2>4. pg' = IF profile \in DbProfiles \cup GatewayProfiles /\ pg = "fresh" THEN "used" ELSE pg
    BY <1>7 DEF Measure
  <2>5. DbProfileSeesFreshPostgres' /\ StackHasPostgres'
    BY <2>1, <2>2, <2>3 DEF isGateway
  <2>6. PgUp' /\ PgMarked' /\ PgReset'
    BY <2>1, <2>2, <2>3, <2>4 DEF isGateway
  <2>. QED  BY <2>5, <2>6
<1>8. CASE Rebuild
  BY <1>8 DEF Rebuild, Fail
<1>9. CASE RedisAppears
  BY <1>9 DEF RedisAppears, posVars, DbAhead, NeedPg, Subscribes, fw, profile, isGateway
<1>. QED
  BY <1>0, <1>1, <1>2, <1>3, <1>4, <1>5, <1>6, <1>7, <1>8, <1>9 DEF Next, Script, RunOne

LEMMA PgInvariance == Spec => []PgInv
<1>1. Init => PgInv  BY InitPgInv
<1>2. TypeInv /\ PgInv /\ [Next]_vars => PgInv'  BY NextPgInv
<1>. QED  BY <1>1, <1>2, TypeInvariance, PTL DEF Spec

\* Whatever ran before it, an async-db or fortunes run measures a freshly seeded
\* Postgres, as long as the profile order keeps the compose profiles behind.
THEOREM DbProfileFresh == Spec => []DbProfileSeesFreshPostgres
<1>1. PgInv => DbProfileSeesFreshPostgres  BY DEF PgInv
<1>. QED  BY <1>1, PgInvariance, PTL

\* Every compose profile of every framework finds Postgres up.
THEOREM StackPostgresUp == Spec => []StackHasPostgres
<1>1. PgInv => StackHasPostgres  BY DEF PgInv
<1>. QED  BY <1>1, PgInvariance, PTL
-----------------------------------------------------------------------------
(* Saved and published rows *)

\* On its way out an invocation has published everything or failed; between
\* invocations a row that is not published has been paid for with a failure.
RowsInv ==
  /\ ~Save => results = {}
  /\ pc \in {"exiting", "exited"} /\ code = 0 => results \subseteq site
  /\ pc \in {"workflow", "finished"} /\ ~(results \subseteq site) => failed # {}

LEMMA NextRowsInv == TypeInv /\ RowsInv /\ [Next]_vars => RowsInv'
<1>. SUFFICES ASSUME TypeInv, RowsInv, [Next]_vars PROVE RowsInv'
  OBVIOUS
<1>. USE DEF RowsInv
<1>0. CASE UNCHANGED vars
  BY <1>0 DEF vars, outVars
<1>1. CASE Invoke \/ Setup \/ StartPostgres \/ SkipProfile \/ EnterRunOne \/ ResetPostgres
             \/ LaunchStack \/ StackUp \/ LaunchFramework \/ ServerReady \/ NotReady
             \/ Measure \/ Teardown
  <2>1. UNCHANGED <<results, site>>
    BY <1>1
    DEF Invoke, Setup, StartPostgres, SkipProfile, EnterRunOne, ResetPostgres, LaunchStack,
        StackUp, LaunchFramework, ServerReady, NotReady, Measure, Teardown, outVars
  <2>2. pc' \notin {"workflow", "finished", "exited"}
    BY <1>1
    DEF Invoke, Setup, StartPostgres, SkipProfile, EnterRunOne, ResetPostgres, LaunchStack, Fail,
        StackUp, LaunchFramework, ServerReady, NotReady, Measure, Teardown, Advance
  <2>3. pc' = "exiting" => code' = 1
    BY <1>1
    DEF Invoke, Setup, StartPostgres, SkipProfile, EnterRunOne, ResetPostgres, LaunchStack, Fail,
        StackUp, LaunchFramework, ServerReady, NotReady, Measure, Teardown, Advance
  <2>. QED  BY <2>1, <2>2, <2>3
<1>2. CASE SaveResult
  BY <1>2 DEF SaveResult
<1>3. CASE Rebuild
  <2>1. /\ UNCHANGED results /\ pc' = "exiting"
        /\ code' = 1 \/ (Save => results \subseteq site')
    BY <1>3 DEF Rebuild, Published, Fail
  <2>. QED  BY <2>1
<1>4. CASE CleanupAll
  BY <1>4 DEF CleanupAll, outVars
<1>5. CASE Killed
  BY <1>5 DEF Killed
<1>6. CASE NextFramework
  BY <1>6 DEF NextFramework, FailedAfter
<1>7. CASE Finish
  BY <1>7 DEF Finish, outVars
<1>8. CASE RedisAppears
  BY <1>8 DEF RedisAppears, outVars
<1>. QED
  BY <1>0, <1>1, <1>2, <1>3, <1>4, <1>5, <1>6, <1>7, <1>8 DEF Next, Script, RunOne

LEMMA RowsInvariance == Spec => []RowsInv
<1>1. Init => RowsInv  BY DEF Init, RowsInv
<1>2. TypeInv /\ RowsInv /\ [Next]_vars => RowsInv'  BY NextRowsInv
<1>. QED  BY <1>1, <1>2, TypeInvariance, PTL DEF Spec

\* A job in which a saved row did not reach the site's data is flagged red.
THEOREM LossFlagged == Spec => []LossIsFlagged
<1>1. RowsInv => LossIsFlagged  BY DEF RowsInv, LossIsFlagged
<1>. QED  BY <1>1, RowsInvariance, PTL

\* An invocation that ends well has published every row on disk.
THEOREM SuccessPublishes == Spec => []SuccessPublishesEverything
<1>1. RowsInv => SuccessPublishesEverything  BY DEF RowsInv, SuccessPublishesEverything
<1>. QED  BY <1>1, RowsInvariance, PTL
-----------------------------------------------------------------------------
(* Containers and stacks, whatever `compose down` does *)

\* run_one has started its server.
Launched == {"ready", "measure", "save", "teardown"}

OthersAbsent == \A f \in Frameworks \ {fw} : bench[f] = "absent"

\* Only the framework under test has a container, and only while a profile that
\* is not a compose profile runs, or on the way out of one.
BenchInv ==
  /\ pc \in InScript => OthersAbsent
  /\ pc \in BetweenRuns \cup {"reset", "launch", "up", "exited"} => bench = NoBench
  /\ pc \in Launched /\ isGateway => bench = NoBench

\* From the sweep of gateway_up on a compose profile is alone on its ports, but for
\* a sidecar that came since.
AloneInv ==
  pc \in {"up", "ready", "measure"} /\ isGateway =>
    /\ \A q \in Projects \ {<<fw, profile>>} : stack[q] = {}
    /\ "cache" \in ServicesOf(profile) => (redis => lateRedis)

StackInv ==
  /\ BenchInv /\ AloneInv
  /\ StackRunMeasuresItsOwnStack
  /\ StackRunUsesItsOwnCache

LEMMA StoppedBenchClean ==
  ASSUME HostTypeOK, OthersAbsent
  PROVE StoppedBench(fw) = NoBench
  BY DEF HostTypeOK, OthersAbsent, StoppedBench, NoBench

LEMMA NextBenchInv == TypeInv /\ BenchInv /\ [Next]_vars => BenchInv'
<1>. SUFFICES ASSUME TypeInv, BenchInv, [Next]_vars PROVE BenchInv'
  OBVIOUS
<1>. USE DEF BenchInv, InScript, InRunOne, BetweenRuns, Launched
<1>0. CASE UNCHANGED vars
  BY <1>0 DEF vars, hostVars, posVars, OthersAbsent, fw, profile, isGateway
<1>1. CASE Invoke
  BY <1>1 DEF Invoke, ClearHost, OthersAbsent, NoBench
<1>2. CASE Setup \/ StartPostgres \/ SkipProfile \/ EnterRunOne \/ ResetPostgres \/ LaunchStack
             \/ StackUp \/ Rebuild
  <2>1. UNCHANGED <<bench, k>> /\ OthersAbsent /\ bench = NoBench
    BY <1>2
    DEF Setup, StartPostgres, PostgresStart, SkipProfile, EnterRunOne, ResetPostgres, LaunchStack,
        GatewayUp, StackUp, ComposeUp, Rebuild, hostVars, posVars
  <2>2. OthersAbsent' /\ bench' = NoBench
    BY <2>1 DEF OthersAbsent, fw
  <2>. QED  BY <2>2
<1>3. CASE LaunchFramework
  <2>1. UNCHANGED posVars /\ pc' = "ready" /\ pc = "launch" /\ ~isGateway /\ OthersAbsent
    BY <1>3 DEF LaunchFramework
  <2>2. OthersAbsent'
    BY <1>3, <2>1
    DEF LaunchFramework, FrameworkStart, OthersAbsent, fw, posVars, TypeInv, HostTypeOK
  <2>3. ~isGateway'
    BY <2>1 DEF posVars, isGateway, profile
  <2>. QED  BY <2>1, <2>2, <2>3
<1>4. CASE ServerReady \/ Measure \/ SaveResult
  <2>1. UNCHANGED <<bench, posVars>> /\ pc' \in Launched /\ pc \in Launched
    BY <1>4 DEF ServerReady, Measure, SaveResult, hostVars
  <2>2. UNCHANGED <<OthersAbsent, isGateway>>
    BY <2>1 DEF OthersAbsent, fw, isGateway, profile, posVars
  <2>. QED  BY <2>1, <2>2
<1>5. CASE NotReady \/ Teardown
  <2>1. bench' = NoBench /\ UNCHANGED k /\ pc' = "loop"
    BY <1>5, StoppedBenchClean DEF NotReady, Teardown, StopRun, Advance, TypeInv
  <2>2. OthersAbsent'
    BY <2>1 DEF OthersAbsent, NoBench
  <2>. QED  BY <2>1, <2>2
<1>6. CASE CleanupAll
  <2>1. bench' = NoBench /\ pc' = "exited"
    BY <1>6, StoppedBenchClean DEF CleanupAll, TypeInv
  <2>2. OthersAbsent'
    BY <2>1 DEF OthersAbsent, NoBench
  <2>. QED  BY <2>1, <2>2
<1>7. CASE Killed \/ NextFramework \/ Finish
  BY <1>7 DEF Killed, NextFramework, Finish
<1>8. CASE RedisAppears
  BY <1>8 DEF RedisAppears, posVars, OthersAbsent, fw, profile, isGateway
<1>. QED
  BY <1>0, <1>1, <1>2, <1>3, <1>4, <1>5, <1>6, <1>7, <1>8 DEF Next, Script, RunOne

\* Nothing but its own stack answers on the edge port of a compose profile that
\* is about to be measured.
LEMMA AloneServedBy ==
  ASSUME TypeInv, BenchInv, AloneInv, pc = "measure", isGateway
  PROVE /\ ServedBy \notin Foreign
        /\ "cache" \in ServicesOf(profile) =>
             /\ CacheHeldBy # "other stack"
             /\ CacheHeldBy = "sidecar" => lateRedis
<1>1. bench = NoBench
  BY DEF BenchInv, Launched
<1>2. \A s : StackHolds(s) => s \in stack[<<fw, profile>>]
  BY DEF StackHolds, AloneInv
<1>3. Answers("edge") => "edge" \in stack[<<fw, profile>>]
  BY <1>1, <1>2 DEF Answers, NoBench
<1>4. "cache" \in ServicesOf(profile) => (redis => lateRedis)
  BY DEF AloneInv
<1>5. Port = "edge"
  BY DEF Port
<1>6. ServedBy \in {"own stack", "nobody"}
  <2>1. CASE Port \in stack[<<fw, profile>>]
    BY <2>1 DEF ServedBy
  <2>2. CASE Port \notin stack[<<fw, profile>>]
    BY <1>2, <1>3, <1>5, <2>2 DEF ServedBy
  <2>. QED  BY <2>1, <2>2
<1>. QED
  BY <1>2, <1>4, <1>6 DEF CacheHeldBy, Foreign

LEMMA NextStackInv == TypeInv /\ StackInv /\ [Next]_vars => StackInv'
<1>. SUFFICES ASSUME TypeInv, StackInv, [Next]_vars PROVE StackInv'
  OBVIOUS
<1>. USE DEF StackInv
<1>a. BenchInv'
  BY NextBenchInv
<1>. USE DEF AloneInv, StackRunMeasuresItsOwnStack, StackRunUsesItsOwnCache
<1>0. CASE UNCHANGED vars
  BY <1>0, <1>a DEF vars, hostVars, posVars, histVars, fw, profile, isGateway
<1>1. CASE Invoke \/ Setup \/ StartPostgres \/ SkipProfile \/ EnterRunOne \/ ResetPostgres
             \/ NotReady \/ SaveResult \/ Teardown \/ Rebuild \/ CleanupAll \/ Killed
             \/ NextFramework \/ Finish
  <2>1. pc' \notin {"up", "ready", "measure", "save"}
    BY <1>1
    DEF Invoke, Setup, StartPostgres, SkipProfile, EnterRunOne, ResetPostgres, NotReady, SaveResult,
        Teardown, Rebuild, CleanupAll, Killed, NextFramework, Finish, Fail, Advance
  <2>. QED  BY <2>1, <1>a
<1>2. CASE LaunchStack
  <2>1. GatewayUp(<<fw, profile>>) /\ UNCHANGED <<fw, profile>>
    BY <1>2 DEF LaunchStack, posVars, fw, profile
  <2>2. CASE <<fw, profile>> \in ComposeFiles
    <3>1. PICK own : stack' = [ClearStale(<<fw, profile>>) EXCEPT ![<<fw, profile>>] = own]
      BY <2>1, <2>2 DEF GatewayUp, ClearTheWay
    <3>2. \A q \in Projects \ {<<fw, profile>>} : stack'[q] = {}
      BY <3>1 DEF ClearStale
    <3>3. "cache" \in ServicesOf(profile) => ~redis'
      BY <2>1, <2>2 DEF GatewayUp, ClearTheWay, YieldsRedis
    <3>4. pc' = "up"
      BY <1>2, <2>2 DEF LaunchStack
    <3>. QED  BY <1>a, <2>1, <3>2, <3>3, <3>4
  <2>3. CASE <<fw, profile>> \notin ComposeFiles
    BY <1>2, <1>a, <2>3 DEF LaunchStack, Fail
  <2>. QED  BY <2>2, <2>3
<1>6. CASE StackUp
  <2>1. /\ pc = "up" /\ pc' \in {"ready", "exiting"}
        /\ UNCHANGED <<fw, profile, isGateway, redis, lateRedis>>
    BY <1>6 DEF StackUp, ComposeUp, Fail, posVars, histVars, fw, profile, isGateway
  <2>2. PICK up : stack' = [stack EXCEPT ![<<fw, profile>>] = up]
    BY <1>6 DEF StackUp, ComposeUp
  <2>3. \A q \in Projects \ {<<fw, profile>>} : stack'[q] = stack[q]
    <3>1. stack \in [Projects -> SUBSET Services]
      BY DEF TypeInv, HostTypeOK
    <3>. QED  BY <2>2, <3>1
  <2>. QED  BY <1>a, <2>1, <2>3
<1>7. CASE RedisAppears
  BY <1>7, <1>a DEF RedisAppears, posVars, fw, profile, isGateway
<1>3. CASE LaunchFramework
  <2>1. pc' = "ready" /\ ~isGateway'
    BY <1>3 DEF LaunchFramework, posVars, isGateway, profile
  <2>. QED  BY <1>a, <2>1
<1>4. CASE ServerReady
  BY <1>4, <1>a DEF ServerReady, hostVars, posVars, histVars, fw, profile, isGateway
<1>5. CASE Measure
  <2>1. pc = "measure" /\ pc' = "save" /\ UNCHANGED <<fw, profile, isGateway, lateRedis>>
    BY <1>5 DEF Measure, posVars, fw, profile, isGateway
  <2>2. meas'.by \in {ServedBy, "nobody"} /\ meas'.cache = CacheHeldBy
    BY <1>5 DEF Measure
  <2>. QED  BY <1>a, <2>1, <2>2, AloneServedBy DEF Foreign
<1>. QED
  BY <1>0, <1>1, <1>2, <1>3, <1>4, <1>5, <1>6, <1>7 DEF Next, Script, RunOne

LEMMA StackInvariance == Spec => []StackInv
<1>1. Init => StackInv
  BY DEF Init, StackInv, BenchInv, AloneInv, StackRunMeasuresItsOwnStack, StackRunUsesItsOwnCache,
         InScript, InRunOne, BetweenRuns, Launched
<1>2. TypeInv /\ StackInv /\ [Next]_vars => StackInv'  BY NextStackInv
<1>. QED  BY <1>1, <1>2, TypeInvariance, PTL DEF Spec

\* A compose profile is never measured against another stack or a framework container,
\* even where `compose down` may fail unnoticed: gateway_up clears what is left.
THEOREM StackRunIsolated == Spec => []StackRunMeasuresItsOwnStack
<1>1. StackInv => StackRunMeasuresItsOwnStack  BY DEF StackInv
<1>. QED  BY <1>1, StackInvariance, PTL

\* Nor against another stack's cache, nor against a Redis sidecar that was up when
\* gateway_up looked for it.
THEOREM StackCacheIsolated == Spec => []StackRunUsesItsOwnCache
<1>1. StackInv => StackRunUsesItsOwnCache  BY DEF StackInv
<1>. QED  BY <1>1, StackInvariance, PTL
-----------------------------------------------------------------------------
(* Containers and stacks, when `compose down` works *)

\* A stack that is up is the one gateway_down knows of, and outside a compose
\* profile there is none.
CleanInv ==
  /\ pc \in InScript =>
       \A q \in Projects : stack[q] # {} => q = active /\ q \in ComposeFiles
  /\ pc \in BetweenRuns \cup {"reset", "launch", "up", "exited"} => stack = NoStack
  /\ pc = "up" => active = <<fw, profile>>
  /\ pc \in Launched /\ ~isGateway => stack = NoStack
  /\ RunMeasuresItsOwnServer
  /\ TrapLeavesHostClean

\* A `compose down` that works leaves no stack.
LEMMA ComposeDownClean ==
  ASSUME ~ComposeDownMayFail, TypeInv, CleanInv, pc \in InScript, ComposeDown
  PROVE stack' = NoStack
<1>1. stack \in [Projects -> SUBSET Services]
  BY DEF TypeInv, HostTypeOK
<1>2. \A q \in Projects : stack[q] # {} => q = active /\ q \in ComposeFiles
  BY DEF CleanInv
<1>3. CASE active \notin ComposeFiles
  BY <1>1, <1>2, <1>3 DEF ComposeDown, NoStack
<1>4. CASE active \in ComposeFiles
  <2>1. stack' = [stack EXCEPT ![active] = {}]
    BY <1>4 DEF ComposeDown, DownOutcomes
  <2>. QED  BY <1>1, <1>2, <2>1 DEF NoStack
<1>. QED  BY <1>3, <1>4

LEMMA CleanServedBy ==
  ASSUME TypeInv, StackInv, CleanInv, pc = "measure"
  PROVE ServedBy \notin Foreign
<1>1. CASE isGateway
  BY <1>1, AloneServedBy DEF StackInv
<1>2. CASE ~isGateway
  <2>1. \A s : ~StackHolds(s)
    BY <1>2 DEF CleanInv, Launched, StackHolds, NoStack
  <2>2. CASE bench[fw] = "serving"
    BY <1>2, <2>2 DEF ServedBy, Foreign
  <2>3. CASE bench[fw] # "serving"
    <3>1. ~Answers(Port)
      BY <2>1, <2>3 DEF StackInv, BenchInv, OthersAbsent, InScript, InRunOne, Answers
    <3>. QED  BY <1>2, <2>1, <2>3, <3>1 DEF ServedBy, Foreign
  <2>. QED  BY <2>2, <2>3
<1>. QED  BY <1>1, <1>2

LEMMA NextCleanInv ==
  ASSUME ~ComposeDownMayFail
  PROVE TypeInv /\ StackInv /\ CleanInv /\ [Next]_vars => CleanInv'
<1>. SUFFICES ASSUME TypeInv, StackInv, CleanInv, [Next]_vars PROVE CleanInv'
  OBVIOUS
<1>. USE DEF CleanInv, RunMeasuresItsOwnServer, TrapLeavesHostClean, InScript, InRunOne,
             BetweenRuns, Launched
<1>0. CASE UNCHANGED vars
  BY <1>0 DEF vars, hostVars, shellVars, posVars, histVars, ServersGone, fw, profile, isGateway
<1>1. CASE Invoke
  BY <1>1 DEF Invoke, ClearHost, NoStack
<1>2. CASE Setup \/ StartPostgres \/ SkipProfile \/ EnterRunOne \/ ResetPostgres \/ Rebuild
  <2>1. stack' = NoStack
    BY <1>2
    DEF Setup, StartPostgres, PostgresStart, SkipProfile, EnterRunOne, ResetPostgres, Rebuild,
        hostVars
  <2>2. pc' \in BetweenRuns \cup {"reset", "launch", "exiting"}
    BY <1>2
    DEF Setup, StartPostgres, SkipProfile, EnterRunOne, ResetPostgres, Rebuild, Fail
  <2>. QED  BY <2>1, <2>2 DEF NoStack
<1>3. CASE LaunchStack
  <2>1. /\ GatewayUp(<<fw, profile>>) /\ active' = <<fw, profile>> /\ stack = NoStack
        /\ UNCHANGED <<fw, profile>> /\ pc' \in {"up", "exiting"}
    BY <1>3 DEF LaunchStack, GatewayUp, Fail, posVars, fw, profile
  <2>2. stack' = NoStack
    <3>1. CASE <<fw, profile>> \notin ComposeFiles
      BY <2>1, <3>1 DEF GatewayUp, ClearTheWay
    <3>2. CASE <<fw, profile>> \in ComposeFiles
      <4>1. stack' = [ClearStale(<<fw, profile>>) EXCEPT ![<<fw, profile>>] = {}]
        BY <2>1, <3>2 DEF GatewayUp, ClearTheWay
      <4>. QED  BY <2>1, <4>1 DEF ClearStale, NoStack
    <3>. QED  BY <3>1, <3>2
  <2>. QED  BY <2>1, <2>2 DEF NoStack
<1>10. CASE StackUp
  <2>1. /\ stack = NoStack /\ active = <<fw, profile>> /\ UNCHANGED <<active, profile>>
        /\ <<fw, profile>> \in ComposeFiles /\ pc' \in {"ready", "exiting"}
    BY <1>10 DEF StackUp, ComposeUp, Fail, posVars, profile, TypeInv, PositionOK
  <2>2. PICK up : stack' = [stack EXCEPT ![<<fw, profile>>] = up]
    BY <1>10 DEF StackUp, ComposeUp
  <2>3. \A q \in Projects : stack'[q] # {} => q = active' /\ q \in ComposeFiles
    BY <2>1, <2>2 DEF NoStack
  <2>4. isGateway'
    BY <2>1, ComposeFilesAssumption DEF Projects, isGateway
  <2>. QED  BY <2>1, <2>3, <2>4
<1>11. CASE RedisAppears
  BY <1>11 DEF RedisAppears, shellVars, posVars, ServersGone, fw, profile, isGateway
<1>4. CASE LaunchFramework
  <2>1. stack' = NoStack /\ pc' = "ready"
    BY <1>4 DEF LaunchFramework, FrameworkStart
  <2>. QED  BY <2>1 DEF NoStack
<1>5. CASE ServerReady \/ SaveResult
  <2>1. UNCHANGED <<stack, active, isGateway>> /\ pc \in Launched /\ pc' \in {"measure", "teardown"}
    BY <1>5 DEF ServerReady, SaveResult, hostVars, shellVars, posVars, isGateway, profile
  <2>. QED  BY <2>1
<1>6. CASE Measure
  <2>1. UNCHANGED <<stack, active, isGateway>> /\ pc = "measure" /\ pc' = "save"
    BY <1>6 DEF Measure, shellVars, posVars, isGateway, profile
  <2>2. meas'.by \notin Foreign
    <3>1. ServedBy \notin Foreign
      BY <2>1, CleanServedBy
    <3>2. PICK by \in {ServedBy, "nobody"} : meas' = [by |-> by, pg |-> pg, cache |-> CacheHeldBy]
      BY <1>6 DEF Measure
    <3>. QED  BY <3>1, <3>2 DEF Foreign
  <2>. QED  BY <2>1, <2>2
<1>7. CASE NotReady \/ Teardown
  <2>1. pc \in Launched /\ pc' = "loop"
    BY <1>7 DEF NotReady, Teardown, Advance
  <2>2. stack' = NoStack
    <3>1. CASE isGateway
      BY <1>7, <2>1, <3>1, ComposeDownClean DEF NotReady, Teardown, StopRun, GatewayDown
    <3>2. CASE ~isGateway
      BY <1>7, <2>1, <3>2 DEF NotReady, Teardown, StopRun
    <3>. QED  BY <3>1, <3>2
  <2>. QED  BY <2>1, <2>2 DEF NoStack
<1>8. CASE CleanupAll
  <2>1. stack' = NoStack /\ pc' = "exited" /\ pg' = "absent" /\ ~redis'
    BY <1>8, ComposeDownClean DEF CleanupAll
  <2>2. bench' = NoBench
    BY <2>1, NextBenchInv DEF BenchInv, StackInv
  <2>. QED  BY <2>1, <2>2 DEF NoStack, ServersGone
<1>9. CASE Killed \/ NextFramework \/ Finish
  BY <1>9 DEF Killed, NextFramework, Finish
<1>. QED
  BY <1>0, <1>1, <1>2, <1>3, <1>4, <1>5, <1>6, <1>7, <1>8, <1>9, <1>10, <1>11
  DEF Next, Script, RunOne

LEMMA CleanInvariance == ASSUME ~ComposeDownMayFail PROVE Spec => []CleanInv
<1>1. Init => CleanInv
  BY DEF Init, CleanInv, RunMeasuresItsOwnServer, TrapLeavesHostClean, InScript, InRunOne,
         BetweenRuns, Launched
<1>2. TypeInv /\ StackInv /\ CleanInv /\ [Next]_vars => CleanInv'  BY NextCleanInv
<1>. QED  BY <1>1, <1>2, TypeInvariance, StackInvariance, PTL DEF Spec

\* Where `compose down` works, the load of every run is served by the server that
\* run started or by nobody: never by a framework container or a stack that was left,
\* by an earlier run, an earlier invocation or before the job.
THEOREM RunsIsolated ==
  ASSUME ~ComposeDownMayFail PROVE Spec => []RunMeasuresItsOwnServer
<1>1. CleanInv => RunMeasuresItsOwnServer  BY DEF CleanInv
<1>. QED  BY <1>1, CleanInvariance, PTL

\* And the EXIT trap leaves nothing on the host, wherever the exit came from.
THEOREM TrapCleans ==
  ASSUME ~ComposeDownMayFail PROVE Spec => []TrapLeavesHostClean
<1>1. CleanInv => TrapLeavesHostClean  BY DEF CleanInv
<1>. QED  BY <1>1, CleanInvariance, PTL

\* And Postgres is only ever replaced while no server is running.
THEOREM PostgresReplacedUnseen ==
  ASSUME ~ComposeDownMayFail PROVE Spec => PostgresRestartsUnseen
<1>1. TypeInv /\ StackInv /\ CleanInv /\ [Next]_vars =>
        [pg # "fresh" /\ pg' = "fresh" => bench = NoBench /\ stack = NoStack]_vars
  <2>. SUFFICES ASSUME StackInv, CleanInv, Next, pg # "fresh", pg' = "fresh"
                PROVE bench = NoBench /\ stack = NoStack
    OBVIOUS
  <2>1. pc \in {"postgres", "reset"}
    BY DEF Next, Script, RunOne, Invoke, Setup, StartPostgres, SkipProfile, EnterRunOne,
           ClearHost, ResetPostgres, LaunchStack, GatewayUp, StackUp, ComposeUp, LaunchFramework,
           FrameworkStart,
           ServerReady, NotReady, Measure, SaveResult, Teardown, Rebuild, CleanupAll, Killed,
           NextFramework, Finish, RedisAppears, hostVars
  <2>. QED  BY <2>1 DEF StackInv, BenchInv, CleanInv, BetweenRuns
<1>. QED
  BY <1>1, TypeInvariance, StackInvariance, CleanInvariance, PTL DEF Spec, PostgresRestartsUnseen
-----------------------------------------------------------------------------
(* No run is skipped *)

\* The i-th profile, if it is to be run, has had its first n connection counts.
TriedUpTo(i, n) ==
  ProfilesToRun[i] \in Defined /\ Subscribes(fw, ProfilesToRun[i]) =>
    \A j \in 1 .. n : <<ProfilesToRun[i], Conns[ProfilesToRun[i]][j]>> \in tried

TriedWhole(i) ==
  ProfilesToRun[i] \in Defined => TriedUpTo(i, Len(Conns[ProfilesToRun[i]]))

\* What the loop has behind it has been tried.
TriedInv ==
  /\ pc \in BetweenRuns \cup InRunOne => \A i \in 1 .. pi - 1 : TriedWhole(i)
  /\ pc \in BetweenRuns /\ pi \in 1 .. Len(ProfilesToRun) => TriedUpTo(pi, ci - 1)
  /\ pc \in InRunOne => TriedUpTo(pi, ci)
  /\ pc \in {"exiting", "exited"} /\ code = 0 =>
       \A i \in 1 .. Len(ProfilesToRun) : TriedWhole(i)

LEMMA AdvanceKeepsTried ==
  ASSUME TypeInv, TriedInv, pc \in InRunOne, Advance, UNCHANGED <<k, tried>>
  PROVE TriedInv'
<1>. USE DEF TypeInv, LoopTypeOK, PositionOK
<1>a. /\ Len(ProfilesToRun) \in Nat /\ pi \in 1 .. Len(ProfilesToRun)
      /\ Len(Conns[profile]) \in Nat /\ ci \in 1 .. Len(Conns[profile])
  BY OrderAssumption, ConnsOfDefined
<1>b. pc' = "loop" /\ tried' = tried /\ fw' = fw
  BY DEF Advance, fw
<1>c. \A i \in 1 .. pi - 1 : TriedWhole(i)
  BY DEF TriedInv
<1>d. TriedUpTo(pi, ci)
  BY DEF TriedInv
<1>1. CASE ci < Len(Conns[profile])
  <2>1. pi' = pi /\ ci' = ci + 1
    BY <1>1 DEF Advance
  <2>2. ci' - 1 = ci
    BY <1>a, <2>1
  <2>. QED
    BY <1>b, <1>c, <1>d, <2>1, <2>2 DEF TriedInv, TriedWhole, TriedUpTo, Subscribes, InRunOne
<1>2. CASE ~(ci < Len(Conns[profile]))
  <2>1. pi' = pi + 1 /\ ci' = 1 /\ ci = Len(Conns[profile])
    BY <1>2, <1>a DEF Advance, NextProfile
  <2>2. TriedWhole(pi)
    BY <1>d, <2>1 DEF TriedWhole, profile
  <2>3. \A i \in 1 .. pi' - 1 : TriedWhole(i)
    <3>. SUFFICES ASSUME NEW i \in 1 .. pi' - 1 PROVE TriedWhole(i)
      OBVIOUS
    <3>1. i \in 1 .. pi - 1 \/ i = pi
      BY <1>a, <2>1
    <3>. QED  BY <1>c, <2>2, <3>1
  <2>4. \A i \in 1 .. pi' - 1 : TriedWhole(i)'
    BY <1>b, <2>3 DEF TriedWhole, TriedUpTo, Subscribes
  <2>5. TriedUpTo(pi, ci - 1)'
    <3>1. 1 .. ci' - 1 = {}
      BY <2>1
    <3>. QED  BY <3>1 DEF TriedUpTo
  <2>. QED
    BY <1>b, <2>4, <2>5 DEF TriedInv, InRunOne, BetweenRuns
<1>. QED  BY <1>1, <1>2

LEMMA TriedInvCovers == TriedInv => EverySubscribedRunIsTried
<1>1. DOMAIN ProfilesToRun = 1 .. Len(ProfilesToRun)
  BY OrderAssumption
<1>2. \A p \in Defined : DOMAIN Conns[p] = 1 .. Len(Conns[p])
  BY ConnsAssumption
<1>. QED
  BY <1>1, <1>2 DEF TriedInv, EverySubscribedRunIsTried, TriedWhole, TriedUpTo

LEMMA NextTriedInv == TypeInv /\ TriedInv /\ [Next]_vars => TriedInv'
<1>. SUFFICES ASSUME TypeInv, TriedInv, [Next]_vars PROVE TriedInv'
  OBVIOUS
<1>a. Len(ProfilesToRun) \in Nat
  BY OrderAssumption
<1>. USE DEF InRunOne, BetweenRuns
<1>0. CASE UNCHANGED vars
  BY <1>0
  DEF vars, posVars, histVars, TriedInv, TriedWhole, TriedUpTo, Subscribes, fw
<1>1. CASE Invoke
  <2>1. pi' = 1 /\ ci' = 1 /\ pc' = "setup"
    BY <1>1 DEF Invoke
  <2>2. 1 .. ci' - 1 = {} /\ 1 .. pi' - 1 = {}
    BY <2>1
  <2>. QED  BY <2>1, <2>2 DEF TriedInv, TriedUpTo
<1>2. CASE \/ Setup \/ StartPostgres \/ ResetPostgres \/ LaunchStack \/ StackUp
          \/ LaunchFramework \/ ServerReady \/ Measure \/ SaveResult \/ RedisAppears \/ CleanupAll
  <2>1. UNCHANGED <<k, pi, ci, tried>>
    BY <1>2
    DEF Setup, StartPostgres, ResetPostgres, LaunchStack, StackUp, LaunchFramework, ServerReady,
        Measure, SaveResult, RedisAppears, CleanupAll, posVars, histVars
  <2>2. \/ pc \in BetweenRuns /\ pc' \in BetweenRuns
        \/ pc \in InRunOne /\ pc' \in InRunOne
        \/ pc' = "exiting" /\ code' = 1
        \/ pc = "exiting" /\ pc' = "exited" /\ UNCHANGED code
        \/ UNCHANGED <<pc, code>>
    BY <1>2
    DEF Setup, StartPostgres, ResetPostgres, LaunchStack, StackUp, LaunchFramework, ServerReady,
        Measure, SaveResult, RedisAppears, CleanupAll, Fail
  <2>3. \A i : TriedWhole(i)' = TriedWhole(i)
    BY <2>1 DEF TriedWhole, TriedUpTo, Subscribes, fw
  <2>4. TriedUpTo(pi, ci)' = TriedUpTo(pi, ci) /\ TriedUpTo(pi, ci - 1)' = TriedUpTo(pi, ci - 1)
    BY <2>1 DEF TriedUpTo, Subscribes, fw
  <2>. QED  BY <2>1, <2>2, <2>3, <2>4 DEF TriedInv
<1>3. CASE SkipProfile
  <2>1. /\ pc = "loop" /\ pc' = "loop" /\ UNCHANGED <<fw, tried>>
        /\ pi \in 1 .. Len(ProfilesToRun) /\ pi' = pi + 1 /\ ci' = 1
    BY <1>3, <1>a DEF SkipProfile, NextProfile, histVars, fw, TypeInv, LoopTypeOK
  <2>2. TriedWhole(pi)
    BY <1>3 DEF SkipProfile, profile, TriedWhole, TriedUpTo
  <2>3. \A i \in 1 .. pi' - 1 : i \in 1 .. pi - 1 \/ i = pi
    BY <1>a, <2>1
  <2>4. \A i \in 1 .. pi' - 1 : TriedWhole(i)
    BY <2>1, <2>2, <2>3 DEF TriedInv
  <2>5. \A i \in 1 .. pi' - 1 : TriedWhole(i)'
    BY <2>1, <2>4 DEF TriedWhole, TriedUpTo, Subscribes
  <2>6. 1 .. ci' - 1 = {}
    BY <2>1
  <2>. QED  BY <2>1, <2>5, <2>6 DEF TriedInv, TriedUpTo
<1>4. CASE EnterRunOne
  <2>1. /\ pc = "loop" /\ pc' = "reset" /\ UNCHANGED <<k, pi, ci>>
        /\ tried' = tried \cup {<<profile, Conns[profile][ci]>>}
        /\ pi \in 1 .. Len(ProfilesToRun) /\ ci \in Nat \ {0}
    BY <1>4, <1>a DEF EnterRunOne, posVars, TypeInv, LoopTypeOK
  <2>2. \A i \in 1 .. pi - 1 : TriedWhole(i)'
    BY <2>1 DEF TriedInv, TriedWhole, TriedUpTo, Subscribes, fw
  <2>3. \A j \in 1 .. ci : j \in 1 .. ci - 1 \/ j = ci
    BY <2>1
  <2>4. TriedUpTo(pi, ci)'
    BY <2>1, <2>3 DEF TriedInv, TriedUpTo, Subscribes, fw, profile
  <2>. QED  BY <2>1, <2>2, <2>4 DEF TriedInv
<1>5. CASE NotReady \/ Teardown
  <2>1. pc \in InRunOne /\ Advance /\ UNCHANGED <<k, tried>>
    BY <1>5 DEF NotReady, Teardown, histVars
  <2>. QED  BY <2>1, AdvanceKeepsTried
<1>6. CASE Rebuild
  <2>1. /\ pc = "loop" /\ pc' = "exiting" /\ UNCHANGED <<fw, tried>>
        /\ pi = Len(ProfilesToRun) + 1
    BY <1>6, <1>a DEF Rebuild, Fail, posVars, histVars, fw, TypeInv, LoopTypeOK
  <2>2. pi - 1 = Len(ProfilesToRun)
    BY <1>a, <2>1
  <2>3. \A i \in 1 .. Len(ProfilesToRun) : TriedWhole(i)
    BY <2>1, <2>2 DEF TriedInv
  <2>. QED  BY <2>1, <2>3 DEF TriedInv, TriedWhole, TriedUpTo, Subscribes
<1>7. CASE Killed \/ NextFramework \/ Finish
  BY <1>7 DEF Killed, NextFramework, Finish, TriedInv
<1>. QED
  BY <1>0, <1>1, <1>2, <1>3, <1>4, <1>5, <1>6, <1>7 DEF Next, Script, RunOne

\* An invocation that ends well has entered every run its framework subscribes to.
THEOREM NoRunSkipped == Spec => []EverySubscribedRunIsTried
<1>1. Init => TriedInv
  BY DEF Init, TriedInv, InRunOne, BetweenRuns
<1>2. TypeInv /\ TriedInv /\ [Next]_vars => TriedInv'  BY NextTriedInv
<1>. QED  BY <1>1, <1>2, TypeInvariance, TriedInvCovers, PTL DEF Spec

-----------------------------------------------------------------------------
(* The promise to those who wait for results *)

LEMMA AskedRuns ==
  ASSUME NEW f \in Frameworks
  PROVE  /\ \A i \in 1 .. Len(ProfilesToRun) :
              LET p == ProfilesToRun[i] IN
              p \in Defined /\ Subscribes(f, p) =>
                \A j \in 1 .. Len(Conns[p]) : <<p, Conns[p][j]>> \in Asked[f]
         /\ \A run \in Asked[f] :
              \E i \in 1 .. Len(ProfilesToRun), j \in Nat :
                /\ ProfilesToRun[i] \in Defined /\ Subscribes(f, ProfilesToRun[i])
                /\ j \in 1 .. Len(Conns[ProfilesToRun[i]])
                /\ run = <<ProfilesToRun[i], Conns[ProfilesToRun[i]][j]>>
<1>. DEFINE Wanted == {q \in Defined : Subscribes(f, q)
                                         /\ \E i \in DOMAIN ProfilesToRun : ProfilesToRun[i] = q}
            RunsOf(p) == {<<p, Conns[p][j]>> : j \in DOMAIN Conns[p]}
<1>1. Asked[f] = UNION {RunsOf(p) : p \in Wanted}
  BY DEF Asked
<1>2. /\ DOMAIN ProfilesToRun = 1 .. Len(ProfilesToRun)
      /\ \A p \in Defined : DOMAIN Conns[p] = 1 .. Len(Conns[p]) /\ Len(Conns[p]) \in Nat
  BY OrderAssumption, ConnsAssumption
<1>3. ASSUME NEW i \in 1 .. Len(ProfilesToRun), NEW p, p = ProfilesToRun[i], p \in Defined,
             Subscribes(f, p), NEW j \in 1 .. Len(Conns[p])
      PROVE  <<p, Conns[p][j]>> \in Asked[f]
  <2>1. p \in Wanted
    BY <1>2, <1>3
  <2>2. <<p, Conns[p][j]>> \in RunsOf(p)
    BY <1>2, <1>3
  <2>. HIDE DEF Wanted, RunsOf
  <2>. QED  BY <1>1, <2>1, <2>2
<1>4. ASSUME NEW run \in Asked[f]
      PROVE  \E i \in 1 .. Len(ProfilesToRun), j \in Nat :
               /\ ProfilesToRun[i] \in Defined /\ Subscribes(f, ProfilesToRun[i])
               /\ j \in 1 .. Len(Conns[ProfilesToRun[i]])
               /\ run = <<ProfilesToRun[i], Conns[ProfilesToRun[i]][j]>>
  <2>1. PICK p \in Wanted : run \in RunsOf(p)
    BY <1>1
  <2>2. PICK i \in 1 .. Len(ProfilesToRun) : ProfilesToRun[i] = p
    BY <1>2
  <2>3. PICK j \in 1 .. Len(Conns[p]) : run = <<p, Conns[p][j]>>
    BY <1>2, <2>1
  <2>. QED  BY <2>1, <2>2, <2>3
<1>. QED  BY <1>3, <1>4

\* A turn has entered only runs that were asked for, the one at hand among them, and
\* nothing is shown that was not saved.
MetInv ==
  /\ pc \in InScript => tried \subseteq Asked[fw]
  /\ pc \in InRunOne => <<profile, Conns[profile][ci]>> \in tried
  /\ site \subseteq results

LEMMA NextMetInv == TypeInv /\ MetInv /\ [Next]_vars => MetInv'
<1>. SUFFICES ASSUME TypeInv, MetInv, [Next]_vars PROVE MetInv'
  OBVIOUS
<1>. USE DEF MetInv, InScript, InRunOne, BetweenRuns, posVars, histVars, outVars
<1>1. CASE UNCHANGED vars
  BY <1>1 DEF vars, fw, profile
<1>2. CASE Invoke
  BY <1>2 DEF Invoke
<1>3. CASE \/ Setup \/ StartPostgres \/ ResetPostgres \/ LaunchStack \/ StackUp
           \/ LaunchFramework \/ ServerReady \/ Measure \/ RedisAppears \/ CleanupAll
  <2>1. UNCHANGED <<k, pi, ci, tried, results, site, fw, profile>>
    BY <1>3
    DEF Setup, StartPostgres, ResetPostgres, LaunchStack, StackUp, LaunchFramework, ServerReady,
        Measure, RedisAppears, CleanupAll, fw, profile
  <2>2. /\ pc' \in InScript => pc \in InScript
        /\ pc' \in InRunOne => pc \in InRunOne
    BY <1>3
    DEF Setup, StartPostgres, ResetPostgres, LaunchStack, StackUp, LaunchFramework, ServerReady,
        Measure, RedisAppears, CleanupAll, Fail
  <2>. QED  BY <2>1, <2>2
<1>4. CASE SkipProfile \/ NotReady \/ Teardown
  <2>1. UNCHANGED <<fw, tried, results, site>> /\ pc \in InScript /\ pc' = "loop"
    BY <1>4 DEF SkipProfile, NotReady, Teardown, Advance, fw
  <2>. QED  BY <2>1
<1>5. CASE EnterRunOne
  <2>1. /\ pi \in 1 .. Len(ProfilesToRun) /\ profile \in Defined /\ Subscribes(fw, profile)
        /\ ci \in 1 .. Len(Conns[profile]) /\ fw \in Frameworks
    BY <1>5, FwInFrameworks, OrderAssumption DEF EnterRunOne, TypeInv, LoopTypeOK, PositionOK
  <2>2. <<profile, Conns[profile][ci]>> \in Asked[fw]
    BY <2>1, AskedRuns DEF profile
  <2>3. /\ UNCHANGED <<fw, profile, ci, results, site>> /\ pc \in InScript
        /\ tried' = tried \cup {<<profile, Conns[profile][ci]>>}
    BY <1>5 DEF EnterRunOne, fw, profile
  <2>. QED  BY <2>2, <2>3
<1>6. CASE SaveResult
  BY <1>6 DEF SaveResult, fw, profile
<1>7. CASE Rebuild
  BY <1>7 DEF Rebuild, Published, Fail, fw
<1>8. CASE Killed \/ NextFramework \/ Finish
  BY <1>8 DEF Killed, NextFramework, Finish
<1>. QED
  BY <1>1, <1>2, <1>3, <1>4, <1>5, <1>6, <1>7, <1>8 DEF Next, Script, RunOne

\* The rows as the promise names them.
Shown(S) == {<<r[1], <<r[2], r[3]>>>> : r \in S}
Met == IF pc \in {"workflow", "finished"} THEN {} ELSE tried

LEMMA PromiseStep ==
  TypeInv /\ RowsInv /\ TriedInv /\ MetInv /\ [Next]_vars
    => [Promise!Next]_(Promise!resultVars)
<1>. SUFFICES ASSUME TypeInv, RowsInv, TriedInv, MetInv, [Next]_vars
              PROVE  Promise!Next \/ UNCHANGED Promise!resultVars
  OBVIOUS
<1>. USE DEF InScript, InRunOne, BetweenRuns, posVars, histVars, outVars
<1>a. ASSUME UNCHANGED <<k, Met, results, site, failed>>, pc # "finished", pc' # "finished"
      PROVE  UNCHANGED Promise!resultVars
  BY <1>a DEF Promise!resultVars, Met
<1>b. pc \in InScript => /\ Promise!InTurn /\ Promise!Turn = fw
                         /\ fw \in Frameworks /\ k \in DOMAIN List
  <2>. SUFFICES ASSUME pc \in InScript
                PROVE  /\ Promise!InTurn /\ Promise!Turn = fw
                       /\ fw \in Frameworks /\ k \in DOMAIN List
    OBVIOUS
  <2>1. k \in 1 .. Len(List) /\ DOMAIN List = 1 .. Len(List)
    BY ListAssumption DEF TypeInv, PositionOK
  <2>2. fw \in Frameworks /\ DOMAIN Asked = Frameworks
    BY <2>1, FwInFrameworks DEF Asked
  <2>. QED  BY <2>1, <2>2 DEF Promise!InTurn, Promise!Turn, fw
<1>1. CASE UNCHANGED vars
  BY <1>1 DEF vars, Promise!resultVars
<1>2. CASE Invoke
  BY <1>2, <1>a DEF Invoke, Met
<1>3. CASE \/ Setup \/ StartPostgres \/ SkipProfile \/ ResetPostgres \/ LaunchStack \/ StackUp
           \/ LaunchFramework \/ ServerReady \/ NotReady \/ Measure \/ Teardown \/ CleanupAll
  <2>1. UNCHANGED <<k, tried, results, site, failed>> /\ pc \in InScript
    BY <1>3
    DEF Setup, StartPostgres, SkipProfile, ResetPostgres, LaunchStack, StackUp, LaunchFramework,
        ServerReady, NotReady, Measure, Teardown, CleanupAll
  <2>2. pc' \in InScript
    BY <1>3
    DEF Setup, StartPostgres, SkipProfile, ResetPostgres, LaunchStack, StackUp, LaunchFramework,
        Fail, ServerReady, NotReady, Measure, Teardown, CleanupAll, Advance
  <2>. QED  BY <1>a, <2>1, <2>2 DEF Met
<1>9. CASE RedisAppears
  BY <1>9 DEF RedisAppears, Promise!resultVars, Met
<1>4. CASE EnterRunOne
  <2>1. MetInv' /\ pc' = "reset" /\ pc = "loop"
    BY <1>4, NextMetInv DEF EnterRunOne
  <2>2. PICK run : run = <<profile, Conns[profile][ci]>>
    OBVIOUS
  <2>3. tried' = tried \cup {run} /\ UNCHANGED <<k, results, site, failed, fw>>
    BY <1>4, <2>2 DEF EnterRunOne, fw
  <2>4. run \in Asked[fw]
    BY <2>1, <2>3 DEF MetInv
  <2>5. Promise!Attend
    BY <1>b, <2>1, <2>3, <2>4 DEF Promise!Attend
  <2>. QED  BY <2>5 DEF Promise!Next
<1>5. CASE SaveResult
  <2>1. /\ pc = "save" /\ pc' = "teardown" /\ UNCHANGED <<k, tried, site, failed>>
        /\ results' = IF Save THEN results \cup {key} ELSE results
    BY <1>5 DEF SaveResult
  <2>2. CASE ~Save
    BY <1>a, <2>1, <2>2 DEF Met
  <2>3. CASE Save
    <3>1. PICK run : run = <<profile, Conns[profile][ci]>>
      OBVIOUS
    <3>2. run \in tried
      BY <2>1, <3>1 DEF MetInv
    <3>3. key[1] = fw /\ <<key[2], key[3]>> = run
      BY <3>1 DEF key
    <3>4. Shown(results') = Shown(results) \cup {<<fw, run>>}
      BY <2>1, <2>3, <3>3 DEF Shown
    <3>5. Promise!SaveRow
      BY <1>b, <2>1, <3>2, <3>4 DEF Promise!SaveRow, Shown
    <3>. QED  BY <3>5 DEF Promise!Next
  <2>. QED  BY <2>2, <2>3
<1>6. CASE Rebuild
  <2>1. /\ pc = "loop" /\ pc' = "exiting" /\ UNCHANGED <<k, tried, results, failed>>
        /\ site \subseteq site' /\ site' \subseteq site \cup results
    BY <1>6 DEF Rebuild, Published, Fail
  <2>2. site' \subseteq results
    BY <2>1 DEF MetInv
  <2>3. Shown(site) \subseteq Shown(site') /\ Shown(site') \subseteq Shown(results)
    BY <2>1, <2>2 DEF Shown
  <2>4. Promise!ShowRows
    BY <2>1, <2>3 DEF Promise!ShowRows, Shown
  <2>. QED  BY <2>4 DEF Promise!Next
<1>7. CASE Killed \/ NextFramework
  <2>1. /\ pc \in InScript /\ pc' = "workflow" /\ k' = k + 1 /\ UNCHANGED <<results, site>>
        /\ failed' \in {failed, failed \cup {fw}}
        /\ failed' = failed \cup {fw} \/ (pc = "exited" /\ code = 0)
    BY <1>7 DEF Killed, NextFramework, FailedAfter, TypeInv, RowsTypeOK
  <2>2. pc = "exited" /\ code = 0 => tried = Asked[fw]
    <3>. SUFFICES ASSUME pc = "exited", code = 0, NEW run \in Asked[fw] PROVE run \in tried
      BY DEF MetInv
    <3>1. PICK i \in 1 .. Len(ProfilesToRun), j \in Nat :
                /\ ProfilesToRun[i] \in Defined /\ Subscribes(fw, ProfilesToRun[i])
                /\ j \in 1 .. Len(Conns[ProfilesToRun[i]])
                /\ run = <<ProfilesToRun[i], Conns[ProfilesToRun[i]][j]>>
      BY <1>b, AskedRuns
    <3>2. TriedWhole(i)
      BY DEF TriedInv
    <3>. QED  BY <3>1, <3>2 DEF TriedWhole, TriedUpTo
  <2>3. (failed # {} => failed' # {}) /\ (failed' # {} \/ tried = Asked[fw])
    BY <2>1, <2>2
  <2>4. Promise!Leave
    BY <1>b, <2>1, <2>3 DEF Promise!Leave
  <2>. QED  BY <2>4 DEF Promise!Next
<1>8. CASE Finish
  <2>1. /\ pc = "workflow" /\ pc' = "finished" /\ k = Len(List) + 1
        /\ UNCHANGED <<k, results, site, failed>>
    BY <1>8, ListAssumption DEF Finish, TypeInv, LoopTypeOK
  <2>2. failed # {} \/ site = results
    BY <2>1 DEF RowsInv, MetInv
  <2>3. Promise!End
    BY <2>1, <2>2 DEF Promise!End
  <2>. QED  BY <2>3 DEF Promise!Next
<1>. QED
  BY <1>1, <1>2, <1>3, <1>4, <1>5, <1>6, <1>7, <1>8, <1>9 DEF Next, Script, RunOne

\* The workflow's loop over benchmark.sh implements ResultsPromise, whatever fails, and
\* wherever an invocation is killed.
THEOREM KeepsPromiseTheorem == Spec => KeepsPromise
<1>1. Init => Promise!Init
  BY DEF Init, Promise!Init
<1>2. Init => RowsInv /\ TriedInv /\ MetInv
  BY DEF Init, RowsInv, TriedInv, MetInv, InScript, InRunOne, BetweenRuns
<1>. QED
  BY <1>1, <1>2, NextRowsInv, NextTriedInv, NextMetInv, PromiseStep, InitTypeInv, NextTypeInv, PTL
  DEF Spec, KeepsPromise, Promise!Spec

=============================================================================
