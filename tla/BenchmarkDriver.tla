--------------------------- MODULE BenchmarkDriver ---------------------------
(***************************************************************************)
(* scripts/benchmark.sh, run once per framework by the workflows' benchmark *)
(* loop: clean slate, image builds, the Postgres sidecar, then one run_one *)
(* per subscribed profile and connection count, the rebuild of the site    *)
(* data, and the EXIT trap.  A step may `fail` (exit 1, the trap runs) and *)
(* the process may be killed (no trap).                                    *)
(***************************************************************************)
EXTENDS BenchHost, Sequences

CONSTANTS
  List,           \* the frameworks the workflow benchmarks, in order
  ProfilesToRun,  \* profiles_to_run: PROFILE_ORDER, or the one profile asked for
  Conns,          \* per defined profile, its connection counts in order
  Tests,          \* per framework, the tests of its meta.json; {} means all
  Save,           \* was --save given?
  MayBeKilled,    \* can the process die without its trap?
  OtherRedis      \* may something else on the host start the Redis sidecar?

DbProfiles == {"async-db", "fortunes"}
WsProfiles == {"echo-ws", "echo-ws-pipeline", "echo-ws-limited"}

\* PROFILES: the profiles that have a definition.
Defined == DOMAIN Conns

ASSUME ListAssumption == List \in Seq(Frameworks)
ASSUME ConnsAssumption == \A p \in Defined : Conns[p] \in Seq(Nat) /\ Conns[p] # <<>>
ASSUME TestsAssumption == Tests \in [Frameworks -> SUBSET Defined]
ASSUME FlagsAssumption ==
  Save \in BOOLEAN /\ MayBeKilled \in BOOLEAN /\ OtherRedis \in BOOLEAN
\* PROFILE_ORDER lists async-db and fortunes before every compose profile.
ASSUME OrderAssumption ==
  /\ ProfilesToRun \in Seq(STRING)
  /\ \A i, j \in 1..Len(ProfilesToRun) :
       i < j /\ ProfilesToRun[j] \in DbProfiles => ProfilesToRun[i] \notin GatewayProfiles

VARIABLES
  pc,       \* where benchmark.sh, or the workflow's loop around it, stands
  k,        \* the workflow's position in List
  pi, ci,   \* the loop's position in ProfilesToRun and in that profile's Conns
  pgDirty,  \* PG_DIRTY
  meas,     \* what the measured load was applied to (history)
  lateRedis,\* was Redis started by others since the script last looked? (history)
  tried,    \* the runs this invocation entered (history)
  code,     \* exit status of the invocation
  results,  \* the rows under results/
  site,     \* the rows under site/data
  failed    \* FAILED, the workflow's list of failed frameworks

posVars == <<k, pi, ci>>
histVars == <<meas, lateRedis, tried>>
outVars == <<results, site, failed>>
vars == <<hostVars, shellVars, posVars, histVars, outVars, pc, pgDirty, code>>

fw == List[k]
profile == ProfilesToRun[pi]
key == <<fw, profile, Conns[profile][ci]>>
isGateway == profile \in GatewayProfiles

Subscribes(f, p) == Tests[f] = {} \/ p \in Tests[f]

\* Mutant: the compose profiles are not counted among the users of Postgres.
NeedPgForDbOnly(f) == \E p \in DbProfiles : Subscribes(f, p)

NeedPg(f) == \E p \in DbProfiles \cup GatewayProfiles : Subscribes(f, p)
WsOnly(f) == Tests[f] # {} /\ Tests[f] \subseteq WsProfiles

\* by: who served the load; pg: the state of Postgres when it began; cache: who
\* held the cache port.
NoMeas == [by |-> "none", pg |-> "absent", cache |-> "none"]
Foreign == {"other container", "other stack"}
Servers == {"own container", "own stack", "nobody"} \cup Foreign
Caches == {"own", "sidecar", "other stack", "nobody"}
Measures == [by: Servers, pg: PgStates, cache: Caches] \cup {NoMeas}

\* A row: one framework, profile and connection count.
Rows == Frameworks \X Defined \X Nat

PcValues == {"workflow", "setup", "postgres", "loop", "reset", "launch", "up", "ready",
             "measure", "save", "teardown", "exiting", "exited", "finished"}

TypeOK ==
  /\ HostTypeOK
  /\ pc \in PcValues
  /\ k \in 1 .. Len(List) + 1
  /\ pi \in 1 .. Len(ProfilesToRun) + 1
  /\ ci \in Nat \ {0}
  /\ pgDirty \in BOOLEAN
  /\ meas \in Measures
  /\ lateRedis \in BOOLEAN
  /\ tried \subseteq Defined \X Nat
  /\ code \in {0, 1}
  /\ results \subseteq Rows
  /\ site \subseteq Rows
  /\ failed \subseteq Frameworks

Init ==
  /\ LeftOver
  /\ active = NoProject /\ stoppedRedis = FALSE
  /\ pc = "workflow" /\ k = 1 /\ pi = 1 /\ ci = 1
  /\ pgDirty = FALSE /\ meas = NoMeas /\ lateRedis = FALSE /\ tried = {} /\ code = 0
  /\ results = {} /\ site = {} /\ failed = {}

-----------------------------------------------------------------------------
(* The invocation: clean slate, builds, tuning, Postgres *)

\* A new process: the clean slate, and shell variables start over.
Invoke ==
  /\ pc = "workflow" /\ k <= Len(List)
  /\ ClearHost
  /\ active' = NoProject /\ stoppedRedis' = FALSE
  /\ pi' = 1 /\ ci' = 1 /\ pgDirty' = FALSE /\ tried' = {} /\ code' = 0
  /\ meas' = NoMeas /\ lateRedis' = FALSE
  /\ pc' = "setup"
  /\ UNCHANGED <<k, outVars>>

Fail ==
  /\ pc' = "exiting"
  /\ code' = 1

\* Metadata, generator images, framework image, tuning: the first one that
\* fails ends the run.
Setup ==
  /\ pc = "setup"
  /\ \/ pc' = "postgres" /\ UNCHANGED code
     \/ Fail
  /\ UNCHANGED <<hostVars, shellVars, posVars, pgDirty, histVars, outVars>>

\* The sidecar is started up front if any subscribed test needs it.
StartPostgres ==
  /\ pc = "postgres"
  /\ IF NeedPg(fw)
       THEN \E ready \in BOOLEAN :
              /\ PostgresStart(ready)
              /\ IF ready THEN pc' = "loop" /\ UNCHANGED code ELSE Fail
       ELSE pc' = "loop" /\ UNCHANGED <<hostVars, shellVars, code>>
  /\ UNCHANGED <<posVars, pgDirty, histVars, outVars>>

-----------------------------------------------------------------------------
(* The main loop and run_one *)

NextProfile == pi' = pi + 1 /\ ci' = 1

\* Mutant: the first server that does not come up ends the profile.
AdvanceBreaks == NextProfile /\ pc' = "loop"

\* Mutant: a run is retried until its server comes up.
AdvanceRetries == pc' = "loop" /\ UNCHANGED <<pi, ci>>

\* After a run_one, whatever its status: the next connection count, or profile.
Advance ==
  /\ IF ci < Len(Conns[profile]) THEN ci' = ci + 1 /\ UNCHANGED pi ELSE NextProfile
  /\ pc' = "loop"

\* A profile without a definition, or one the framework does not subscribe to.
SkipProfile ==
  /\ pc = "loop" /\ pi <= Len(ProfilesToRun)
  /\ profile \notin Defined \/ ~Subscribes(fw, profile)
  /\ NextProfile
  /\ UNCHANGED <<hostVars, shellVars, pc, k, pgDirty, histVars, code, outVars>>

EnterRunOne ==
  /\ pc = "loop" /\ pi <= Len(ProfilesToRun)
  /\ profile \in Defined /\ Subscribes(fw, profile)
  /\ pc' = "reset"
  /\ meas' = NoMeas
  /\ tried' = tried \cup {<<profile, Conns[profile][ci]>>}
  /\ UNCHANGED lateRedis
  /\ UNCHANGED <<hostVars, shellVars, posVars, pgDirty, code, outVars>>

\* Mutant: PG_DIRTY is never set.
PgNeverDirty == pgDirty

\* Only async-db and fortunes use PG_DIRTY: the first of them sets it.
PgDirtyAfter == pgDirty \/ profile \in DbProfiles

\* Only async-db and fortunes reset Postgres, and the first of
\* them keeps the server that was started up front.
ResetPostgres ==
  /\ pc = "reset"
  /\ pgDirty' = PgDirtyAfter
  /\ IF profile \in DbProfiles /\ pgDirty
       THEN \E ready \in BOOLEAN :
              /\ PostgresStart(ready)
              /\ IF ready THEN pc' = "launch" /\ UNCHANGED code ELSE Fail
       ELSE pc' = "launch" /\ UNCHANGED <<hostVars, shellVars, code>>
  /\ UNCHANGED <<posVars, histVars, outVars>>

\* gateway_up until it has looked for Redis: without a compose file it fails.
LaunchStack ==
  /\ pc = "launch" /\ isGateway
  /\ GatewayUp(<<fw, profile>>)
  /\ lateRedis' = FALSE
  /\ IF <<fw, profile>> \in ComposeFiles THEN pc' = "up" /\ UNCHANGED code ELSE Fail
  /\ UNCHANGED <<posVars, pgDirty, meas, tried, outVars>>

\* The `compose up` of gateway_up.
StackUp ==
  /\ pc = "up"
  /\ ComposeUp(<<fw, profile>>)
  /\ \/ pc' = "ready" /\ UNCHANGED code
     \/ Fail
  /\ UNCHANGED <<posVars, pgDirty, histVars, outVars>>

LaunchFramework ==
  /\ pc = "launch" /\ ~isGateway
  /\ FrameworkStart(fw)
  /\ pc' = "ready"
  /\ UNCHANGED <<posVars, pgDirty, histVars, code, outVars>>

\* Any listener on the probed port passes; a WebSocket-only framework is not
\* probed at all.
ServerReady ==
  /\ pc = "ready"
  /\ WsOnly(fw) \/ Answers("server")
  /\ pc' = "measure"
  /\ UNCHANGED <<hostVars, shellVars, posVars, pgDirty, histVars, code, outVars>>

\* The probe gives up: dump logs, tear down, skip.
NotReady ==
  /\ pc = "ready" /\ ~WsOnly(fw)
  /\ bench' = StoppedBench(fw)
  /\ IF isGateway THEN GatewayDown ELSE UNCHANGED <<stack, redis, active, stoppedRedis>>
  /\ UNCHANGED pg
  /\ Advance
  /\ UNCHANGED <<k, pgDirty, histVars, code, outVars>>

\* Who serves the load the profile generates: whoever has the edge port for a stack,
\* the server port otherwise.
Port == IF isGateway THEN "edge" ELSE "server"

ServedBy ==
  CASE isGateway /\ Port \in stack[<<fw, profile>>] -> "own stack"
    [] ~isGateway /\ bench[fw] = "serving" -> "own container"
    [] OTHER -> IF StackHolds(Port) THEN "other stack"
                ELSE IF Answers(Port) THEN "other container" ELSE "nobody"

CacheHeldBy ==
  IF isGateway /\ "cache" \in stack[<<fw, profile>>] THEN "own"
  ELSE IF StackHolds("cache") THEN "other stack"
  ELSE IF redis THEN "sidecar" ELSE "nobody"

\* The best-of-RUNS loop, as one load: a database profile and a compose stack
\* leave Postgres used.  A server that died since the probe serves nothing.
Measure ==
  /\ pc = "measure"
  /\ \E by \in {ServedBy, "nobody"} :
       meas' = [by |-> by, pg |-> pg, cache |-> CacheHeldBy]
  /\ pg' = IF profile \in DbProfiles \cup GatewayProfiles /\ pg = "fresh" THEN "used" ELSE pg
  /\ pc' = "save"
  /\ UNCHANGED <<bench, stack, redis, shellVars, posVars, pgDirty, lateRedis, tried, code, outVars>>

SaveResult ==
  /\ pc = "save"
  /\ results' = IF Save THEN results \cup {key} ELSE results
  /\ pc' = "teardown"
  /\ UNCHANGED <<hostVars, shellVars, posVars, pgDirty, histVars, code, site, failed>>

\* Mutant: the container is left to the next framework_start.
StopRunLeavesContainer ==
  IF isGateway THEN GatewayDown /\ UNCHANGED bench
               ELSE UNCHANGED <<bench, stack, redis, active, stoppedRedis>>

StopRun ==
  IF isGateway
    THEN GatewayDown /\ UNCHANGED bench
    ELSE bench' = StoppedBench(fw) /\ UNCHANGED <<stack, redis, active, stoppedRedis>>

Teardown ==
  /\ pc = "teardown"
  /\ StopRun
  /\ UNCHANGED pg
  /\ Advance
  /\ UNCHANGED <<k, pgDirty, histVars, code, outVars>>

-----------------------------------------------------------------------------
(* The end of an invocation, and the loop around it *)

\* Mutant: a framework's rebuild folds in its own rows only.
PublishedOwnRows == site \cup {r \in results : r[1] = fw}

\* rebuild_site_data.py folds every row under results/ into the site's data.
Published == site \cup results

\* It writes one file per framework, and may fail before any of them.
Rebuild ==
  /\ pc = "loop" /\ pi > Len(ProfilesToRun)
  /\ \/ /\ site' = IF Save THEN Published ELSE site
        /\ pc' = "exiting" /\ UNCHANGED code
     \/ /\ Save
        /\ \E done \in SUBSET Frameworks :
             site' = site \cup {r \in Published : r[1] \in done}
        /\ Fail
  /\ UNCHANGED <<hostVars, shellVars, posVars, pgDirty, histVars, results, failed>>

\* The EXIT trap.
CleanupAll ==
  /\ pc = "exiting"
  /\ bench' = StoppedBench(fw)
  /\ ComposeDown
  /\ pg' = "absent"
  /\ redis' = FALSE
  /\ stoppedRedis' = FALSE
  /\ lateRedis' = FALSE
  /\ pc' = "exited"
  /\ UNCHANGED <<posVars, pgDirty, meas, tried, code, outVars>>

\* The process dies wherever it stands; containers stay, the trap does not run.
Killed ==
  /\ MayBeKilled
  /\ pc \in {"setup", "postgres", "loop", "reset", "launch", "up", "ready", "measure",
             "save", "teardown", "exiting"}
  /\ pc' = "workflow" /\ k' = k + 1
  /\ failed' = failed \cup {fw}
  /\ UNCHANGED <<hostVars, shellVars, pi, ci, pgDirty, histVars, code, results, site>>

\* Mutant: the status of the pipeline is tee's, not benchmark.sh's.
FailedUnseen == failed

FailedAfter == IF code # 0 THEN failed \cup {fw} ELSE failed

\* The workflow notes a failure and goes on to the next framework.
NextFramework ==
  /\ pc = "exited"
  /\ failed' = FailedAfter
  /\ pc' = "workflow" /\ k' = k + 1
  /\ UNCHANGED <<hostVars, shellVars, pi, ci, pgDirty, histVars, code, results, site>>

Finish ==
  /\ pc = "workflow" /\ k > Len(List)
  /\ pc' = "finished"
  /\ UNCHANGED <<hostVars, shellVars, posVars, pgDirty, histVars, code, outVars>>

\* Something else on the host starts the sidecar, at any moment its port is free.
RedisAppears ==
  /\ OtherRedis
  /\ ~redis /\ ~StackHolds("cache")
  /\ redis' = TRUE /\ lateRedis' = TRUE
  /\ UNCHANGED <<bench, stack, pg, shellVars, posVars, meas, tried, outVars, pc, pgDirty, code>>

RunOne == \/ EnterRunOne \/ ResetPostgres \/ LaunchStack \/ StackUp \/ LaunchFramework
          \/ ServerReady \/ NotReady \/ Measure \/ SaveResult \/ Teardown

Script == \/ Invoke \/ Setup \/ StartPostgres \/ SkipProfile \/ RunOne
          \/ Rebuild \/ CleanupAll \/ NextFramework \/ Finish

Next == Script \/ Killed \/ RedisAppears

Spec == Init /\ [][Next]_vars

FairSpec == Spec /\ WF_vars(Script)

-----------------------------------------------------------------------------
(* Properties *)

\* A run of async-db or fortunes measures a freshly seeded Postgres, whatever
\* ran before it in the invocation (benchmark.sh resets it between the two).
DbProfileSeesFreshPostgres ==
  pc = "save" /\ profile \in DbProfiles => meas.pg = "fresh"

\* A compose profile always finds Postgres up: the list that decides on the
\* upfront postgres_start covers every profile whose server needs it.
StackHasPostgres ==
  pc = "save" /\ isGateway => meas.pg \in {"fresh", "used"}

\* The load of a run is served by the server that run started, or by nobody: never by
\* a framework container or a stack that an earlier run, an earlier invocation or
\* somebody before the job left on the host.
RunMeasuresItsOwnServer ==
  pc = "save" => meas.by \notin Foreign

\* The same for compose profiles alone, which holds even when a swallowed
\* `compose down` failure leaves an earlier stack up.
StackRunMeasuresItsOwnStack ==
  pc = "save" /\ isGateway => meas.by \notin Foreign

\* A production-stack run is never measured against another stack's cache, and against
\* the harness Redis sidecar only if something else started it after gateway_up had
\* looked: between the look and `compose up`, or once the stack's own cache was gone.
StackRunUsesItsOwnCache ==
  pc = "save" /\ isGateway /\ "cache" \in ServicesOf(profile) =>
    /\ meas.cache # "other stack"
    /\ meas.cache = "sidecar" => lateRedis

\* Once the EXIT trap has run nothing of the invocation is left on the host, wherever
\* in the script the exit came from; a sidecar that runs was started after it.
TrapLeavesHostClean ==
  pc = "exited" => ServersGone /\ (redis => lateRedis)

\* An invocation that ends well has entered every run it was asked for: a server that
\* never comes up costs its own run only, not the profile's other connection counts.
\* This is what the loop does, against the comment of run_one: see SkipsToNextProfile.
EverySubscribedRunIsTried ==
  pc = "exited" /\ code = 0 =>
    \A i \in DOMAIN ProfilesToRun :
      LET p == ProfilesToRun[i] IN
      p \in Defined /\ Subscribes(fw, p) =>
        \A j \in DOMAIN Conns[p] : <<p, Conns[p][j]>> \in tried

\* What the comment of run_one says of a server that failed to start: "main loop skips
\* to the next profile in that case".  The loop's `continue` is the inner one's: the
\* profile's next connection count is tried.
SkipsToNextProfile == [][pc = "ready" /\ pc' = "loop" => pi' = pi + 1]_vars

\* An invocation that ends well publishes every row on disk, those an earlier
\* invocation saved before it failed included.
SuccessPublishesEverything ==
  pc = "exited" /\ code = 0 => results \subseteq site

\* The job is flagged red whenever a saved row did not reach the site's data.
LossIsFlagged ==
  pc = "finished" /\ ~(results \subseteq site) => failed # {}

\* Postgres is replaced only while no server that could hold connections to it
\* is running.
PostgresRestartsUnseen ==
  [][pg # "fresh" /\ pg' = "fresh" => bench = NoBench /\ stack = NoStack]_vars

\* The workflow's loop over the script keeps the promise of ResultsPromise: rows are
\* of runs the current framework was asked for and has entered, none is lost or left
\* out without a failure on the list, and what is shown is what was saved.
Asked ==
  [f \in Frameworks |->
     UNION {{<<p, Conns[p][j]>> : j \in DOMAIN Conns[p]} :
              p \in {q \in Defined : Subscribes(f, q)
                                    /\ \E i \in DOMAIN ProfilesToRun : ProfilesToRun[i] = q}}]
Promise == INSTANCE ResultsPromise WITH
  list <- List,
  turn <- k,
  met <- IF pc \in {"workflow", "finished"} THEN {} ELSE tried,
  rows <- {<<r[1], <<r[2], r[3]>>>> : r \in results},
  shown <- {<<r[1], <<r[2], r[3]>>>> : r \in site},
  red <- failed # {},
  over <- pc = "finished"
KeepsPromise == Promise!Spec

\* The workflow's loop gets to its end: every wait of the script is bounded and
\* no failure stops it.
WorkflowFinishes == <>(pc = "finished")
=============================================================================
