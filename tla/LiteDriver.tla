------------------------------ MODULE LiteDriver -----------------------------
(***************************************************************************)
(* scripts/benchmark-lite.sh, the driver for local development: one        *)
(* framework or every directory under frameworks/ in one process, the lite *)
(* profiles, one connection count each, no compose stacks and no Redis.    *)
(***************************************************************************)
EXTENDS BenchHost, Sequences

CONSTANTS
  Loops,         \* what it may be asked for: every directory, or one
  Tests,         \* per framework, the tests of its meta.json; {} means all
  Disabled,      \* the frameworks with "enabled": false
  LiteProfiles,  \* PROFILES: the table the script puts in place of the full set
  LiteOrder,     \* PROFILE_ORDER, or the one profile asked for
  Save,          \* was --save given?
  ZrkInstalled   \* is zrk on PATH, or its image built?

ASSUME LoopsAssumption == Loops \subseteq Seq(STRING)
\* No profile is listed twice.
ASSUME LiteOrderAssumption ==
  /\ LiteOrder \in Seq(STRING)
  /\ \A i, j \in DOMAIN LiteOrder : LiteOrder[i] = LiteOrder[j] => i = j
ASSUME LiteTestsAssumption == Tests \in [Frameworks -> SUBSET STRING]
ASSUME LiteFlagsAssumption ==
  Disabled \subseteq Frameworks /\ Save \in BOOLEAN /\ ZrkInstalled \in BOOLEAN

VARIABLES
  dirs,       \* the directories of this invocation
  pc, k, pi,  \* the step, the directory and the profile
  meas,       \* what the last load was applied to (history)
  started,    \* the directories run_framework was called for (history)
  results,    \* the rows under results/; ok says whether a generator ran
  site,       \* the rows under site/data
  code        \* exit status

loopVars == <<dirs, k, pi>>
liteHist == <<meas, started>>
outVars == <<results, site>>
vars == <<hostVars, shellVars, loopVars, liteHist, outVars, pc, code>>

fw == dirs[k]
profile == LiteOrder[pi]
Subscribes(f, p) == Tests[f] = {} \/ p \in Tests[f]

\* Mutant: the list is searched without regard to its empty form.
NeedPgListed(f) == "async-db" \in Tests[f]

NeedPg(f) == Subscribes(f, "async-db")

\* A profile the loop enters run_one for.
ToRun(f, p) == p \in LiteProfiles /\ Subscribes(f, p)

\* endpoint_tool: the lite profile that zrk drives.
UsesZrk(p) == p = "8gbit"

NoMeas == [by |-> "none", pg |-> "absent"]
Foreign == {"other container", "other stack"}
Servers == {"own container", "nobody"} \cup Foreign

Init ==
  /\ LeftOver
  /\ active = NoProject /\ stoppedRedis = FALSE
  /\ dirs \in Loops
  /\ pc = "clean" /\ k = 1 /\ pi = 1
  /\ meas = NoMeas /\ started = {}
  /\ results = {} /\ site = {} /\ code = 0

-----------------------------------------------------------------------------

Fail == pc' = "exiting" /\ code' = 1

\* Every httparena-* container goes; then the generator images are built and the
\* host tuned, and a build may fail.
CleanSlate ==
  /\ pc = "clean"
  /\ ClearHost
  /\ \/ pc' = "loop" /\ UNCHANGED code
     \/ Fail
  /\ UNCHANGED <<shellVars, loopVars, liteHist, outVars>>

\* It has a meta.json, whose tests are all in the PROFILES the script has put in
\* place of the full set.
Accepted(f) == f \in Frameworks /\ Tests[f] \subseteq LiteProfiles

\* Mutant: a directory that is refused is passed over, as `|| warn' seems to say.
LoadMetaSkips ==
  /\ pc = "loop" /\ k <= Len(dirs)
  /\ started' = started \cup {fw}
  /\ IF ~Accepted(fw) \/ fw \in Disabled THEN k' = k + 1 /\ UNCHANGED pc
     ELSE pc' = "build" /\ UNCHANGED k
  /\ UNCHANGED <<hostVars, shellVars, dirs, pi, meas, outVars, code>>

\* framework_load_meta and framework_validate_tests; a `fail` is an exit, which the
\* caller's `|| warn` does not catch.  A disabled framework is skipped after that.
LoadMeta ==
  /\ pc = "loop" /\ k <= Len(dirs)
  /\ started' = started \cup {fw}
  /\ IF ~Accepted(fw) THEN Fail /\ UNCHANGED k
     ELSE /\ UNCHANGED code
          /\ IF fw \in Disabled
               THEN k' = k + 1 /\ UNCHANGED pc
               ELSE pc' = "build" /\ UNCHANGED k
  /\ UNCHANGED <<hostVars, shellVars, dirs, pi, meas, outVars>>

\* framework_build and, for async-db, postgres_start; either may fail.
Build ==
  /\ pc = "build"
  /\ pi' = 1
  /\ \/ Fail /\ UNCHANGED <<hostVars, shellVars>>
     \/ /\ NeedPg(fw)
        /\ \E ready \in BOOLEAN :
             /\ PostgresStart(ready)
             /\ IF ready THEN pc' = "profile" /\ UNCHANGED code ELSE Fail
     \/ /\ ~NeedPg(fw)
        /\ pc' = "profile" /\ UNCHANGED <<hostVars, shellVars, code>>
  /\ UNCHANGED <<dirs, k, liteHist, outVars>>

\* A profile that is not in the table, or that the framework does not subscribe to.
SkipProfile ==
  /\ pc = "profile" /\ pi <= Len(LiteOrder) /\ ~ToRun(fw, profile)
  /\ pi' = pi + 1
  /\ UNCHANGED <<hostVars, shellVars, pc, dirs, k, liteHist, outVars, code>>

Launch ==
  /\ pc = "profile" /\ pi <= Len(LiteOrder) /\ ToRun(fw, profile)
  /\ FrameworkStart(fw)
  /\ meas' = NoMeas
  /\ pc' = "ready"
  /\ UNCHANGED <<loopVars, started, outVars, code>>

\* Any listener passes the probe, and a WebSocket-only framework is not probed.
ServerReady ==
  /\ pc = "ready"
  /\ Answers("server") \/ Tests[fw] = {"echo-ws"}
  /\ pc' = "measure"
  /\ UNCHANGED <<hostVars, shellVars, loopVars, liteHist, outVars, code>>

NotReady ==
  /\ pc = "ready" /\ Tests[fw] # {"echo-ws"}
  /\ bench' = StoppedBench(fw)
  /\ pi' = pi + 1 /\ pc' = "profile"
  /\ UNCHANGED <<stack, pg, redis, shellVars, dirs, k, liteHist, outVars, code>>

ServedBy ==
  IF bench[fw] = "serving" THEN "own container"
  ELSE IF StackHolds("server") THEN "other stack"
  ELSE IF Answers("server") THEN "other container" ELSE "nobody"

\* The row of a run that was measured.
Row == [fw |-> fw, profile |-> profile, ok |-> UsesZrk(profile) => ZrkInstalled]

\* The best-of-RUNS loop, save_result unless it is a dry run, and framework_stop.
\* Without zrk, the `fail` of _zrk_cmd ends only the process substitution it runs in:
\* the command is built without a program, nothing runs, and zeros are saved.
Measure ==
  /\ pc = "measure"
  /\ \E by \in {ServedBy, "nobody"} : meas' = [by |-> by, pg |-> pg]
  /\ results' = IF Save THEN results \cup {Row} ELSE results
  /\ pg' = IF profile = "async-db" /\ pg = "fresh" THEN "used" ELSE pg
  /\ bench' = StoppedBench(fw)
  /\ pi' = pi + 1 /\ pc' = "profile"
  /\ UNCHANGED <<stack, redis, shellVars, dirs, k, started, site, code>>

\* Postgres is stopped with the framework that needed it.
EndFramework ==
  /\ pc = "profile" /\ pi > Len(LiteOrder)
  /\ pg' = IF NeedPg(fw) THEN "absent" ELSE pg
  /\ k' = k + 1 /\ pc' = "loop"
  /\ UNCHANGED <<bench, stack, redis, shellVars, dirs, pi, liteHist, outVars, code>>

\* rebuild_site_data.py folds every row under results/ into the site's data.
Published == site \cup results

\* With --save only.  It writes one file per framework, and may fail before any of them.
Rebuild ==
  /\ pc = "loop" /\ k > Len(dirs)
  /\ \/ /\ site' = IF Save THEN Published ELSE site
        /\ pc' = "exiting" /\ UNCHANGED code
     \/ /\ Save
        /\ \E done \in SUBSET Frameworks :
             site' = site \cup {r \in Published : r.fw \in done}
        /\ Fail
  /\ UNCHANGED <<hostVars, shellVars, loopVars, liteHist, results>>

\* Mutant: the sidecar is forgotten.
CleanupBench ==
  /\ pc = "exiting"
  /\ bench' = IF k <= Len(dirs) /\ fw \in Frameworks THEN StoppedBench(fw) ELSE bench
  /\ pc' = "exited"
  /\ UNCHANGED <<stack, pg, redis, shellVars, loopVars, liteHist, outVars, code>>

\* The EXIT trap: the last framework's container and Postgres.
CleanupAll ==
  /\ pc = "exiting"
  /\ bench' = IF k <= Len(dirs) /\ fw \in Frameworks THEN StoppedBench(fw) ELSE bench
  /\ pg' = "absent"
  /\ pc' = "exited"
  /\ UNCHANGED <<stack, redis, shellVars, loopVars, liteHist, outVars, code>>

Next ==
  \/ CleanSlate \/ LoadMeta \/ Build \/ SkipProfile \/ Launch \/ ServerReady \/ NotReady
  \/ Measure \/ EndFramework \/ Rebuild \/ CleanupAll

Spec == Init /\ [][Next]_vars

-----------------------------------------------------------------------------
(* Properties *)

Rows == [fw : Frameworks, profile : LiteProfiles, ok : BOOLEAN]

\* Every variable holds a value of its kind, and only enabled frameworks get as far
\* as a build.
TypeOK ==
  /\ HostTypeOK
  /\ pc \in {"build", "profile", "ready", "measure"} =>
       k <= Len(dirs) /\ fw \in Frameworks \ Disabled
  /\ pc \in {"clean", "loop", "build", "profile", "ready", "measure", "exiting", "exited"}
  /\ dirs \in Loops /\ k \in 1 .. Len(dirs) + 1 /\ pi \in 1 .. Len(LiteOrder) + 1
  /\ meas \in [by : Servers, pg : PgStates] \cup {NoMeas}
  /\ started \subseteq {dirs[i] : i \in DOMAIN dirs}
  /\ results \subseteq Rows /\ site \subseteq Rows /\ code \in {0, 1}

\* Whatever was left on the host before, another framework's container or a stack, the
\* load of a run never reaches it: the framework's own container answers, or nobody.
RunMeasuresItsOwnServer == meas.by \notin Foreign

\* An async-db run has a seeded Postgres that no other framework has used.
DbRunSeesFreshPostgres ==
  [][pc = "measure" /\ profile = "async-db" => pg = "fresh"]_vars

\* "running every enabled framework": a run of the script that succeeds has given
\* every enabled framework of the loop its turn, and shows every row it saved.
SuccessPublishesEverything ==
  pc = "exited" /\ code = 0 =>
    /\ results \subseteq site
    /\ \A i \in DOMAIN dirs : dirs[i] \in Frameworks \ Disabled => dirs[i] \in started

\* The script keeps the promise of ResultsPromise: rows are of runs it has started for
\* the framework whose turn it is, and it ends well only if no framework or run was
\* left out and every row is shown.
Asked ==
  [f \in Frameworks |->
     {p \in LiteProfiles : f \notin Disabled /\ Subscribes(f, p)
                             /\ \E i \in DOMAIN LiteOrder : LiteOrder[i] = p}]
Behind == IF pc \in {"ready", "measure"} THEN 1 .. pi ELSE 1 .. pi - 1
Promise == INSTANCE ResultsPromise WITH
  list <- dirs,
  turn <- k,
  met <- IF pc \in {"profile", "ready", "measure"}
           THEN {LiteOrder[i] : i \in Behind} \cap Asked[fw] ELSE {},
  rows <- {<<r.fw, r.profile>> : r \in results},
  shown <- {<<r.fw, r.profile>> : r \in site},
  red <- code # 0,
  over <- pc = "exited"
KeepsPromise == Promise!Spec

\* However the script ends, the trap leaves no container of it behind.
TrapLeavesHostClean == pc = "exited" => HostClean

=============================================================================
