----------------------------- MODULE BenchmarkPr -----------------------------
(***************************************************************************)
(* .github/workflows/benchmark-pr.yml on one pull request: the runs of the *)
(* concurrency group benchmark-pr-<pr>, one at a time, against a branch its *)
(* author keeps pushing to and a main that keeps moving.  The data is the  *)
(* one result file per framework under site/data/results; its content is a *)
(* number, fresh for every benchmark, and 0 is an absent file.             *)
(*                                                                         *)
(* Left out: frameworks.json and current.json (staged with the results, so *)
(* a commit may exist without a changed result file), the logs, and what   *)
(* the comments say beyond the outcome.                                    *)
(***************************************************************************)
EXTENDS Naturals, SequencesExt

CONSTANTS
  Frameworks,  \* the entries with a directory on the branch
  Published,   \* those with a result file on main at first
  MaxRuns,     \* bound: runs dispatched
  MaxClock     \* bound: commits by others plus benchmark jobs that measured

ASSUME PublishedAssumption == Published \subseteq Frameworks
ASSUME BoundsAssumption == MaxRuns \in Nat /\ MaxClock \in Nat

VARIABLES
  mains,      \* the result files of each commit of main
  pr,         \* the commits of the branch; base is the last commit of main merged
  permitted,  \* may the workflow's token push to the branch's repository?
  clock,      \* the last content number given out
  runs,       \* runs dispatched
  pc,         \* the step the run is at
  list, save, \* inputs: the resolved frameworks, --save
  local,      \* the commits of the runner's HEAD
  index, wt,  \* the runner's index and working tree
  tmp,        \* /tmp/pr_site_data, main_site_data and bench_site_data
  measured,   \* what this run's benchmarks measured (history)
  merged,     \* the commit of main the merge step saw (history)
  fetched,    \* main's files when they were fetched to compare with (history)
  baseline,   \* site/data as compare.sh read it
  said        \* what the run told the pull request or its log

remoteVars == <<mains, pr, permitted, clock>>
inputVars == <<runs, list, save>>
treeVars == <<local, index, wt, tmp>>
histVars == <<measured, merged, fetched, baseline>>
vars == <<remoteVars, inputVars, treeVars, histVars, pc, said>>

Trees == [Frameworks -> Nat]
Empty == [f \in Frameworks |-> 0]
NoDir == [f \in {} |-> 0]
NoTmp == [pr |-> NoDir, main |-> NoDir, bench |-> NoDir]

\* cp -r over/* tree/: files are added and replaced, none is removed.
Overlay(tree, over) ==
  [f \in Frameworks |-> IF over[f] # 0 THEN over[f] ELSE tree[f]]

\* cp -r tree dir: a directory that is already there keeps its files, since the
\* copy lands in a subdirectory of it.
CopyTo(dir, tree) == IF dir = NoDir THEN tree ELSE dir

\* The files that merging commit m of main into c could need a human for: changed
\* on both sides, and not alike.
ConflictFiles(c, m) ==
  {f \in Frameworks : Cardinality({c.tree[f], mains[m][f], mains[c.base][f]}) = 3}

Init ==
  /\ mains = <<[f \in Frameworks |-> IF f \in Published THEN 1 ELSE 0]>>
  /\ pr = <<[tree |-> mains[1], base |-> 1, by |-> "author"]>>
  /\ permitted \in BOOLEAN
  /\ clock = 1 /\ runs = 0
  /\ pc = "idle" /\ list = {} /\ save = FALSE
  /\ local = pr /\ index = Empty /\ wt = Empty /\ tmp = NoTmp
  /\ measured = Empty /\ merged = 1 /\ fetched = Empty /\ baseline = Empty
  /\ said = "nothing"

-----------------------------------------------------------------------------
(* The others *)

\* A commit reaches main: code only, or with a framework's new results.
MainMoves ==
  /\ clock < MaxClock
  /\ clock' = clock + 1
  /\ \E t \in {Last(mains)} \cup {[Last(mains) EXCEPT ![f] = clock'] : f \in Frameworks} :
       mains' = Append(mains, t)
  /\ UNCHANGED <<pr, permitted, inputVars, treeVars, histVars, pc, said>>

\* The author pushes code.
AuthorPushes ==
  /\ clock < MaxClock
  /\ clock' = clock + 1
  /\ pr' = Append(pr, [Last(pr) EXCEPT !.by = "author"])
  /\ UNCHANGED <<mains, permitted, inputVars, treeVars, histVars, pc, said>>

\* The author merges main and settles any conflict for one side or the other.
AuthorMergesMain ==
  LET m == Len(mains)
      c == Last(pr)
      Clean(f) == IF c.tree[f] = mains[c.base][f] THEN mains[m][f] ELSE c.tree[f]
  IN /\ c.base < m
     /\ \E mine \in SUBSET ConflictFiles(c, m) :
          pr' = Append(pr, [tree |-> [f \in Frameworks |->
                                        IF f \in ConflictFiles(c, m) \ mine
                                          THEN mains[m][f] ELSE Clean(f)],
                            base |-> m, by |-> "author"])
     /\ UNCHANGED <<mains, permitted, clock, inputVars, treeVars, histVars, pc, said>>

-----------------------------------------------------------------------------
(* The steps of a run *)

\* The run's inputs; actions/checkout leaves index and tree at the pull
\* request's head, and /tmp as the host's last run left it.
Checkout ==
  /\ pc = "idle" /\ runs < MaxRuns
  /\ runs' = runs + 1
  /\ list' \in SUBSET Frameworks \ {{}}
  /\ save' \in BOOLEAN
  /\ local' = pr
  /\ index' = Last(pr).tree /\ wt' = Last(pr).tree
  /\ measured' = Empty /\ merged' = 1 /\ fetched' = Empty /\ baseline' = Empty
  /\ said' = "nothing"
  /\ pc' = IF save' THEN "merge" ELSE "clean"
  /\ UNCHANGED <<remoteVars, tmp>>

\* Mutant: the branch is left where it is.
MergeSkipped ==
  /\ pc = "merge"
  /\ merged' = Len(mains) /\ pc' = "clean" /\ said' = said
  /\ UNCHANGED <<remoteVars, inputVars, treeVars, measured, fetched, baseline>>

\* `git fetch origin main --depth=1` cuts main's tip off from its history: unless
\* the branch contains the tip already, the merge has no common ancestor to work
\* from, is refused, and the run ends with a comment.
MergeMain ==
  /\ pc = "merge"
  /\ merged' = Len(mains)
  /\ IF Last(local).base = Len(mains)
       THEN pc' = "clean" /\ said' = said
       ELSE pc' = "idle" /\ said' = "diverged"
  /\ UNCHANGED <<remoteVars, inputVars, treeVars, measured, fetched, baseline>>

\* Mutant: the copies of earlier runs stay.
CleanNothing ==
  /\ pc = "clean"
  /\ pc' = "fetch"
  /\ UNCHANGED <<remoteVars, inputVars, treeVars, histVars, said>>

\* Containers, results/ and the copies in /tmp go.
Clean ==
  /\ pc = "clean"
  /\ tmp' = NoTmp
  /\ pc' = "fetch"
  /\ UNCHANGED <<remoteVars, inputVars, local, index, wt, histVars, said>>

\* Mutant: main's tree replaces the index, removals included.
FetchMainReplaces ==
  /\ pc = "fetch"
  /\ tmp' = [tmp EXCEPT !.pr = CopyTo(@, wt), !.main = CopyTo(@, Last(mains))]
  /\ index' = Last(mains)
  /\ wt' = Overlay(Last(mains), tmp'.pr)
  /\ fetched' = Last(mains)
  /\ pc' = "bench"
  /\ UNCHANGED <<remoteVars, inputVars, local, measured, merged, baseline, said>>

\* The branch's data is copied aside, main's checked out over it -- into the index
\* as well -- and copied aside, and the branch's copied back to the tree.
FetchMain ==
  /\ pc = "fetch"
  /\ LET over == Overlay(wt, Last(mains))
     IN /\ tmp' = [tmp EXCEPT !.pr = CopyTo(@, wt), !.main = CopyTo(@, over)]
        /\ index' = Overlay(index, Last(mains))
        /\ wt' = Overlay(over, tmp'.pr)
  /\ fetched' = Last(mains)
  /\ pc' = "bench"
  /\ UNCHANGED <<remoteVars, inputVars, local, measured, merged, baseline, said>>

\* benchmark.sh --save per framework of the list: any of them may fail, which does not
\* stop the loop, and rows it saved until then the next one's rebuild may still show.
RunBenchmarks ==
  /\ pc = "bench" /\ clock < MaxClock
  /\ clock' = clock + 1
  /\ \E done \in SUBSET list :
       /\ measured' = [f \in Frameworks |-> IF f \in done THEN clock' ELSE 0]
       /\ wt' = Overlay(wt, measured')
  /\ pc' = "compare"
  /\ UNCHANGED <<mains, pr, permitted, inputVars, local, index, tmp,
                 merged, fetched, baseline, said>>

\* Mutant: the results of the benchmark are not put back.
CompareForgetsRestore ==
  /\ pc = "compare"
  /\ tmp' = [tmp EXCEPT !.bench = CopyTo(@, wt)]
  /\ baseline' = Overlay(wt, tmp.main)
  /\ wt' = baseline'
  /\ pc' = "commit"
  /\ UNCHANGED <<remoteVars, inputVars, local, index, measured, merged, fetched, said>>

\* The results are copied aside, main's laid over them for compare.sh, and the
\* results copied back.
Compare ==
  /\ pc = "compare"
  /\ tmp' = [tmp EXCEPT !.bench = CopyTo(@, wt)]
  /\ baseline' = Overlay(wt, tmp.main)
  /\ wt' = Overlay(baseline', tmp'.bench)
  /\ pc' = "commit"
  /\ UNCHANGED <<remoteVars, inputVars, local, index, measured, merged, fetched, said>>

\* What the commit will hold: the index, with the listed frameworks' files added.
Staged ==
  [f \in Frameworks |-> IF f \in list /\ wt[f] # 0 THEN wt[f] ELSE index[f]]

\* The branch's repository takes a push it permits and can fast-forward to.
Accepts(commits) == permitted /\ IsPrefix(pr, commits)

\* One commit of what is staged, if anything is; a refused push only warns.
CommitResults ==
  /\ pc = "commit"
  /\ \/ /\ ~save \/ Staged = Last(local).tree
        /\ UNCHANGED <<pr, local, said>>
     \/ /\ save
        /\ local' = Append(local, [tree |-> Staged, base |-> Last(local).base, by |-> "bot"])
        /\ IF Accepts(local')
             THEN pr' = local' /\ said' = "pushed"
             ELSE pr' = pr /\ said' = "permissions"
  /\ pc' = "idle"
  /\ UNCHANGED <<mains, permitted, clock, inputVars, index, wt, tmp, histVars>>

\* A step fails, or the run is cancelled or times out.
RunStops ==
  /\ pc # "idle"
  /\ pc' = "idle"
  /\ UNCHANGED <<remoteVars, inputVars, treeVars, histVars, said>>

Next ==
  \/ MainMoves \/ AuthorPushes \/ AuthorMergesMain
  \/ Checkout \/ MergeMain \/ Clean \/ FetchMain \/ RunBenchmarks \/ Compare
  \/ CommitResults \/ RunStops

Spec == Init /\ [][Next]_vars

-----------------------------------------------------------------------------
(* Properties *)

Commits == [tree : Trees, base : Nat \ {0}, by : {"author", "bot"}]
Dirs == Trees \cup {NoDir}

\* Every variable holds a value of its kind, and no commit has merged a main that
\* does not exist yet.
TypeOK ==
  /\ mains \in Seq(Trees) /\ mains # <<>>
  /\ pr \in Seq(Commits) /\ pr # <<>>
  /\ local \in Seq(Commits) /\ local # <<>>
  /\ \A i \in DOMAIN pr : pr[i].base <= Len(mains)
  /\ permitted \in BOOLEAN /\ clock \in Nat /\ runs \in Nat
  /\ pc \in {"idle", "merge", "clean", "fetch", "bench", "compare", "commit"}
  /\ list \subseteq Frameworks /\ save \in BOOLEAN
  /\ index \in Trees /\ wt \in Trees
  /\ tmp \in [pr : Dirs, main : Dirs, bench : Dirs]
  /\ measured \in Trees /\ merged \in Nat /\ fetched \in Trees /\ baseline \in Trees
  /\ said \in {"nothing", "diverged", "pushed", "permissions"}

\* This step is the run's successful push.
Pushes == pc = "commit" /\ said' = "pushed"

\* A pushed commit holds, for every framework the run benchmarked, exactly what was
\* measured, and for one whose benchmark failed the branch's own results if it
\* has any: the files swapped in to compare with main never get committed as
\* results.
CommittedIsMeasured ==
  [][Pushes => \A f \in list :
       LET own == Last(local).tree[f]
       IN IF measured[f] # 0 THEN Last(pr').tree[f] = measured[f]
          ELSE own # 0 => Last(pr').tree[f] = own]_vars

\* Results an earlier run saved for an entry main does not have yet are still there
\* after a run on other entries.
NewEntriesKeepResults ==
  [][Pushes => \A f \in Frameworks \ list :
       Last(mains)[f] = 0 => Last(pr').tree[f] = Last(local).tree[f]]_vars

\* "Merging main here lands the bench commit on a base that's already in sync, so
\* the PR stays MERGEABLE": a pushed commit has no conflict with main as it was
\* when the run merged it.
SavedStaysMergeable ==
  [][Pushes => ConflictFiles(Last(pr'), merged) = {}]_vars

\* Whatever earlier runs left behind, an entry's deltas are taken against the
\* results main had when this run fetched them.
BaselineIsMain ==
  [][pc = "compare" /\ pc' = "commit" =>
       \A f \in list : fetched[f] # 0 => baseline'[f] = fetched[f]]_vars

\* "a run only ever stages the frameworks it benchmarked": the result files of
\* other frameworks are as the branch had them, at least when main did not move
\* while the run prepared.
OnlyBenchmarkedStaged ==
  [][Pushes /\ fetched = mains[merged] => \A f \in Frameworks \ list :
       Last(pr').tree[f] = Last(local).tree[f]]_vars

=============================================================================
