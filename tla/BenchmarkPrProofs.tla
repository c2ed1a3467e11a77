-------------------------- MODULE BenchmarkPrProofs --------------------------
(***************************************************************************)
(* What a run of the benchmark workflow may do to a pull request's branch,  *)
(* for every set of entries and whatever happens on main, on the branch and *)
(* on the runner meanwhile.                                                 *)
(***************************************************************************)
EXTENDS BenchmarkPr, FiniteSetTheorems, TLAPS

\* The result files of the commit the run is based on.
Own == Last(local).tree

\* The run has merged main, it has fetched its results, it has benchmarked.
HasMerged == {"clean", "fetch", "bench", "compare", "commit"}
HasFetched == {"bench", "compare", "commit"}
HasMeasured == {"compare", "commit"}

\* The runner's commits are based on commits main has, and a run that saves works
\* on one that contains the main it merged.
BaseInv ==
  /\ \A i \in DOMAIN local : local[i].base <= Len(mains)
  /\ pc \in HasMerged /\ save => merged = Last(local).base

\* Only the last step of a run says how it went.
QuietInv == pc # "idle" => said = "nothing"

\* No result file ever leaves main.
FetchedInv == \A f \in Frameworks : fetched[f] # 0 => Last(mains)[f] # 0

\* Where the files of the branch, of main and of the benchmark are at each step:
\* in the tree a measured file covers the branch's own, which covers main's; in the
\* index, main's covers the branch's.
TreeInv ==
  /\ pc \in {"merge", "clean", "fetch"} => index = Own /\ wt = Own
  /\ pc = "fetch" => tmp = NoTmp
  /\ pc \in HasFetched => index = Overlay(Own, fetched)
  /\ pc \in HasFetched \ {"commit"} =>
       tmp.main = Overlay(Own, fetched) /\ tmp.bench = NoDir
  /\ pc = "bench" => wt = Overlay(fetched, Own)
  /\ pc \in HasMeasured => wt = Overlay(Overlay(fetched, Own), measured)

IInv == TypeOK /\ BaseInv /\ QuietInv /\ FetchedInv /\ TreeInv

-----------------------------------------------------------------------------
(* Result trees and commits *)

LEMMA EmptyTree == Empty \in Trees
  BY DEF Empty, Trees

LEMMA OverlayTree == ASSUME NEW a \in Trees, NEW b \in Trees PROVE Overlay(a, b) \in Trees
  BY DEF Overlay, Trees

\* Laying the branch's files back over main's, over its own, leaves hers over main's.
LEMMA OverlayBack ==
  ASSUME NEW own \in Trees, NEW main \in Trees
  PROVE  Overlay(Overlay(own, main), own) = Overlay(main, own)
  BY DEF Overlay, Trees

\* compare.sh gets main's files wherever main has one, and the results come back
\* whole, although a copy removes no file.
LEMMA CompareRestores ==
  ASSUME NEW own \in Trees, NEW main \in Trees, NEW mea \in Trees
  PROVE  LET w == Overlay(Overlay(main, own), mea)
         IN Overlay(Overlay(w, Overlay(own, main)), w) = w
  BY DEF Overlay, Trees

LEMMA LastAppend ==
  ASSUME NEW S, NEW s \in Seq(S), NEW e \in S
  PROVE  /\ Append(s, e) \in Seq(S) /\ Append(s, e) # <<>>
         /\ Last(Append(s, e)) = e
         /\ Len(Append(s, e)) = Len(s) + 1
         /\ \A i \in DOMAIN Append(s, e) : Append(s, e)[i] \in {s[j] : j \in DOMAIN s} \cup {e}
  BY DEF Last

LEMMA LastOfSeq ==
  ASSUME NEW S, NEW s \in Seq(S), s # <<>>
  PROVE  Last(s) \in S /\ Len(s) \in DOMAIN s /\ Last(s) = s[Len(s)] /\ Len(s) \in Nat \ {0}
  BY DEF Last

\* Two trees that agree on a file leave nothing to settle about it.
LEMMA NoConflict == \A a, b : Cardinality({a, b, b}) # 3
<1>. TAKE a, b
<1>1. IsFiniteSet({b}) /\ Cardinality({b}) = 1
  BY FS_Singleton
<1>2. Cardinality({b} \cup {a}) \in {1, 2}
  BY <1>1, FS_AddElement
<1>3. {a, b, b} = {b} \cup {a}
  OBVIOUS
<1>. QED
  BY <1>2, <1>3

-----------------------------------------------------------------------------
(* The invariant *)

LEMMA InitIInv == Init => IInv
<1>. SUFFICES ASSUME Init PROVE IInv
  OBVIOUS
<1>1. mains[1] \in Trees /\ mains \in Seq(Trees) /\ mains # <<>> /\ Len(mains) = 1
  BY DEF Init, Trees
<1>2. pr \in Seq(Commits) /\ pr # <<>> /\ DOMAIN pr = {1} /\ pr[1].base = 1
  BY <1>1 DEF Init, Commits
<1>3. TypeOK
  <2>1. NoTmp \in [pr : Dirs, main : Dirs, bench : Dirs]
    BY DEF NoTmp, Dirs
  <2>2. /\ permitted \in BOOLEAN /\ clock = 1 /\ runs = 0 /\ pc = "idle" /\ list = {}
        /\ save = FALSE /\ local = pr /\ index = Empty /\ wt = Empty /\ tmp = NoTmp
        /\ measured = Empty /\ merged = 1 /\ fetched = Empty /\ baseline = Empty
        /\ said = "nothing"
    BY DEF Init
  <2>3. \A i \in DOMAIN pr : pr[i].base <= Len(mains)
    BY <1>1, <1>2
  <2>4. /\ permitted \in BOOLEAN /\ clock \in Nat /\ runs \in Nat /\ list \subseteq Frameworks
        /\ save \in BOOLEAN /\ merged \in Nat
    BY <2>2
  <2>. QED
    BY <1>1, <1>2, <2>1, <2>2, <2>3, <2>4, EmptyTree, Zenon DEF TypeOK
<1>4. BaseInv /\ QuietInv /\ TreeInv
  BY <1>1, <1>2 DEF Init, BaseInv, QuietInv, TreeInv, HasMerged, HasFetched, HasMeasured
<1>5. FetchedInv
  BY DEF Init, FetchedInv, Empty
<1>. QED
  BY <1>3, <1>4, <1>5 DEF IInv

\* What a step may do to main: nothing, or one more commit that keeps every file.
LEMMA MainStep ==
  ASSUME TypeOK, [Next]_vars
  PROVE  /\ mains' \in Seq(Trees) /\ mains' # <<>> /\ Len(mains) <= Len(mains')
         /\ \A i \in DOMAIN mains : i \in DOMAIN mains' /\ mains'[i] = mains[i]
         /\ \A f \in Frameworks : Last(mains)[f] # 0 => Last(mains')[f] # 0
<1>. USE DEF TypeOK
<1>1. CASE MainMoves
  <2>1. PICK t \in {Last(mains)} \cup {[Last(mains) EXCEPT ![f] = clock'] : f \in Frameworks} :
          mains' = Append(mains, t)
    BY <1>1 DEF MainMoves
  <2>2. Last(mains) \in Trees
    BY LastOfSeq
  <2>3. clock' \in Nat \ {0}
    BY <1>1 DEF MainMoves
  <2>4. t \in Trees /\ \A f \in Frameworks : Last(mains)[f] # 0 => t[f] # 0
    BY <2>1, <2>2, <2>3 DEF Trees
  <2>. QED
    BY <2>1, <2>4, LastAppend
<1>2. CASE UNCHANGED mains
  BY <1>2 DEF Last
<1>3. MainMoves \/ UNCHANGED mains
  BY DEF Next, vars, remoteVars, AuthorPushes, AuthorMergesMain, Checkout, MergeMain, Clean,
         FetchMain, RunBenchmarks, Compare, CommitResults, RunStops
<1>. QED
  BY <1>1, <1>2, <1>3

\* A merge by the author leaves a tree for every entry.
LEMMA AuthorMergeType ==
  ASSUME TypeOK, AuthorMergesMain
  PROVE  \E c \in Commits : c.base <= Len(mains) /\ pr' = Append(pr, c)
<1>. USE DEF TypeOK
<1>. DEFINE m == Len(mains)
            c == Last(pr)
            Kept(f) == IF c.tree[f] = mains[c.base][f] THEN mains[m][f] ELSE c.tree[f]
            Merge(mine) == [f \in Frameworks |->
                              IF f \in ConflictFiles(c, m) \ mine THEN mains[m][f] ELSE Kept(f)]
<1>1. PICK mine \in SUBSET ConflictFiles(c, m) :
        pr' = Append(pr, [tree |-> Merge(mine), base |-> m, by |-> "author"])
  BY DEF AuthorMergesMain
<1>2. c \in Commits /\ mains[m] \in Trees /\ m \in Nat \ {0}
  BY LastOfSeq
<1>3. \A f \in Frameworks : Kept(f) \in Nat /\ mains[m][f] \in Nat
  BY <1>2 DEF Commits, Trees
<1>4. Merge(mine) \in Trees
  <2>. HIDE DEF Kept, c, m
  <2>. QED
    BY <1>3 DEF Trees
<1>5. [tree |-> Merge(mine), base |-> m, by |-> "author"] \in Commits
  <2>. HIDE DEF Merge, m
  <2>. QED
    BY <1>2, <1>4 DEF Commits
<1>. QED
  <2>. DEFINE new == [tree |-> Merge(mine), base |-> m, by |-> "author"]
  <2>1. new.base <= Len(mains)
    BY <1>2
  <2>. HIDE DEF new
  <2>2. pr' = Append(pr, new)
    BY <1>1 DEF new
  <2>3. new \in Commits
    BY <1>5 DEF new
  <2>. QED
    BY <2>1, <2>2, <2>3

\* What the run's commit holds.
LEMMA StagedCommit ==
  ASSUME TypeOK
  PROVE  /\ Staged \in Trees
         /\ [tree |-> Staged, base |-> Last(local).base, by |-> "bot"] \in Commits
<1>1. Staged \in Trees
  BY DEF TypeOK, Staged, Trees
<1>2. Last(local) \in Commits
  BY LastOfSeq DEF TypeOK
<1>. QED
  BY <1>1, <1>2 DEF Commits

\* What a step may do to the branch: whatever is added is based on a commit main has.
LEMMA BranchStep ==
  ASSUME TypeOK, BaseInv, [Next]_vars
  PROVE  /\ pr' \in Seq(Commits) /\ pr' # <<>>
         /\ \A i \in DOMAIN pr' : pr'[i].base <= Len(mains)
<1>. USE DEF TypeOK
<1>1. ASSUME NEW c \in Commits, c.base <= Len(mains), pr' = Append(pr, c)
      PROVE  /\ pr' \in Seq(Commits) /\ pr' # <<>>
             /\ \A i \in DOMAIN pr' : pr'[i].base <= Len(mains)
  BY <1>1, LastAppend
<1>2. CASE AuthorPushes
  <2>1. Last(pr) \in Commits /\ Last(pr).base <= Len(mains)
    BY LastOfSeq
  <2>2. [Last(pr) EXCEPT !.by = "author"] \in Commits
    BY <2>1 DEF Commits
  <2>3. [Last(pr) EXCEPT !.by = "author"].base <= Len(mains)
    BY <2>1 DEF Commits
  <2>. QED
    BY <1>1, <1>2, <2>2, <2>3 DEF AuthorPushes
<1>3. CASE AuthorMergesMain
  BY <1>1, <1>3, AuthorMergeType
<1>4. CASE CommitResults /\ pr' # pr
  <2>. DEFINE new == [tree |-> Staged, base |-> Last(local).base, by |-> "bot"]
  <2>1. pr' = Append(local, new)
    BY <1>4 DEF CommitResults
  <2>2. new \in Commits
    BY StagedCommit
  <2>3. new.base <= Len(mains)
    BY LastOfSeq DEF BaseInv
  <2>. HIDE DEF new
  <2>4. /\ pr' \in Seq(Commits) /\ pr' # <<>>
        /\ \A i \in DOMAIN pr' : pr'[i] \in {local[j] : j \in DOMAIN local} \cup {new}
    BY <2>1, <2>2, LastAppend
  <2>. QED
    BY <2>1, <2>3, <2>4 DEF BaseInv
<1>5. CASE UNCHANGED pr
  BY <1>5 DEF BaseInv
<1>6. AuthorPushes \/ AuthorMergesMain \/ CommitResults \/ UNCHANGED pr
  BY DEF Next, vars, remoteVars, MainMoves, Checkout, MergeMain, Clean,
         FetchMain, RunBenchmarks, Compare, RunStops
<1>. QED
  BY <1>2, <1>3, <1>4, <1>5, <1>6

\* What a step may do to the runner's commits: take the branch's, add the run's own,
\* or nothing.
LEMMA LocalStep ==
  ASSUME TypeOK, BaseInv, [Next]_vars
  PROVE  /\ local' \in Seq(Commits) /\ local' # <<>>
         /\ \A i \in DOMAIN local' : local'[i].base <= Len(mains)
<1>. USE DEF TypeOK, BaseInv
<1>1. CASE Checkout
  BY <1>1 DEF Checkout
<1>2. CASE CommitResults /\ local' # local
  <2>. DEFINE new == [tree |-> Staged, base |-> Last(local).base, by |-> "bot"]
  <2>1. local' = Append(local, new)
    BY <1>2 DEF CommitResults
  <2>2. new \in Commits
    BY StagedCommit
  <2>3. new.base <= Len(mains)
    BY LastOfSeq
  <2>. HIDE DEF new
  <2>. QED
    BY <2>1, <2>2, <2>3, LastAppend
<1>3. Checkout \/ CommitResults \/ UNCHANGED local
  BY DEF Next, vars, remoteVars, treeVars, MainMoves, AuthorPushes, AuthorMergesMain, MergeMain,
         Clean, FetchMain, RunBenchmarks, Compare, RunStops
<1>. QED
  BY <1>1, <1>2, <1>3

LEMMA CopyToTree ==
  ASSUME NEW dir \in Dirs, NEW tree \in Trees PROVE CopyTo(dir, tree) \in Trees
  BY DEF CopyTo, Dirs

\* The runner's files and the histories keep their types.
LEMMA FilesStep ==
  ASSUME TypeOK, TreeInv, [Next]_vars
  PROVE  /\ index' \in Trees /\ wt' \in Trees /\ tmp' \in [pr : Dirs, main : Dirs, bench : Dirs]
         /\ measured' \in Trees /\ fetched' \in Trees /\ baseline' \in Trees
<1>. USE DEF TypeOK
<1>. DEFINE Tmps == [pr : Dirs, main : Dirs, bench : Dirs]
<1>1. Last(mains) \in Trees /\ Last(pr).tree \in Trees /\ Own \in Trees
  <2>1. Last(mains) \in Trees /\ Last(pr) \in Commits /\ Last(local) \in Commits
    BY LastOfSeq
  <2>. QED
    BY <2>1 DEF Commits, Own
<1>2. /\ tmp.pr \in Dirs /\ tmp.main \in Dirs /\ tmp.bench \in Dirs
      /\ \A t \in Trees : t \in Dirs
  BY DEF Dirs
<1>3. CASE Checkout
  BY <1>1, <1>3, EmptyTree DEF Checkout
<1>4. CASE Clean
  <2>1. NoTmp \in Tmps
    BY DEF NoTmp, Dirs
  <2>. QED
    BY <1>4, <2>1 DEF Clean, histVars
<1>5. CASE FetchMain
  <2>. DEFINE over == Overlay(wt, Last(mains))
  <2>1. over \in Trees /\ Overlay(index, Last(mains)) \in Trees
    BY <1>1, OverlayTree
  <2>2. CopyTo(tmp.pr, wt) \in Trees /\ CopyTo(tmp.main, over) \in Trees
    BY <1>2, <2>1, CopyToTree
  <2>3. /\ tmp' = [tmp EXCEPT !.pr = CopyTo(@, wt), !.main = CopyTo(@, over)]
        /\ wt' = Overlay(over, tmp'.pr) /\ index' = Overlay(index, Last(mains))
        /\ fetched' = Last(mains) /\ UNCHANGED <<measured, baseline>>
    BY <1>5 DEF FetchMain
  <2>. HIDE DEF over
  <2>4. tmp' \in Tmps /\ tmp'.pr = CopyTo(tmp.pr, wt)
    BY <1>2, <2>2, <2>3
  <2>5. wt' \in Trees
    BY <2>1, <2>2, <2>3, <2>4, OverlayTree
  <2>. QED
    BY <1>1, <2>1, <2>3, <2>4, <2>5
<1>6. CASE RunBenchmarks
  <2>1. measured' \in Trees
    BY <1>6 DEF RunBenchmarks, Trees
  <2>. QED
    BY <1>6, <2>1, OverlayTree DEF RunBenchmarks
<1>7. CASE Compare
  <2>1. tmp.main \in Trees
    BY <1>1, <1>7, OverlayTree DEF Compare, TreeInv, HasFetched
  <2>2. CopyTo(tmp.bench, wt) \in Trees
    BY <1>2, CopyToTree
  <2>3. tmp' \in Tmps /\ tmp'.bench = CopyTo(tmp.bench, wt)
    BY <1>2, <1>7, <2>2 DEF Compare
  <2>4. baseline' \in Trees
    BY <1>7, <2>1, OverlayTree DEF Compare
  <2>. QED
    BY <1>7, <2>2, <2>3, <2>4, OverlayTree DEF Compare
<1>8. \/ Checkout \/ Clean \/ FetchMain \/ RunBenchmarks \/ Compare
      \/ UNCHANGED <<index, wt, tmp, measured, fetched, baseline>>
  BY DEF Next, vars, treeVars, histVars, MainMoves, AuthorPushes, AuthorMergesMain, MergeMain,
         CommitResults, RunStops
<1>. QED
  BY <1>3, <1>4, <1>5, <1>6, <1>7, <1>8

\* The step a run is at, its inputs and what it says.
LEMMA ScalarsStep ==
  ASSUME TypeOK, [Next]_vars
  PROVE  /\ permitted' \in BOOLEAN /\ clock' \in Nat /\ runs' \in Nat
         /\ pc' \in {"idle", "merge", "clean", "fetch", "bench", "compare", "commit"}
         /\ list' \subseteq Frameworks /\ save' \in BOOLEAN /\ merged' \in Nat
         /\ said' \in {"nothing", "diverged", "pushed", "permissions"}
<1>. USE DEF TypeOK, remoteVars, inputVars, histVars
<1>0. Len(mains) \in Nat
  BY LastOfSeq
<1>1. CASE MainMoves
  BY <1>1 DEF MainMoves
<1>2. CASE AuthorPushes
  BY <1>2 DEF AuthorPushes
<1>3. CASE AuthorMergesMain
  BY <1>3 DEF AuthorMergesMain
<1>4. CASE Checkout
  BY <1>4 DEF Checkout
<1>5. CASE MergeMain
  BY <1>0, <1>5 DEF MergeMain
<1>6. CASE Clean
  BY <1>6 DEF Clean
<1>7. CASE FetchMain
  BY <1>7 DEF FetchMain
<1>8. CASE RunBenchmarks
  BY <1>8 DEF RunBenchmarks
<1>9. CASE Compare
  BY <1>9 DEF Compare
<1>10. CASE CommitResults
  BY <1>10 DEF CommitResults
<1>11. CASE RunStops
  BY <1>11 DEF RunStops
<1>12. CASE UNCHANGED vars
  BY <1>12 DEF vars
<1>. QED
  BY <1>1, <1>2, <1>3, <1>4, <1>5, <1>6, <1>7, <1>8, <1>9, <1>10, <1>11, <1>12 DEF Next

LEMMA TypeStep == TypeOK /\ BaseInv /\ TreeInv /\ [Next]_vars => TypeOK'
<1>. SUFFICES ASSUME TypeOK, BaseInv, TreeInv, [Next]_vars PROVE TypeOK'
  OBVIOUS
<1>1. \A i \in DOMAIN pr' : pr'[i].base <= Len(mains')
  <2>1. \A i \in DOMAIN pr' : pr'[i].base <= Len(mains) /\ pr'[i].base \in Nat
    <3>. TAKE i \in DOMAIN pr'
    <3>1. pr' \in Seq(Commits) /\ pr'[i].base <= Len(mains)
      BY BranchStep
    <3>2. pr'[i] \in Commits
      BY <3>1
    <3>. QED
      BY <3>1, <3>2 DEF Commits
  <2>2. Len(mains) <= Len(mains') /\ Len(mains) \in Nat /\ Len(mains') \in Nat
    BY MainStep DEF TypeOK
  <2>. QED
    BY <2>1, <2>2
<1>. QED
  BY <1>1, MainStep, BranchStep, LocalStep, FilesStep, ScalarsStep, Zenon DEF TypeOK

LEMMA BaseStep == TypeOK /\ BaseInv /\ [Next]_vars => BaseInv'
<1>. SUFFICES ASSUME TypeOK, BaseInv, [Next]_vars PROVE BaseInv'
  OBVIOUS
<1>1. \A i \in DOMAIN local' : local'[i].base <= Len(mains')
  <2>1. \A i \in DOMAIN local' : local'[i].base <= Len(mains) /\ local'[i].base \in Nat
    <3>. TAKE i \in DOMAIN local'
    <3>1. local' \in Seq(Commits) /\ local'[i].base <= Len(mains)
      BY LocalStep
    <3>2. local'[i] \in Commits
      BY <3>1
    <3>. QED
      BY <3>1, <3>2 DEF Commits
  <2>2. Len(mains) <= Len(mains') /\ Len(mains) \in Nat /\ Len(mains') \in Nat
    BY MainStep DEF TypeOK
  <2>. QED
    BY <2>1, <2>2
<1>2. pc' \in HasMerged /\ save' => merged' = Last(local').base
  <2>. USE DEF BaseInv, HasMerged, inputVars, treeVars, histVars, Last
  <2>1. CASE MainMoves \/ AuthorPushes \/ AuthorMergesMain \/ UNCHANGED vars
    BY <2>1 DEF MainMoves, AuthorPushes, AuthorMergesMain, vars
  <2>2. CASE Checkout
    BY <2>2 DEF Checkout
  <2>3. CASE MergeMain
    BY <2>3 DEF MergeMain
  <2>4. CASE Clean \/ FetchMain \/ RunBenchmarks \/ Compare
    BY <2>4 DEF Clean, FetchMain, RunBenchmarks, Compare
  <2>5. CASE CommitResults \/ RunStops
    BY <2>5 DEF CommitResults, RunStops
  <2>. QED
    BY <2>1, <2>2, <2>3, <2>4, <2>5 DEF Next
<1>. QED
  BY <1>1, <1>2 DEF BaseInv

LEMMA QuietStep == QuietInv /\ [Next]_vars => QuietInv'
<1>. SUFFICES ASSUME QuietInv, [Next]_vars PROVE QuietInv'
  OBVIOUS
<1>. QED
  BY DEF QuietInv, Next, vars, MainMoves, AuthorPushes, AuthorMergesMain, Checkout, MergeMain,
         Clean, FetchMain, RunBenchmarks, Compare, CommitResults, RunStops

LEMMA FetchedStep == TypeOK /\ FetchedInv /\ [Next]_vars => FetchedInv'
<1>. SUFFICES ASSUME TypeOK, FetchedInv, [Next]_vars PROVE FetchedInv'
  OBVIOUS
<1>1. CASE Checkout
  BY <1>1 DEF Checkout, FetchedInv, Empty
<1>2. CASE FetchMain
  BY <1>2, MainStep DEF FetchMain, FetchedInv
<1>3. CASE UNCHANGED fetched
  BY <1>3, MainStep DEF FetchedInv
<1>4. Checkout \/ FetchMain \/ UNCHANGED fetched
  BY DEF Next, vars, histVars, MainMoves, AuthorPushes, AuthorMergesMain, MergeMain,
         Clean, RunBenchmarks, Compare, CommitResults, RunStops
<1>. QED
  BY <1>1, <1>2, <1>3, <1>4

\* The two copies and the trees, step by step.
LEMMA TreeStep == TypeOK /\ TreeInv /\ [Next]_vars => TreeInv'
<1>. SUFFICES ASSUME TypeOK, TreeInv, [Next]_vars PROVE TreeInv'
  OBVIOUS
<1>. USE DEF HasFetched, HasMeasured
<1>1. Own \in Trees /\ Last(mains) \in Trees
  <2>1. Last(mains) \in Trees /\ Last(local) \in Commits
    BY LastOfSeq DEF TypeOK
  <2>. QED
    BY <2>1 DEF Commits, Own
<1>2. CASE MainMoves \/ AuthorPushes \/ AuthorMergesMain \/ UNCHANGED vars
  BY <1>2 DEF TreeInv, Own, Last, MainMoves, AuthorPushes, AuthorMergesMain, vars, treeVars, histVars
<1>3. CASE Checkout
  BY <1>3 DEF TreeInv, Own, Last, Checkout
<1>4. CASE MergeMain
  BY <1>4 DEF TreeInv, Own, Last, MergeMain, treeVars
<1>5. CASE Clean
  BY <1>5 DEF TreeInv, Own, Last, Clean, histVars
<1>6. CASE FetchMain
  <2>. DEFINE over == Overlay(wt, Last(mains))
  <2>1. index = Own /\ wt = Own /\ tmp = NoTmp
    BY <1>6 DEF FetchMain, TreeInv
  <2>2. tmp' = [tmp EXCEPT !.pr = CopyTo(@, wt), !.main = CopyTo(@, over)]
    BY <1>6 DEF FetchMain
  <2>3. tmp'.pr = Own /\ tmp'.main = over /\ tmp'.bench = NoDir
    <3>. HIDE DEF over
    <3>. QED
      BY <2>1, <2>2 DEF NoTmp, CopyTo
  <2>4. wt' = Overlay(over, Own) /\ index' = Overlay(Own, Last(mains)) /\ fetched' = Last(mains)
        /\ Own' = Own /\ pc' = "bench"
    BY <1>6, <2>1, <2>3 DEF FetchMain, Own, Last
  <2>5. wt' = Overlay(fetched', Own)
    BY <1>1, <2>1, <2>4, OverlayBack
  <2>. QED
    BY <2>1, <2>3, <2>4, <2>5 DEF TreeInv
<1>7. CASE RunBenchmarks
  <2>1. wt' = Overlay(wt, measured')
    BY <1>7 DEF RunBenchmarks
  <2>. QED
    BY <1>7, <2>1 DEF RunBenchmarks, TreeInv, Own, Last
<1>8. CASE Compare
  <2>1. /\ tmp.main = Overlay(Own, fetched) /\ tmp.bench = NoDir
        /\ wt = Overlay(Overlay(fetched, Own), measured)
    BY <1>8 DEF Compare, TreeInv
  <2>2. tmp'.bench = wt
    BY <1>8, <2>1 DEF Compare, CopyTo, TypeOK
  <2>3. wt' = Overlay(Overlay(wt, tmp.main), wt)
    BY <1>8, <2>2 DEF Compare
  <2>4. wt' = wt
    BY <1>1, <2>1, <2>3, CompareRestores DEF TypeOK
  <2>. QED
    BY <1>8, <2>1, <2>4 DEF Compare, TreeInv, Own, Last
<1>9. CASE CommitResults \/ RunStops
  BY <1>9 DEF TreeInv, CommitResults, RunStops
<1>. QED
  BY <1>2, <1>3, <1>4, <1>5, <1>6, <1>7, <1>8, <1>9 DEF Next

\* The invariant the properties of the pushes follow from.
THEOREM PrInvariant == Spec => []IInv
<1>1. IInv /\ [Next]_vars => IInv'
  BY TypeStep, BaseStep, QuietStep, FetchedStep, TreeStep DEF IInv
<1>. QED
  BY <1>1, InitIInv, PTL DEF Spec

\* Every variable keeps its kind, and no commit of the branch is ever based on a main
\* that does not exist yet, whatever is pushed, merged, benchmarked and cancelled.
THEOREM TypeCorrect == Spec => []TypeOK
<1>1. IInv => TypeOK
  BY DEF IInv
<1>. QED
  BY <1>1, PrInvariant, PTL

-----------------------------------------------------------------------------
(* What a run may push *)

\* A push adds the run's one commit to the branch; the run has merged main and has its
\* benchmarks behind it.
LEMMA PushedCommit ==
  ASSUME IInv, [Next]_vars, Pushes
  PROVE  /\ save /\ Last(pr') = [tree |-> Staged, base |-> Last(local).base, by |-> "bot"]
         /\ merged = Last(local).base
         /\ index = Overlay(Own, fetched)
         /\ wt = Overlay(Overlay(fetched, Own), measured)
         /\ Own \in Trees /\ fetched \in Trees /\ measured \in Trees
<1>. USE DEF IInv, Pushes
<1>1. said = "nothing" /\ pc = "commit" /\ said' = "pushed"
  BY DEF QuietInv
<1>2. CommitResults
  BY <1>1 DEF Next, vars, MainMoves, AuthorPushes, AuthorMergesMain, Checkout, MergeMain,
         Clean, FetchMain, RunBenchmarks, Compare, RunStops
<1>3. save /\ pr' = Append(local, [tree |-> Staged, base |-> Last(local).base, by |-> "bot"])
  BY <1>1, <1>2 DEF CommitResults
<1>4. Last(pr') = [tree |-> Staged, base |-> Last(local).base, by |-> "bot"]
  <2>. DEFINE new == [tree |-> Staged, base |-> Last(local).base, by |-> "bot"]
  <2>1. new \in Commits /\ local \in Seq(Commits)
    BY StagedCommit DEF TypeOK
  <2>2. pr' = Append(local, new)
    BY <1>3
  <2>. HIDE DEF new
  <2>3. Last(pr') = new
    BY <2>1, <2>2, LastAppend
  <2>. QED
    BY <2>3 DEF new
<1>5. Own \in Trees
  <2>1. Last(local) \in Commits
    BY LastOfSeq DEF TypeOK
  <2>. QED
    BY <2>1 DEF Commits, Own
<1>. QED
  BY <1>1, <1>3, <1>4, <1>5 DEF BaseInv, TreeInv, TypeOK, HasMerged, HasFetched, HasMeasured

\* A pushed commit holds what was measured for the entries benchmarked, and the branch's
\* own results for one that failed: never main's where the branch has its own.
THEOREM CommittedIsMeasuredTheorem == Spec => CommittedIsMeasured
<1>. DEFINE Measured ==
       \A f \in list :
         LET own == Last(local).tree[f]
         IN IF measured[f] # 0 THEN Last(pr').tree[f] = measured[f]
            ELSE own # 0 => Last(pr').tree[f] = own
<1>1. ASSUME IInv, [Next]_vars, Pushes PROVE Measured
  <2>1. list \subseteq Frameworks
    BY <1>1 DEF IInv, TypeOK
  <2>2. Last(pr').tree = Staged /\ wt = Overlay(Overlay(fetched, Own), measured)
    BY <1>1, PushedCommit
  <2>3. \A f \in Frameworks : wt[f] = IF measured[f] # 0 THEN measured[f]
                                      ELSE IF Own[f] # 0 THEN Own[f] ELSE fetched[f]
    BY <2>2 DEF Overlay
  <2>4. \A f \in list : wt[f] # 0 => Staged[f] = wt[f]
    BY <2>1 DEF Staged
  <2>. QED
    BY <2>1, <2>2, <2>3, <2>4 DEF Own
<1>2. IInv /\ [Next]_vars => [Pushes => Measured]_vars
  BY <1>1
<1>. QED
  BY <1>2, PrInvariant, PTL DEF Spec, CommittedIsMeasured

\* Results an earlier run saved for an entry main does not have survive a run on others.
THEOREM NewEntriesKeepResultsTheorem == Spec => NewEntriesKeepResults
<1>. DEFINE Kept == \A f \in Frameworks \ list :
                      Last(mains)[f] = 0 => Last(pr').tree[f] = Last(local).tree[f]
<1>1. ASSUME IInv, [Next]_vars, Pushes PROVE Kept
  <2>1. Last(pr').tree = Staged /\ index = Overlay(Own, fetched)
    BY <1>1, PushedCommit
  <2>2. \A f \in Frameworks \ list : Staged[f] = index[f]
    BY DEF Staged
  <2>3. \A f \in Frameworks : Last(mains)[f] = 0 => fetched[f] = 0
    BY <1>1 DEF IInv, FetchedInv
  <2>. QED
    BY <2>1, <2>2, <2>3 DEF Own, Overlay
<1>2. IInv /\ [Next]_vars => [Pushes => Kept]_vars
  BY <1>1
<1>. QED
  BY <1>2, PrInvariant, PTL DEF Spec, NewEntriesKeepResults

\* Exactly what a push does to the entries it did not benchmark: wherever main has a
\* result file, the commit holds main's as the run fetched it, not the branch's.
THEOREM OthersFollowMain ==
  Spec => [][Pushes => \A f \in Frameworks \ list :
               Last(pr').tree[f] =
                 IF fetched[f] # 0 THEN fetched[f] ELSE Last(local).tree[f]]_vars
<1>. DEFINE Follows == \A f \in Frameworks \ list :
                         Last(pr').tree[f] =
                           IF fetched[f] # 0 THEN fetched[f] ELSE Last(local).tree[f]
<1>1. ASSUME IInv, [Next]_vars, Pushes PROVE Follows
  <2>1. Last(pr').tree = Staged /\ index = Overlay(Own, fetched)
    BY <1>1, PushedCommit
  <2>2. \A f \in Frameworks \ list : Staged[f] = index[f]
    BY DEF Staged
  <2>. QED
    BY <2>1, <2>2 DEF Own, Overlay
<1>2. IInv /\ [Next]_vars => [Pushes => Follows]_vars
  BY <1>1
<1>. QED
  BY <1>2, PrInvariant, PTL DEF Spec

\* A pushed commit conflicts with nothing on main as it was when the run merged it.
THEOREM SavedStaysMergeableTheorem == Spec => SavedStaysMergeable
<1>1. ASSUME IInv, [Next]_vars, Pushes PROVE ConflictFiles(Last(pr'), merged) = {}
  <2>1. Last(pr').base = merged
    BY <1>1, PushedCommit
  <2>. QED
    BY <2>1, NoConflict DEF ConflictFiles
<1>2. IInv /\ [Next]_vars => [Pushes => ConflictFiles(Last(pr'), merged) = {}]_vars
  BY <1>1
<1>. QED
  BY <1>2, PrInvariant, PTL DEF Spec, SavedStaysMergeable

\* compare.sh takes the deltas against the results main had when they were fetched.
THEOREM BaselineIsMainTheorem == Spec => BaselineIsMain
<1>. DEFINE Main == \A f \in list : fetched[f] # 0 => baseline'[f] = fetched[f]
<1>1. ASSUME IInv, [Next]_vars, pc = "compare", pc' = "commit" PROVE Main
  <2>1. Compare
    BY <1>1 DEF Next, vars, MainMoves, AuthorPushes, AuthorMergesMain, Checkout, MergeMain,
         Clean, FetchMain, RunBenchmarks, CommitResults, RunStops
  <2>2. baseline' = Overlay(wt, tmp.main) /\ tmp.main = Overlay(Own, fetched)
        /\ list \subseteq Frameworks
    BY <1>1, <2>1 DEF Compare, IInv, TreeInv, TypeOK, HasFetched
  <2>. QED
    BY <2>2 DEF Overlay
<1>2. IInv /\ [Next]_vars => [pc = "compare" /\ pc' = "commit" => Main]_vars
  BY <1>1
<1>. QED
  BY <1>2, PrInvariant, PTL DEF Spec, BaselineIsMain

=============================================================================
