-------------------------- MODULE BestOfRunsProofs ---------------------------
(***************************************************************************)
(* Whatever the number of runs and the measurements: the saved row is one  *)
(* run, the fastest where rps is the result, one no other outdoes where    *)
(* the runs were scored, and the cheapest where they could not be.  The    *)
(* loop keeps the best of the runs so far, by one of two orders; the       *)
(* scoring replaces every variable.                                        *)
(***************************************************************************)
EXTENDS BestOfRuns, NaturalsInduction, WellFoundedInduction, TLAPS

Kept == best["BEST_M"]

\* All variables come from one run, and there is one as soon as a run is measured.
OneRunInv ==
  /\ best = AllFrom(Kept)
  /\ outcome # <<>> => Kept \in Runs
  /\ pc # "loop" => outcome # <<>>

\* Without a fixed rate the runs are not scored, and the fastest so far is kept.
FastInv ==
  ~fixedRate =>
    /\ pc \in {"loop", "saved"}
    /\ \A i \in Runs : outcome[i].rps <= outcome[Kept].rps

\* With one, the cheapest so far is kept until the scoring decides.
CheapInv ==
  /\ fixedRate /\ pc # "saved"
  /\ \A i \in Runs : outcome[i].usec # 0
  => \A i \in Runs : outcome[Kept].usec <= outcome[i].usec

\* Once it has, the kept run is the one the scores rank first.
ScoredInv == fixedRate /\ pc = "saved" => IsWinner(Kept)

IInv == TypeOK /\ OneRunInv /\ FastInv /\ CheapInv /\ ScoredInv

\* What a measurement is made of.
LEMMA OutcomeFields ==
  ASSUME NEW o \in Outcomes
  PROVE  o.rps \in Nat /\ o.usec \in Nat
BY OutcomesAssumption

\* Appending a measurement leaves the earlier ones where they are.
LEMMA AppendRuns ==
  ASSUME NEW s \in Seq(Outcomes), NEW o \in Outcomes
  PROVE  LET t == Append(s, o)
         IN /\ t \in Seq(Outcomes)
            /\ t # <<>>
            /\ Len(t) = Len(s) + 1
            /\ DOMAIN t = DOMAIN s \cup {Len(t)}
            /\ \A i \in DOMAIN s : t[i] = s[i]
            /\ t[Len(t)] = o
OBVIOUS

LEMMA InitIInv == Init => IInv
<1> SUFFICES ASSUME Init PROVE IInv
  OBVIOUS
<1>1. best \in [BestVars -> Runs \cup {0}] /\ Kept = 0
  BY DEF Init, AllFrom, BestVars, Runs, Kept
<1>2. TypeOK
  BY <1>1, RunsAssumption DEF Init, TypeOK
<1>3. OneRunInv
  BY <1>1 DEF Init, OneRunInv
<1>4. FastInv /\ CheapInv /\ ScoredInv
  BY DEF Init, FastInv, CheapInv, ScoredInv, Runs
<1> QED
  BY <1>2, <1>3, <1>4 DEF IInv

\* The loop's comparison, with the one run the variables come from.
LEMMA BetterThanKept ==
  ASSUME IInv, NEW o \in Outcomes
  PROVE  /\ outcome = <<>> => Better(o)
         /\ outcome # <<>> /\ ~fixedRate =>
              (Better(o) <=> o.rps > outcome[Kept].rps)
         /\ outcome # <<>> /\ fixedRate /\ o.usec # 0 =>
              (Better(o) <=> outcome[Kept].usec = 0 \/ o.usec < outcome[Kept].usec)
<1>1. best["rps"] = Kept /\ best["cpu_usec"] = Kept /\ Kept \in Runs \cup {0}
  BY DEF IInv, TypeOK, OneRunInv, AllFrom, BestVars, Kept
<1>2. Runs = 1 .. Len(outcome) /\ Len(outcome) \in Nat
  BY DEF IInv, TypeOK, Runs
<1>3. CASE outcome = <<>>
  <2>1. Kept = 0
    BY <1>1, <1>2, <1>3
  <2> QED
    BY <2>1, <1>1, <1>3, OutcomeFields DEF Better, BestRps, BestUsec
<1>4. CASE outcome # <<>>
  <2>1. Kept # 0
    BY <1>2, <1>4 DEF IInv, OneRunInv
  <2> QED
    BY <2>1, <1>1, <1>4 DEF Better, BestRps, BestUsec
<1> QED
  BY <1>3, <1>4

LEMMA MeasureIInv == IInv /\ Measure => IInv'
<1> SUFFICES ASSUME IInv, Measure PROVE IInv'
  OBVIOUS
<1>1. PICK o \in Outcomes :
        /\ outcome' = Append(outcome, o)
        /\ best' = IF Better(o) THEN AllFrom(Len(outcome')) ELSE best
  BY DEF Measure
<1> DEFINE n == Len(outcome')
<1>2. /\ outcome' \in Seq(Outcomes) /\ outcome' # <<>>
      /\ n = Len(outcome) + 1 /\ Runs' = Runs \cup {n}
      /\ \A i \in Runs : outcome'[i] = outcome[i]
      /\ outcome'[n] = o
  BY <1>1, AppendRuns DEF IInv, TypeOK, Runs
<1>3. /\ pc = "loop" /\ Len(outcome) < RUNS /\ UNCHANGED <<fixedRate, pc>>
      /\ Len(outcome) \in Nat /\ Runs = 1 .. Len(outcome)
  BY DEF Measure, IInv, TypeOK, Runs
<1>4. /\ \A i \in Runs : outcome[i].rps \in Nat /\ outcome[i].usec \in Nat
      /\ o.rps \in Nat /\ o.usec \in Nat
  BY OutcomeFields, <1>3 DEF IInv, TypeOK
<1>5. IF Better(o) THEN Kept' = n ELSE Kept' = Kept /\ outcome # <<>> /\ Kept \in Runs
  <2>1. AllFrom(n)["BEST_M"] = n
    BY DEF AllFrom, BestVars
  <2> QED
    BY <2>1, <1>1, BetterThanKept DEF Kept, IInv, OneRunInv
<1>6. TypeOK'
  <2>1. Len(outcome') <= RUNS
    BY <1>2, <1>3, RunsAssumption
  <2>2. best' \in [BestVars -> Runs' \cup {0}]
    BY <1>1, <1>2 DEF IInv, TypeOK, AllFrom
  <2> QED
    BY <2>1, <2>2, <1>2, <1>3 DEF IInv, TypeOK
<1>7. OneRunInv'
  <2>1. best' = AllFrom(Kept')
    BY <1>1, <1>5 DEF IInv, OneRunInv
  <2> QED
    BY <2>1, <1>2, <1>5 DEF OneRunInv
<1>8. FastInv'
  <2> SUFFICES ASSUME ~fixedRate, NEW i \in Runs'
               PROVE  outcome'[i].rps <= outcome'[Kept'].rps
    BY <1>3 DEF FastInv
  <2>1. \A j \in Runs : outcome[j].rps <= outcome[Kept].rps
    BY DEF IInv, FastInv
  <2>2. CASE Better(o)
    <3>1. Runs # {} => outcome # <<>> /\ Kept \in Runs
      BY <1>3 DEF IInv, OneRunInv
    <3> QED
      BY <2>1, <2>2, <3>1, <1>2, <1>4, <1>5, BetterThanKept
  <2>3. CASE ~Better(o)
    BY <2>1, <2>3, <1>2, <1>4, <1>5, BetterThanKept
  <2> QED
    BY <2>2, <2>3
<1>9. CheapInv'
  <2> SUFFICES ASSUME fixedRate, \A j \in Runs' : outcome'[j].usec # 0, NEW i \in Runs'
               PROVE  outcome'[Kept'].usec <= outcome'[i].usec
    BY <1>3 DEF CheapInv
  <2>1. o.usec # 0 /\ \A j \in Runs : outcome[j].usec # 0
    BY <1>2
  <2>2. \A j \in Runs : outcome[Kept].usec <= outcome[j].usec
    BY <2>1, <1>3 DEF IInv, CheapInv
  <2>3. CASE Better(o)
    <3>1. Runs # {} => outcome # <<>> /\ Kept \in Runs
      BY <1>3 DEF IInv, OneRunInv
    <3> QED
      BY <2>1, <2>2, <2>3, <3>1, <1>2, <1>4, <1>5, BetterThanKept
  <2>4. CASE ~Better(o)
    BY <2>1, <2>2, <2>4, <1>2, <1>4, <1>5, BetterThanKept
  <2> QED
    BY <2>3, <2>4
<1>10. ScoredInv'
  BY <1>3 DEF ScoredInv
<1> QED
  BY <1>6, <1>7, <1>8, <1>9, <1>10 DEF IInv

LEMMA LoopEndsIInv == IInv /\ LoopEnds => IInv'
<1> SUFFICES ASSUME IInv, LoopEnds PROVE IInv'
  OBVIOUS
<1>1. /\ Len(outcome) = RUNS /\ UNCHANGED <<fixedRate, outcome, best>>
      /\ pc = "loop" /\ pc' = IF fixedRate THEN "pick" ELSE "saved"
  BY DEF LoopEnds
<1>2. outcome # <<>>
  BY <1>1, RunsAssumption
<1>3. Kept' = Kept /\ Runs' = Runs
  BY <1>1 DEF Kept, Runs
<1>4. TypeOK'
  BY <1>1, <1>3 DEF IInv, TypeOK
<1>5. OneRunInv'
  BY <1>1, <1>2, <1>3 DEF IInv, OneRunInv
<1>6. FastInv' /\ CheapInv' /\ ScoredInv'
  BY <1>1, <1>3 DEF IInv, FastInv, CheapInv, ScoredInv
<1> QED
  BY <1>4, <1>5, <1>6 DEF IInv

LEMMA PickIInv == IInv /\ Pick => IInv'
<1> SUFFICES ASSUME IInv, Pick PROVE IInv'
  OBVIOUS
<1>1. PICK i \in Runs : IsWinner(i) /\ best' = AllFrom(i)
  BY DEF Pick
<1>2. pc = "pick" /\ pc' = "saved" /\ UNCHANGED <<fixedRate, outcome>> /\ Runs' = Runs
  BY DEF Pick, Runs
<1>3. Kept' = i
  BY <1>1 DEF Kept, AllFrom, BestVars
<1>4. TypeOK'
  BY <1>1, <1>2 DEF IInv, TypeOK, AllFrom
<1>5. OneRunInv'
  BY <1>1, <1>2, <1>3 DEF IInv, OneRunInv
<1>6. FastInv' /\ CheapInv'
  BY <1>2 DEF IInv, FastInv, CheapInv
<1>7. ScoredInv'
  BY <1>1, <1>2, <1>3 DEF ScoredInv, IsWinner, Ranks, OwnBest, Runs
<1> QED
  BY <1>4, <1>5, <1>6, <1>7 DEF IInv

LEMMA PickFailsIInv == IInv /\ PickFails => IInv'
<1> SUFFICES ASSUME IInv, PickFails PROVE IInv'
  OBVIOUS
<1>1. /\ pc = "pick" /\ pc' = "unscored"
      /\ UNCHANGED <<fixedRate, outcome, best>> /\ Kept' = Kept /\ Runs' = Runs
  BY DEF PickFails, Kept, Runs
<1>2. TypeOK' /\ OneRunInv'
  BY <1>1 DEF IInv, TypeOK, OneRunInv
<1>3. FastInv' /\ CheapInv' /\ ScoredInv'
  BY <1>1 DEF IInv, FastInv, CheapInv, ScoredInv
<1> QED
  BY <1>2, <1>3 DEF IInv

LEMMA StutterIInv == IInv /\ UNCHANGED vars => IInv'
<1>1. ASSUME UNCHANGED vars PROVE IsWinner(Kept)' <=> IsWinner(Kept)
  BY <1>1 DEF IsWinner, Ranks, OwnBest, Runs, Kept, vars
<1> QED
  BY <1>1 DEF IInv, TypeOK, OneRunInv, FastInv, CheapInv, ScoredInv, Kept, Runs, vars

\* The invariant holds in every state of the loop and of the choice.
THEOREM BestOfRunsInvariant == Spec => []IInv
<1>1. Init => IInv
  BY InitIInv
<1>2. IInv /\ [Next]_vars => IInv'
  BY MeasureIInv, LoopEndsIInv, PickIInv, PickFailsIInv, StutterIInv DEF Next
<1> QED
  BY <1>1, <1>2, PTL DEF Spec

\* Every variable of the loop keeps its type, for any number of runs and any
\* measurements, and no more than RUNS are made.
THEOREM TypeCorrect == Spec => []TypeOK
<1>1. IInv => TypeOK
  BY DEF IInv
<1> QED
  BY <1>1, BestOfRunsInvariant, PTL

\* However many runs there are, the row saved is put together from one of them,
\* whether the loop or latency_score.py chose it (run_one in benchmark.sh).
THEOREM RowIsOneRunTheorem == Spec => []RowIsOneRun
<1>1. IInv => RowIsOneRun
  BY DEF IInv, OneRunInv, RowIsOneRun, Done, Kept
<1> QED
  BY <1>1, BestOfRunsInvariant, PTL

\* Where rps is the result, the saved run is the fastest of any number of runs.
THEOREM FastestIsSavedTheorem == Spec => []FastestIsSaved
<1>1. IInv => FastestIsSaved
  BY DEF IInv, FastInv, FastestIsSaved, Row, Kept
<1> QED
  BY <1>1, BestOfRunsInvariant, PTL

\* When a fixed-rate profile cannot be scored, the row is the cheapest run, if every
\* run had its CPU read.
THEOREM UnscoredIsCheapestTheorem == Spec => []UnscoredIsCheapest
<1>1. IInv /\ pc = "unscored" => fixedRate
  BY DEF IInv, FastInv
<1>2. IInv => UnscoredIsCheapest
  BY <1>1 DEF IInv, CheapInv, UnscoredIsCheapest, Row, Kept
<1> QED
  BY <1>2, BestOfRunsInvariant, PTL

-----------------------------------------------------------------------------
(* What the scores say of a run that another outdoes *)

LEMMA LeastOf ==
  ASSUME NEW S \in SUBSET Nat, S # {}
  PROVE  \E x \in S : \A y \in S : x <= y
<1>1. PICK x \in S : \A y \in S : ~(<<y, x>> \in OpToRel(<, Nat))
  BY NatLessThanWellFounded, WFMin
<1>2. ASSUME NEW y \in S PROVE x <= y
  <2>1. ~(<<y, x>> \in {ss \in Nat \X Nat : ss[1] < ss[2]})
    BY <1>1 DEF OpToRel
  <2> QED
    BY <2>1
<1> QED
  BY <1>2

\* The best value is one that was measured, and none that was is below it.
LEMMA BestIsLeast ==
  ASSUME NEW S \in SUBSET Nat, NEW v \in S, v # 0
  PROVE  BestOf(S) \in S \ {0} /\ BestOf(S) <= v
<1>1. S \ {0} \in SUBSET Nat /\ S \ {0} # {} /\ v \in S \ {0}
  OBVIOUS
<1>2. \E x \in S \ {0} : \A y \in S \ {0} : x <= y
  BY <1>1, LeastOf
<1>3. BestOf(S) = CHOOSE x \in S \ {0} : \A y \in S \ {0} : x <= y
  BY <1>1 DEF BestOf
<1> QED
  BY <1>1, <1>2, <1>3

LEMMA CostNat == ASSUME NEW o \in Outcomes PROVE Cost(o) \in Nat
<1>1. o.ok \in Nat /\ o.usec \in Nat
  BY OutcomesAssumption
<1>2. ASSUME NEW a \in Nat, NEW b \in Nat, b # 0 PROVE (2 * a) \div b \in Nat
  BY <1>2
<1> QED
  BY <1>1, <1>2 DEF Cost

\* A tail no worse scores no less.
LEMMA TailScores ==
  ASSUME NEW S \in SUBSET Nat, NEW v \in S, NEW w \in Nat, v # 0, v <= w
  PROVE  /\ DecadeScore(v, BestOf(S)) \in Nat /\ DecadeScore(w, BestOf(S)) \in Nat
         /\ DecadeScore(w, BestOf(S)) <= DecadeScore(v, BestOf(S))
<1>1. BestOf(S) \in Nat /\ BestOf(S) # 0 /\ BestOf(S) <= v
  BY BestIsLeast
<1>2. ASSUME NEW b \in Nat, b # 0, b <= v
      PROVE  /\ DecadeScore(v, b) \in Nat /\ DecadeScore(w, b) \in Nat
             /\ DecadeScore(w, b) <= DecadeScore(v, b)
  <2>1. Scale = 48 /\ Scale \div 3 = 16
    BY DEF Scale
  <2> QED
    BY <1>2, <2>1 DEF DecadeScore
<1> QED
  BY <1>1, <1>2

\* A cheaper run scores more, and so does one whose cost is known.
LEMMA CostScores ==
  ASSUME NEW S \in SUBSET {Cost(o) : o \in Outcomes},
         NEW c \in S, NEW d \in S, c # 0, d = 0 \/ c < d
  PROVE  /\ LinearScore(c, BestOf(S)) \in Nat /\ LinearScore(d, BestOf(S)) \in Nat
         /\ LinearScore(d, BestOf(S)) < LinearScore(c, BestOf(S))
<1>1. S \in SUBSET Nat
  BY CostNat
<1>2. BestOf(S) \in S \ {0} /\ BestOf(S) <= c
  BY <1>1, BestIsLeast
<1> DEFINE costs == {Cost(o) : o \in Outcomes} \ {0}
<1>3. BestOf(S) \in costs /\ c \in costs
  BY <1>2
<1>4. LinearScore(c, BestOf(S)) > 0
  BY <1>2, <1>3, ScaleAssumption
<1>5. ASSUME NEW a \in Nat, NEW b \in Nat PROVE LinearScore(a, b) \in Nat
  <2>1. ASSUME a # 0 PROVE (48 * b) \div a \in Nat
    BY <2>1
  <2> QED
    BY <2>1 DEF LinearScore, Scale
<1>6. LinearScore(c, BestOf(S)) \in Nat /\ LinearScore(d, BestOf(S)) \in Nat
  BY <1>1, <1>2, <1>5
<1>7. CASE d = 0
  <2>1. LinearScore(d, BestOf(S)) = 0
    BY <1>7 DEF LinearScore
  <2> QED
    BY <1>4, <1>6, <2>1
<1>8. CASE d # 0
  <2>1. d \in costs /\ c < d
    BY <1>8
  <2>2. LinearScore(d, BestOf(S)) < LinearScore(c, BestOf(S))
    BY <1>2, <1>3, <2>1, ScaleAssumption
  <2> QED
    BY <1>6, <2>2
<1> QED
  BY <1>7, <1>8

\* The scores weigh what Outdoes compares, and the factor never reverses it.
LEMMA OutdoneScoresLess ==
  ASSUME IInv, NEW i \in Runs, NEW j \in Runs, Outdoes(outcome[i], outcome[j])
  PROVE  /\ Score(outcome[i], OwnBest) \in Nat /\ Score(outcome[j], OwnBest) \in Nat
         /\ Score(outcome[j], OwnBest) < Score(outcome[i], OwnBest)
<1> DEFINE o == outcome[i]
           p == outcome[j]
           b == OwnBest
<1>1. \A k \in Runs : /\ outcome[k] \in Outcomes
                      /\ outcome[k].rps \in Nat /\ outcome[k].ok \in Nat
                      /\ outcome[k].p99 \in Nat /\ outcome[k].p999 \in Nat
                      /\ outcome[k].ok <= outcome[k].rps
  <2>1. \A k \in Runs : outcome[k] \in Outcomes
    BY DEF IInv, TypeOK, Runs
  <2> QED
    BY <2>1, OutcomesAssumption
<1>2. /\ o.rps >= p.rps /\ 0 < o.p99 /\ o.p99 <= p.p99 /\ 0 < o.p999 /\ o.p999 <= p.p999
      /\ 0 < Cost(o) /\ (Cost(p) = 0 \/ Cost(o) < Cost(p))
  BY DEF Outdoes
<1>3. /\ b.cost = BestOf({Cost(outcome[k]) : k \in Runs})
      /\ b.p99 = BestOf({outcome[k].p99 : k \in Runs})
      /\ b.p999 = BestOf({outcome[k].p999 : k \in Runs})
  BY DEF OwnBest
<1> DEFINE L(r) == LinearScore(Cost(r), b.cost)
           T(r) == DecadeScore(r.p99, b.p99)
           U(r) == DecadeScore(r.p999, b.p999)
<1>4. L(o) \in Nat /\ L(p) \in Nat /\ L(p) < L(o)
  <2> DEFINE S == {Cost(outcome[k]) : k \in Runs}
  <2>1. S \in SUBSET {Cost(q) : q \in Outcomes} /\ Cost(o) \in S /\ Cost(p) \in S
    BY <1>1
  <2>2. Cost(o) # 0 /\ (Cost(p) = 0 \/ Cost(o) < Cost(p))
    BY <1>1, <1>2, CostNat
  <2> HIDE DEF S
  <2>3. /\ LinearScore(Cost(o), BestOf(S)) \in Nat /\ LinearScore(Cost(p), BestOf(S)) \in Nat
        /\ LinearScore(Cost(p), BestOf(S)) < LinearScore(Cost(o), BestOf(S))
    BY <2>1, <2>2, CostScores
  <2> QED
    BY <1>3, <2>3 DEF S
<1>5. T(o) \in Nat /\ T(p) \in Nat /\ T(p) <= T(o)
  <2> DEFINE S == {outcome[k].p99 : k \in Runs}
  <2>1. S \in SUBSET Nat /\ o.p99 \in S /\ p.p99 \in Nat /\ o.p99 # 0
    BY <1>1, <1>2
  <2> HIDE DEF S
  <2>2. /\ DecadeScore(o.p99, BestOf(S)) \in Nat /\ DecadeScore(p.p99, BestOf(S)) \in Nat
        /\ DecadeScore(p.p99, BestOf(S)) <= DecadeScore(o.p99, BestOf(S))
    BY <1>2, <2>1, TailScores
  <2> QED
    BY <1>3, <2>2 DEF S
<1>6. U(o) \in Nat /\ U(p) \in Nat /\ U(p) <= U(o)
  <2> DEFINE S == {outcome[k].p999 : k \in Runs}
  <2>1. S \in SUBSET Nat /\ o.p999 \in S /\ p.p999 \in Nat /\ o.p999 # 0
    BY <1>1, <1>2
  <2> HIDE DEF S
  <2>2. /\ DecadeScore(o.p999, BestOf(S)) \in Nat /\ DecadeScore(p.p999, BestOf(S)) \in Nat
        /\ DecadeScore(p.p999, BestOf(S)) <= DecadeScore(o.p999, BestOf(S))
    BY <1>2, <2>1, TailScores
  <2> QED
    BY <1>3, <2>2 DEF S
<1>7. o.rps # 0
  <2>1. o.ok # 0
    BY <1>2 DEF Cost
  <2> QED
    BY <1>1, <2>1
<1>8. /\ RateFactor(o) \in {1, 2} /\ RateFactor(p) \in {0, 1, 2}
      /\ RateFactor(p) <= RateFactor(o)
  BY <1>1, <1>2, <1>7 DEF RateFactor, Full
<1>9. /\ Score(o, b) = RateFactor(o) * (60 * L(o) + 25 * T(o) + 15 * U(o))
      /\ Score(p, b) = RateFactor(p) * (60 * L(p) + 25 * T(p) + 15 * U(p))
  BY DEF Score
<1> HIDE DEF L, T, U, o, p, b
<1>10. /\ RateFactor(o) = 1 \/ RateFactor(o) = 2
       /\ RateFactor(p) = 0 \/ RateFactor(p) = 1 \/ RateFactor(p) = 2
  BY <1>8
<1>11. Score(o, b) \in Nat /\ Score(p, b) \in Nat /\ Score(p, b) < Score(o, b)
  BY <1>4, <1>5, <1>6, <1>8, <1>9, <1>10
<1> QED
  BY <1>11 DEF o, p, b

\* The row of a scored profile is outdone by no run of the same entry, however many runs
\* there were and whatever was read of each.
THEOREM ScoredIsNotOutdoneTheorem == Spec => []ScoredIsNotOutdone
<1>1. IInv => ScoredIsNotOutdone
  <2> SUFFICES ASSUME IInv, pc = "saved", fixedRate, NEW i \in Runs,
                      Outdoes(outcome[i], outcome[Kept])
               PROVE  FALSE
    BY DEF ScoredIsNotOutdone, Row, Kept
  <2>1. Kept \in Runs /\ Ranks(Kept, i, OwnBest)
    BY DEF IInv, OneRunInv, ScoredInv, IsWinner
  <2>2. /\ Score(outcome[i], OwnBest) \in Nat /\ Score(outcome[Kept], OwnBest) \in Nat
        /\ Score(outcome[Kept], OwnBest) < Score(outcome[i], OwnBest)
    BY <2>1, OutdoneScoresLess
  <2> QED
    BY <2>1, <2>2 DEF Ranks
<1> QED
  BY <1>1, BestOfRunsInvariant, PTL

-----------------------------------------------------------------------------
(* The scoring always names a run *)

LEMMA ScoreInt ==
  ASSUME IInv, NEW i \in Runs
  PROVE  Score(outcome[i], OwnBest) \in Int /\ outcome[i].rps \in Nat
<1> DEFINE o == outcome[i]
           b == OwnBest
<1>1. \A k \in Runs : /\ outcome[k] \in Outcomes /\ outcome[k].rps \in Nat
                      /\ outcome[k].p99 \in Nat /\ outcome[k].p999 \in Nat
  <2>1. \A k \in Runs : outcome[k] \in Outcomes
    BY DEF IInv, TypeOK, Runs
  <2> QED
    BY <2>1, OutcomesAssumption
<1>2. ASSUME NEW S \in SUBSET Nat PROVE BestOf(S) \in Nat
  <2>1. CASE S \ {0} = {}
    BY <2>1 DEF BestOf
  <2>2. CASE S \ {0} # {}
    <3>1. PICK v \in S : v # 0
      BY <2>2
    <3> QED
      BY <3>1, BestIsLeast
  <2> QED
    BY <2>1, <2>2
<1>3. b.cost \in Nat /\ b.p99 \in Nat /\ b.p999 \in Nat
  <2>1. /\ {Cost(outcome[k]) : k \in Runs} \in SUBSET Nat
        /\ {outcome[k].p99 : k \in Runs} \in SUBSET Nat
        /\ {outcome[k].p999 : k \in Runs} \in SUBSET Nat
    BY <1>1, CostNat
  <2> QED
    BY <1>2, <2>1 DEF OwnBest
<1>4. ASSUME NEW x \in Nat, NEW y \in Nat
      PROVE  LinearScore(x, y) \in Int /\ DecadeScore(x, y) \in Int
  <2>1. ASSUME x # 0 PROVE (48 * y) \div x \in Int
    BY <2>1
  <2>2. 48 \div 3 = 16
    OBVIOUS
  <2> QED
    BY <2>1, <2>2 DEF LinearScore, DecadeScore, Scale
<1>5. /\ LinearScore(Cost(o), b.cost) \in Int
      /\ DecadeScore(o.p99, b.p99) \in Int /\ DecadeScore(o.p999, b.p999) \in Int
  BY <1>1, <1>3, <1>4, CostNat
<1>6. RateFactor(o) \in {0, 1, 2}
  BY <1>1 DEF RateFactor, Full
<1>7. ASSUME NEW f \in {0, 1, 2}, NEW x \in Int, NEW y \in Int, NEW z \in Int
      PROVE  f * (60 * x + 25 * y + 15 * z) \in Int
  BY <1>7
<1>8. Score(o, b) \in Int
  BY <1>5, <1>6, <1>7 DEF Score
<1> QED
  BY <1>1, <1>8

\* The order of the runs is total, and the first of the best of the first k is found
\* one run at a time.
LEMMA SomeRunIsFirst ==
  ASSUME IInv, outcome # <<>>
  PROVE  \E i \in Runs : IsWinner(i)
<1> DEFINE b == OwnBest
           Leads(i, k) == i \in 1 .. k /\ \A j \in 1 .. k : Ranks(i, j, b)
           n == Len(outcome)
           without == {k \in 1 .. n : \A i \in 1 .. n : ~Leads(i, k)}
<1>1. Runs = 1 .. n /\ n \in Nat /\ n # 0
  BY DEF IInv, TypeOK, Runs
<1>2. \A i \in Runs : Score(outcome[i], b) \in Int /\ outcome[i].rps \in Nat
  BY ScoreInt
<1>3. \A i, j \in Runs : Ranks(i, j, b) \/ Ranks(j, i, b)
  BY <1>1, <1>2 DEF Ranks
<1>4. \A i, j, k \in Runs : Ranks(i, j, b) /\ Ranks(j, k, b) => Ranks(i, k, b)
  BY <1>1, <1>2 DEF Ranks
<1> HIDE DEF b, n, Leads
<1>5. without \in SUBSET (1 .. n) /\ without \in SUBSET Nat
  BY <1>1
<1>6. \A k \in 1 .. n : k \in without <=> \A i \in 1 .. n : ~Leads(i, k)
  OBVIOUS
<1>7. \A i, k : Leads(i, k) <=> i \in 1 .. k /\ \A j \in 1 .. k : Ranks(i, j, b)
  BY DEF Leads
<1> HIDE DEF without
<1>8. ASSUME without # {} PROVE FALSE
  <2>1. PICK k \in without : \A l \in without : k <= l
    BY <1>8, <1>5, LeastOf
  <2>2. CASE k = 1
    <3>1. Leads(1, k) /\ 1 \in 1 .. n
      BY <1>1, <1>3, <1>7, <2>2
    <3> QED
      BY <1>5, <1>6, <2>1, <3>1
  <2>3. CASE k # 1
    <3>1. k \in 1 .. n /\ k - 1 \in 1 .. n /\ k - 1 \notin without
      <4>1. k \in 1 .. n
        BY <1>5, <2>1
      <4>2. k - 1 \in 1 .. n /\ ~(k <= k - 1)
        BY <1>1, <2>3, <4>1
      <4> QED
        BY <2>1, <4>1, <4>2
    <3>2. PICK i \in 1 .. n : Leads(i, k - 1)
      BY <1>6, <3>1
    <3>3. i \in 1 .. k /\ k \in 1 .. k /\ \A j \in 1 .. k : j = k \/ j \in 1 .. k - 1
      BY <1>1, <1>7, <3>1, <3>2
    <3>4. \A j \in 1 .. k : j \in Runs
      BY <1>1, <3>1
    <3>5. CASE Ranks(i, k, b)
      <4>1. Leads(i, k)
        BY <1>7, <3>2, <3>3, <3>5
      <4> QED
        BY <1>6, <2>1, <3>1, <4>1
    <3>6. CASE Ranks(k, i, b)
      <4>1. ASSUME NEW j \in 1 .. k PROVE Ranks(k, j, b)
        <5>1. CASE j = k
          BY <1>3, <3>4, <5>1
        <5>2. CASE j \in 1 .. k - 1
          <6>1. Ranks(i, j, b)
            BY <1>7, <3>2, <5>2
          <6> QED
            BY <1>4, <3>3, <3>4, <3>6, <6>1
        <5> QED
          BY <3>3, <5>1, <5>2
      <4>2. Leads(k, k)
        BY <1>7, <3>3, <4>1
      <4> QED
        BY <1>6, <2>1, <3>1, <4>2
    <3> QED
      BY <1>3, <3>3, <3>4, <3>5, <3>6
  <2> QED
    BY <2>2, <2>3
<1>9. n \in 1 .. n /\ n \notin without
  BY <1>1, <1>8
<1>10. PICK i \in 1 .. n : Leads(i, n)
  BY <1>6, <1>9
<1> QED
  BY <1>1, <1>7, <1>10 DEF IsWinner, b

\* Of any number of runs, one ranks first: if latency_score.py names none it has failed, not
\* run into a field without a best.
THEOREM SomeRunWins == Spec => [](pc = "pick" => \E i \in Runs : IsWinner(i))
<1>1. IInv => (pc = "pick" => \E i \in Runs : IsWinner(i))
  BY SomeRunIsFirst DEF IInv, OneRunInv
<1> QED
  BY <1>1, BestOfRunsInvariant, PTL

=============================================================================
