----------------------------- MODULE BestOfRuns ------------------------------
(***************************************************************************)
(* The best-of-N loop of run_one (scripts/benchmark.sh) and the scoring of *)
(* the fixed-rate profiles (scripts/latency_score.py): which of a         *)
(* profile's RUNS measurements becomes the saved row.  The row is put      *)
(* together from eight best_* variables; each is modelled by the run its   *)
(* value came from, 0 before any.                                          *)
(*                                                                         *)
(* Numbers are scaled: rps and 2xx counts are in units of Full / 2, a cost *)
(* is CPU per request, a latency is its decade (1 and up), and 0 stands    *)
(* for a value that was not measured.                                      *)
(***************************************************************************)
EXTENDS Naturals, Integers, Sequences

CONSTANTS
  RUNS,     \* measurements per profile and connection count
  Outcomes  \* what a measurement can yield: [rps, ok, usec, p99, p999]

ASSUME RunsAssumption == RUNS \in Nat \ {0}
ASSUME OutcomesAssumption ==
  \A o \in Outcomes : /\ o \in [rps : Nat, ok : Nat, usec : Nat, p99 : Nat, p999 : Nat]
                      /\ o.ok <= o.rps

VARIABLES
  fixedRate,  \* is the profile latency-1m, latency-10k or 8gbit?
  outcome,    \* the measurements so far
  best,       \* per best_* variable, the run it holds a value of
  pc

vars == <<fixedRate, outcome, best, pc>>

Runs == DOMAIN outcome
BestVars ==
  {"rps", "cpu_usec", "rate_ratio", "output", "cpu", "mem", "breakdown", "BEST_M"}
AllFrom(i) == [v \in BestVars |-> i]

-----------------------------------------------------------------------------
(* scripts/latency_score.py *)

Full == 2
Scale == 48  \* a metric's score of 1

\* CPU per request; 0 when the cgroup read failed or nothing was served.
Cost(o) == IF o.ok = 0 THEN 0 ELSE (2 * o.usec) \div o.ok

\* Mutant: a missing CPU reading is free.
LinearScoreFree(value, least) ==
  IF value = 0 THEN Scale ELSE (Scale * least) \div value

LinearScore(value, least) ==
  IF value = 0 \/ least = 0 THEN 0 ELSE (Scale * least) \div value

\* The code divides floats, which tell any two costs of a field apart; the whole quotients
\* here do so too.
ASSUME ScaleAssumption ==
  LET costs == {Cost(o) : o \in Outcomes} \ {0}
  IN \A least, c, d \in costs :
       least <= c => /\ LinearScore(c, least) > 0
                     /\ c < d => LinearScore(d, least) < LinearScore(c, least)

\* A third of the score is lost per decade above the best.
DecadeScore(value, least) ==
  LET above == value - least
  IN IF value = 0 \/ least = 0 \/ above > 3 THEN 0 ELSE Scale - above * (Scale \div 3)

RateFactor(o) == IF o.rps > Full THEN Full ELSE o.rps

\* The least measured value; 0 if there is none.
BestOf(values) ==
  IF values \ {0} = {} THEN 0
  ELSE CHOOSE v \in values \ {0} : \A w \in values \ {0} : v <= w

\* The best values among one entry's own runs.
OwnBest == [cost |-> BestOf({Cost(outcome[i]) : i \in Runs}),
            p99  |-> BestOf({outcome[i].p99 : i \in Runs}),
            p999 |-> BestOf({outcome[i].p999 : i \in Runs})]

Score(o, b) ==
  RateFactor(o) * (60 * LinearScore(Cost(o), b.cost)
                     + 25 * DecadeScore(o.p99, b.p99)
                     + 15 * DecadeScore(o.p999, b.p999))

\* max() over the rows keyed by (score, rps); the first of equals.
Ranks(i, j, b) ==
  LET si == Score(outcome[i], b)
      sj == Score(outcome[j], b)
  IN \/ si > sj
     \/ si = sj /\ outcome[i].rps > outcome[j].rps
     \/ si = sj /\ outcome[i].rps = outcome[j].rps /\ i <= j

IsWinner(i) == \A j \in Runs : Ranks(i, j, OwnBest)

-----------------------------------------------------------------------------
(* run_one *)

Init ==
  /\ fixedRate \in BOOLEAN
  /\ outcome = <<>>
  /\ best = AllFrom(0)
  /\ pc = "loop"

BestRps == IF best["rps"] = 0 THEN -1 ELSE outcome[best["rps"]].rps
BestUsec == IF best["cpu_usec"] = 0 THEN 0 ELSE outcome[best["cpu_usec"]].usec

\* Mutant: every profile keeps its fastest run.
BetterIsFaster(o) == o.rps > BestRps

\* Mutant: every profile keeps its cheapest run.
BetterIsCheaper(o) ==
  IF o.usec # 0 THEN BestUsec = 0 \/ o.usec < BestUsec ELSE o.rps > BestRps

\* On a fixed-rate profile the cheapest run so far, as long as its CPU was read;
\* otherwise the fastest.
Better(o) ==
  IF fixedRate /\ o.usec # 0
    THEN BestUsec = 0 \/ o.usec < BestUsec
    ELSE o.rps > BestRps

Measure ==
  /\ pc = "loop" /\ Len(outcome) < RUNS
  /\ \E o \in Outcomes :
       /\ outcome' = Append(outcome, o)
       /\ best' = IF Better(o) THEN AllFrom(Len(outcome')) ELSE best
  /\ UNCHANGED <<fixedRate, pc>>

LoopEnds ==
  /\ pc = "loop" /\ Len(outcome) = RUNS
  /\ pc' = IF fixedRate THEN "pick" ELSE "saved"
  /\ UNCHANGED <<fixedRate, outcome, best>>

\* Mutant: one of the variables keeps the loop's choice.
PickForgetsMem ==
  /\ pc = "pick"
  /\ pc' = "saved"
  /\ \E i \in Runs : IsWinner(i) /\ best' = [AllFrom(i) EXCEPT !["mem"] = best["mem"]]
  /\ UNCHANGED <<fixedRate, outcome>>

\* latency_score.py --pick names the winner, and every variable is read back from
\* the files of that run.
Pick ==
  /\ pc = "pick"
  /\ pc' = "saved"
  /\ \E i \in Runs : IsWinner(i) /\ best' = AllFrom(i)
  /\ UNCHANGED <<fixedRate, outcome>>

\* It printed nothing: "could not score the runs", and the loop's choice stands.
PickFails ==
  /\ pc = "pick"
  /\ pc' = "unscored"
  /\ UNCHANGED <<fixedRate, outcome, best>>

Next == Measure \/ LoopEnds \/ Pick \/ PickFails

Spec == Init /\ [][Next]_vars

-----------------------------------------------------------------------------
(* Properties *)

\* Every variable holds a value of its kind, and no more than RUNS are measured.
TypeOK ==
  /\ fixedRate \in BOOLEAN
  /\ outcome \in Seq(Outcomes) /\ Len(outcome) <= RUNS
  /\ best \in [BestVars -> Runs \cup {0}]
  /\ pc \in {"loop", "pick", "saved", "unscored"}

Done == pc \in {"saved", "unscored"}
Row == outcome[best["BEST_M"]]

\* Whatever fails, the saved row is one measurement: no figure of one run stands
\* next to a figure of another.
RowIsOneRun ==
  Done => best["BEST_M"] \in Runs /\ best = AllFrom(best["BEST_M"])

\* Where rps is the result, no run was faster than the one saved, and there is a
\* row even if nothing was served.
FastestIsSaved ==
  pc = "saved" /\ ~fixedRate => \A i \in Runs : outcome[i].rps <= Row.rps

\* Run o served as much as p, with tails no worse, and for less CPU per request: p
\* cost more, or its cost is not known.
Outdoes(o, p) ==
  /\ o.rps >= p.rps
  /\ 0 < o.p99 /\ o.p99 <= p.p99
  /\ 0 < o.p999 /\ o.p999 <= p.p999
  /\ 0 < Cost(o) /\ (Cost(p) = 0 \/ Cost(o) < Cost(p))

\* The scored choice never keeps a run that another of the same entry outdoes:
\* a missing CPU reading does not win by costing nothing, and a cheap run does not
\* win by serving less.
ScoredIsNotOutdone ==
  pc = "saved" /\ fixedRate => \A i \in Runs : ~Outdoes(outcome[i], Row)

\* "could not score the runs - keeping the cheapest by CPU": when every run held the
\* rate and had its CPU read, none used less than the one kept.
UnscoredIsCheapest ==
  /\ pc = "unscored"
  /\ \A i \in Runs : outcome[i].ok >= Full /\ outcome[i].usec # 0
  => \A i \in Runs : Row.usec <= outcome[i].usec

=============================================================================
