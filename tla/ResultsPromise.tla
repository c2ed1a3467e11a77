---------------------------- MODULE ResultsPromise ----------------------------
(***************************************************************************)
(* What a driver of benchmarks promises about results, with no host and no  *)
(* container in it.  The frameworks have their turns in order; a turn       *)
(* attends to the runs that were asked of its framework and may save a row  *)
(* of a run it attends to; saved rows are shown; and the job ends well only *)
(* when every turn was whole and every row is shown.                        *)
(* BenchmarkDriver and LiteDriver implement this specification.             *)
(***************************************************************************)
EXTENDS Naturals, Sequences

CONSTANT Asked  \* per framework, the runs that are asked of it

VARIABLES list,  \* the frameworks, in the order of their turns; never changes
          turn,  \* whose turn it is
          met,   \* the runs this turn has attended to
          rows,  \* the rows saved, <<framework, run>>
          shown, \* the rows shown
          red,   \* has the job failed?
          over   \* has it ended?

resultVars == <<list, turn, met, rows, shown, red, over>>

\* The framework whose turn it is.
Turn == list[turn]
InTurn == ~over /\ turn \in DOMAIN list /\ Turn \in DOMAIN Asked

Init ==
  /\ turn = 1 /\ met = {} /\ rows = {} /\ shown = {}
  /\ red = FALSE /\ over = FALSE

\* A run that was asked of the framework begins; whether there will be a row
\* depends on its server.
Attend ==
  /\ InTurn
  /\ \E run \in Asked[Turn] : met' = met \cup {run}
  /\ UNCHANGED <<list, turn, rows, shown, red, over>>

SaveRow ==
  /\ InTurn
  /\ \E run \in met : rows' = rows \cup {<<Turn, run>>}
  /\ UNCHANGED <<list, turn, met, shown, red, over>>

\* A show that stops half way shows some more of the rows, and may make the job red.
ShowRows ==
  /\ ~over
  /\ shown \subseteq shown' /\ shown' \subseteq rows
  /\ red' \in BOOLEAN /\ (red => red')
  /\ UNCHANGED <<list, turn, met, rows, over>>

\* A turn that leaves out a run makes the job red.
Leave ==
  /\ ~over /\ turn \in DOMAIN list
  /\ turn' = turn + 1 /\ met' = {}
  /\ red' \in BOOLEAN /\ (red => red')
  /\ red' \/ (InTurn /\ met = Asked[Turn])
  /\ UNCHANGED <<list, rows, shown, over>>

Fail ==
  /\ ~over
  /\ red' = TRUE
  /\ UNCHANGED <<list, turn, met, rows, shown, over>>

\* A job that is not red has given every framework its turn and shows every row.
End ==
  /\ ~over
  /\ over' = TRUE
  /\ red \/ (turn = Len(list) + 1 /\ shown = rows)
  /\ UNCHANGED <<list, turn, met, rows, shown, red>>

Next == Attend \/ SaveRow \/ ShowRows \/ Leave \/ Fail \/ End

Spec == Init /\ [][Next]_resultVars
===============================================================================
