---------------------------- MODULE MCBestOfRuns -----------------------------
(* Three measurements, each at half the rate, at the rate or above it, with *)
(* its CPU read or not and tails up to four decades apart; or all errors, or *)
(* no answer at all.  Costs and their ratios are whole numbers, so the      *)
(* scaled scores are exact.                                                 *)
EXTENDS BestOfRuns

Served == {[rps |-> q, ok |-> q, usec |-> c * q, p99 |-> t, p999 |-> u] :
             q \in {1, 2, 3}, c \in {0, 1, 4}, t \in {1, 2, 5}, u \in {1, 5}}
Errors == {[rps |-> q, ok |-> 0, usec |-> 1, p99 |-> 1, p999 |-> 1] : q \in {1, 2}}
Nothing == {[rps |-> 0, ok |-> 0, usec |-> c, p99 |-> 0, p999 |-> 0] : c \in {0, 1}}

MCOutcomes == Served \cup Errors \cup Nothing

=============================================================================
