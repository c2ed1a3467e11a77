---------------------------- MODULE MCBenchmarkPr ----------------------------
(* One pull request with a published entry it works on, another published *)
(* entry and one that is new to the leaderboard.                          *)
EXTENDS BenchmarkPr

MCFrameworks == {"mine", "other", "new"}
MCPublished == {"mine", "other"}

=============================================================================
