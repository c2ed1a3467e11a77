---------------------------- MODULE MCCrudEntries ----------------------------
(* Instance for TLC: two slots and two workers on one item.  A read that fills
   the cache while an update passes it needs two slots; a slot is reused, so a
   later read sees what the race left behind. *)
EXTENDS CrudEntries

Symmetry == Permutations(Requests) \cup Permutations(Workers)
=============================================================================
