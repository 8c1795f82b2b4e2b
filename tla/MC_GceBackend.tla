---------------------------- MODULE MC_GceBackend -----------------------------
(* GceBackend with two workers that may run the same create task at once. *)
EXTENDS GceBackend, TLC

CONSTANTS w1, w2

MCWorkers == {w1, w2}

(* Workers are interchangeable: any of them may take any delivery; for   *)
(* the safety-only runs.                                                  *)
Symmetry == Permutations(MCWorkers)

=============================================================================
