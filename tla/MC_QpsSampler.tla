---------------------------- MODULE MC_QpsSampler ----------------------------
(***************************************************************************)
(* Three goroutines make five Sampler calls while the clock runs from 1 to *)
(* 6 with a period of 2 ticks: enough for a goroutine to hold a clock      *)
(* reading across another's sample, for two goroutines to pass the read   *)
(* check together, and for a reading to be due, not due and due again.    *)
(***************************************************************************)
EXTENDS QpsSampler, TLC

CONSTANTS g1, g2, g3

MCProcs == {g1, g2, g3}

Symmetry == Permutations(MCProcs)

(* The sampler's shared state and decisions, seen as the atomic sampler's. *)
Atomic == INSTANCE AtomicSampler

(* Sampler is linearizable: every run of the concurrent, double-checked   *)
(* code is a run of the atomic sampler, each call taking effect at its    *)
(* write-locked or read-locked check with the clock reading it holds.     *)
ImplementsAtomicSampler == Atomic!Spec
=============================================================================
