----------------------------- MODULE MCBbsTolerance -----------------------------
(* BbsTolerance for TLC: workers are interchangeable.                           *)
EXTENDS BbsTolerance, TLC

Symmetry == Permutations(Worker)
=================================================================================
