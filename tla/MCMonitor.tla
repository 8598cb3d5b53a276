------------------------------ MODULE MCMonitor ------------------------------
(* Monitor for TLC.  Workers, and callers of Stop, are interchangeable.       *)
EXTENDS Monitor, TLC

Symmetry == Permutations(Worker) \union Permutations(Stopper)
===============================================================================
