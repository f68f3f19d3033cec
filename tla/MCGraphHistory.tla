--------------------------- MODULE MCGraphHistory ---------------------------
(* Two processes, main and one library module, two texts of each. *)
EXTENDS GraphHistory, TLC

CONSTANTS p1, p2, lib

\* Processes are interchangeable: no action and no property names one.
Symmetry == Permutations(Procs)
=============================================================================
