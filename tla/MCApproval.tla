----------------------------- MODULE MCApproval -----------------------------
(* Two programs, "a" and "b", each with two namings of its nodes.  The patch *)
(* turns a1 and a2 into b1, and so does it with b1 itself; it does not find  *)
(* its node in b2.                                                          *)
EXTENDS Approval, TLC

CONSTANTS s1, s2

\* Servers are interchangeable: no action and no property names one.
Symmetry == Permutations(Servers)

MCTexts   == {"a1", "a2", "b1", "b2"}
MCHashOf  == [t \in MCTexts |-> IF t \in {"a1", "a2"} THEN "a" ELSE "b"]
MCPatched == [o \in {"op"} |-> [t \in MCTexts |-> IF t = "b2" THEN "invalid" ELSE "b1"]]
=============================================================================
