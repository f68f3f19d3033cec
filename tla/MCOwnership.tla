----------------------------- MODULE MCOwnership -----------------------------
(* Functions of up to five nodes in three blocks; arrays grow at once.       *)
EXTENDS Ownership

\* A function with a diagnostic, a lapse or a use Cranelift's verifier refuses
\* keeps them, whatever is added to it: it is written up to three nodes, enough
\* for a value, a borrow of it and a drop.
Worthwhile == Clean \/ Len(type) <= 3
=============================================================================
