----------------------------- MODULE MCRetention -----------------------------
(* Attempts that the content budget and the stub pool can hold only some     *)
(* of.                                                                      *)
EXTENDS Retention
=============================================================================
