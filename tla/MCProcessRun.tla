---------------------------- MODULE MCProcessRun ----------------------------
(* ProcessRun with pipes that fill up before the child has written or read *)
(* all: pipes of one byte, up to two bytes of input and three of each      *)
(* stream, of which a managed run keeps two.                               *)
EXTENDS ProcessRun
=============================================================================
