------------------------------ MODULE MCCompile ------------------------------
(* One parameter of each type; functions of two nodes in up to two blocks.  *)
EXTENDS Compile

MCParams == <<I64, F64, Bool, String, Json, TcpSocket, TcpListener, HttpServer,
              HttpResponse, DbConnection, DbRows, Array(String), Array(F64),
              Result(I64), Option(Bool)>>
\* i64, f64, bool, string, an array, a Result and an Option.
MCChosen  == {1, 2, 3, 4, 12, 14, 15}
MCReturns == {I64, F64, String, Result(String), Void}
MCLabels  == {Unknown, I64, F64, Bool, String, Array(String), Result(I64),
              Option(String)}
MCCallees == {[takes |-> I64, gives |-> Result(I64)],
              [takes |-> String, gives |-> F64]}

\* A program that is refused, or that does what no check looks at, is not
\* written any further.
Worthwhile == Errors = {} /\ gaps = {} /\ verified
=============================================================================
