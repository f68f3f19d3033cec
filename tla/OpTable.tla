------------------------------ MODULE OpTable ------------------------------
(***************************************************************************)
(* What the parser, the validator, the lowering and the C library of duumbi *)
(* each say of the ops that compile to one call of a library function.     *)
(* Nothing in the code ties the four together: each is a list of its own.   *)
(*                                                                         *)
(* A type is a sequence: <<"i64">>, or a type constructor in front of its   *)
(* argument.  The error of every result is a string, as in the library.    *)
(***************************************************************************)
EXTENDS Naturals, Sequences

I64          == <<"i64">>
F64          == <<"f64">>
Bool         == <<"bool">>
Void         == <<"void">>
String       == <<"string">>
Json         == <<"json">>
TcpSocket    == <<"tcp_socket">>
TcpListener  == <<"tcp_listener">>
HttpServer   == <<"http_server">>
HttpResponse == <<"http_response">>
DbConnection == <<"db_connection">>
DbRows       == <<"db_rows">>
Junk         == <<"junk">>      \* no type describes these bits
Unknown      == <<>>            \* the node has no duumbi:resultType

Array(t)  == <<"array">> \o t
Option(t) == <<"option">> \o t
Result(t) == <<"result">> \o t

\* The names types are made of; structs are left out.
TypeNames ==
    {"i64", "f64", "bool", "void", "string", "json", "tcp_socket", "tcp_listener",
     "http_server", "http_response", "db_connection", "db_rows", "junk",
     "array", "option", "result"}

Type == Seq(TypeNames)

IsArray(t)  == t # Unknown /\ Head(t) = "array"
IsOption(t) == t # Unknown /\ Head(t) = "option"
IsResult(t) == t # Unknown /\ Head(t) = "result"

\* Mutant of MachineType: a Boolean of one bit.
MachineTypeOfBits(t) ==
    CASE t = F64 -> "f64" [] t = Bool -> "b1" [] OTHER -> "i64"

\* How a value of type t lies in a register (duumbi_type_to_cl).
MachineType(t) ==
    CASE t = F64 -> "f64" [] t = Bool -> "i8" [] OTHER -> "i64"

\* A table whose rows are f and, for the ops that f has no row for, g (the
\* operator of TLC for this means nothing to the proof system).
f ++ g == [x \in DOMAIN f \cup DOMAIN g |-> IF x \in DOMAIN f THEN f[x] ELSE g[x]]

\* One row for each of S.
Every(S, x) == [s \in S |-> x]

-----------------------------------------------------------------------------
(* The parser: the fields an op must have, as the edges the builder makes of
   them, in the order of the fields *)

ParsedIO ==
    Every({"ReadLine"}, <<>>)
 ++ Every({"PrintString", "PrintLn", "FileExists", "ListDir"}, <<"Operand">>)
 ++ Every({"ReadFile", "WriteFile", "PathJoin"}, <<"Left", "Right">>)

ParsedStrings ==
    Every({"StringEquals", "StringContains", "StringFind", "StringCompare"},
          <<"Left", "Right">>)
 ++ Every({"StringLength", "StringTrim", "StringToUpper", "StringToLower"},
          <<"Operand">>)
 ++ Every({"StringReplace", "StringSlice"}, <<"Operand", "Left", "Right">>)

ParsedJsonTcp ==
    Every({"JsonParse", "JsonStringify", "JsonArrayLen", "TcpClose",
           "TcpListenerClose"}, <<"Operand">>)
 ++ Every({"JsonGetField", "JsonArrayGet", "TcpAccept"}, <<"Operand", "Left">>)
 ++ Every({"TcpConnect", "TcpListen", "TcpRead", "TcpWrite"},
          <<"Operand", "Left", "Right">>)

ParsedServices ==
    Every({"ServerClose", "HttpStatus", "HttpBody", "HttpHeaders",
           "HttpResponseFree", "DbOpen", "DbRowsLen", "DbClose", "DbRowsFree"},
          <<"Operand">>)
 ++ Every({"ServerNew", "ServerStart", "HttpGet", "HttpDelete", "DbExecute",
           "DbQuery", "DbRowGet"}, <<"Operand", "Left", "Right">>)
 ++ Every({"RouteAddStatic"}, <<"Operand", "Arg0", "Arg1", "Arg2", "Arg3", "Arg4">>)
 ++ Every({"HttpPost", "HttpPut"}, <<"Operand", "Left", "Right", "Arg0">>)

ParsedMath ==
    Every({"Sqrt"}, <<"Operand">>) ++ Every({"Pow", "PowI64"}, <<"Left", "Right">>)

Parsed == ParsedIO ++ ParsedStrings ++ ParsedJsonTcp ++ ParsedServices ++ ParsedMath

Ops == DOMAIN Parsed

-----------------------------------------------------------------------------
(* The lowering: the edges in the order their values are passed *)

LoweredIO ==
    Every({"ReadLine"}, <<>>)
 ++ Every({"PrintString", "PrintLn", "FileExists", "ListDir"}, <<"Operand">>)
 ++ Every({"ReadFile", "WriteFile", "PathJoin"}, <<"Left", "Right">>)

LoweredStrings ==
    Every({"StringEquals", "StringContains", "StringFind", "StringCompare"},
          <<"Left", "Right">>)
 ++ Every({"StringLength", "StringTrim", "StringToUpper", "StringToLower"},
          <<"Operand">>)
 ++ Every({"StringReplace", "StringSlice"}, <<"Operand", "Left", "Right">>)

LoweredMath ==
    Every({"Sqrt"}, <<"Operand">>) ++ Every({"Pow", "PowI64"}, <<"Left", "Right">>)

LoweredJsonTcp ==
    Every({"JsonParse", "JsonStringify", "JsonArrayLen", "TcpClose",
           "TcpListenerClose"}, <<"Operand">>)
 ++ Every({"JsonGetField", "JsonArrayGet", "TcpAccept"}, <<"Operand", "Left">>)
 ++ Every({"TcpConnect", "TcpListen", "TcpRead", "TcpWrite"},
          <<"Operand", "Left", "Right">>)

LoweredServerHttp ==
    Every({"ServerClose", "HttpStatus", "HttpBody", "HttpHeaders",
           "HttpResponseFree"}, <<"Operand">>)
 ++ Every({"ServerNew", "ServerStart", "HttpGet", "HttpDelete"},
          <<"Operand", "Left", "Right">>)
 ++ Every({"RouteAddStatic"}, <<"Operand", "Arg0", "Arg1", "Arg2", "Arg3", "Arg4">>)
 ++ Every({"HttpPost", "HttpPut"}, <<"Operand", "Left", "Right", "Arg0">>)

LoweredDb ==
    Every({"DbOpen", "DbRowsLen", "DbClose", "DbRowsFree"}, <<"Operand">>)
 ++ Every({"DbExecute", "DbQuery", "DbRowGet"}, <<"Operand", "Left", "Right">>)

Lowered ==
    LoweredIO ++ LoweredStrings ++ LoweredMath ++ LoweredJsonTcp
 ++ LoweredServerHttp ++ LoweredDb

-----------------------------------------------------------------------------
(* The declarations of the library for the code generator, and the library *)

Ints(n) == [i \in 1..n |-> "i64"]
Floats(n) == [i \in 1..n |-> "f64"]
Sig(takes, gives) == [takes |-> takes, gives |-> gives]

\* declare_all_runtime_fns; "none" for a function without a value.
Declared ==
    Every({"PrintString"}, Sig(Ints(1), "none"))
 ++ Every({"StringEquals", "StringContains"}, Sig(Ints(2), "i8"))
 ++ Every({"Sqrt"}, Sig(Floats(1), "f64")) ++ Every({"Pow"}, Sig(Floats(2), "f64"))
 ++ Every({"ReadLine"}, Sig(Ints(0), "i64"))
 ++ Every({"PrintLn", "FileExists", "ListDir", "StringLength", "StringTrim",
           "StringToUpper", "StringToLower", "JsonParse", "JsonStringify",
           "JsonArrayLen", "TcpClose", "TcpListenerClose", "ServerClose",
           "HttpStatus", "HttpBody", "HttpHeaders", "HttpResponseFree", "DbOpen",
           "DbRowsLen", "DbClose", "DbRowsFree"}, Sig(Ints(1), "i64"))
 ++ Every({"ReadFile", "WriteFile", "PathJoin", "StringFind", "StringCompare",
           "PowI64", "JsonGetField", "JsonArrayGet", "TcpAccept"},
          Sig(Ints(2), "i64"))
 ++ Every({"StringSlice", "StringReplace", "TcpConnect", "TcpListen", "TcpRead",
           "TcpWrite", "ServerNew", "ServerStart", "HttpGet", "HttpDelete",
           "DbExecute", "DbQuery", "DbRowGet"}, Sig(Ints(3), "i64"))
 ++ Every({"HttpPost", "HttpPut"}, Sig(Ints(4), "i64"))
 ++ Every({"RouteAddStatic"}, Sig(Ints(6), "i64"))

\* What the functions take their arguments for, and what they return.
RuntimeIO ==
    Every({"PrintString"}, Sig(<<String>>, Void))
 ++ Every({"ReadLine"}, Sig(<<>>, Result(String)))
 ++ Every({"PrintLn"}, Sig(<<String>>, Result(I64)))
 ++ Every({"ReadFile"}, Sig(<<String, I64>>, Result(String)))
 ++ Every({"WriteFile"}, Sig(<<String, String>>, Result(I64)))
 ++ Every({"FileExists"}, Sig(<<String>>, Result(Bool)))
 ++ Every({"ListDir"}, Sig(<<String>>, Result(Array(String))))
 ++ Every({"PathJoin"}, Sig(<<String, String>>, Result(String)))

RuntimeStrings ==
    Every({"StringEquals", "StringContains"}, Sig(<<String, String>>, Bool))
 ++ Every({"StringCompare", "StringFind"}, Sig(<<String, String>>, I64))
 ++ Every({"StringLength"}, Sig(<<String>>, I64))
 ++ Every({"StringSlice"}, Sig(<<String, I64, I64>>, String))
 ++ Every({"StringTrim", "StringToUpper", "StringToLower"}, Sig(<<String>>, String))
 ++ Every({"StringReplace"}, Sig(<<String, String, String>>, String))

RuntimeMath ==
    Every({"Sqrt"}, Sig(<<F64>>, F64)) ++ Every({"Pow"}, Sig(<<F64, F64>>, F64))
 ++ Every({"PowI64"}, Sig(<<I64, I64>>, I64))

RuntimeJson ==
    Every({"JsonParse"}, Sig(<<String>>, Result(Json)))
 ++ Every({"JsonStringify"}, Sig(<<Json>>, Result(String)))
 ++ Every({"JsonGetField"}, Sig(<<Json, String>>, Result(Json)))
 ++ Every({"JsonArrayLen"}, Sig(<<Json>>, Result(I64)))
 ++ Every({"JsonArrayGet"}, Sig(<<Json, I64>>, Result(Json)))

RuntimeTcp ==
    Every({"TcpConnect"}, Sig(<<String, I64, I64>>, Result(TcpSocket)))
 ++ Every({"TcpListen"}, Sig(<<String, I64, I64>>, Result(TcpListener)))
 ++ Every({"TcpAccept"}, Sig(<<TcpListener, I64>>, Result(TcpSocket)))
 ++ Every({"TcpRead"}, Sig(<<TcpSocket, I64, I64>>, Result(String)))
 ++ Every({"TcpWrite"}, Sig(<<TcpSocket, String, I64>>, Result(I64)))
 ++ Every({"TcpClose"}, Sig(<<TcpSocket>>, Result(I64)))
 ++ Every({"TcpListenerClose"}, Sig(<<TcpListener>>, Result(I64)))

RuntimeServer ==
    Every({"ServerNew"}, Sig(<<String, I64, I64>>, Result(HttpServer)))
 ++ Every({"RouteAddStatic"},
          Sig(<<HttpServer, String, String, I64, Json, String>>, Result(I64)))
 ++ Every({"ServerStart"}, Sig(<<HttpServer, I64, I64>>, Result(I64)))
 ++ Every({"ServerClose"}, Sig(<<HttpServer>>, Result(I64)))

RuntimeHttp ==
    Every({"HttpGet", "HttpDelete"}, Sig(<<String, Json, I64>>, Result(HttpResponse)))
 ++ Every({"HttpPost", "HttpPut"},
          Sig(<<String, Json, String, I64>>, Result(HttpResponse)))
 ++ Every({"HttpStatus", "HttpResponseFree"}, Sig(<<HttpResponse>>, Result(I64)))
 ++ Every({"HttpBody"}, Sig(<<HttpResponse>>, Result(String)))
 ++ Every({"HttpHeaders"}, Sig(<<HttpResponse>>, Result(Json)))

RuntimeDb ==
    Every({"DbOpen"}, Sig(<<String>>, Result(DbConnection)))
 ++ Every({"DbExecute"}, Sig(<<DbConnection, String, Array(String)>>, Result(I64)))
 ++ Every({"DbQuery"}, Sig(<<DbConnection, String, Array(String)>>, Result(DbRows)))
 ++ Every({"DbRowsLen", "DbRowsFree"}, Sig(<<DbRows>>, Result(I64)))
 ++ Every({"DbRowGet"}, Sig(<<DbRows, I64, String>>, Result(String)))
 ++ Every({"DbClose"}, Sig(<<DbConnection>>, Result(I64)))

Runtime == RuntimeIO ++ RuntimeStrings ++ RuntimeMath ++ RuntimeJson ++ RuntimeTcp
        ++ RuntimeServer ++ RuntimeHttp ++ RuntimeDb

-----------------------------------------------------------------------------
(* The validator: the types it demands of edges, and of the node itself.  An
   op that is not listed is not looked at. *)

Edge(e, t) == Every({e}, t)
Nothing    == Every({}, I64)
OneString  == Edge("Operand", String)
TwoStrings == Every({"Left", "Right"}, String)

RequiredIO ==
    Every({"ReadLine"}, Sig(Nothing, Result(String)))
 ++ Every({"PrintLn"}, Sig(OneString, Result(I64)))
 ++ Every({"ReadFile"}, Sig(Edge("Left", String) ++ Edge("Right", I64), Result(String)))
 ++ Every({"WriteFile"}, Sig(TwoStrings, Result(I64)))
 ++ Every({"FileExists"}, Sig(OneString, Result(Bool)))
 ++ Every({"ListDir"}, Sig(OneString, Result(Array(String))))
 ++ Every({"PathJoin"}, Sig(TwoStrings, Result(String)))

OfServer == Edge("Operand", HttpServer)
TwoInts  == Every({"Left", "Right"}, I64)

RequiredServer ==
    Every({"ServerNew"}, Sig(OneString ++ TwoInts, Result(HttpServer)))
 ++ Every({"RouteAddStatic"},
          Sig(OfServer ++ Edge("Arg0", String) ++ Edge("Arg1", String)
              ++ Edge("Arg2", I64) ++ Edge("Arg3", Json) ++ Edge("Arg4", String),
              Result(I64)))
 ++ Every({"ServerStart"}, Sig(OfServer ++ TwoInts, Result(I64)))
 ++ Every({"ServerClose"}, Sig(OfServer, Result(I64)))

OfResponse == Edge("Operand", HttpResponse)
Request    == OneString ++ Edge("Left", Json)

RequiredHttp ==
    Every({"HttpGet", "HttpDelete"},
          Sig(Request ++ Edge("Right", I64), Result(HttpResponse)))
 ++ Every({"HttpPost", "HttpPut"},
          Sig(Request ++ Edge("Right", String) ++ Edge("Arg0", I64), Result(HttpResponse)))
 ++ Every({"HttpStatus", "HttpResponseFree"}, Sig(OfResponse, Result(I64)))
 ++ Every({"HttpBody"}, Sig(OfResponse, Result(String)))
 ++ Every({"HttpHeaders"}, Sig(OfResponse, Result(Json)))

OfConnection == Edge("Operand", DbConnection)
OfRows       == Edge("Operand", DbRows)
Statement    == OfConnection ++ Edge("Left", String) ++ Edge("Right", Array(String))

\* Mutant of RequiredDb: the row and the column of DbRowGet are swapped.
RequiredDbSwapped ==
    Every({"DbRowGet"},
          Sig(OfRows ++ Edge("Left", String) ++ Edge("Right", I64), Result(String)))

RequiredDb ==
    Every({"DbOpen"}, Sig(OneString, Result(DbConnection)))
 ++ Every({"DbExecute"}, Sig(Statement, Result(I64)))
 ++ Every({"DbQuery"}, Sig(Statement, Result(DbRows)))
 ++ Every({"DbRowsLen", "DbRowsFree"}, Sig(OfRows, Result(I64)))
 ++ Every({"DbRowGet"},
          Sig(OfRows ++ Edge("Left", I64) ++ Edge("Right", String), Result(String)))
 ++ Every({"DbClose"}, Sig(OfConnection, Result(I64)))

Required == RequiredIO ++ RequiredServer ++ RequiredHttp ++ RequiredDb

\* check_arg_types: an argument without a type is an error as well.
Strict == {"RouteAddStatic"}

\* Op::output_type: ops whose type does not depend on what the node records.
FixedOutput ==
    Every({"StringEquals", "StringContains", "StringCompare"}, Bool)
 ++ Every({"StringSlice", "StringTrim", "StringToUpper", "StringToLower",
           "StringReplace"}, String)
 ++ Every({"StringLength", "StringFind", "PowI64"}, I64)
 ++ Every({"Sqrt", "Pow"}, F64) ++ Every({"PrintString"}, Void)

OutputType(o, label) == IF o \in DOMAIN FixedOutput THEN FixedOutput[o] ELSE label

\* Mutant of Direct: the TCP ops were not added.
DirectWithoutTcp == DOMAIN Required \cup
    {"JsonParse", "JsonStringify", "JsonGetField", "JsonArrayLen", "JsonArrayGet"}

\* direct_result_or_option_type: ops whose result may not be ignored.
Direct == DOMAIN Required \cup
    {"JsonParse", "JsonStringify", "JsonGetField", "JsonArrayLen", "JsonArrayGet",
     "TcpConnect", "TcpListen", "TcpAccept", "TcpRead", "TcpWrite", "TcpClose",
     "TcpListenerClose"}

\* has_result_option_ops: library calls that turn the checks of results on.
Gating == Direct
=============================================================================
