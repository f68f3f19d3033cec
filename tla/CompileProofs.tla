---------------------------- MODULE CompileProofs ----------------------------
(***************************************************************************)
(* Type soundness of functions of any size, over any types.                *)
(*                                                                         *)
(* First the four lists of ops are shown to agree, op by op (TablesAgree). *)
(* Then each op is shown to be fine when its operands are what they are    *)
(* believed to be: if nothing is reported, it confuses nothing, and its    *)
(* result is believed to be what it is; if it is meant and labelled right, *)
(* nothing is reported.  That makes IInv inductive, and the properties of  *)
(* Compile follow from it.                                                 *)
(***************************************************************************)
EXTENDS Compile, SequenceTheorems, TLAPS

-----------------------------------------------------------------------------
(* Types are sequences of names.                                           *)

\* One element in front of a sequence, or behind it.
LEMMA Singleton ==
  ASSUME NEW S, NEW c \in S
  PROVE  <<c>> \in Seq(S) /\ Len(<<c>>) = 1 /\ <<c>>[1] = c
OBVIOUS

\* What a constructor put in front of a type can be taken off again.
LEMMA Cons ==
  ASSUME NEW S, NEW t \in Seq(S), NEW c \in S
  PROVE  /\ <<c>> \o t \in Seq(S) /\ <<c>> \o t # <<>>
         /\ Head(<<c>> \o t) = c /\ Tail(<<c>> \o t) = t
         /\ Len(<<c>> \o t) = Len(t) + 1
<1> DEFINE u == <<c>> \o t
<1>1. /\ u \in Seq(S) /\ Len(u) = 1 + Len(t)
      /\ \A i \in 1..1 + Len(t) : u[i] = IF i <= 1 THEN c ELSE t[i - 1]
  <2>1. <<c>> \in Seq(S) /\ Len(<<c>>) = 1 /\ <<c>>[1] = c
    BY Singleton
  <2> QED
    BY <2>1, ConcatProperties
<1>2. Len(t) \in Nat
  BY LenProperties
<1>3. u # <<>>
  BY <1>1, <1>2
<1>4. Head(u) = c
  BY <1>1, <1>2
<1>5. Tail(u) = t
  <2>1. Tail(u) \in Seq(S) /\ Len(Tail(u)) = Len(t) /\ \A i \in 1..Len(t) : Tail(u)[i] = u[i + 1]
    BY <1>1, <1>2, <1>3, HeadTailProperties
  <2>2. \A i \in 1..Len(t) : Tail(u)[i] = t[i]
    BY <1>1, <1>2, <2>1
  <2> QED
    BY <2>1, <2>2, SeqEqual
<1> QED
  BY <1>1, <1>2, <1>3, <1>4, <1>5

\* A type is its first name in front of the rest.
LEMMA Uncons ==
  ASSUME NEW t \in Type, t # <<>>
  PROVE  t = <<Head(t)>> \o Tail(t) /\ Head(t) \in TypeNames /\ Tail(t) \in Type
<1>1. /\ Head(t) \in TypeNames /\ Tail(t) \in Type /\ Len(Tail(t)) = Len(t) - 1
      /\ \A i \in 1..Len(Tail(t)) : Tail(t)[i] = t[i + 1]
  BY HeadTailProperties DEF Type
<1>2. Len(t) \in Nat /\ Len(t) # 0 /\ Head(t) = t[1]
  BY LenProperties, EmptySeq DEF Type
<1> DEFINE u == <<Head(t)>> \o Tail(t)
<1>3. /\ u \in Type /\ Len(u) = Len(t)
      /\ \A i \in 1..Len(t) : u[i] = IF i <= 1 THEN Head(t) ELSE Tail(t)[i - 1]
  <2>1. <<Head(t)>> \in Seq(TypeNames) /\ Len(<<Head(t)>>) = 1 /\ <<Head(t)>>[1] = Head(t)
    BY <1>1
  <2> QED
    BY <1>1, <1>2, <2>1, ConcatProperties DEF Type
<1>4. \A i \in 1..Len(t) : u[i] = t[i]
  BY <1>1, <1>2, <1>3
<1> QED
  BY <1>1, <1>3, <1>4, SeqEqual DEF Type

Plain == {I64, F64, Bool, Void, String, Json, TcpSocket, TcpListener, HttpServer,
          HttpResponse, DbConnection, DbRows, Junk, Unknown}

\* A type that the others are not made of differs from them, and lies in 64 bits
\* unless it is a float or a Boolean.
LEMMA PlainTypes ==
  /\ Plain \subseteq Type
  /\ \A t \in Plain : ~IsArray(t) /\ ~IsResult(t) /\ ~IsOption(t)
  /\ MachineType(F64) = "f64" /\ MachineType(Bool) = "i8"
  /\ \A t : t \notin {F64, Bool} => MachineType(t) = "i64"
  /\ I64 # F64 /\ I64 # Bool /\ F64 # Bool
  /\ String \notin {I64, F64, Bool, Junk, Unknown, Void}
  /\ Void \notin {I64, F64, Bool}
  /\ Junk \notin {I64, F64, Bool, Unknown} /\ Unknown \notin {I64, F64, Bool}
  /\ Unknown = <<>>
  /\ {F64, Bool, Void} \cap {Json, TcpSocket, TcpListener, HttpServer,
                             HttpResponse, DbConnection, DbRows} = {}
<1>1. \A c \in TypeNames : <<c>> \in Type
  BY Singleton DEF Type
<1>2. <<>> \in Type
  BY EmptySeq DEF Type
<1> USE DEF Plain, I64, F64, Bool, Void, String, Json, TcpSocket, TcpListener, HttpServer,
            HttpResponse, DbConnection, DbRows, Junk, Unknown
<1>3. Plain \subseteq Type
  BY <1>1, <1>2 DEF TypeNames
<1>4. \A t \in Plain : ~IsArray(t) /\ ~IsResult(t) /\ ~IsOption(t)
  BY <1>1 DEF IsArray, IsResult, IsOption
<1>5. /\ MachineType(F64) = "f64" /\ MachineType(Bool) = "i8"
      /\ \A t : t \notin {F64, Bool} => MachineType(t) = "i64"
  BY DEF MachineType
<1> QED
  BY <1>3, <1>4, <1>5

\* The three type constructors.
LEMMA Constructors ==
  ASSUME NEW t \in Type
  PROVE  /\ Array(t) \in Type /\ IsArray(Array(t)) /\ ~IsResult(Array(t)) /\ ~IsOption(Array(t))
         /\ Result(t) \in Type /\ IsResult(Result(t)) /\ ~IsArray(Result(t)) /\ ~IsOption(Result(t))
         /\ Option(t) \in Type /\ IsOption(Option(t)) /\ ~IsArray(Option(t)) /\ ~IsResult(Option(t))
         /\ Tail(Array(t)) = t /\ Tail(Result(t)) = t /\ Tail(Option(t)) = t
         /\ IsArray(t) => t = Array(Tail(t)) /\ Tail(t) \in Type
         /\ IsResult(t) => t = Result(Tail(t)) /\ Tail(t) \in Type
         /\ IsOption(t) => t = Option(Tail(t)) /\ Tail(t) \in Type
<1>0. "array" \in TypeNames /\ "result" \in TypeNames /\ "option" \in TypeNames
  BY DEF TypeNames
<1>1. /\ Array(t) \in Type /\ Array(t) # <<>> /\ Head(Array(t)) = "array" /\ Tail(Array(t)) = t
      /\ Result(t) \in Type /\ Result(t) # <<>> /\ Head(Result(t)) = "result" /\ Tail(Result(t)) = t
      /\ Option(t) \in Type /\ Option(t) # <<>> /\ Head(Option(t)) = "option" /\ Tail(Option(t)) = t
  BY <1>0, Cons DEF Type, Array, Result, Option
<1>2. t # <<>> => t = <<Head(t)>> \o Tail(t) /\ Tail(t) \in Type
  BY Uncons
<1> QED
  BY <1>1, <1>2 DEF IsArray, IsResult, IsOption, Array, Result, Option, Unknown

\* Whatever has a constructor in front is none of the plain types, and lies in 64 bits.
LEMMA Boxed ==
  ASSUME NEW t \in Type, IsArray(t) \/ IsResult(t) \/ IsOption(t)
  PROVE  t \notin Plain /\ MachineType(t) = "i64"
<1>1. t \notin Plain
  BY PlainTypes
<1> QED
  BY <1>1, PlainTypes DEF Plain

-----------------------------------------------------------------------------
(* The tables are put together of rows for disjoint groups of ops.          *)

\* A merged table takes the first row it finds.
LEMMA Merge ==
  /\ \A f, g, x : x \in DOMAIN f => (f ++ g)[x] = f[x]
  /\ \A f, g, x : x \notin DOMAIN f /\ x \in DOMAIN g => (f ++ g)[x] = g[x]
  /\ \A f, g, x : x \in DOMAIN (f ++ g) <=> x \in DOMAIN f \/ x \in DOMAIN g
BY SMTT(40) DEF ++

\* Every gives each op of a group the same row.
LEMMA Rows ==
  /\ \A S, x, o : o \in S => Every(S, x)[o] = x
  /\ \A S, x, o : o \in DOMAIN Every(S, x) <=> o \in S
BY DEF Every

IOOps     == {"ReadLine", "PrintString", "PrintLn", "FileExists", "ListDir", "ReadFile",
              "WriteFile", "PathJoin"}
StringOps == {"StringEquals", "StringContains", "StringFind", "StringCompare",
              "StringLength", "StringTrim", "StringToUpper", "StringToLower",
              "StringReplace", "StringSlice"}
MathOps   == {"Sqrt", "Pow", "PowI64"}
JsonOps   == {"JsonParse", "JsonStringify", "JsonArrayLen", "JsonGetField", "JsonArrayGet"}
TcpOps    == {"TcpClose", "TcpListenerClose", "TcpAccept", "TcpConnect", "TcpListen",
              "TcpRead", "TcpWrite"}
ServerOps == {"ServerNew", "ServerStart", "ServerClose", "RouteAddStatic"}
HttpOps   == {"HttpGet", "HttpDelete", "HttpPost", "HttpPut", "HttpStatus", "HttpBody",
              "HttpHeaders", "HttpResponseFree"}
DbOps     == {"DbOpen", "DbExecute", "DbQuery", "DbRowsLen", "DbRowGet", "DbClose",
              "DbRowsFree"}

\* No op is in two groups.
LEMMA GroupsAreDisjoint ==
  ASSUME NEW o
  PROVE  /\ o \in IOOps => o \notin StringOps \cup MathOps \cup JsonOps \cup TcpOps
                                    \cup ServerOps \cup HttpOps \cup DbOps
         /\ o \in StringOps => o \notin MathOps \cup JsonOps \cup TcpOps
                                    \cup ServerOps \cup HttpOps \cup DbOps
         /\ o \in MathOps => o \notin JsonOps \cup TcpOps
                                    \cup ServerOps \cup HttpOps \cup DbOps
         /\ o \in JsonOps => o \notin TcpOps \cup ServerOps \cup HttpOps \cup DbOps
         /\ o \in TcpOps => o \notin ServerOps \cup HttpOps \cup DbOps
         /\ o \in ServerOps => o \notin HttpOps \cup DbOps
         /\ o \in HttpOps => o \notin DbOps
BY DEF IOOps, StringOps, MathOps, JsonOps, TcpOps, ServerOps, HttpOps, DbOps

\* The ops that each table of the parser has a row for.
LEMMA ParsedGroups ==
  ASSUME NEW o
  PROVE  /\ o \in DOMAIN ParsedIO <=> o \in IOOps
         /\ o \in DOMAIN ParsedStrings <=> o \in StringOps
         /\ o \in DOMAIN ParsedMath <=> o \in MathOps
         /\ o \in DOMAIN ParsedJsonTcp <=> o \in JsonOps \cup TcpOps
         /\ o \in DOMAIN ParsedServices <=> o \in ServerOps \cup HttpOps \cup DbOps
<1>1. o \in DOMAIN ParsedIO <=> o \in IOOps
  BY Merge, Rows DEF ParsedIO, IOOps
<1>2. o \in DOMAIN ParsedStrings <=> o \in StringOps
  BY Merge, Rows DEF ParsedStrings, StringOps
<1>3. o \in DOMAIN ParsedMath <=> o \in MathOps
  BY Merge, Rows DEF ParsedMath, MathOps
<1>4. o \in DOMAIN ParsedJsonTcp <=> o \in JsonOps \cup TcpOps
  BY Merge, Rows DEF ParsedJsonTcp, JsonOps, TcpOps
<1>5. o \in DOMAIN ParsedServices <=> o \in ServerOps \cup HttpOps \cup DbOps
  BY Merge, Rows DEF ParsedServices, ServerOps, HttpOps, DbOps
<1> QED
  BY <1>1, <1>2, <1>3, <1>4, <1>5

\* The ops that each table of the lowering has a row for.
LEMMA LoweredGroups ==
  ASSUME NEW o
  PROVE  /\ o \in DOMAIN LoweredIO <=> o \in IOOps
         /\ o \in DOMAIN LoweredStrings <=> o \in StringOps
         /\ o \in DOMAIN LoweredMath <=> o \in MathOps
         /\ o \in DOMAIN LoweredJsonTcp <=> o \in JsonOps \cup TcpOps
         /\ o \in DOMAIN LoweredServerHttp <=> o \in ServerOps \cup HttpOps
         /\ o \in DOMAIN LoweredDb <=> o \in DbOps
<1>1. o \in DOMAIN LoweredIO <=> o \in IOOps
  BY Merge, Rows DEF LoweredIO, IOOps
<1>2. o \in DOMAIN LoweredStrings <=> o \in StringOps
  BY Merge, Rows DEF LoweredStrings, StringOps
<1>3. o \in DOMAIN LoweredMath <=> o \in MathOps
  BY Merge, Rows DEF LoweredMath, MathOps
<1>4. o \in DOMAIN LoweredJsonTcp <=> o \in JsonOps \cup TcpOps
  BY Merge, Rows DEF LoweredJsonTcp, JsonOps, TcpOps
<1>5. o \in DOMAIN LoweredServerHttp <=> o \in ServerOps \cup HttpOps
  BY Merge, Rows DEF LoweredServerHttp, ServerOps, HttpOps
<1>6. o \in DOMAIN LoweredDb <=> o \in DbOps
  BY Merge, Rows DEF LoweredDb, DbOps
<1> QED
  BY <1>1, <1>2, <1>3, <1>4, <1>5, <1>6

\* The ops that each table of the library has a row for.
LEMMA RuntimeGroups ==
  ASSUME NEW o
  PROVE  /\ o \in DOMAIN RuntimeIO <=> o \in IOOps
         /\ o \in DOMAIN RuntimeStrings <=> o \in StringOps
         /\ o \in DOMAIN RuntimeMath <=> o \in MathOps
         /\ o \in DOMAIN RuntimeJson <=> o \in JsonOps
         /\ o \in DOMAIN RuntimeTcp <=> o \in TcpOps
         /\ o \in DOMAIN RuntimeServer <=> o \in ServerOps
         /\ o \in DOMAIN RuntimeHttp <=> o \in HttpOps
         /\ o \in DOMAIN RuntimeDb <=> o \in DbOps
<1>1. o \in DOMAIN RuntimeIO <=> o \in IOOps
  BY Merge, Rows DEF RuntimeIO, IOOps
<1>2. o \in DOMAIN RuntimeStrings <=> o \in StringOps
  BY Merge, Rows DEF RuntimeStrings, StringOps
<1>3. o \in DOMAIN RuntimeMath <=> o \in MathOps
  BY Merge, Rows DEF RuntimeMath, MathOps
<1>4. o \in DOMAIN RuntimeJson <=> o \in JsonOps
  BY Merge, Rows DEF RuntimeJson, JsonOps
<1>5. o \in DOMAIN RuntimeTcp <=> o \in TcpOps
  BY Merge, Rows DEF RuntimeTcp, TcpOps
<1>6. o \in DOMAIN RuntimeServer <=> o \in ServerOps
  BY Merge, Rows DEF RuntimeServer, ServerOps
<1>7. o \in DOMAIN RuntimeHttp <=> o \in HttpOps
  BY Merge, Rows DEF RuntimeHttp, HttpOps
<1>8. o \in DOMAIN RuntimeDb <=> o \in DbOps
  BY Merge, Rows DEF RuntimeDb, DbOps
<1> QED
  BY <1>1, <1>2, <1>3, <1>4, <1>5, <1>6, <1>7, <1>8

\* The ops that each table of the validator has a row for.
LEMMA RequiredGroups ==
  ASSUME NEW o
  PROVE  /\ o \in DOMAIN RequiredIO <=> o \in IOOps \ {"PrintString"}
         /\ o \in DOMAIN RequiredServer <=> o \in ServerOps
         /\ o \in DOMAIN RequiredHttp <=> o \in HttpOps
         /\ o \in DOMAIN RequiredDb <=> o \in DbOps
<1>1. o \in DOMAIN RequiredIO <=> o \in IOOps \ {"PrintString"}
  BY Merge, Rows DEF RequiredIO, IOOps
<1>2. o \in DOMAIN RequiredServer <=> o \in ServerOps
  BY Merge, Rows DEF RequiredServer, ServerOps
<1>3. o \in DOMAIN RequiredHttp <=> o \in HttpOps
  BY Merge, Rows DEF RequiredHttp, HttpOps
<1>4. o \in DOMAIN RequiredDb <=> o \in DbOps
  BY Merge, Rows DEF RequiredDb, DbOps
<1> QED
  BY <1>1, <1>2, <1>3, <1>4

\* Where the rows of an op are.
LEMMA OpsAreGrouped ==
  ASSUME NEW o
  PROVE  o \in Ops <=>
           o \in IOOps \cup StringOps \cup MathOps \cup JsonOps \cup TcpOps
                 \cup ServerOps \cup HttpOps \cup DbOps
BY Merge, ParsedGroups DEF Ops, Parsed

\* The row of an op in Parsed is the one of its group.
LEMMA ParsedRows ==
  ASSUME NEW o
  PROVE  /\ o \in IOOps => Parsed[o] = ParsedIO[o]
         /\ o \in StringOps => Parsed[o] = ParsedStrings[o]
         /\ o \in MathOps => Parsed[o] = ParsedMath[o]
         /\ o \in JsonOps \cup TcpOps => Parsed[o] = ParsedJsonTcp[o]
         /\ o \in ServerOps \cup HttpOps \cup DbOps => Parsed[o] = ParsedServices[o]
BY Merge, ParsedGroups, GroupsAreDisjoint DEF Parsed

\* The row of an op in Lowered is the one of its group.
LEMMA LoweredRows ==
  ASSUME NEW o
  PROVE  /\ o \in IOOps => Lowered[o] = LoweredIO[o]
         /\ o \in StringOps => Lowered[o] = LoweredStrings[o]
         /\ o \in MathOps => Lowered[o] = LoweredMath[o]
         /\ o \in JsonOps \cup TcpOps => Lowered[o] = LoweredJsonTcp[o]
         /\ o \in ServerOps \cup HttpOps => Lowered[o] = LoweredServerHttp[o]
         /\ o \in DbOps => Lowered[o] = LoweredDb[o]
BY Merge, LoweredGroups, GroupsAreDisjoint DEF Lowered

\* The row of an op in Runtime is the one of its group.
LEMMA RuntimeRows ==
  ASSUME NEW o
  PROVE  /\ o \in IOOps => Runtime[o] = RuntimeIO[o]
         /\ o \in StringOps => Runtime[o] = RuntimeStrings[o]
         /\ o \in MathOps => Runtime[o] = RuntimeMath[o]
         /\ o \in JsonOps => Runtime[o] = RuntimeJson[o]
         /\ o \in TcpOps => Runtime[o] = RuntimeTcp[o]
         /\ o \in ServerOps => Runtime[o] = RuntimeServer[o]
         /\ o \in HttpOps => Runtime[o] = RuntimeHttp[o]
         /\ o \in DbOps => Runtime[o] = RuntimeDb[o]
BY Merge, RuntimeGroups, GroupsAreDisjoint DEF Runtime

\* The ops that the validator looks at, and where their rows are.
LEMMA RequiredRows ==
  ASSUME NEW o
  PROVE  /\ o \in DOMAIN Required <=> \/ o \in IOOps \ {"PrintString"}
                                      \/ o \in ServerOps \cup HttpOps \cup DbOps
         /\ o \in IOOps \ {"PrintString"} => Required[o] = RequiredIO[o]
         /\ o \in ServerOps => Required[o] = RequiredServer[o]
         /\ o \in HttpOps => Required[o] = RequiredHttp[o]
         /\ o \in DbOps => Required[o] = RequiredDb[o]
BY Merge, RequiredGroups, GroupsAreDisjoint DEF Required

\* What the lowering passes are the fields of the op in their order.
LEMMA LoweredAsParsed ==
  ASSUME NEW o \in Ops
  PROVE  Lowered[o] = Parsed[o]
<1>1. o \in IOOps => LoweredIO[o] = ParsedIO[o]
  BY DEF LoweredIO, ParsedIO
<1>2. o \in StringOps => LoweredStrings[o] = ParsedStrings[o]
  BY DEF LoweredStrings, ParsedStrings
<1>3. o \in MathOps => LoweredMath[o] = ParsedMath[o]
  BY DEF LoweredMath, ParsedMath
<1>4. o \in JsonOps \cup TcpOps => LoweredJsonTcp[o] = ParsedJsonTcp[o]
  BY DEF LoweredJsonTcp, ParsedJsonTcp
<1>5. o \in ServerOps \cup HttpOps => LoweredServerHttp[o] = ParsedServices[o]
  BY Merge, Rows DEF LoweredServerHttp, ParsedServices, ServerOps, HttpOps
<1>6. o \in DbOps => LoweredDb[o] = ParsedServices[o]
  BY Merge, Rows DEF LoweredDb, ParsedServices, DbOps
<1> QED
  BY <1>1, <1>2, <1>3, <1>4, <1>5, <1>6, OpsAreGrouped, ParsedRows, LoweredRows

One   == {"PrintLn", "FileExists", "ListDir", "StringLength", "StringTrim",
          "StringToUpper", "StringToLower", "JsonParse", "JsonStringify",
          "JsonArrayLen", "TcpClose", "TcpListenerClose", "ServerClose",
          "HttpStatus", "HttpBody", "HttpHeaders", "HttpResponseFree", "DbOpen",
          "DbRowsLen", "DbClose", "DbRowsFree"}
Two   == {"ReadFile", "WriteFile", "PathJoin", "StringFind", "StringCompare",
          "PowI64", "JsonGetField", "JsonArrayGet", "TcpAccept"}
Three == {"StringSlice", "StringReplace", "TcpConnect", "TcpListen", "TcpRead",
          "TcpWrite", "ServerNew", "ServerStart", "HttpGet", "HttpDelete",
          "DbExecute", "DbQuery", "DbRowGet"}

\* What is declared of an op goes by the number and the kind of its arguments.
LEMMA DeclaredRows ==
  ASSUME NEW o
  PROVE  /\ o = "PrintString" => Declared[o] = Sig(Ints(1), "none")
         /\ o \in {"StringEquals", "StringContains"} => Declared[o] = Sig(Ints(2), "i8")
         /\ o = "Sqrt" => Declared[o] = Sig(Floats(1), "f64")
         /\ o = "Pow" => Declared[o] = Sig(Floats(2), "f64")
         /\ o = "ReadLine" => Declared[o] = Sig(Ints(0), "i64")
         /\ o \in One => Declared[o] = Sig(Ints(1), "i64")
         /\ o \in Two => Declared[o] = Sig(Ints(2), "i64")
         /\ o \in Three => Declared[o] = Sig(Ints(3), "i64")
         /\ o \in {"HttpPost", "HttpPut"} => Declared[o] = Sig(Ints(4), "i64")
         /\ o = "RouteAddStatic" => Declared[o] = Sig(Ints(6), "i64")
<1> USE Merge, Rows DEF Declared
<1>1. o = "PrintString" => Declared[o] = Sig(Ints(1), "none")
  OBVIOUS
<1>2. o \in {"StringEquals", "StringContains"} => Declared[o] = Sig(Ints(2), "i8")
  OBVIOUS
<1>3. o = "Sqrt" => Declared[o] = Sig(Floats(1), "f64")
  OBVIOUS
<1>4. o = "Pow" => Declared[o] = Sig(Floats(2), "f64")
  OBVIOUS
<1>5. o = "ReadLine" => Declared[o] = Sig(Ints(0), "i64")
  OBVIOUS
<1>6. o \in One => Declared[o] = Sig(Ints(1), "i64")
  BY DEF One
<1>7. o \in Two => Declared[o] = Sig(Ints(2), "i64")
  BY SMTT(30) DEF Two
<1>8. o \in Three => Declared[o] = Sig(Ints(3), "i64")
  BY SMTT(30) DEF Three
<1>9. o \in {"HttpPost", "HttpPut"} => Declared[o] = Sig(Ints(4), "i64")
  OBVIOUS
<1>10. o = "RouteAddStatic" => Declared[o] = Sig(Ints(6), "i64")
  OBVIOUS
<1> QED
  BY <1>1, <1>2, <1>3, <1>4, <1>5, <1>6, <1>7, <1>8, <1>9, <1>10

\* The types that take 64 bits which are no float.
Words == Type \ {F64, Bool}

\* Words are types that lie in registers of 64 bits.
LEMMA WordsAreInts ==
  /\ \A t \in Words : t \in Type /\ MachineType(t) = "i64"
  /\ {I64, String, Json, TcpSocket, TcpListener, HttpServer, HttpResponse, DbConnection,
      DbRows, Array(String)} \subseteq Words \ {Void}
  /\ \A t \in Plain \cup {Array(String)} : Result(t) \in Words \ {Void} /\ IsFailable(Result(t))
  /\ \A t \in {I64, String, F64, Bool, Void} : t \in Type /\ ~IsFailable(t)
<1>1. \A t \in Words : t \in Type /\ MachineType(t) = "i64"
  BY PlainTypes DEF Words
<1>2. {I64, String, Json, TcpSocket, TcpListener, HttpServer, HttpResponse, DbConnection,
       DbRows} \subseteq Words \ {Void}
  BY PlainTypes DEF Words, Plain
<1>3. Array(String) \in Words \ {Void}
  BY PlainTypes, Constructors, Boxed DEF Words, Plain
<1>4. \A t \in Plain \cup {Array(String)} : Result(t) \in Words \ {Void} /\ IsFailable(Result(t))
  BY PlainTypes, Constructors, Boxed DEF Words, Plain, IsFailable
<1>5. \A t \in {I64, String, F64, Bool, Void} : t \in Type /\ ~IsFailable(t)
  BY PlainTypes DEF Plain, IsFailable
<1> QED
  BY <1>1, <1>2, <1>3, <1>4, <1>5

\* The code generator and the library agree on the registers of an op.
RegistersAgree(o) ==
    /\ Len(Parsed[o]) \in Nat /\ DOMAIN Parsed[o] = 1..Len(Parsed[o])
    /\ DOMAIN Runtime[o].takes = DOMAIN Parsed[o]
    /\ Len(Declared[o].takes) = Len(Parsed[o])
    /\ \A i \in DOMAIN Parsed[o] :
          /\ Runtime[o].takes[i] \in Type
          /\ Declared[o].takes[i] = MachineType(Runtime[o].takes[i])
    /\ Returned(o) \in Type
    /\ Register(o) = IF Returned(o) = Void THEN "none" ELSE MachineType(Returned(o))

FieldNames == {"Operand", "Left", "Right", "Arg0", "Arg1", "Arg2", "Arg3", "Arg4"}

\* Most ops take and return words.
LEMMA OpsOnWords ==
  ASSUME NEW o \in Ops, o # "StringCompare", NEW n \in Nat,
         Parsed[o] \in Seq(FieldNames), Len(Parsed[o]) = n,
         Runtime[o].takes \in Seq(Words), Len(Runtime[o].takes) = n,
         Runtime[o].gives \in Words \ {Void},
         Declared[o] = Sig(Ints(n), "i64")
  PROVE  RegistersAgree(o)
<1>1. Len(Ints(n)) = n /\ \A i \in 1..n : Ints(n)[i] = "i64"
  BY DEF Ints
<1>2. DOMAIN Parsed[o] = 1..n /\ DOMAIN Runtime[o].takes = 1..n
      /\ \A i \in 1..n : Runtime[o].takes[i] \in Words
  BY LenProperties, ElementOfSeq
<1>3. Declared[o].takes = Ints(n) /\ Declared[o].gives = "i64"
  BY DEF Sig
<1> QED
  BY <1>1, <1>2, <1>3, WordsAreInts DEF RegistersAgree, Returned, Register

\* What the parser and the library each say of an op.
Row(o, fields, takes, gives) ==
    /\ Parsed[o] = fields
    /\ Runtime[o].takes = takes /\ Runtime[o].gives = gives

\* An op with one argument, all of words.
LEMMA OneWords ==
  ASSUME NEW o \in Ops, o \in One,
         NEW e \in FieldNames,
         NEW a \in Words, NEW r \in Words \ {Void},
         Row(o, <<e>>, <<a>>, r)
  PROVE  RegistersAgree(o)
<1>1. Declared[o] = Sig(Ints(1), "i64") /\ o # "StringCompare"
  BY DeclaredRows DEF One
<1>2. /\ <<e>> \in Seq(FieldNames) /\ Len(<<e>>) = 1
      /\ <<a>> \in Seq(Words) /\ Len(<<a>>) = 1
  OBVIOUS
<1>3. Parsed[o] = <<e>> /\ Runtime[o].takes = <<a>> /\ Runtime[o].gives = r
  BY DEF Row
<1> QED
  BY <1>1, <1>2, <1>3, OpsOnWords

\* An op with two arguments, all of words.
LEMMA TwoWords ==
  ASSUME NEW o \in Ops, o \in Two, o # "StringCompare",
         NEW d \in FieldNames, NEW e \in FieldNames,
         NEW a \in Words, NEW b \in Words, NEW r \in Words \ {Void},
         Row(o, <<d, e>>, <<a, b>>, r)
  PROVE  RegistersAgree(o)
<1>1. Declared[o] = Sig(Ints(2), "i64")
  BY DeclaredRows
<1>2. /\ <<d, e>> \in Seq(FieldNames) /\ Len(<<d, e>>) = 2
      /\ <<a, b>> \in Seq(Words) /\ Len(<<a, b>>) = 2
  OBVIOUS
<1>3. Parsed[o] = <<d, e>> /\ Runtime[o].takes = <<a, b>> /\ Runtime[o].gives = r
  BY DEF Row
<1> QED
  BY <1>1, <1>2, <1>3, OpsOnWords

\* An op with three arguments, all of words.
LEMMA ThreeWords ==
  ASSUME NEW o \in Ops, o \in Three,
         NEW d \in FieldNames, NEW e \in FieldNames, NEW f \in FieldNames,
         NEW a \in Words, NEW b \in Words, NEW c \in Words, NEW r \in Words \ {Void},
         Row(o, <<d, e, f>>, <<a, b, c>>, r)
  PROVE  RegistersAgree(o)
<1>1. Declared[o] = Sig(Ints(3), "i64") /\ o # "StringCompare"
  BY DeclaredRows DEF Three
<1>2. /\ <<d, e, f>> \in Seq(FieldNames) /\ Len(<<d, e, f>>) = 3
      /\ <<a, b, c>> \in Seq(Words) /\ Len(<<a, b, c>>) = 3
  OBVIOUS
<1>3. Parsed[o] = <<d, e, f>> /\ Runtime[o].takes = <<a, b, c>> /\ Runtime[o].gives = r
  BY DEF Row
<1> QED
  BY <1>1, <1>2, <1>3, OpsOnWords

\* The validator demands of the edges what the library takes them for.
DemandsAgree(o) ==
    /\ Required[o].gives = Runtime[o].gives
    /\ \A i \in DOMAIN Parsed[o] :
          /\ Parsed[o][i] \in DOMAIN Required[o].takes
          /\ Required[o].takes[Parsed[o][i]] = Runtime[o].takes[i]
    /\ \A e \in DOMAIN Required[o].takes : \E i \in DOMAIN Parsed[o] : e = Parsed[o][i]

\* The lists agree about files and the console.
LEMMA IOAgrees ==
  ASSUME NEW o \in IOOps \ {"PrintString", "ReadLine"}
  PROVE  RegistersAgree(o) /\ DemandsAgree(o)
<1>1. o \in Ops /\ Runtime[o] = RuntimeIO[o] /\ Parsed[o] = ParsedIO[o] /\ Required[o] = RequiredIO[o]
  BY OpsAreGrouped, RuntimeRows, ParsedRows, RequiredRows
<1>2. CASE o = "PrintLn"
  <2>1. Row(o, <<"Operand">>, <<String>>, Result(I64))
    BY <1>1, <1>2, Merge, Rows DEF ParsedIO, RuntimeIO, Sig, Row
  <2>2. RegistersAgree(o)
    BY <1>1, <1>2, <2>1, OneWords, WordsAreInts DEF Plain, FieldNames, One
  <2>3. /\ Required[o].gives = Result(I64)
        /\ \A e : e \in DOMAIN Required[o].takes <=> e \in {"Operand"}
        /\ Required[o].takes["Operand"] = String
    BY <1>1, <1>2, Merge, Rows DEF RequiredIO, Edge, OneString, TwoStrings, Nothing, Sig
  <2>4. DemandsAgree(o)
    BY <2>1, <2>3 DEF DemandsAgree, Row
  <2> QED
    BY <2>2, <2>4
<1>3. CASE o = "ReadFile"
  <2>1. Row(o, <<"Left", "Right">>, <<String, I64>>, Result(String))
    BY SMTT(30), <1>1, <1>3, Merge, Rows DEF ParsedIO, RuntimeIO, Sig, Row
  <2>2. RegistersAgree(o)
    BY ZenonT(40), <1>1, <1>3, <2>1, TwoWords, WordsAreInts DEF Plain, FieldNames, Two
  <2>3. /\ Required[o].gives = Result(String)
        /\ \A e : e \in DOMAIN Required[o].takes <=> e \in {"Left", "Right"}
        /\ Required[o].takes["Left"] = String
        /\ Required[o].takes["Right"] = I64
    BY <1>1, <1>3, Merge, Rows DEF RequiredIO, Edge, OneString, TwoStrings, Nothing, Sig
  <2>4. DemandsAgree(o)
    BY <2>1, <2>3 DEF DemandsAgree, Row
  <2> QED
    BY <2>2, <2>4
<1>4. CASE o = "WriteFile"
  <2>1. Row(o, <<"Left", "Right">>, <<String, String>>, Result(I64))
    BY SMTT(30), <1>1, <1>4, Merge, Rows DEF ParsedIO, RuntimeIO, Sig, Row
  <2>2. RegistersAgree(o)
    BY ZenonT(40), <1>1, <1>4, <2>1, TwoWords, WordsAreInts DEF Plain, FieldNames, Two
  <2>3. /\ Required[o].gives = Result(I64)
        /\ \A e : e \in DOMAIN Required[o].takes <=> e \in {"Left", "Right"}
        /\ Required[o].takes["Left"] = String
        /\ Required[o].takes["Right"] = String
    BY <1>1, <1>4, Merge, Rows DEF RequiredIO, Edge, OneString, TwoStrings, Nothing, Sig
  <2>4. DemandsAgree(o)
    BY <2>1, <2>3 DEF DemandsAgree, Row
  <2> QED
    BY <2>2, <2>4
<1>5. CASE o = "FileExists"
  <2>1. Row(o, <<"Operand">>, <<String>>, Result(Bool))
    BY SMTT(30), <1>1, <1>5, Merge, Rows DEF ParsedIO, RuntimeIO, Sig, Row
  <2>2. RegistersAgree(o)
    BY <1>1, <1>5, <2>1, OneWords, WordsAreInts DEF Plain, FieldNames, One
  <2>3. /\ Required[o].gives = Result(Bool)
        /\ \A e : e \in DOMAIN Required[o].takes <=> e \in {"Operand"}
        /\ Required[o].takes["Operand"] = String
    BY <1>1, <1>5, Merge, Rows DEF RequiredIO, Edge, OneString, TwoStrings, Nothing, Sig
  <2>4. DemandsAgree(o)
    BY <2>1, <2>3 DEF DemandsAgree, Row
  <2> QED
    BY <2>2, <2>4
<1>6. CASE o = "ListDir"
  <2>1. Row(o, <<"Operand">>, <<String>>, Result(Array(String)))
    BY <1>1, <1>6, Merge, Rows DEF ParsedIO, RuntimeIO, Sig, Row
  <2>2. RegistersAgree(o)
    BY <1>1, <1>6, <2>1, OneWords, WordsAreInts DEF Plain, FieldNames, One
  <2>3. /\ Required[o].gives = Result(Array(String))
        /\ \A e : e \in DOMAIN Required[o].takes <=> e \in {"Operand"}
        /\ Required[o].takes["Operand"] = String
    BY <1>1, <1>6, Merge, Rows DEF RequiredIO, Edge, OneString, TwoStrings, Nothing, Sig
  <2>4. DemandsAgree(o)
    BY <2>1, <2>3 DEF DemandsAgree, Row
  <2> QED
    BY <2>2, <2>4
<1>7. CASE o = "PathJoin"
  <2>1. Row(o, <<"Left", "Right">>, <<String, String>>, Result(String))
    BY <1>1, <1>7, Merge, Rows DEF ParsedIO, RuntimeIO, Sig, Row
  <2>2. RegistersAgree(o)
    BY ZenonT(40), <1>1, <1>7, <2>1, TwoWords, WordsAreInts DEF Plain, FieldNames, Two
  <2>3. /\ Required[o].gives = Result(String)
        /\ \A e : e \in DOMAIN Required[o].takes <=> e \in {"Left", "Right"}
        /\ Required[o].takes["Left"] = String
        /\ Required[o].takes["Right"] = String
    BY <1>1, <1>7, Merge, Rows DEF RequiredIO, Edge, OneString, TwoStrings, Nothing, Sig
  <2>4. DemandsAgree(o)
    BY <2>1, <2>3 DEF DemandsAgree, Row
  <2> QED
    BY <2>2, <2>4
<1> QED
  BY <1>2, <1>3, <1>4, <1>5, <1>6, <1>7 DEF IOOps

\* The lists agree about strings.
LEMMA StringsAgrees ==
  ASSUME NEW o \in StringOps \ {"StringEquals", "StringContains", "StringCompare"}
  PROVE  RegistersAgree(o)
<1>1. o \in Ops /\ Runtime[o] = RuntimeStrings[o] /\ Parsed[o] = ParsedStrings[o]
  BY OpsAreGrouped, RuntimeRows, ParsedRows
<1>2. CASE o = "StringFind"
  <2>1. Row(o, <<"Left", "Right">>, <<String, String>>, I64)
    BY <1>1, <1>2, Merge, Rows DEF ParsedStrings, RuntimeStrings, Sig, Row
  <2>2. RegistersAgree(o)
    BY <1>1, <1>2, <2>1, TwoWords, WordsAreInts DEF Plain, FieldNames, Two
  <2> QED
    BY <2>2
<1>3. CASE o = "StringLength"
  <2>1. Row(o, <<"Operand">>, <<String>>, I64)
    BY <1>1, <1>3, Merge, Rows DEF ParsedStrings, RuntimeStrings, Sig, Row
  <2>2. RegistersAgree(o)
    BY <1>1, <1>3, <2>1, OneWords, WordsAreInts DEF Plain, FieldNames, One
  <2> QED
    BY <2>2
<1>4. CASE o = "StringSlice"
  <2>1. Row(o, <<"Operand", "Left", "Right">>, <<String, I64, I64>>, String)
    BY <1>1, <1>4, Merge, Rows DEF ParsedStrings, RuntimeStrings, Sig, Row
  <2>2. RegistersAgree(o)
    <3>1. o \in Three /\ {"Operand", "Left", "Right"} \subseteq FieldNames
      BY <1>4 DEF Three, FieldNames
    <3>2. {String, I64, I64, String} \subseteq Words /\ String # Void
      BY WordsAreInts DEF Plain
    <3> QED
      BY <1>1, <2>1, <3>1, <3>2, ThreeWords
  <2> QED
    BY <2>2
<1>5. CASE o \in {"StringTrim", "StringToUpper", "StringToLower"}
  <2>1. Row(o, <<"Operand">>, <<String>>, String)
    BY SMTT(30), <1>1, <1>5, Merge, Rows DEF ParsedStrings, RuntimeStrings, Sig, Row
  <2>2. RegistersAgree(o)
    BY <1>1, <1>5, <2>1, OneWords, WordsAreInts DEF Plain, FieldNames, One
  <2> QED
    BY <2>2
<1>6. CASE o = "StringReplace"
  <2>1. Row(o, <<"Operand", "Left", "Right">>, <<String, String, String>>, String)
    BY <1>1, <1>6, Merge, Rows DEF ParsedStrings, RuntimeStrings, Sig, Row
  <2>2. RegistersAgree(o)
    <3>1. o \in Three /\ {"Operand", "Left", "Right"} \subseteq FieldNames
      BY <1>6 DEF Three, FieldNames
    <3>2. {String, String, String, String} \subseteq Words /\ String # Void
      BY WordsAreInts DEF Plain
    <3> QED
      BY <1>1, <2>1, <3>1, <3>2, ThreeWords
  <2> QED
    BY <2>2
<1> QED
  BY <1>2, <1>3, <1>4, <1>5, <1>6 DEF StringOps

\* The lists agree about JSON.
LEMMA JsonAgrees ==
  ASSUME NEW o \in JsonOps
  PROVE  RegistersAgree(o)
<1>1. o \in Ops /\ Runtime[o] = RuntimeJson[o] /\ Parsed[o] = ParsedJsonTcp[o]
  BY OpsAreGrouped, RuntimeRows, ParsedRows
<1>2. CASE o = "JsonParse"
  <2>1. Row(o, <<"Operand">>, <<String>>, Result(Json))
    BY <1>1, <1>2, Merge, Rows DEF ParsedJsonTcp, RuntimeJson, Sig, Row
  <2>2. RegistersAgree(o)
    BY <1>1, <1>2, <2>1, OneWords, WordsAreInts DEF Plain, FieldNames, One
  <2> QED
    BY <2>2
<1>3. CASE o = "JsonStringify"
  <2>1. Row(o, <<"Operand">>, <<Json>>, Result(String))
    BY <1>1, <1>3, Merge, Rows DEF ParsedJsonTcp, RuntimeJson, Sig, Row
  <2>2. RegistersAgree(o)
    BY <1>1, <1>3, <2>1, OneWords, WordsAreInts DEF Plain, FieldNames, One
  <2> QED
    BY <2>2
<1>4. CASE o = "JsonGetField"
  <2>1. Row(o, <<"Operand", "Left">>, <<Json, String>>, Result(Json))
    BY <1>1, <1>4, Merge, Rows DEF ParsedJsonTcp, RuntimeJson, Sig, Row
  <2>2. RegistersAgree(o)
    BY ZenonT(40), <1>1, <1>4, <2>1, TwoWords, WordsAreInts DEF Plain, FieldNames, Two
  <2> QED
    BY <2>2
<1>5. CASE o = "JsonArrayLen"
  <2>1. Row(o, <<"Operand">>, <<Json>>, Result(I64))
    BY <1>1, <1>5, Merge, Rows DEF ParsedJsonTcp, RuntimeJson, Sig, Row
  <2>2. RegistersAgree(o)
    BY <1>1, <1>5, <2>1, OneWords, WordsAreInts DEF Plain, FieldNames, One
  <2> QED
    BY <2>2
<1>6. CASE o = "JsonArrayGet"
  <2>1. Row(o, <<"Operand", "Left">>, <<Json, I64>>, Result(Json))
    BY <1>1, <1>6, Merge, Rows DEF ParsedJsonTcp, RuntimeJson, Sig, Row
  <2>2. RegistersAgree(o)
    BY <1>1, <1>6, <2>1, TwoWords, WordsAreInts DEF Plain, FieldNames, Two
  <2> QED
    BY <2>2
<1> QED
  BY <1>2, <1>3, <1>4, <1>5, <1>6 DEF JsonOps

\* The lists agree about sockets.
LEMMA TcpAgrees ==
  ASSUME NEW o \in TcpOps
  PROVE  RegistersAgree(o)
<1>1. o \in Ops /\ Runtime[o] = RuntimeTcp[o] /\ Parsed[o] = ParsedJsonTcp[o]
  BY OpsAreGrouped, RuntimeRows, ParsedRows
<1>2. CASE o = "TcpConnect"
  <2>1. Row(o, <<"Operand", "Left", "Right">>, <<String, I64, I64>>, Result(TcpSocket))
    <3>1. Parsed[o] = <<"Operand", "Left", "Right">>
      BY <1>1, <1>2, Merge, Rows DEF ParsedJsonTcp
    <3>2. Runtime[o].takes = <<String, I64, I64>> /\ Runtime[o].gives = Result(TcpSocket)
      BY <1>1, <1>2, Merge, Rows DEF RuntimeTcp, Sig
    <3> QED
      BY <3>1, <3>2 DEF Row
  <2>2. RegistersAgree(o)
    <3>1. o \in Three /\ {"Operand", "Left", "Right"} \subseteq FieldNames
      BY <1>2 DEF Three, FieldNames
    <3>2. {String, I64, I64, Result(TcpSocket)} \subseteq Words /\ Result(TcpSocket) # Void
      BY WordsAreInts DEF Plain
    <3> QED
      BY <1>1, <2>1, <3>1, <3>2, ThreeWords
  <2> QED
    BY <2>2
<1>3. CASE o = "TcpListen"
  <2>1. Row(o, <<"Operand", "Left", "Right">>, <<String, I64, I64>>, Result(TcpListener))
    <3>1. Parsed[o] = <<"Operand", "Left", "Right">>
      BY <1>1, <1>3, Merge, Rows DEF ParsedJsonTcp
    <3>2. Runtime[o].takes = <<String, I64, I64>> /\ Runtime[o].gives = Result(TcpListener)
      BY <1>1, <1>3, Merge, Rows DEF RuntimeTcp, Sig
    <3> QED
      BY <3>1, <3>2 DEF Row
  <2>2. RegistersAgree(o)
    <3>1. o \in Three /\ {"Operand", "Left", "Right"} \subseteq FieldNames
      BY <1>3 DEF Three, FieldNames
    <3>2. {String, I64, I64, Result(TcpListener)} \subseteq Words /\ Result(TcpListener) # Void
      BY WordsAreInts DEF Plain
    <3> QED
      BY <1>1, <2>1, <3>1, <3>2, ThreeWords
  <2> QED
    BY <2>2
<1>4. CASE o = "TcpAccept"
  <2>1. Row(o, <<"Operand", "Left">>, <<TcpListener, I64>>, Result(TcpSocket))
    <3>1. Parsed[o] = <<"Operand", "Left">>
      BY <1>1, <1>4, Merge, Rows DEF ParsedJsonTcp
    <3>2. Runtime[o].takes = <<TcpListener, I64>> /\ Runtime[o].gives = Result(TcpSocket)
      BY <1>1, <1>4, Merge, Rows DEF RuntimeTcp, Sig
    <3> QED
      BY <3>1, <3>2 DEF Row
  <2>2. RegistersAgree(o)
    <3>1. o \in Two /\ {"Operand", "Left"} \subseteq FieldNames
      BY <1>4 DEF Two, FieldNames
    <3>2. {TcpListener, I64, Result(TcpSocket)} \subseteq Words /\ Result(TcpSocket) # Void
      BY WordsAreInts DEF Plain
    <3> QED
      BY <1>1, <1>4, <2>1, <3>1, <3>2, TwoWords
  <2> QED
    BY <2>2
<1>5. CASE o = "TcpRead"
  <2>1. Row(o, <<"Operand", "Left", "Right">>, <<TcpSocket, I64, I64>>, Result(String))
    <3>1. Parsed[o] = <<"Operand", "Left", "Right">>
      BY <1>1, <1>5, Merge, Rows DEF ParsedJsonTcp
    <3>2. Runtime[o].takes = <<TcpSocket, I64, I64>> /\ Runtime[o].gives = Result(String)
      BY <1>1, <1>5, Merge, Rows DEF RuntimeTcp, Sig
    <3> QED
      BY <3>1, <3>2 DEF Row
  <2>2. RegistersAgree(o)
    <3>1. o \in Three /\ {"Operand", "Left", "Right"} \subseteq FieldNames
      BY <1>5 DEF Three, FieldNames
    <3>2. {TcpSocket, I64, I64, Result(String)} \subseteq Words /\ Result(String) # Void
      BY WordsAreInts DEF Plain
    <3> QED
      BY <1>1, <2>1, <3>1, <3>2, ThreeWords
  <2> QED
    BY <2>2
<1>6. CASE o = "TcpWrite"
  <2>1. Row(o, <<"Operand", "Left", "Right">>, <<TcpSocket, String, I64>>, Result(I64))
    <3>1. Parsed[o] = <<"Operand", "Left", "Right">>
      BY <1>1, <1>6, Merge, Rows DEF ParsedJsonTcp
    <3>2. Runtime[o].takes = <<TcpSocket, String, I64>> /\ Runtime[o].gives = Result(I64)
      BY <1>1, <1>6, Merge, Rows DEF RuntimeTcp, Sig
    <3> QED
      BY <3>1, <3>2 DEF Row
  <2>2. RegistersAgree(o)
    <3>1. o \in Three /\ {"Operand", "Left", "Right"} \subseteq FieldNames
      BY <1>6 DEF Three, FieldNames
    <3>2. {TcpSocket, String, I64, Result(I64)} \subseteq Words /\ Result(I64) # Void
      BY WordsAreInts DEF Plain
    <3> QED
      BY <1>1, <2>1, <3>1, <3>2, ThreeWords
  <2> QED
    BY <2>2
<1>7. CASE o = "TcpClose"
  <2>1. Row(o, <<"Operand">>, <<TcpSocket>>, Result(I64))
    <3>1. Parsed[o] = <<"Operand">>
      BY <1>1, <1>7, Merge, Rows DEF ParsedJsonTcp
    <3>2. Runtime[o].takes = <<TcpSocket>> /\ Runtime[o].gives = Result(I64)
      BY <1>1, <1>7, Merge, Rows DEF RuntimeTcp, Sig
    <3> QED
      BY <3>1, <3>2 DEF Row
  <2>2. RegistersAgree(o)
    BY <1>1, <1>7, <2>1, OneWords, WordsAreInts DEF Plain, FieldNames, One
  <2> QED
    BY <2>2
<1>8. CASE o = "TcpListenerClose"
  <2>1. Row(o, <<"Operand">>, <<TcpListener>>, Result(I64))
    <3>1. Parsed[o] = <<"Operand">>
      BY <1>1, <1>8, Merge, Rows DEF ParsedJsonTcp
    <3>2. Runtime[o].takes = <<TcpListener>> /\ Runtime[o].gives = Result(I64)
      BY <1>1, <1>8, Merge, Rows DEF RuntimeTcp, Sig
    <3> QED
      BY <3>1, <3>2 DEF Row
  <2>2. RegistersAgree(o)
    BY <1>1, <1>8, <2>1, OneWords, WordsAreInts DEF Plain, FieldNames, One
  <2> QED
    BY <2>2
<1> QED
  BY <1>2, <1>3, <1>4, <1>5, <1>6, <1>7, <1>8 DEF TcpOps

\* The lists agree about HTTP servers.
LEMMA ServerAgrees ==
  ASSUME NEW o \in ServerOps
  PROVE  RegistersAgree(o) /\ DemandsAgree(o)
<1>1. o \in Ops /\ Runtime[o] = RuntimeServer[o] /\ Parsed[o] = ParsedServices[o] /\ Required[o] = RequiredServer[o]
  BY OpsAreGrouped, RuntimeRows, ParsedRows, RequiredRows
<1>2. CASE o = "ServerNew"
  <2>1. Row(o, <<"Operand", "Left", "Right">>, <<String, I64, I64>>, Result(HttpServer))
    BY <1>1, <1>2, Merge, Rows DEF ParsedServices, RuntimeServer, Sig, Row
  <2>2. RegistersAgree(o)
    <3>1. o \in Three /\ {"Operand", "Left", "Right"} \subseteq FieldNames
      BY <1>2 DEF Three, FieldNames
    <3>2. {String, I64, I64, Result(HttpServer)} \subseteq Words /\ Result(HttpServer) # Void
      BY WordsAreInts DEF Plain
    <3> QED
      BY <1>1, <2>1, <3>1, <3>2, ThreeWords
  <2>3. /\ Required[o].gives = Result(HttpServer)
        /\ \A e : e \in DOMAIN Required[o].takes <=> e \in {"Operand", "Left", "Right"}
        /\ Required[o].takes["Operand"] = String
        /\ Required[o].takes["Left"] = I64
        /\ Required[o].takes["Right"] = I64
    BY <1>1, <1>2, Merge, Rows DEF RequiredServer, Edge, OneString, TwoInts, OfServer, Sig
  <2>4. DemandsAgree(o)
    BY <2>1, <2>3 DEF DemandsAgree, Row
  <2> QED
    BY <2>2, <2>4
<1>3. CASE o = "RouteAddStatic"
  <2>1. Row(o, <<"Operand", "Arg0", "Arg1", "Arg2", "Arg3", "Arg4">>, <<HttpServer, String, String, I64, Json, String>>, Result(I64))
    BY SMTT(30), <1>1, <1>3, Merge, Rows DEF ParsedServices, RuntimeServer, Sig, Row
  <2>2. RegistersAgree(o)
    <3>1. Declared[o] = Sig(Ints(6), "i64")
      BY <1>3, DeclaredRows
    <3>2. Parsed[o] \in Seq(FieldNames) /\ Len(Parsed[o]) = 6
      BY <2>1 DEF Row, FieldNames
    <3>3. Runtime[o].takes \in Seq(Words) /\ Len(Runtime[o].takes) = 6
      BY <2>1, WordsAreInts DEF Row
    <3>4. Runtime[o].gives \in Words \ {Void}
      BY <2>1, WordsAreInts DEF Row, Plain
    <3> QED
      BY <1>1, <1>3, <3>1, <3>2, <3>3, <3>4, OpsOnWords
  <2>3. /\ Required[o].gives = Result(I64)
        /\ \A e : e \in DOMAIN Required[o].takes <=> e \in {"Operand", "Arg0", "Arg1", "Arg2", "Arg3", "Arg4"}
        /\ Required[o].takes["Operand"] = HttpServer
        /\ Required[o].takes["Arg0"] = String
        /\ Required[o].takes["Arg1"] = String
        /\ Required[o].takes["Arg2"] = I64
        /\ Required[o].takes["Arg3"] = Json
        /\ Required[o].takes["Arg4"] = String
    BY <1>1, <1>3, Merge, Rows DEF RequiredServer, Edge, OneString, TwoInts, OfServer, Sig
  <2>4. DemandsAgree(o)
    BY <2>1, <2>3 DEF DemandsAgree, Row
  <2> QED
    BY <2>2, <2>4
<1>4. CASE o = "ServerStart"
  <2>1. Row(o, <<"Operand", "Left", "Right">>, <<HttpServer, I64, I64>>, Result(I64))
    BY <1>1, <1>4, Merge, Rows DEF ParsedServices, RuntimeServer, Sig, Row
  <2>2. RegistersAgree(o)
    <3>1. o \in Three /\ {"Operand", "Left", "Right"} \subseteq FieldNames
      BY <1>4 DEF Three, FieldNames
    <3>2. {HttpServer, I64, I64, Result(I64)} \subseteq Words /\ Result(I64) # Void
      BY WordsAreInts DEF Plain
    <3> QED
      BY <1>1, <2>1, <3>1, <3>2, ThreeWords
  <2>3. /\ Required[o].gives = Result(I64)
        /\ \A e : e \in DOMAIN Required[o].takes <=> e \in {"Operand", "Left", "Right"}
        /\ Required[o].takes["Operand"] = HttpServer
        /\ Required[o].takes["Left"] = I64
        /\ Required[o].takes["Right"] = I64
    BY <1>1, <1>4, Merge, Rows DEF RequiredServer, Edge, OneString, TwoInts, OfServer, Sig
  <2>4. DemandsAgree(o)
    BY <2>1, <2>3 DEF DemandsAgree, Row
  <2> QED
    BY <2>2, <2>4
<1>5. CASE o = "ServerClose"
  <2>1. Row(o, <<"Operand">>, <<HttpServer>>, Result(I64))
    BY <1>1, <1>5, Merge, Rows DEF ParsedServices, RuntimeServer, Sig, Row
  <2>2. RegistersAgree(o)
    BY <1>1, <1>5, <2>1, OneWords, WordsAreInts DEF Plain, FieldNames, One
  <2>3. /\ Required[o].gives = Result(I64)
        /\ \A e : e \in DOMAIN Required[o].takes <=> e \in {"Operand"}
        /\ Required[o].takes["Operand"] = HttpServer
    BY <1>1, <1>5, Merge, Rows DEF RequiredServer, Edge, OneString, TwoInts, OfServer, Sig
  <2>4. DemandsAgree(o)
    BY <2>1, <2>3 DEF DemandsAgree, Row
  <2> QED
    BY <2>2, <2>4
<1> QED
  BY <1>2, <1>3, <1>4, <1>5 DEF ServerOps

\* The lists agree about HTTP requests.
LEMMA HttpAgrees ==
  ASSUME NEW o \in HttpOps
  PROVE  RegistersAgree(o) /\ DemandsAgree(o)
<1>1. o \in Ops /\ Runtime[o] = RuntimeHttp[o] /\ Parsed[o] = ParsedServices[o] /\ Required[o] = RequiredHttp[o]
  BY OpsAreGrouped, RuntimeRows, ParsedRows, RequiredRows
<1>2. CASE o \in {"HttpGet", "HttpDelete"}
  <2>1. Row(o, <<"Operand", "Left", "Right">>, <<String, Json, I64>>, Result(HttpResponse))
    BY SMTT(30), <1>1, <1>2, Merge, Rows DEF ParsedServices, RuntimeHttp, Sig, Row
  <2>2. RegistersAgree(o)
    <3>1. o \in Three /\ {"Operand", "Left", "Right"} \subseteq FieldNames
      BY <1>2 DEF Three, FieldNames
    <3>2. {String, Json, I64, Result(HttpResponse)} \subseteq Words /\ Result(HttpResponse) # Void
      BY WordsAreInts DEF Plain
    <3> QED
      BY <1>1, <2>1, <3>1, <3>2, ThreeWords
  <2>3. /\ Required[o].gives = Result(HttpResponse)
        /\ \A e : e \in DOMAIN Required[o].takes <=> e \in {"Operand", "Left", "Right"}
        /\ Required[o].takes["Operand"] = String
        /\ Required[o].takes["Left"] = Json
        /\ Required[o].takes["Right"] = I64
    BY <1>1, <1>2, Merge, Rows DEF RequiredHttp, Edge, OneString, Request, OfResponse, Sig
  <2>4. DemandsAgree(o)
    BY <2>1, <2>3 DEF DemandsAgree, Row
  <2> QED
    BY <2>2, <2>4
<1>3. CASE o \in {"HttpPost", "HttpPut"}
  <2>1. Row(o, <<"Operand", "Left", "Right", "Arg0">>, <<String, Json, String, I64>>, Result(HttpResponse))
    BY SMTT(30), <1>1, <1>3, Merge, Rows DEF ParsedServices, RuntimeHttp, Sig, Row
  <2>2. RegistersAgree(o)
    <3>1. Declared[o] = Sig(Ints(4), "i64")
      BY <1>3, DeclaredRows
    <3>2. Parsed[o] \in Seq(FieldNames) /\ Len(Parsed[o]) = 4
      BY <2>1 DEF Row, FieldNames
    <3>3. Runtime[o].takes \in Seq(Words) /\ Len(Runtime[o].takes) = 4
      BY <2>1, WordsAreInts DEF Row
    <3>4. Runtime[o].gives \in Words \ {Void}
      BY <2>1, WordsAreInts DEF Row, Plain
    <3> QED
      BY <1>1, <1>3, <3>1, <3>2, <3>3, <3>4, OpsOnWords
  <2>3. /\ Required[o].gives = Result(HttpResponse)
        /\ \A e : e \in DOMAIN Required[o].takes <=> e \in {"Operand", "Left", "Right", "Arg0"}
        /\ Required[o].takes["Operand"] = String
        /\ Required[o].takes["Left"] = Json
        /\ Required[o].takes["Right"] = String
        /\ Required[o].takes["Arg0"] = I64
    BY <1>1, <1>3, Merge, Rows DEF RequiredHttp, Edge, OneString, Request, OfResponse, Sig
  <2>4. DemandsAgree(o)
    BY <2>1, <2>3 DEF DemandsAgree, Row
  <2> QED
    BY <2>2, <2>4
<1>4. CASE o \in {"HttpStatus", "HttpResponseFree"}
  <2>1. Row(o, <<"Operand">>, <<HttpResponse>>, Result(I64))
    BY <1>1, <1>4, Merge, Rows DEF ParsedServices, RuntimeHttp, Sig, Row
  <2>2. RegistersAgree(o)
    BY <1>1, <1>4, <2>1, OneWords, WordsAreInts DEF Plain, FieldNames, One
  <2>3. /\ Required[o].gives = Result(I64)
        /\ \A e : e \in DOMAIN Required[o].takes <=> e \in {"Operand"}
        /\ Required[o].takes["Operand"] = HttpResponse
    BY <1>1, <1>4, Merge, Rows DEF RequiredHttp, Edge, OneString, Request, OfResponse, Sig
  <2>4. DemandsAgree(o)
    BY <2>1, <2>3 DEF DemandsAgree, Row
  <2> QED
    BY <2>2, <2>4
<1>5. CASE o = "HttpBody"
  <2>1. Row(o, <<"Operand">>, <<HttpResponse>>, Result(String))
    BY <1>1, <1>5, Merge, Rows DEF ParsedServices, RuntimeHttp, Sig, Row
  <2>2. RegistersAgree(o)
    BY <1>1, <1>5, <2>1, OneWords, WordsAreInts DEF Plain, FieldNames, One
  <2>3. /\ Required[o].gives = Result(String)
        /\ \A e : e \in DOMAIN Required[o].takes <=> e \in {"Operand"}
        /\ Required[o].takes["Operand"] = HttpResponse
    BY <1>1, <1>5, Merge, Rows DEF RequiredHttp, Edge, OneString, Request, OfResponse, Sig
  <2>4. DemandsAgree(o)
    BY <2>1, <2>3 DEF DemandsAgree, Row
  <2> QED
    BY <2>2, <2>4
<1>6. CASE o = "HttpHeaders"
  <2>1. Row(o, <<"Operand">>, <<HttpResponse>>, Result(Json))
    BY <1>1, <1>6, Merge, Rows DEF ParsedServices, RuntimeHttp, Sig, Row
  <2>2. RegistersAgree(o)
    BY <1>1, <1>6, <2>1, OneWords, WordsAreInts DEF Plain, FieldNames, One
  <2>3. /\ Required[o].gives = Result(Json)
        /\ \A e : e \in DOMAIN Required[o].takes <=> e \in {"Operand"}
        /\ Required[o].takes["Operand"] = HttpResponse
    BY <1>1, <1>6, Merge, Rows DEF RequiredHttp, Edge, OneString, Request, OfResponse, Sig
  <2>4. DemandsAgree(o)
    BY <2>1, <2>3 DEF DemandsAgree, Row
  <2> QED
    BY <2>2, <2>4
<1> QED
  BY <1>2, <1>3, <1>4, <1>5, <1>6 DEF HttpOps

\* The lists agree about databases.
LEMMA DbAgrees ==
  ASSUME NEW o \in DbOps
  PROVE  RegistersAgree(o) /\ DemandsAgree(o)
<1>1. o \in Ops /\ Runtime[o] = RuntimeDb[o] /\ Parsed[o] = ParsedServices[o] /\ Required[o] = RequiredDb[o]
  BY OpsAreGrouped, RuntimeRows, ParsedRows, RequiredRows
<1>2. CASE o = "DbOpen"
  <2>1. Row(o, <<"Operand">>, <<String>>, Result(DbConnection))
    BY <1>1, <1>2, Merge, Rows DEF ParsedServices, RuntimeDb, Sig, Row
  <2>2. RegistersAgree(o)
    BY <1>1, <1>2, <2>1, OneWords, WordsAreInts DEF Plain, FieldNames, One
  <2>3. /\ Required[o].gives = Result(DbConnection)
        /\ \A e : e \in DOMAIN Required[o].takes <=> e \in {"Operand"}
        /\ Required[o].takes["Operand"] = String
    BY <1>1, <1>2, Merge, Rows DEF RequiredDb, Edge, OneString, Statement, OfConnection, OfRows, Sig
  <2>4. DemandsAgree(o)
    BY <2>1, <2>3 DEF DemandsAgree, Row
  <2> QED
    BY <2>2, <2>4
<1>3. CASE o = "DbExecute"
  <2>1. Row(o, <<"Operand", "Left", "Right">>, <<DbConnection, String, Array(String)>>, Result(I64))
    BY SMTT(30), <1>1, <1>3, Merge, Rows DEF ParsedServices, RuntimeDb, Sig, Row
  <2>2. RegistersAgree(o)
    <3>1. o \in Three /\ {"Operand", "Left", "Right"} \subseteq FieldNames
      BY <1>3 DEF Three, FieldNames
    <3>2. {DbConnection, String, Array(String), Result(I64)} \subseteq Words /\ Result(I64) # Void
      BY WordsAreInts DEF Plain
    <3> QED
      BY <1>1, <2>1, <3>1, <3>2, ThreeWords
  <2>3. /\ Required[o].gives = Result(I64)
        /\ \A e : e \in DOMAIN Required[o].takes <=> e \in {"Operand", "Left", "Right"}
        /\ Required[o].takes["Operand"] = DbConnection
        /\ Required[o].takes["Left"] = String
        /\ Required[o].takes["Right"] = Array(String)
    BY <1>1, <1>3, Merge, Rows DEF RequiredDb, Edge, OneString, Statement, OfConnection, OfRows, Sig
  <2>4. DemandsAgree(o)
    BY <2>1, <2>3 DEF DemandsAgree, Row
  <2> QED
    BY <2>2, <2>4
<1>4. CASE o = "DbQuery"
  <2>1. Row(o, <<"Operand", "Left", "Right">>, <<DbConnection, String, Array(String)>>, Result(DbRows))
    BY SMTT(30), <1>1, <1>4, Merge, Rows DEF ParsedServices, RuntimeDb, Sig, Row
  <2>2. RegistersAgree(o)
    <3>1. o \in Three /\ {"Operand", "Left", "Right"} \subseteq FieldNames
      BY <1>4 DEF Three, FieldNames
    <3>2. {DbConnection, String, Array(String), Result(DbRows)} \subseteq Words /\ Result(DbRows) # Void
      BY WordsAreInts DEF Plain
    <3> QED
      BY <1>1, <2>1, <3>1, <3>2, ThreeWords
  <2>3. /\ Required[o].gives = Result(DbRows)
        /\ \A e : e \in DOMAIN Required[o].takes <=> e \in {"Operand", "Left", "Right"}
        /\ Required[o].takes["Operand"] = DbConnection
        /\ Required[o].takes["Left"] = String
        /\ Required[o].takes["Right"] = Array(String)
    BY <1>1, <1>4, Merge, Rows DEF RequiredDb, Edge, OneString, Statement, OfConnection, OfRows, Sig
  <2>4. DemandsAgree(o)
    BY <2>1, <2>3 DEF DemandsAgree, Row
  <2> QED
    BY <2>2, <2>4
<1>5. CASE o \in {"DbRowsLen", "DbRowsFree"}
  <2>1. Row(o, <<"Operand">>, <<DbRows>>, Result(I64))
    BY <1>1, <1>5, Merge, Rows DEF ParsedServices, RuntimeDb, Sig, Row
  <2>2. RegistersAgree(o)
    BY <1>1, <1>5, <2>1, OneWords, WordsAreInts DEF Plain, FieldNames, One
  <2>3. /\ Required[o].gives = Result(I64)
        /\ \A e : e \in DOMAIN Required[o].takes <=> e \in {"Operand"}
        /\ Required[o].takes["Operand"] = DbRows
    BY <1>1, <1>5, Merge, Rows DEF RequiredDb, Edge, OneString, Statement, OfConnection, OfRows, Sig
  <2>4. DemandsAgree(o)
    BY <2>1, <2>3 DEF DemandsAgree, Row
  <2> QED
    BY <2>2, <2>4
<1>6. CASE o = "DbRowGet"
  <2>1. Row(o, <<"Operand", "Left", "Right">>, <<DbRows, I64, String>>, Result(String))
    BY SMTT(30), <1>1, <1>6, Merge, Rows DEF ParsedServices, RuntimeDb, Sig, Row
  <2>2. RegistersAgree(o)
    <3>1. o \in Three /\ {"Operand", "Left", "Right"} \subseteq FieldNames
      BY <1>6 DEF Three, FieldNames
    <3>2. {DbRows, I64, String, Result(String)} \subseteq Words /\ Result(String) # Void
      BY WordsAreInts DEF Plain
    <3> QED
      BY <1>1, <2>1, <3>1, <3>2, ThreeWords
  <2>3. /\ Required[o].gives = Result(String)
        /\ \A e : e \in DOMAIN Required[o].takes <=> e \in {"Operand", "Left", "Right"}
        /\ Required[o].takes["Operand"] = DbRows
        /\ Required[o].takes["Left"] = I64
        /\ Required[o].takes["Right"] = String
    BY <1>1, <1>6, Merge, Rows DEF RequiredDb, Edge, OneString, Statement, OfConnection, OfRows, Sig
  <2>4. DemandsAgree(o)
    BY <2>1, <2>3 DEF DemandsAgree, Row
  <2> QED
    BY <2>2, <2>4
<1>7. CASE o = "DbClose"
  <2>1. Row(o, <<"Operand">>, <<DbConnection>>, Result(I64))
    BY <1>1, <1>7, Merge, Rows DEF ParsedServices, RuntimeDb, Sig, Row
  <2>2. RegistersAgree(o)
    BY <1>1, <1>7, <2>1, OneWords, WordsAreInts DEF Plain, FieldNames, One
  <2>3. /\ Required[o].gives = Result(I64)
        /\ \A e : e \in DOMAIN Required[o].takes <=> e \in {"Operand"}
        /\ Required[o].takes["Operand"] = DbConnection
    BY <1>1, <1>7, Merge, Rows DEF RequiredDb, Edge, OneString, Statement, OfConnection, OfRows, Sig
  <2>4. DemandsAgree(o)
    BY <2>1, <2>3 DEF DemandsAgree, Row
  <2> QED
    BY <2>2, <2>4
<1> QED
  BY <1>2, <1>3, <1>4, <1>5, <1>6, <1>7 DEF DbOps

\* The ops that take or return something else, or take nothing.
LEMMA OtherRegisters ==
  ASSUME NEW o \in {"PrintString", "ReadLine", "StringEquals", "StringContains",
                    "StringCompare", "Sqrt", "Pow", "PowI64"}
  PROVE  RegistersAgree(o)
<1>0. o \in Ops
  BY OpsAreGrouped DEF IOOps, StringOps, MathOps
<1>1. CASE o = "PrintString"
  <2>1. Row(o, <<"Operand">>, <<String>>, Void) /\ Declared[o] = Sig(Ints(1), "none")
    BY <1>1, Merge, Rows, ParsedRows, RuntimeRows, DeclaredRows
       DEF IOOps, ParsedIO, RuntimeIO, Sig, Row
  <2> QED
    BY <1>1, <2>1, WordsAreInts DEF Row, Sig, Ints, RegistersAgree, Returned, Register
<1>2. CASE o = "ReadLine"
  <2>1. Row(o, <<>>, <<>>, Result(String)) /\ Declared[o] = Sig(Ints(0), "i64")
    BY <1>2, Merge, Rows, ParsedRows, RuntimeRows, DeclaredRows
       DEF IOOps, ParsedIO, RuntimeIO, Sig, Row
  <2>2. Parsed[o] \in Seq(FieldNames) /\ Len(Parsed[o]) = 0
        /\ Runtime[o].takes \in Seq(Words) /\ Len(Runtime[o].takes) = 0
    BY <2>1 DEF Row
  <2> QED
    BY <1>0, <1>2, <2>1, <2>2, OpsOnWords, WordsAreInts DEF Row, Plain
<1>3. CASE o \in {"StringEquals", "StringContains"}
  <2>1. Row(o, <<"Left", "Right">>, <<String, String>>, Bool) /\ Declared[o] = Sig(Ints(2), "i8")
    BY <1>3, Merge, Rows, ParsedRows, RuntimeRows, DeclaredRows
       DEF StringOps, ParsedStrings, RuntimeStrings, Sig, Row
  <2> QED
    BY <1>3, <2>1, WordsAreInts, PlainTypes DEF Row, Sig, Ints, RegistersAgree, Returned, Register
<1>4. CASE o = "StringCompare"
  <2>1. Row(o, <<"Left", "Right">>, <<String, String>>, I64) /\ Declared[o] = Sig(Ints(2), "i64")
    BY <1>4, Merge, Rows, ParsedRows, RuntimeRows, DeclaredRows
       DEF StringOps, ParsedStrings, RuntimeStrings, Sig, Row, Two
  <2> QED
    BY <1>4, <2>1, WordsAreInts, PlainTypes DEF Row, Sig, Ints, RegistersAgree, Returned, Register
<1>5. CASE o = "Sqrt"
  <2>1. Row(o, <<"Operand">>, <<F64>>, F64) /\ Declared[o] = Sig(Floats(1), "f64")
    BY <1>5, Merge, Rows, ParsedRows, RuntimeRows, DeclaredRows
       DEF MathOps, ParsedMath, RuntimeMath, Sig, Row
  <2> QED
    BY <1>5, <2>1, WordsAreInts, PlainTypes DEF Row, Sig, Floats, RegistersAgree, Returned, Register
<1>6. CASE o = "Pow"
  <2>1. Row(o, <<"Left", "Right">>, <<F64, F64>>, F64) /\ Declared[o] = Sig(Floats(2), "f64")
    BY <1>6, Merge, Rows, ParsedRows, RuntimeRows, DeclaredRows
       DEF MathOps, ParsedMath, RuntimeMath, Sig, Row
  <2> QED
    BY <1>6, <2>1, WordsAreInts, PlainTypes DEF Row, Sig, Floats, RegistersAgree, Returned, Register
<1>7. CASE o = "PowI64"
  <2>1. Row(o, <<"Left", "Right">>, <<I64, I64>>, I64)
    BY <1>7, Merge, Rows, ParsedRows, RuntimeRows DEF MathOps, ParsedMath, RuntimeMath, Sig, Row
  <2> QED
    BY <1>0, <1>7, <2>1, TwoWords, WordsAreInts DEF FieldNames, Two
<1> QED
  BY <1>1, <1>2, <1>3, <1>4, <1>5, <1>6, <1>7

\* The validator demands of ReadLine what the library gives.
LEMMA ReadLineAgrees == DemandsAgree("ReadLine")
<1>1. Row("ReadLine", <<>>, <<>>, Result(String)) /\ Required["ReadLine"] = Sig(Nothing, Result(String))
  BY Merge, Rows, ParsedRows, RuntimeRows, RequiredRows
     DEF IOOps, ParsedIO, RuntimeIO, RequiredIO, Sig, Row
<1> QED
  BY <1>1, Rows DEF DemandsAgree, Row, Nothing, Sig

\* A library function that can fail returns a result, which may not be ignored.
LEMMA FailableIsDirect ==
  ASSUME NEW o \in Ops, IsFailable(Returned(o))
  PROVE  o \in Direct
<1>1. o \in StringOps => ~IsFailable(Returned(o))
  BY RuntimeRows, Merge, Rows, WordsAreInts DEF StringOps, RuntimeStrings, Sig, Returned
<1>2. o \in MathOps \cup {"PrintString"} => ~IsFailable(Returned(o))
  BY RuntimeRows, Merge, Rows, WordsAreInts DEF MathOps, IOOps, RuntimeMath, RuntimeIO, Sig, Returned
<1>3. o \in JsonOps \cup TcpOps => o \in Direct
  BY DEF JsonOps, TcpOps, Direct
<1>4. o \in ServerOps \cup HttpOps \cup DbOps \cup (IOOps \ {"PrintString"}) => o \in Direct
  BY RequiredRows DEF Direct
<1> QED
  BY <1>1, <1>2, <1>3, <1>4, OpsAreGrouped

\* The four lists agree about every library op.
THEOREM TablesAgree ==
  ASSUME NEW o \in Ops
  PROVE  /\ Lowered[o] = Parsed[o]
         /\ RegistersAgree(o)
         /\ o \in DOMAIN Required => DemandsAgree(o)
         /\ IsFailable(Returned(o)) => o \in Direct
<1>1. RegistersAgree(o)
  <2>1. o \in IOOps => RegistersAgree(o)
    BY IOAgrees, OtherRegisters DEF IOOps
  <2>2. o \in StringOps => RegistersAgree(o)
    BY StringsAgrees, OtherRegisters DEF StringOps
  <2>3. o \in MathOps => RegistersAgree(o)
    BY OtherRegisters DEF MathOps
  <2> QED
    BY <2>1, <2>2, <2>3, JsonAgrees, TcpAgrees, ServerAgrees, HttpAgrees, DbAgrees, OpsAreGrouped
<1>2. o \in DOMAIN Required => DemandsAgree(o)
  BY RequiredRows, IOAgrees, ReadLineAgrees, ServerAgrees, HttpAgrees, DbAgrees
<1> QED
  BY <1>1, <1>2, LoweredAsParsed, FailableIsDirect

-----------------------------------------------------------------------------
(* The inductive invariant.                                                 *)

Sure(v) == v \in Values /\ v = True(v.real)

\* Nothing was reported but unhandled results and unwraps without a check, and
\* no gap was used.
Trusted == diags \subseteq {"E030", "E034"} /\ gaps = {} /\ verified

WellTyped ==
    /\ TypeOK
    /\ Len(Params) <= Len(vals) /\ Len(vals) <= Len(Params) + placed

\* What is believed is true, so nothing was confused.
Believed ==
    Trusted =>
        /\ \A i \in DOMAIN vals : vals[i] = True(vals[i].real)
        /\ slot \in {NoValue, True(slot.real)}
        /\ ~confused

\* What fails is recorded, until the end of its block at the latest.
Watched ==
    /\ Trusted /\ diags = {} => unseen \subseteq pending
    /\ block = 0 => pending = {}

\* What is meant, labelled and guarded right is not refused.
Accepted == right /\ gaps = {} => diags = {} /\ verified

IInv == WellTyped /\ Believed /\ Watched /\ Accepted

-----------------------------------------------------------------------------
(* What has to be shown of the effects of an op.                            *)

OneAtMost == {<<>>} \cup {<<v>> : v \in Values}

\* What was asked for Ok or Some is a value, or the answer.
Asks(e) ==
    \/ e.asks = {}
    \/ e.defines # <<>> /\ \E i \in DOMAIN vals : e.asks = {i, Len(vals) + 1}

\* The fields of e are what effects are.
Effect(e) ==
    /\ DOMAIN e = DOMAIN Quiet
    /\ e.defines \in OneAtMost
    /\ e.diags \in SUBSET Codes /\ e.gaps \in SUBSET Gaps
    /\ e.ok \in BOOLEAN /\ e.confused \in BOOLEAN /\ e.right \in BOOLEAN
    /\ e.gate \in BOOLEAN
    /\ Asks(e)

Clean(e) == e.diags \subseteq {"E030", "E034"} /\ e.gaps = {} /\ e.ok

\* A clean op confuses nothing, defines what it is said to define, and the
\* checks know of its result.
Keeps(e) ==
    Clean(e) => /\ ~e.confused
                /\ \A v : e.defines = <<v>> => v = True(v.real)
                /\ Fails(e) => Recorded(e)

\* An op that is meant and labelled right is clean.
Deserves(e) == e.right /\ e.gaps = {} => e.diags = {} /\ e.ok

Fine(e) == Keeps(e) /\ Deserves(e)

\* What an op defines comes behind the values.
LEMMA Defined ==
  ASSUME NEW vs \in Seq(Values), NEW d \in OneAtMost
  PROVE  /\ vs \o d \in Seq(Values)
         /\ Len(vs) \in Nat /\ DOMAIN vs = 1..Len(vs)
         /\ DOMAIN (vs \o d) = 1..Len(vs \o d)
         /\ \/ d = <<>> /\ vs \o d = vs
            \/ \E v \in Values :
                 /\ d = <<v>> /\ Len(vs \o d) = Len(vs) + 1 /\ (vs \o d)[Len(vs) + 1] = v
                 /\ \A i \in DOMAIN vs : (vs \o d)[i] = vs[i]
<1>1. d \in Seq(Values)
  BY EmptySeq, Singleton DEF OneAtMost
<1>2. /\ vs \o d \in Seq(Values) /\ Len(vs) \in Nat /\ DOMAIN vs = 1..Len(vs)
      /\ DOMAIN (vs \o d) = 1..Len(vs \o d)
  BY <1>1, ConcatProperties, LenProperties
<1>3. CASE d = <<>>
  BY <1>2, <1>3, ConcatEmptySeq
<1>4. CASE \E v \in Values : d = <<v>>
  <2>1. PICK v \in Values : d = <<v>>
    BY <1>4
  <2>2. Len(d) = 1 /\ d[1] = v
    BY <2>1, Singleton
  <2>3. Len(vs \o d) = Len(vs) + Len(d) /\ \A i \in 1..Len(vs) + Len(d) :
          (vs \o d)[i] = IF i <= Len(vs) THEN vs[i] ELSE d[i - Len(vs)]
    BY <1>1, ConcatProperties
  <2> QED
    BY <1>2, <2>1, <2>2, <2>3
<1> QED
  BY <1>3, <1>4 DEF OneAtMost

\* Effects leave the variables in their types.
LEMMA EffectsWellTyped ==
  ASSUME WellTyped, NEW e, Effect(e), Effects(e)
  PROVE  /\ vals' \in Seq(Values) /\ DOMAIN vals \subseteq DOMAIN vals'
         /\ Len(vals) <= Len(vals') /\ Len(vals') <= Len(vals) + 1
         /\ Len(vals') = Len(vals) => e.defines = <<>> /\ vals' = vals
         /\ e.defines # <<>> => Len(vals) + 1 \in DOMAIN vals'
         /\ gated' \in BOOLEAN /\ verified' \in BOOLEAN
         /\ confused' \in BOOLEAN /\ right' \in BOOLEAN
         /\ unseen' \subseteq DOMAIN vals'
         /\ diags' \subseteq Codes /\ gaps' \subseteq Gaps
<1>1. vals \in Seq(Values) /\ vals' = vals \o e.defines /\ e.defines \in OneAtMost
  BY DEF WellTyped, TypeOK, Effect, Effects
<1>2. /\ vals' \in Seq(Values) /\ DOMAIN vals \subseteq DOMAIN vals'
      /\ Len(vals) <= Len(vals') /\ Len(vals') <= Len(vals) + 1
      /\ Len(vals') = Len(vals) => e.defines = <<>> /\ vals' = vals
      /\ e.defines # <<>> => Len(vals) + 1 \in DOMAIN vals'
  BY <1>1, Defined
<1>3. /\ gated' \in BOOLEAN /\ verified' \in BOOLEAN
      /\ confused' \in BOOLEAN /\ right' \in BOOLEAN
  BY DEF WellTyped, TypeOK, Effect, Effects
<1>4. unseen' \subseteq DOMAIN vals'
  BY <1>2 DEF WellTyped, TypeOK, Effects, Outstanding, Fails, If
<1>5. diags' \subseteq Codes /\ gaps' \subseteq Gaps
  BY DEF WellTyped, TypeOK, Effect, Effects, Codes
<1> QED
  BY <1>2, <1>3, <1>4, <1>5

\* The effects that keep what is believed of the values.
LEMMA EffectsBelieved ==
  ASSUME IInv, NEW e, Effect(e), Effects(e), Trusted => Keeps(e), Trusted'
  PROVE  /\ Trusted /\ Clean(e)
         /\ \A i \in DOMAIN vals' : vals'[i] = True(vals'[i].real)
         /\ ~confused'
<1>1. Trusted /\ Clean(e)
  BY DEF Trusted, Clean, Effects, IInv, WellTyped, TypeOK, Effect
<1>2. \A i \in DOMAIN vals' : vals'[i] = True(vals'[i].real)
  <2>1. vals \in Seq(Values) /\ vals' = vals \o e.defines /\ e.defines \in OneAtMost
    BY DEF IInv, WellTyped, TypeOK, Effect, Effects
  <2>2. \A i \in DOMAIN vals : vals[i] = True(vals[i].real)
    BY <1>1 DEF IInv, Believed
  <2>3. \A v : e.defines = <<v>> => v = True(v.real)
    BY <1>1 DEF Keeps
  <2> QED
    BY <2>1, <2>2, <2>3, Defined
<1>3. ~confused'
  BY <1>1 DEF IInv, Believed, Keeps, Effects
<1> QED
  BY <1>1, <1>2, <1>3

\* A node that is not the last of its block keeps the invariant.
LEMMA PlaceAndStoreKeeps ==
  ASSUME IInv, NEW e, Effect(e), Trusted => Fine(e), NEW var \in Values \cup {NoValue},
         Trusted /\ Clean(e) => var \in {NoValue, True(var.real)},
         PlaceAndStore(e, var)
  PROVE  IInv'
<1>1. Effects(e) /\ placed' = placed + 1 /\ placed < MaxNodes /\ block # 0 /\ block' = block
      /\ slot' = var /\ pending' = Outstanding(pending, e, Recorded(e))
      /\ checked' = checked \cup e.asks
  BY DEF PlaceAndStore
<1>2. WellTyped /\ TypeOK
  BY DEF IInv, WellTyped
<1>3. /\ vals' \in Seq(Values) /\ DOMAIN vals \subseteq DOMAIN vals'
      /\ Len(vals) <= Len(vals') /\ Len(vals') <= Len(vals) + 1
      /\ e.defines # <<>> => Len(vals) + 1 \in DOMAIN vals'
      /\ gated' \in BOOLEAN /\ verified' \in BOOLEAN
      /\ confused' \in BOOLEAN /\ right' \in BOOLEAN
      /\ unseen' \subseteq DOMAIN vals'
      /\ diags' \subseteq Codes /\ gaps' \subseteq Gaps
  BY <1>1, <1>2, EffectsWellTyped
<1>4. WellTyped'
  <2>1. pending' \subseteq DOMAIN vals'
    BY <1>1, <1>2, <1>3 DEF TypeOK, Outstanding, Recorded, If
  <2>3. checked' \subseteq DOMAIN vals'
    <3>1. Asks(e) /\ checked \subseteq DOMAIN vals
      BY <1>2 DEF Effect, TypeOK
    <3> QED
      BY <1>1, <1>3, <3>1 DEF Asks
  <2>2. /\ placed' \in 0..MaxNodes /\ Len(vals') \in Nat /\ Len(Params) \in Nat
        /\ Len(Params) <= Len(vals') /\ Len(vals') <= Len(Params) + placed'
        /\ Len(vals') <= Len(Params) + MaxNodes
    <3>1. Len(vals') \in Nat /\ Len(vals) \in Nat /\ Len(Params) \in Nat
      BY <1>2, <1>3, TypesAssumption, LenProperties DEF TypeOK
    <3> QED
      BY <1>1, <1>2, <1>3, <3>1, BoundAssumption DEF WellTyped, TypeOK
  <2> QED
    BY <1>1, <1>2, <1>3, <2>1, <2>2, <2>3 DEF WellTyped, TypeOK
<1>5. Believed'
  <2> SUFFICES ASSUME Trusted' PROVE Believed'
    BY DEF Believed
  <2>1. Trusted /\ Clean(e) /\ (\A i \in DOMAIN vals' : vals'[i] = True(vals'[i].real)) /\ ~confused'
    BY <1>1, EffectsBelieved DEF Fine
  <2> QED
    BY <1>1, <2>1 DEF Believed
<1>6. Watched'
  <2>1. ASSUME Trusted', diags' = {} PROVE unseen' \subseteq pending'
    <3>1. Trusted /\ Clean(e)
      BY <1>1, <2>1, EffectsBelieved DEF Fine
    <3>2. diags = {}
      BY <1>1, <2>1 DEF Effects
    <3>3. unseen \subseteq pending /\ (Fails(e) => Recorded(e))
      BY <3>1, <3>2 DEF IInv, Watched, Fine, Keeps
    <3> QED
      BY <1>1, <3>3 DEF Effects, Outstanding, If
  <2> QED
    BY <1>1, <2>1 DEF Watched
<1>7. Accepted'
  <2> SUFFICES ASSUME right', gaps' = {} PROVE diags' = {} /\ verified'
    BY DEF Accepted
  <2>1. right /\ gaps = {} /\ e.right /\ e.gaps = {}
    BY <1>1, <1>2 DEF Effects, TypeOK, Effect
  <2>2. diags = {} /\ verified /\ Trusted
    BY <2>1 DEF IInv, Accepted, Trusted
  <2>3. e.diags = {} /\ e.ok
    BY <2>1, <2>2 DEF Fine, Deserves
  <2> QED
    BY <1>1, <2>2, <2>3 DEF Effects
<1> QED
  BY <1>4, <1>5, <1>6, <1>7 DEF IInv

\* The same of a node that stores nothing.
LEMMA PlaceKeeps ==
  ASSUME IInv, NEW e, Effect(e), Trusted => Fine(e), Place(e)
  PROVE  IInv'
<1>1. slot \in Values \cup {NoValue}
  BY DEF IInv, WellTyped, TypeOK
<1>2. Trusted => slot \in {NoValue, True(slot.real)}
  BY DEF IInv, Believed
<1>3. PlaceAndStore(e, slot)
  BY DEF Place
<1> QED
  BY <1>1, <1>2, <1>3, PlaceAndStoreKeeps

\* A node that ends its block keeps it.
LEMMA EndKeeps ==
  ASSUME IInv, NEW e, Effect(e), Trusted => Fine(e), ~e.calls, e.defines = <<>>,
         NEW next \in Nat, End(next, e)
  PROVE  IInv'
<1> DEFINE f == [e EXCEPT !.diags = @ \cup If(pending \ e.sees # {}, {"E030"}),
                          !.right = @ /\ pending \ e.sees = {}]
<1>1. /\ Effect(f)
      /\ f.defines = <<>> /\ f.gaps = e.gaps /\ f.ok = e.ok /\ f.confused = e.confused
      /\ ~f.calls /\ f.sees = e.sees
      /\ f.diags = e.diags \cup If(pending \ e.sees # {}, {"E030"})
      /\ f.right = (e.right /\ pending \ e.sees = {})
  BY DEF Effect, Asks, Quiet, If, Codes
<1>2. Effects(f) /\ block' = next /\ next <= MaxBlocks /\ pending' = {} /\ checked' = {}
      /\ slot' = slot /\ placed' = placed
  BY DEF End
<1> HIDE DEF f
<1>3. WellTyped /\ TypeOK
  BY DEF IInv, WellTyped
<1>4. vals' = vals
  BY <1>1, <1>2, <1>3, ConcatEmptySeq DEF Effects, TypeOK
<1>5. WellTyped'
  <2>1. /\ gated' \in BOOLEAN /\ verified' \in BOOLEAN
        /\ confused' \in BOOLEAN /\ right' \in BOOLEAN
        /\ unseen' \subseteq DOMAIN vals'
        /\ diags' \subseteq Codes /\ gaps' \subseteq Gaps
    BY <1>1, <1>2, <1>3, EffectsWellTyped
  <2>2. block' \in 0..MaxBlocks
    BY <1>2, BoundAssumption
  <2> QED
    BY <1>2, <1>3, <1>4, <2>1, <2>2 DEF WellTyped, TypeOK
<1>6. Clean(f) => Clean(e)
  BY <1>1 DEF Clean
<1>7. Trusted => Keeps(f)
  BY <1>1, <1>6 DEF Fine, Keeps, Fails
<1>8. Believed'
  <2> SUFFICES ASSUME Trusted' PROVE Believed'
    BY DEF Believed
  <2>1. Trusted /\ (\A i \in DOMAIN vals' : vals'[i] = True(vals'[i].real)) /\ ~confused'
    BY <1>1, <1>2, <1>7, EffectsBelieved
  <2> QED
    BY <1>2, <2>1 DEF IInv, Believed
<1>9. Watched'
  <2>1. ASSUME Trusted', diags' = {} PROVE unseen' = {}
    <3>1. Trusted /\ diags = {} /\ f.diags = {}
      BY <1>1, <1>2, <1>7, <2>1, EffectsBelieved DEF Effects
    <3>2. unseen \subseteq pending /\ pending \ e.sees = {}
      BY <1>1, <3>1 DEF IInv, Watched, If
    <3> QED
      BY <1>1, <1>2, <3>2 DEF Effects, Outstanding, Fails, If
  <2> QED
    BY <1>2, <2>1 DEF Watched
<1>10. Accepted'
  <2> SUFFICES ASSUME right', gaps' = {} PROVE diags' = {} /\ verified'
    BY DEF Accepted
  <2>1. right /\ gaps = {} /\ e.right /\ e.gaps = {} /\ pending \ e.sees = {}
    BY <1>1, <1>2, <1>3 DEF Effects, TypeOK, Effect
  <2>2. diags = {} /\ verified /\ Trusted
    BY <2>1 DEF IInv, Accepted, Trusted
  <2>3. e.diags = {} /\ e.ok
    BY <2>1, <2>2 DEF Fine, Deserves
  <2> QED
    BY <1>1, <1>2, <2>1, <2>2, <2>3 DEF Effects, If
<1> QED
  BY <1>5, <1>8, <1>9, <1>10 DEF IInv

-----------------------------------------------------------------------------
(* The ops, one by one.                                                     *)

\* When a node records the type of what it defines, and when that is a gap.
LEMMA Recording ==
  /\ \A d, r : Mislabelled(d, r) \in SUBSET Gaps /\ (Mislabelled(d, r) = {} => d = r /\ d # Unknown)
  /\ \A vs : Untyped(vs) \in SUBSET Gaps /\ (Untyped(vs) = {} => \A v \in vs : v.decl # Unknown)
  /\ \A c, s : (If(c, s) = {} <=> ~c \/ s = {}) /\ If(c, s) \subseteq s
  /\ \A c, a : If(c, {a}) = {} <=> ~c
  /\ \A c, a : a \notin {"E030", "E034"} => (If(c, {a}) \subseteq {"E030", "E034"} <=> ~c)
  /\ \A c : If(c, {"E034"}) \subseteq {"E030", "E034"}
BY DEF Mislabelled, Untyped, If, Gaps

\* A value of a type that is not "none", in the register of its type.
LEMMA InRegister ==
  /\ \A t : MachineType(t) \in Registers
  /\ \A d \in Type, r \in Type, cl \in Registers :
        /\ Value(d, r, cl) \in Values
        /\ <<Value(d, r, cl)>> \in OneAtMost
        /\ Value(d, r, cl).decl = d /\ Value(d, r, cl).real = r /\ Value(d, r, cl).cl = cl
  /\ \A v \in Values : /\ v.decl \in Type /\ v.real \in Type /\ v.cl \in Registers
                       /\ Sure(v) => v.decl = v.real /\ v.cl = MachineType(v.real)
<1>1. \A t : MachineType(t) \in Registers
  BY DEF MachineType, Registers
<1>2. \A d \in Type, r \in Type, cl \in Registers :
        /\ Value(d, r, cl) \in Values
        /\ Value(d, r, cl).decl = d /\ Value(d, r, cl).real = r /\ Value(d, r, cl).cl = cl
  BY DEF Values, Value
<1>3. \A v \in Values : v.decl \in Type /\ v.real \in Type /\ v.cl \in Registers
  BY DEF Values
<1>4. \A v \in Values : Sure(v) => v.decl = v.real /\ v.cl = MachineType(v.real)
  BY DEF Sure, True, Value
<1> QED
  BY <1>1, <1>2, <1>3, <1>4 DEF OneAtMost

\* What an op that defines a value has to show.
LEMMA FineIf ==
  ASSUME NEW e, NEW d \in Type, NEW r \in Type, NEW cl \in Registers,
         e.defines = <<Value(d, r, cl)>>,
         Clean(e) => ~e.confused /\ d = r /\ cl = MachineType(r),
         Clean(e) /\ e.calls /\ IsFailable(r) => e.direct,
         e.right /\ e.gaps = {} => e.diags = {} /\ e.ok
  PROVE  Fine(e)
<1>1. \A v : e.defines = <<v>> => v = Value(d, r, cl)
  OBVIOUS
<1>2. e.defines # <<>> /\ e.defines[1] = Value(d, r, cl)
  OBVIOUS
<1>3. Value(d, r, cl).real = r /\ Value(d, r, cl).decl = d
  BY InRegister
<1>4. Clean(e) => ~e.confused /\ Value(d, r, cl) = True(Value(d, r, cl).real)
  BY <1>3 DEF True
<1>5. Clean(e) => (Fails(e) => Recorded(e))
  BY <1>2, <1>3 DEF Fails, Recorded
<1> QED
  BY <1>1, <1>4, <1>5 DEF Fine, Keeps, Deserves

\* What an op without a value has to show.
LEMMA FineIfQuiet ==
  ASSUME NEW e, e.defines = <<>>, Clean(e) => ~e.confused,
         e.right /\ e.gaps = {} => e.diags = {} /\ e.ok
  PROVE  Fine(e)
BY DEF Fine, Keeps, Deserves, Fails

\* The sets that make up the effects.
LEMMA EffectSets ==
  /\ \A c, a : a \in Codes => If(c, {a}) \in SUBSET Codes
  /\ \A c, g : g \in Gaps => If(c, {g}) \in SUBSET Gaps
  /\ \A d, r : Mislabelled(d, r) \in SUBSET Gaps
  /\ \A vs : Untyped(vs) \in SUBSET Gaps
  /\ \A vs : Narrow(vs) \in SUBSET Gaps
  /\ \A t : NarrowOut(t) \in SUBSET Gaps
  /\ \A s, t \in SUBSET Gaps : s \cup t \in SUBSET Gaps
  /\ \A s, t \in SUBSET Codes : s \cup t \in SUBSET Codes
  /\ "E001" \in Codes /\ "E033" \in Codes /\ "E034" \in Codes /\ "E035" \in Codes
  /\ "notNumbers" \in Gaps /\ "unchecked" \in Gaps /\ "narrow" \in Gaps
  /\ "untyped" \in Gaps /\ "voidFunction" \in Gaps /\ "afterMatch" \in Gaps
BY DEF Codes, Gaps, If, Mislabelled, Untyped, Narrow, NarrowOut

\* The types that the instructions work on.
LEMMA Basics ==
  /\ MachineType(I64) = "i64" /\ MachineType(F64) = "f64" /\ MachineType(Bool) = "i8"
  /\ MachineType(String) = "i64"
  /\ \A t : t \notin {F64, Bool} => MachineType(t) = "i64"
  /\ I64 # F64 /\ I64 # Bool /\ F64 # Bool
  /\ Junk \notin {I64, F64, Bool, Unknown, String} /\ String \notin {I64, F64, Bool, Unknown}
  /\ Unknown \notin {I64, F64, Bool}
BY PlainTypes

\* A constant has effects of the right types, and is fine.
LEMMA ConstFine ==
  ASSUME NEW label \in Labels
  PROVE  Effect(Const(label)) /\ Fine(Const(label))
<1> DEFINE e == Const(label)
<1>1. label \in Type /\ (IF label \in {F64, Bool, String} THEN label ELSE I64) \in Type /\ MachineType((IF label \in {F64, Bool, String} THEN label ELSE I64)) \in Registers
  BY TypesAssumption, WordsAreInts, InRegister
<1>2. /\ DOMAIN e = DOMAIN Quiet /\ e.asks = {} /\ e.defines = <<Value(label, (IF label \in {F64, Bool, String} THEN label ELSE I64), MachineType((IF label \in {F64, Bool, String} THEN label ELSE I64)))>>
      /\ e.diags = {}
      /\ e.gaps = Mislabelled(label, (IF label \in {F64, Bool, String} THEN label ELSE I64))
  BY DEF Const, Defining, Quiet
<1>3. /\ e.ok <=> TRUE
      /\ e.confused <=> FALSE
      /\ e.right <=> (label = (IF label \in {F64, Bool, String} THEN label ELSE I64))
      /\ ~e.calls
  BY DEF Const, Defining, Quiet
<1>4. e.ok \in BOOLEAN /\ e.confused \in BOOLEAN /\ e.right \in BOOLEAN /\ e.gate \in BOOLEAN
  BY DEF Const, Defining, Quiet
<1> HIDE DEF e
<1>5. Effect(e)
  <2>1. e.defines \in OneAtMost
    BY <1>1, <1>2, InRegister
  <2>2. e.diags \in SUBSET Codes /\ e.gaps \in SUBSET Gaps
    BY <1>2, EffectSets
  <2> QED
    BY <1>2, <1>4, <2>1, <2>2 DEF Effect, Asks
<1>6. Clean(e) => ~e.confused /\ label = (IF label \in {F64, Bool, String} THEN label ELSE I64) /\ MachineType((IF label \in {F64, Bool, String} THEN label ELSE I64)) = MachineType((IF label \in {F64, Bool, String} THEN label ELSE I64))
  BY <1>2, <1>3, <1>4, Recording DEF Clean
<1>7. e.right /\ e.gaps = {} => e.diags = {} /\ e.ok
  BY <1>2, <1>3, <1>4, Recording
<1> QED
  BY <1>1, <1>2, <1>3, <1>5, <1>6, <1>7, FineIf DEF e

\* Arithmetic has effects of the right types, and is fine.
LEMMA ArithmeticFine ==
  ASSUME NEW op, NEW l \in Values, NEW r \in Values, NEW label \in Labels
  PROVE  /\ Effect(Arithmetic(op, l, r, label))
         /\ Sure(l) /\ Sure(r) => Fine(Arithmetic(op, l, r, label))
<1> DEFINE e == Arithmetic(op, l, r, label)
<1>1. label \in Type /\ Number(l, r) \in Type /\ (IF label = F64 THEN "f64" ELSE l.cl) \in Registers
  BY TypesAssumption, WordsAreInts, InRegister, PlainTypes DEF Number, Plain, Registers
<1>2. /\ DOMAIN e = DOMAIN Quiet /\ e.asks = {} /\ e.defines = <<Value(label, Number(l, r), (IF label = F64 THEN "f64" ELSE l.cl))>>
      /\ e.diags = If(op # "Modulo" /\ Differ(l, r), {"E001"})
      /\ e.gaps = Untyped({l, r}) \cup Mislabelled(label, Number(l, r))
                \cup If(Number(l, r) = Junk, {"notNumbers"})
  BY DEF Arithmetic, Defining, Quiet
<1>3. /\ e.ok <=> (/\ l.cl = r.cl /\ (label = F64 <=> l.cl = "f64")
                   /\ op = "Div" => label = F64 \/ r.cl = "i64")
      /\ e.confused <=> (Number(l, r) = Junk)
      /\ e.right <=> (Number(l, r) # Junk /\ label = Number(l, r))
      /\ ~e.calls
  BY DEF Arithmetic, Defining, Quiet
<1>4. e.ok \in BOOLEAN /\ e.confused \in BOOLEAN /\ e.right \in BOOLEAN /\ e.gate \in BOOLEAN
  BY DEF Arithmetic, Defining, Quiet
<1> HIDE DEF e
<1>5. Effect(e)
  <2>1. e.defines \in OneAtMost
    BY <1>1, <1>2, InRegister
  <2>2. e.diags \in SUBSET Codes /\ e.gaps \in SUBSET Gaps
    BY <1>2, EffectSets
  <2> QED
    BY <1>2, <1>4, <2>1, <2>2 DEF Effect, Asks
<1>6. ASSUME Sure(l), Sure(r) PROVE Fine(e)
  <2>1. /\ l.decl = l.real /\ l.cl = MachineType(l.real) /\ l.real \in Type
        /\ r.decl = r.real /\ r.cl = MachineType(r.real) /\ r.real \in Type
    BY <1>6, InRegister DEF Sure
  <2>2. Clean(e) => ~e.confused /\ label = Number(l, r) /\ (IF label = F64 THEN "f64" ELSE l.cl) = MachineType(Number(l, r))
    BY <1>2, <1>3, <1>4, <2>1, Recording, Basics DEF Clean, Number, Numbers
  <2>3. e.right /\ e.gaps = {} => e.diags = {} /\ e.ok
    BY <1>2, <1>3, <1>4, <2>1, Recording, Basics DEF Number, Numbers, Differ
  <2> QED
    BY <1>1, <1>2, <1>3, <2>2, <2>3, FineIf
<1> QED
  BY <1>5, <1>6 DEF e

\* A comparison has effects of the right types, and is fine.
LEMMA CompareFine ==
  ASSUME NEW l \in Values, NEW r \in Values
  PROVE  Effect(Compare(l, r)) /\ (Sure(l) /\ Sure(r) => Fine(Compare(l, r)))
<1> DEFINE e == Compare(l, r)
<1>1. Bool \in Type /\ "i8" \in Registers
  BY WordsAreInts DEF Registers
<1>2. /\ DOMAIN e = DOMAIN Quiet /\ e.asks = {} /\ e.defines = <<Value(Bool, Bool, "i8")>>
      /\ e.diags = If(Differ(l, r), {"E001"})
      /\ e.gaps = Untyped({l, r}) \cup If(l.real \notin Numbers \cup {Bool}, {"notNumbers"})
  BY DEF Compare, Defining, Quiet
<1>3. /\ e.ok <=> (l.cl = r.cl /\ (l.decl = F64 <=> l.cl = "f64"))
      /\ e.confused <=> (l.real # r.real \/ l.real \notin Numbers \cup {Bool})
      /\ e.right <=> (l.real = r.real /\ l.real \in Numbers \cup {Bool})
      /\ ~e.calls
  BY DEF Compare, Defining, Quiet
<1>4. e.ok \in BOOLEAN /\ e.confused \in BOOLEAN /\ e.right \in BOOLEAN /\ e.gate \in BOOLEAN
  BY DEF Compare, Defining, Quiet
<1> HIDE DEF e
<1>5. Effect(e)
  <2>1. e.defines \in OneAtMost
    BY <1>1, <1>2, InRegister
  <2>2. e.diags \in SUBSET Codes /\ e.gaps \in SUBSET Gaps
    BY <1>2, EffectSets
  <2> QED
    BY <1>2, <1>4, <2>1, <2>2 DEF Effect, Asks
<1>6. ASSUME Sure(l), Sure(r) PROVE Fine(e)
  <2>1. /\ l.decl = l.real /\ l.cl = MachineType(l.real) /\ l.real \in Type
        /\ r.decl = r.real /\ r.cl = MachineType(r.real) /\ r.real \in Type
    BY <1>6, InRegister DEF Sure
  <2>2. Clean(e) => ~e.confused /\ "i8" = MachineType(Bool)
    BY <1>2, <1>3, <1>4, <2>1, Recording, Basics DEF Clean, Differ
  <2>3. e.right /\ e.gaps = {} => e.diags = {} /\ e.ok
    BY <1>2, <1>3, <1>4, <2>1, Recording, Basics DEF Differ, Numbers
  <2> QED
    BY <1>1, <1>2, <1>3, <2>2, <2>3, FineIf
<1> QED
  BY <1>5, <1>6 DEF e

\* A bitwise op has effects of the right types, and is fine.
LEMMA BitsFine ==
  ASSUME NEW l \in Values, NEW r \in Values, NEW shift \in BOOLEAN
  PROVE  Effect(Bits(l, r, shift)) /\ (Sure(l) /\ Sure(r) => Fine(Bits(l, r, shift)))
<1> DEFINE e == Bits(l, r, shift)
<1>1. I64 \in Type /\ (IF l.real = I64 THEN I64 ELSE Junk) \in Type /\ l.cl \in Registers
  BY WordsAreInts, PlainTypes, InRegister DEF Plain
<1>2. /\ DOMAIN e = DOMAIN Quiet /\ e.asks = {} /\ e.defines = <<Value(I64, (IF l.real = I64 THEN I64 ELSE Junk), l.cl)>>
      /\ e.diags = {}
      /\ e.gaps = If(l.real # I64 \/ r.real # I64, {"notNumbers"})
  BY DEF Bits, Defining, Quiet
<1>3. /\ e.ok <=> ("f64" \notin {l.cl, r.cl} /\ (l.cl = r.cl \/ shift))
      /\ e.confused <=> (l.real # I64 \/ r.real # I64)
      /\ e.right <=> (l.real = I64 /\ r.real = I64)
      /\ ~e.calls
  BY DEF Bits, Defining, Quiet
<1>4. e.ok \in BOOLEAN /\ e.confused \in BOOLEAN /\ e.right \in BOOLEAN /\ e.gate \in BOOLEAN
  BY DEF Bits, Defining, Quiet
<1> HIDE DEF e
<1>5. Effect(e)
  <2>1. e.defines \in OneAtMost
    BY <1>1, <1>2, InRegister
  <2>2. e.diags \in SUBSET Codes /\ e.gaps \in SUBSET Gaps
    BY <1>2, EffectSets
  <2> QED
    BY <1>2, <1>4, <2>1, <2>2 DEF Effect, Asks
<1>6. ASSUME Sure(l), Sure(r) PROVE Fine(e)
  <2>1. /\ l.decl = l.real /\ l.cl = MachineType(l.real) /\ l.real \in Type
        /\ r.decl = r.real /\ r.cl = MachineType(r.real) /\ r.real \in Type
    BY <1>6, InRegister DEF Sure
  <2>2. Clean(e) => ~e.confused /\ I64 = (IF l.real = I64 THEN I64 ELSE Junk) /\ l.cl = MachineType((IF l.real = I64 THEN I64 ELSE Junk))
    BY <1>2, <1>3, <1>4, <2>1, Recording, Basics DEF Clean
  <2>3. e.right /\ e.gaps = {} => e.diags = {} /\ e.ok
    BY <1>2, <1>3, <1>4, <2>1, Recording, Basics
  <2> QED
    BY <1>1, <1>2, <1>3, <2>2, <2>3, FineIf
<1> QED
  BY <1>5, <1>6 DEF e

\* Checked arithmetic has effects of the right types, and is fine.
LEMMA CheckedFine ==
  ASSUME NEW l \in Values, NEW r \in Values, NEW label \in Labels
  PROVE  Effect(Checked(l, r, label)) /\ (Sure(l) /\ Sure(r) => Fine(Checked(l, r, label)))
<1> DEFINE e == Checked(l, r, label)
<1>1. label \in Type /\ Result(I64) \in Type /\ "i64" \in Registers
  BY TypesAssumption, WordsAreInts DEF Plain, Words, Registers
<1>2. /\ DOMAIN e = DOMAIN Quiet /\ e.asks = {} /\ e.defines = <<Value(label, Result(I64), "i64")>>
      /\ e.diags = If(Differ(l, r) \/ label # Result(I64), {"E001"})
      /\ e.gaps = Untyped({l, r}) \cup If(l.real # I64, {"notNumbers"})
  BY DEF Checked, Defining, Quiet
<1>3. /\ e.ok <=> (label = Result(I64) /\ l.cl = "i64" /\ r.cl = "i64")
      /\ e.confused <=> (l.real # I64 \/ r.real # I64)
      /\ e.right <=> (l.real = I64 /\ r.real = I64 /\ label = Result(I64))
      /\ e.direct
  BY DEF Checked, Defining, Quiet
<1>4. e.ok \in BOOLEAN /\ e.confused \in BOOLEAN /\ e.right \in BOOLEAN /\ e.gate \in BOOLEAN
  BY DEF Checked, Defining, Quiet
<1> HIDE DEF e
<1>5. Effect(e)
  <2>1. e.defines \in OneAtMost
    BY <1>1, <1>2, InRegister
  <2>2. e.diags \in SUBSET Codes /\ e.gaps \in SUBSET Gaps
    BY <1>2, EffectSets
  <2> QED
    BY <1>2, <1>4, <2>1, <2>2 DEF Effect, Asks
<1>6. ASSUME Sure(l), Sure(r) PROVE Fine(e)
  <2>1. /\ l.decl = l.real /\ l.cl = MachineType(l.real) /\ l.real \in Type
        /\ r.decl = r.real /\ r.cl = MachineType(r.real) /\ r.real \in Type
    BY <1>6, InRegister DEF Sure
  <2>2. Clean(e) => ~e.confused /\ label = Result(I64) /\ "i64" = MachineType(Result(I64))
    BY <1>2, <1>3, <1>4, <2>1, Recording, Basics, WordsAreInts DEF Clean, Differ, Plain
  <2>3. e.right /\ e.gaps = {} => e.diags = {} /\ e.ok
    BY <1>2, <1>3, <1>4, <2>1, Recording, Basics DEF Differ
  <2> QED
    BY <1>1, <1>2, <1>3, <2>2, <2>3, FineIf
<1> QED
  BY <1>5, <1>6 DEF e

\* A cast to f64 has effects of the right types, and is fine.
LEMMA CastI64ToF64Fine ==
  ASSUME NEW v \in Values
  PROVE  Effect(CastI64ToF64(v)) /\ (Sure(v) => Fine(CastI64ToF64(v)))
<1> DEFINE e == CastI64ToF64(v)
<1>1. F64 \in Type /\ "f64" \in Registers
  BY WordsAreInts DEF Registers
<1>2. /\ DOMAIN e = DOMAIN Quiet /\ e.asks = {} /\ e.defines = <<Value(F64, F64, "f64")>>
      /\ e.diags = {}
      /\ e.gaps = If(v.real \notin {I64, Bool}, {"notNumbers"})
  BY DEF CastI64ToF64, Defining, Quiet
<1>3. /\ e.ok <=> (v.cl # "f64")
      /\ e.confused <=> (v.real \notin {I64, Bool})
      /\ e.right <=> (v.real = I64)
      /\ ~e.calls
  BY DEF CastI64ToF64, Defining, Quiet
<1>4. e.ok \in BOOLEAN /\ e.confused \in BOOLEAN /\ e.right \in BOOLEAN /\ e.gate \in BOOLEAN
  BY DEF CastI64ToF64, Defining, Quiet
<1> HIDE DEF e
<1>5. Effect(e)
  <2>1. e.defines \in OneAtMost
    BY <1>1, <1>2, InRegister
  <2>2. e.diags \in SUBSET Codes /\ e.gaps \in SUBSET Gaps
    BY <1>2, EffectSets
  <2> QED
    BY <1>2, <1>4, <2>1, <2>2 DEF Effect, Asks
<1>6. ASSUME Sure(v) PROVE Fine(e)
  <2>1. /\ v.decl = v.real /\ v.cl = MachineType(v.real) /\ v.real \in Type
    BY <1>6, InRegister DEF Sure
  <2>2. Clean(e) => ~e.confused /\ "f64" = MachineType(F64)
    BY <1>2, <1>3, <1>4, <2>1, Recording, Basics DEF Clean
  <2>3. e.right /\ e.gaps = {} => e.diags = {} /\ e.ok
    BY <1>2, <1>3, <1>4, <2>1, Recording, Basics
  <2> QED
    BY <1>1, <1>2, <1>3, <2>2, <2>3, FineIf
<1> QED
  BY <1>5, <1>6 DEF e

\* A cast to i64 has effects of the right types, and is fine.
LEMMA CastF64ToI64Fine ==
  ASSUME NEW v \in Values
  PROVE  Effect(CastF64ToI64(v)) /\ (Sure(v) => Fine(CastF64ToI64(v)))
<1> DEFINE e == CastF64ToI64(v)
<1>1. I64 \in Type /\ "i64" \in Registers
  BY WordsAreInts DEF Registers
<1>2. /\ DOMAIN e = DOMAIN Quiet /\ e.asks = {} /\ e.defines = <<Value(I64, I64, "i64")>>
      /\ e.diags = {}
      /\ e.gaps = {}
  BY DEF CastF64ToI64, Defining, Quiet
<1>3. /\ e.ok <=> (v.cl # "i64")
      /\ e.confused <=> (v.real \notin {F64, Bool})
      /\ e.right <=> (v.real = F64)
      /\ ~e.calls
  BY DEF CastF64ToI64, Defining, Quiet
<1>4. e.ok \in BOOLEAN /\ e.confused \in BOOLEAN /\ e.right \in BOOLEAN /\ e.gate \in BOOLEAN
  BY DEF CastF64ToI64, Defining, Quiet
<1> HIDE DEF e
<1>5. Effect(e)
  <2>1. e.defines \in OneAtMost
    BY <1>1, <1>2, InRegister
  <2>2. e.diags \in SUBSET Codes /\ e.gaps \in SUBSET Gaps
    BY <1>2, EffectSets
  <2> QED
    BY <1>2, <1>4, <2>1, <2>2 DEF Effect, Asks
<1>6. ASSUME Sure(v) PROVE Fine(e)
  <2>1. /\ v.decl = v.real /\ v.cl = MachineType(v.real) /\ v.real \in Type
    BY <1>6, InRegister DEF Sure
  <2>2. Clean(e) => ~e.confused /\ "i64" = MachineType(I64)
    BY <1>2, <1>3, <1>4, <2>1, Recording, Basics DEF Clean
  <2>3. e.right /\ e.gaps = {} => e.diags = {} /\ e.ok
    BY <1>2, <1>3, <1>4, <2>1, Recording, Basics
  <2> QED
    BY <1>1, <1>2, <1>3, <2>2, <2>3, FineIf
<1> QED
  BY <1>5, <1>6 DEF e

\* Printing has effects of the right types, and is fine.
LEMMA PrintNumberFine ==
  ASSUME NEW v \in Values
  PROVE  Effect(PrintNumber(v)) /\ (Sure(v) => Fine(PrintNumber(v)))
<1> DEFINE e == PrintNumber(v)
<1>2. /\ DOMAIN e = DOMAIN Quiet /\ e.asks = {} /\ e.defines = <<>>
      /\ e.diags = {}
      /\ e.gaps = Untyped({v}) \cup If(v.real \notin Numbers \cup {Bool}, {"unchecked"})
  BY DEF PrintNumber, Quiet
<1>3. /\ e.ok <=> (v.cl = MachineType((IF v.decl \in {F64, Bool} THEN v.decl ELSE I64)))
      /\ e.confused <=> (v.real # (IF v.decl \in {F64, Bool} THEN v.decl ELSE I64))
      /\ e.right <=> (v.real \in Numbers \cup {Bool})
  BY DEF PrintNumber, Quiet
<1>4. e.ok \in BOOLEAN /\ e.confused \in BOOLEAN /\ e.right \in BOOLEAN /\ e.gate \in BOOLEAN
  BY DEF PrintNumber, Quiet
<1> HIDE DEF e
<1>5. Effect(e)
  <2>1. e.defines \in OneAtMost
    BY <1>2 DEF OneAtMost
  <2>2. e.diags \in SUBSET Codes /\ e.gaps \in SUBSET Gaps
    BY <1>2, EffectSets
  <2> QED
    BY <1>2, <1>4, <2>1, <2>2 DEF Effect, Asks
<1>6. ASSUME Sure(v) PROVE Fine(e)
  <2>1. /\ v.decl = v.real /\ v.cl = MachineType(v.real) /\ v.real \in Type
    BY <1>6, InRegister DEF Sure
  <2>2. Clean(e) => ~e.confused
    BY <1>2, <1>3, <1>4, <2>1, Recording, Basics DEF Clean, Numbers
  <2>3. e.right /\ e.gaps = {} => e.diags = {} /\ e.ok
    BY <1>2, <1>3, <1>4, <2>1, Recording, Basics DEF Numbers
  <2> QED
    BY <1>2, <1>3, <2>2, <2>3, FineIfQuiet
<1> QED
  BY <1>5, <1>6 DEF e

\* A concatenation has effects of the right types, and is fine.
LEMMA StringConcatFine ==
  ASSUME NEW l \in Values, NEW r \in Values
  PROVE  Effect(StringConcat(l, r)) /\ (Sure(l) /\ Sure(r) => Fine(StringConcat(l, r)))
<1> DEFINE e == StringConcat(l, r)
<1>1. String \in Type /\ "i64" \in Registers
  BY WordsAreInts DEF Registers
<1>2. /\ DOMAIN e = DOMAIN Quiet /\ e.asks = {} /\ e.defines = <<Value(String, String, "i64")>>
      /\ e.diags = {}
      /\ e.gaps = Untyped({l, r})
  BY DEF StringConcat, Defining, Quiet
<1>3. /\ e.ok <=> (Lowers(l) /\ Lowers(r))
      /\ e.confused <=> (Misread(l) \/ Misread(r))
      /\ e.right <=> ({l.real, r.real} \subseteq {String, I64, Bool})
      /\ ~e.calls
  BY DEF StringConcat, Defining, Quiet
<1>4. e.ok \in BOOLEAN /\ e.confused \in BOOLEAN /\ e.right \in BOOLEAN /\ e.gate \in BOOLEAN
  BY DEF StringConcat, Defining, Quiet
<1> HIDE DEF e
<1>5. Effect(e)
  <2>1. e.defines \in OneAtMost
    BY <1>1, <1>2, InRegister
  <2>2. e.diags \in SUBSET Codes /\ e.gaps \in SUBSET Gaps
    BY <1>2, EffectSets
  <2> QED
    BY <1>2, <1>4, <2>1, <2>2 DEF Effect, Asks
<1>6. ASSUME Sure(l), Sure(r) PROVE Fine(e)
  <2>1. /\ l.decl = l.real /\ l.cl = MachineType(l.real) /\ l.real \in Type
        /\ r.decl = r.real /\ r.cl = MachineType(r.real) /\ r.real \in Type
    BY <1>6, InRegister DEF Sure
  <2>2. Clean(e) => ~e.confused /\ "i64" = MachineType(String)
    BY <1>2, <1>3, <1>4, <2>1, Recording, Basics DEF Clean, Misread, Lowers, Formatted
  <2>3. e.right /\ e.gaps = {} => e.diags = {} /\ e.ok
    BY <1>2, <1>3, <1>4, <2>1, Recording, Basics DEF Lowers, Formatted
  <2> QED
    BY <1>1, <1>2, <1>3, <2>2, <2>3, FineIf
<1> QED
  BY <1>5, <1>6 DEF e

\* A conversion to a string has effects of the right types, and is fine.
LEMMA StringFromI64Fine ==
  ASSUME NEW v \in Values
  PROVE  Effect(StringFromI64(v)) /\ (Sure(v) => Fine(StringFromI64(v)))
<1> DEFINE e == StringFromI64(v)
<1>1. String \in Type /\ "i64" \in Registers
  BY WordsAreInts DEF Registers
<1>2. /\ DOMAIN e = DOMAIN Quiet /\ e.asks = {} /\ e.defines = <<Value(String, String, "i64")>>
      /\ e.diags = {}
      /\ e.gaps = If(v.real \notin {I64, Bool}, {"unchecked"})
  BY DEF StringFromI64, Defining, Quiet
<1>3. /\ e.ok <=> (v.cl # "f64")
      /\ e.confused <=> (v.real \notin {I64, Bool})
      /\ e.right <=> (v.real \in {I64, Bool})
      /\ ~e.calls
  BY DEF StringFromI64, Defining, Quiet
<1>4. e.ok \in BOOLEAN /\ e.confused \in BOOLEAN /\ e.right \in BOOLEAN /\ e.gate \in BOOLEAN
  BY DEF StringFromI64, Defining, Quiet
<1> HIDE DEF e
<1>5. Effect(e)
  <2>1. e.defines \in OneAtMost
    BY <1>1, <1>2, InRegister
  <2>2. e.diags \in SUBSET Codes /\ e.gaps \in SUBSET Gaps
    BY <1>2, EffectSets
  <2> QED
    BY <1>2, <1>4, <2>1, <2>2 DEF Effect, Asks
<1>6. ASSUME Sure(v) PROVE Fine(e)
  <2>1. /\ v.decl = v.real /\ v.cl = MachineType(v.real) /\ v.real \in Type
    BY <1>6, InRegister DEF Sure
  <2>2. Clean(e) => ~e.confused /\ "i64" = MachineType(String)
    BY <1>2, <1>3, <1>4, <2>1, Recording, Basics DEF Clean
  <2>3. e.right /\ e.gaps = {} => e.diags = {} /\ e.ok
    BY <1>2, <1>3, <1>4, <2>1, Recording, Basics
  <2> QED
    BY <1>1, <1>2, <1>3, <2>2, <2>3, FineIf
<1> QED
  BY <1>5, <1>6 DEF e

\* Arrays, results and options take a word.
LEMMA Boxes ==
  /\ \A t \in Type : /\ Array(t) \in Type /\ IsArray(Array(t))
                     /\ Result(t) \in Type /\ IsResult(Result(t))
                     /\ Option(t) \in Type /\ IsOption(Option(t))
  /\ \A t \in Type : IsArray(t) \/ IsResult(t) \/ IsOption(t) =>
                        Tail(t) \in Type /\ MachineType(t) = "i64"
  /\ \A t \in Type : IsResult(t) => t = Result(Tail(t))
  /\ \A t \in Type : IsOption(t) => t = Option(Tail(t))
  /\ \A t \in Type : Payload(t) \in Type
<1>1. \A t \in Type : /\ Array(t) \in Type /\ IsArray(Array(t))
                      /\ Result(t) \in Type /\ IsResult(Result(t))
                      /\ Option(t) \in Type /\ IsOption(Option(t))
  BY Constructors
<1>2. \A t \in Type : IsArray(t) \/ IsResult(t) \/ IsOption(t) =>
                        Tail(t) \in Type /\ MachineType(t) = "i64"
  BY Constructors, Boxed
<1>3. \A t \in Type : (IsResult(t) => t = Result(Tail(t))) /\ (IsOption(t) => t = Option(Tail(t)))
  BY Constructors
<1>4. \A t \in Type : Payload(t) \in Type
  BY <1>2, PlainTypes DEF Payload, Plain
<1> QED
  BY <1>1, <1>2, <1>3, <1>4

\* What an array holds has a type.
LEMMA Elements ==
  ASSUME NEW v \in Values
  PROVE  Element(v) \in Type /\ Option(Element(v)) \in Type
<1>1. Element(v) \in Type
  BY Boxes, PlainTypes, InRegister DEF Element, Plain
<1> QED
  BY <1>1, Boxes

\* A new array has effects of the right types, and is fine.
LEMMA ArrayNewFine ==
  ASSUME NEW label \in Labels
  PROVE  Effect(ArrayNew(label)) /\ Fine(ArrayNew(label))
<1> DEFINE e == ArrayNew(label)
<1>1. label \in Type /\ (IF IsArray(label) THEN label ELSE Array(Junk)) \in Type /\ "i64" \in Registers
  BY TypesAssumption, WordsAreInts, InRegister, PlainTypes, Boxes DEF Plain, Registers
<1>2. /\ DOMAIN e = DOMAIN Quiet /\ e.asks = {} /\ e.defines = <<Value(label, (IF IsArray(label) THEN label ELSE Array(Junk)), "i64")>>
      /\ e.diags = {}
      /\ e.gaps = Mislabelled(label, (IF IsArray(label) THEN label ELSE Array(Junk)))
  BY DEF ArrayNew, Defining, Quiet
<1>3. /\ e.ok <=> TRUE
      /\ e.confused <=> FALSE
      /\ e.right <=> (label = (IF IsArray(label) THEN label ELSE Array(Junk)))
      /\ ~e.calls
  BY DEF ArrayNew, Defining, Quiet
<1>4. e.ok \in BOOLEAN /\ e.confused \in BOOLEAN /\ e.right \in BOOLEAN /\ e.gate \in BOOLEAN
  BY DEF ArrayNew, Defining, Quiet
<1> HIDE DEF e
<1>5. Effect(e)
  <2>1. e.defines \in OneAtMost
    BY <1>1, <1>2, InRegister
  <2>2. e.diags \in SUBSET Codes /\ e.gaps \in SUBSET Gaps
    BY <1>2, EffectSets
  <2> QED
    BY <1>2, <1>4, <2>1, <2>2 DEF Effect, Asks
<1>6. Clean(e) => ~e.confused /\ label = (IF IsArray(label) THEN label ELSE Array(Junk)) /\ "i64" = MachineType((IF IsArray(label) THEN label ELSE Array(Junk)))
  BY <1>2, <1>3, <1>4, Recording, Boxes, TypesAssumption, PlainTypes DEF Clean, Plain
<1>7. e.right /\ e.gaps = {} => e.diags = {} /\ e.ok
  BY <1>2, <1>3, <1>4, Recording
<1> QED
  BY <1>1, <1>2, <1>3, <1>5, <1>6, <1>7, FineIf DEF e

\* OptionNone has effects of the right types, and is fine.
LEMMA OptionNoneFine ==
  ASSUME NEW label \in Labels
  PROVE  Effect(OptionNone(label)) /\ Fine(OptionNone(label))
<1> DEFINE e == OptionNone(label)
<1>1. label \in Type /\ (IF IsOption(label) THEN label ELSE Option(I64)) \in Type /\ "i64" \in Registers
  BY TypesAssumption, WordsAreInts, InRegister, PlainTypes, Boxes DEF Plain, Registers
<1>2. /\ DOMAIN e = DOMAIN Quiet /\ e.asks = {} /\ e.defines = <<Value(label, (IF IsOption(label) THEN label ELSE Option(I64)), "i64")>>
      /\ e.diags = {}
      /\ e.gaps = Mislabelled(label, (IF IsOption(label) THEN label ELSE Option(I64)))
  BY DEF OptionNone, Defining, Quiet
<1>3. /\ e.ok <=> TRUE
      /\ e.confused <=> FALSE
      /\ e.right <=> (label = (IF IsOption(label) THEN label ELSE Option(I64)))
      /\ ~e.calls
  BY DEF OptionNone, Defining, Quiet
<1>4. e.ok \in BOOLEAN /\ e.confused \in BOOLEAN /\ e.right \in BOOLEAN /\ e.gate \in BOOLEAN
  BY DEF OptionNone, Defining, Quiet
<1> HIDE DEF e
<1>5. Effect(e)
  <2>1. e.defines \in OneAtMost
    BY <1>1, <1>2, InRegister
  <2>2. e.diags \in SUBSET Codes /\ e.gaps \in SUBSET Gaps
    BY <1>2, EffectSets
  <2> QED
    BY <1>2, <1>4, <2>1, <2>2 DEF Effect, Asks
<1>6. Clean(e) => ~e.confused /\ label = (IF IsOption(label) THEN label ELSE Option(I64)) /\ "i64" = MachineType((IF IsOption(label) THEN label ELSE Option(I64)))
  BY <1>2, <1>3, <1>4, Recording, Boxes, TypesAssumption, PlainTypes DEF Clean, Plain
<1>7. e.right /\ e.gaps = {} => e.diags = {} /\ e.ok
  BY <1>2, <1>3, <1>4, Recording
<1> QED
  BY <1>1, <1>2, <1>3, <1>5, <1>6, <1>7, FineIf DEF e

\* ArrayPush or ArraySet has effects of the right types, and is fine.
LEMMA ArrayPutFine ==
  ASSUME NEW a \in Values, NEW index \in Values, NEW v \in Values
  PROVE  /\ Effect(ArrayPut(a, index, v))
         /\ Sure(a) /\ Sure(index) /\ Sure(v) => Fine(ArrayPut(a, index, v))
<1> DEFINE e == ArrayPut(a, index, v)
<1>2. /\ DOMAIN e = DOMAIN Quiet /\ e.asks = {} /\ e.defines = <<>>
      /\ e.diags = {}
      /\ e.gaps = Narrow({v}) \cup If(~(IsArray(a.real) /\ Element(a) = v.real /\ index.real = I64), {"unchecked"})
  BY DEF ArrayPut, Quiet
<1>3. /\ e.ok <=> (a.cl = "i64" /\ index.cl = "i64" /\ v.cl = "i64")
      /\ e.confused <=> ~(IsArray(a.real) /\ Element(a) = v.real /\ index.real = I64)
      /\ e.right <=> (IsArray(a.real) /\ Element(a) = v.real /\ index.real = I64)
  BY DEF ArrayPut, Quiet
<1>4. e.ok \in BOOLEAN /\ e.confused \in BOOLEAN /\ e.right \in BOOLEAN /\ e.gate \in BOOLEAN
  BY DEF ArrayPut, Quiet
<1> HIDE DEF e
<1>5. Effect(e)
  <2>1. e.defines \in OneAtMost
    BY <1>2 DEF OneAtMost
  <2>2. e.diags \in SUBSET Codes /\ e.gaps \in SUBSET Gaps
    BY <1>2, EffectSets
  <2> QED
    BY <1>2, <1>4, <2>1, <2>2 DEF Effect, Asks
<1>6. ASSUME Sure(a), Sure(index), Sure(v) PROVE Fine(e)
  <2>1. /\ a.decl = a.real /\ a.cl = MachineType(a.real) /\ a.real \in Type
        /\ index.decl = index.real /\ index.cl = MachineType(index.real) /\ index.real \in Type
        /\ v.decl = v.real /\ v.cl = MachineType(v.real) /\ v.real \in Type
    BY <1>6, InRegister DEF Sure
  <2>2. Clean(e) => ~e.confused
    BY <1>2, <1>3, <1>4, <2>1, Recording DEF Clean
  <2>3. e.right /\ e.gaps = {} => e.diags = {} /\ e.ok
    BY <1>2, <1>3, <1>4, <2>1, Recording, Basics, Boxes DEF Narrow
  <2> QED
    BY <1>2, <1>3, <2>2, <2>3, FineIfQuiet
<1> QED
  BY <1>5, <1>6 DEF e

\* ArrayGet has effects of the right types, and is fine.
LEMMA ArrayGetFine ==
  ASSUME NEW a \in Values, NEW index \in Values, NEW label \in Labels
  PROVE  /\ Effect(ArrayGet(a, index, label))
         /\ Sure(a) /\ Sure(index) => Fine(ArrayGet(a, index, label))
<1> DEFINE e == ArrayGet(a, index, label)
<1>1. label \in Type /\ Element(a) \in Type /\ "i64" \in Registers
  BY TypesAssumption, Elements DEF Registers
<1>2. /\ DOMAIN e = DOMAIN Quiet /\ e.asks = {} /\ e.defines = <<Value(label, Element(a), "i64")>>
      /\ e.diags = {}
      /\ e.gaps = Mislabelled(label, Element(a)) \cup NarrowOut(Element(a))
                \cup If(~(IsArray(a.real) /\ index.real = I64), {"unchecked"})
  BY DEF ArrayGet, Defining, Quiet
<1>3. /\ e.ok <=> (a.cl = "i64" /\ index.cl = "i64")
      /\ e.confused <=> ~(IsArray(a.real) /\ index.real = I64)
      /\ e.right <=> ((IsArray(a.real) /\ index.real = I64) /\ label = Element(a))
      /\ ~e.calls
  BY DEF ArrayGet, Defining, Quiet
<1>4. e.ok \in BOOLEAN /\ e.confused \in BOOLEAN /\ e.right \in BOOLEAN /\ e.gate \in BOOLEAN
  BY DEF ArrayGet, Defining, Quiet
<1> HIDE DEF e
<1>5. Effect(e)
  <2>1. e.defines \in OneAtMost
    BY <1>1, <1>2, InRegister
  <2>2. e.diags \in SUBSET Codes /\ e.gaps \in SUBSET Gaps
    BY <1>2, EffectSets
  <2> QED
    BY <1>2, <1>4, <2>1, <2>2 DEF Effect, Asks
<1>6. ASSUME Sure(a), Sure(index) PROVE Fine(e)
  <2>1. /\ a.decl = a.real /\ a.cl = MachineType(a.real) /\ a.real \in Type
        /\ index.decl = index.real /\ index.cl = MachineType(index.real) /\ index.real \in Type
    BY <1>6, InRegister DEF Sure
  <2>2. Clean(e) => ~e.confused /\ label = Element(a) /\ "i64" = MachineType(Element(a))
    BY <1>2, <1>3, <1>4, <2>1, Recording, Basics DEF Clean, NarrowOut
  <2>3. e.right /\ e.gaps = {} => e.diags = {} /\ e.ok
    BY <1>2, <1>3, <1>4, <2>1, Recording, Basics, Boxes
  <2> QED
    BY <1>1, <1>2, <1>3, <2>2, <2>3, FineIf
<1> QED
  BY <1>5, <1>6 DEF e

\* ArrayTryGet has effects of the right types, and is fine.
LEMMA ArrayTryGetFine ==
  ASSUME NEW a \in Values, NEW index \in Values, NEW label \in Labels
  PROVE  /\ Effect(ArrayTryGet(a, index, label))
         /\ Sure(a) /\ Sure(index) => Fine(ArrayTryGet(a, index, label))
<1> DEFINE e == ArrayTryGet(a, index, label)
<1>1. label \in Type /\ Option(Element(a)) \in Type /\ "i64" \in Registers
  BY TypesAssumption, Elements DEF Registers
<1>2. /\ DOMAIN e = DOMAIN Quiet /\ e.asks = {} /\ e.defines = <<Value(label, Option(Element(a)), "i64")>>
      /\ e.diags = {}
      /\ e.gaps = Mislabelled(label, Option(Element(a)))
                \cup If(~(IsArray(a.real) /\ index.real = I64), {"unchecked"})
  BY DEF ArrayTryGet, Defining, Quiet
<1>3. /\ e.ok <=> (IsOption(label) /\ a.cl = "i64" /\ index.cl = "i64")
      /\ e.confused <=> ~(IsArray(a.real) /\ index.real = I64)
      /\ e.right <=> ((IsArray(a.real) /\ index.real = I64) /\ label = Option(Element(a)))
      /\ e.direct
  BY DEF ArrayTryGet, Defining, Quiet
<1>4. e.ok \in BOOLEAN /\ e.confused \in BOOLEAN /\ e.right \in BOOLEAN /\ e.gate \in BOOLEAN
  BY DEF ArrayTryGet, Defining, Quiet
<1> HIDE DEF e
<1>5. Effect(e)
  <2>1. e.defines \in OneAtMost
    BY <1>1, <1>2, InRegister
  <2>2. e.diags \in SUBSET Codes /\ e.gaps \in SUBSET Gaps
    BY <1>2, EffectSets
  <2> QED
    BY <1>2, <1>4, <2>1, <2>2 DEF Effect, Asks
<1>6. ASSUME Sure(a), Sure(index) PROVE Fine(e)
  <2>1. /\ a.decl = a.real /\ a.cl = MachineType(a.real) /\ a.real \in Type
        /\ index.decl = index.real /\ index.cl = MachineType(index.real) /\ index.real \in Type
    BY <1>6, InRegister DEF Sure
  <2>0. MachineType(Option(Element(a))) = "i64"
    BY Elements, Boxes
  <2>2. Clean(e) => ~e.confused /\ label = Option(Element(a)) /\ "i64" = MachineType(Option(Element(a)))
    BY <1>2, <1>3, <1>4, <2>0, <2>1, Recording DEF Clean
  <2>3. e.right /\ e.gaps = {} => e.diags = {} /\ e.ok
    BY <1>2, <1>3, <1>4, <2>1, Recording, Basics, Boxes, Elements
  <2> QED
    BY <1>1, <1>2, <1>3, <2>2, <2>3, FineIf
<1> QED
  BY <1>5, <1>6 DEF e

\* ArrayLength has effects of the right types, and is fine.
LEMMA ArrayLengthFine ==
  ASSUME NEW a \in Values
  PROVE  Effect(ArrayLength(a)) /\ (Sure(a) => Fine(ArrayLength(a)))
<1> DEFINE e == ArrayLength(a)
<1>1. I64 \in Type /\ "i64" \in Registers
  BY WordsAreInts DEF Registers
<1>2. /\ DOMAIN e = DOMAIN Quiet /\ e.asks = {} /\ e.defines = <<Value(I64, I64, "i64")>>
      /\ e.diags = {}
      /\ e.gaps = If(~IsArray(a.real), {"unchecked"})
  BY DEF ArrayLength, Defining, Quiet
<1>3. /\ e.ok <=> (a.cl = "i64")
      /\ e.confused <=> ~IsArray(a.real)
      /\ e.right <=> IsArray(a.real)
      /\ ~e.calls
  BY DEF ArrayLength, Defining, Quiet
<1>4. e.ok \in BOOLEAN /\ e.confused \in BOOLEAN /\ e.right \in BOOLEAN /\ e.gate \in BOOLEAN
  BY DEF ArrayLength, Defining, Quiet, IsArray
<1> HIDE DEF e
<1>5. Effect(e)
  <2>1. e.defines \in OneAtMost
    BY <1>1, <1>2, InRegister
  <2>2. e.diags \in SUBSET Codes /\ e.gaps \in SUBSET Gaps
    BY <1>2, EffectSets
  <2> QED
    BY <1>2, <1>4, <2>1, <2>2 DEF Effect, Asks
<1>6. ASSUME Sure(a) PROVE Fine(e)
  <2>1. /\ a.decl = a.real /\ a.cl = MachineType(a.real) /\ a.real \in Type
    BY <1>6, InRegister DEF Sure
  <2>2. Clean(e) => ~e.confused /\ "i64" = MachineType(I64)
    BY <1>2, <1>3, <1>4, <2>1, Recording, Basics DEF Clean
  <2>3. e.right /\ e.gaps = {} => e.diags = {} /\ e.ok
    BY <1>2, <1>3, <1>4, <2>1, Recording, Boxes
  <2> QED
    BY <1>1, <1>2, <1>3, <2>2, <2>3, FineIf
<1> QED
  BY <1>5, <1>6 DEF e

\* ResultOk, ResultErr and OptionSome.
LEMMA WrapFine ==
  ASSUME NEW v \in Values, NEW label \in Labels, NEW made \in Type,
         NEW fits \in BOOLEAN, NEW payload, MachineType(made) = "i64",
         Sure(v) /\ label # Unknown => (fits /\ v.decl = payload <=> label = made)
  PROVE  /\ Effect(Wrap(v, label, made, fits, payload))
         /\ Sure(v) => Fine(Wrap(v, label, made, fits, payload))
<1> DEFINE e == Wrap(v, label, made, fits, payload)
<1>1. label \in Type /\ made \in Type /\ "i64" \in Registers
  BY TypesAssumption DEF Registers
<1>2. /\ DOMAIN e = DOMAIN Quiet /\ e.asks = {} /\ e.defines = <<Value(label, made, "i64")>>
      /\ e.diags = If(label # Unknown /\ ~fits, {"E033"})
                 \cup If(fits /\ v.decl # Unknown /\ v.decl # payload, {"E035"})
      /\ e.gaps = Untyped({v}) \cup If(label = Unknown, {"untyped"}) \cup Narrow({v})
  BY DEF Wrap, Defining, Quiet
<1>3. /\ e.ok <=> (v.cl = "i64")
      /\ e.confused <=> FALSE
      /\ e.right <=> (label = made)
      /\ ~e.calls
  BY DEF Wrap, Defining, Quiet
<1>4. e.ok \in BOOLEAN /\ e.confused \in BOOLEAN /\ e.right \in BOOLEAN /\ e.gate \in BOOLEAN
  BY DEF Wrap, Defining, Quiet
<1> HIDE DEF e
<1>5. Effect(e)
  <2>1. e.defines \in OneAtMost
    BY <1>1, <1>2, InRegister
  <2>2. e.diags \in SUBSET Codes /\ e.gaps \in SUBSET Gaps
    BY <1>2, EffectSets
  <2> QED
    BY <1>2, <1>4, <2>1, <2>2 DEF Effect, Asks
<1>6. ASSUME Sure(v) PROVE Fine(e)
  <2>1. /\ v.decl = v.real /\ v.cl = MachineType(v.real) /\ v.real \in Type
    BY <1>6, InRegister DEF Sure
  <2>2. /\ e.gaps = {} => v.decl # Unknown /\ label # Unknown /\ v.cl = "i64"
        /\ e.diags \subseteq {"E030", "E034"} <=>
             ~(label # Unknown /\ ~fits) /\ ~(fits /\ v.decl # Unknown /\ v.decl # payload)
        /\ e.diags \subseteq {"E030", "E034"} <=> e.diags = {}
    <3>1. e.gaps = {} => v.decl # Unknown /\ label # Unknown /\ v.cl = "i64"
      BY <1>2 DEF Untyped, Narrow, If
    <3> QED
      BY ZenonT(40), <1>2, <3>1, Recording
  <2>3. label # Unknown => (fits /\ v.decl = payload <=> label = made)
    BY <1>6
  <2>4. Clean(e) => ~e.confused /\ label = made /\ "i64" = MachineType(made)
    BY <1>3, <2>2, <2>3 DEF Clean
  <2>5. e.right /\ e.gaps = {} => e.diags = {} /\ e.ok
    BY <1>3, <1>4, <2>2, <2>3
  <2>6. e.defines = <<Value(label, made, "i64")>>
    BY <1>2
  <2>7. Clean(e) /\ e.calls /\ IsFailable(made) => e.direct
    BY <1>3
  <2> QED
    BY <1>1, <2>4, <2>5, <2>6, <2>7, FineIf
<1> QED
  BY <1>5, <1>6 DEF e

\* ResultOk has effects of the right types, and is fine.
LEMMA ResultOkFine ==
  ASSUME NEW v \in Values, NEW label \in Labels
  PROVE  /\ Effect(ResultOk(v, label))
         /\ Sure(v) => Fine(ResultOk(v, label))
<1>1. label \in Type /\ v.real \in Type
  BY TypesAssumption, InRegister
<1>2. Result(v.real) \in Type /\ MachineType(Result(v.real)) = "i64" /\ IsResult(label) \in BOOLEAN
  BY <1>1, Boxes DEF IsResult
<1>3. Sure(v) => (IsResult(label) /\ v.decl = Tail(label) <=> label = Result(v.real))
  BY ZenonT(40), <1>1, Boxes, Constructors, InRegister
<1> QED
  BY <1>2, <1>3, WrapFine DEF ResultOk

\* OptionSome has effects of the right types, and is fine.
LEMMA OptionSomeFine ==
  ASSUME NEW v \in Values, NEW label \in Labels
  PROVE  /\ Effect(OptionSome(v, label))
         /\ Sure(v) => Fine(OptionSome(v, label))
<1>1. label \in Type /\ v.real \in Type
  BY TypesAssumption, InRegister
<1>2. Option(v.real) \in Type /\ MachineType(Option(v.real)) = "i64" /\ IsOption(label) \in BOOLEAN
  BY <1>1, Boxes DEF IsOption
<1>3. Sure(v) => (IsOption(label) /\ v.decl = Tail(label) <=> label = Option(v.real))
  BY ZenonT(40), <1>1, Boxes, Constructors, InRegister
<1> QED
  BY <1>2, <1>3, WrapFine DEF OptionSome

\* ResultErr has effects of the right types, and is fine.
LEMMA ResultErrFine ==
  ASSUME NEW v \in Values, NEW label \in Labels
  PROVE  /\ Effect(ResultErr(v, label))
         /\ Sure(v) => Fine(ResultErr(v, label))
<1> DEFINE made == IF v.real # String THEN Junk ELSE IF IsResult(label) THEN label ELSE Result(I64)
<1>1. label \in Type /\ label # Junk /\ Junk \in Type /\ I64 \in Type
  BY TypesAssumption, PlainTypes DEF Plain
<1>2. Result(I64) \in Type /\ IsResult(Result(I64)) /\ MachineType(Junk) = "i64"
  BY <1>1, Boxes, Basics
<1>3. made \in Type /\ MachineType(made) = "i64" /\ IsResult(label) \in BOOLEAN
  BY <1>1, <1>2, Boxes DEF IsResult
<1>4. Sure(v) => (IsResult(label) /\ v.decl = String <=> label = made)
  BY <1>1, <1>2, InRegister
<1> HIDE DEF made
<1>5. ResultErr(v, label) = Wrap(v, label, made, IsResult(label), String)
  BY DEF ResultErr, made
<1> QED
  BY <1>3, <1>4, <1>5, WrapFine

\* ResultIsOk and OptionIsSome.
LEMMA AskFine ==
  ASSUME NEW i \in DOMAIN vals, vals[i] \in Values, NEW expected \in BOOLEAN, expected => MachineType(vals[i].real) = "i64"
  PROVE  Effect(Ask(i, expected)) /\ (Sure(vals[i]) => Fine(Ask(i, expected)))
<1> DEFINE e == Ask(i, expected)
<1>1. Bool \in Type /\ "i8" \in Registers
  BY PlainTypes DEF Plain, Registers
<1>2. /\ DOMAIN e = DOMAIN Quiet /\ e.asks = {i, Len(vals) + 1} /\ e.defines = <<Value(Bool, Bool, "i8")>>
      /\ e.diags = {}
      /\ e.gaps = If(~expected, {"unchecked"})
  BY DEF Ask, Defining, Quiet
<1>3. /\ e.ok <=> (vals[i].cl = "i64")
      /\ e.confused <=> ~expected
      /\ e.right <=> expected
      /\ ~e.calls
  BY DEF Ask, Defining, Quiet
<1>4. e.ok \in BOOLEAN /\ e.confused \in BOOLEAN /\ e.right \in BOOLEAN /\ e.gate \in BOOLEAN
  BY DEF Ask, Defining, Quiet
<1> HIDE DEF e
<1>5. Effect(e)
  <2>1. e.defines \in OneAtMost
    BY <1>1, <1>2, InRegister
  <2>2. e.diags \in SUBSET Codes /\ e.gaps \in SUBSET Gaps
    BY <1>2, EffectSets
  <2> QED
    BY <1>2, <1>4, <2>1, <2>2 DEF Effect, Asks
<1>6. ASSUME Sure(vals[i]) PROVE Fine(e)
  <2>1. /\ vals[i].decl = vals[i].real /\ vals[i].cl = MachineType(vals[i].real) /\ vals[i].real \in Type
    BY <1>6, InRegister DEF Sure
  <2>2. Clean(e) => ~e.confused /\ "i8" = MachineType(Bool)
    BY <1>2, <1>3, <1>4, <2>1, Recording, Basics DEF Clean
  <2>3. e.right /\ e.gaps = {} => e.diags = {} /\ e.ok
    BY <1>2, <1>3, <1>4, <2>1, Recording
  <2> QED
    BY <1>1, <1>2, <1>3, <2>2, <2>3, FineIf
<1> QED
  BY <1>5, <1>6 DEF e

\* ResultUnwrap, ResultUnwrapErr and OptionUnwrap.
LEMMA UnwrapFine ==
  ASSUME NEW i, vals[i] \in Values,
         NEW expected \in BOOLEAN, expected => MachineType(vals[i].real) = "i64",
         NEW payload \in Type, NEW label \in Labels
  PROVE  /\ Effect(Unwrap(i, expected, payload, label))
         /\ Sure(vals[i]) => Fine(Unwrap(i, expected, payload, label))
<1> DEFINE e == Unwrap(i, expected, payload, label)
<1>1. label \in Type /\ payload \in Type /\ (IF label = Bool THEN "i8" ELSE "i64") \in Registers
  BY TypesAssumption DEF Registers
<1>2. /\ DOMAIN e = DOMAIN Quiet /\ e.asks = {} /\ e.defines = <<Value(label, payload, (IF label = Bool THEN "i8" ELSE "i64"))>>
      /\ e.diags = If(i \notin checked, {"E034"})
      /\ e.gaps = Mislabelled(label, payload) \cup If(~expected, {"unchecked"})
                \cup If(payload = F64, {"narrow"})
  BY DEF Unwrap, Defining, Quiet
<1>3. /\ e.ok <=> (vals[i].cl = "i64")
      /\ e.confused <=> ~expected
      /\ e.right <=> (expected /\ label = payload /\ i \in checked)
      /\ ~e.calls
  BY DEF Unwrap, Defining, Quiet
<1>4. e.ok \in BOOLEAN /\ e.confused \in BOOLEAN /\ e.right \in BOOLEAN /\ e.gate \in BOOLEAN
  BY DEF Unwrap, Defining, Quiet
<1> HIDE DEF e
<1>5. Effect(e)
  <2>1. e.defines \in OneAtMost
    BY <1>1, <1>2, InRegister
  <2>2. e.diags \in SUBSET Codes /\ e.gaps \in SUBSET Gaps
    BY <1>2, EffectSets
  <2> QED
    BY <1>2, <1>4, <2>1, <2>2 DEF Effect, Asks
<1>6. ASSUME Sure(vals[i]) PROVE Fine(e)
  <2>1. /\ vals[i].decl = vals[i].real /\ vals[i].cl = MachineType(vals[i].real) /\ vals[i].real \in Type
    BY <1>6, InRegister DEF Sure
  <2>2. Clean(e) => ~e.confused /\ label = payload /\ (IF label = Bool THEN "i8" ELSE "i64") = MachineType(payload)
    BY <1>2, <1>3, <1>4, <2>1, Recording, Basics DEF Clean
  <2>3. e.right /\ e.gaps = {} => e.diags = {} /\ e.ok
    BY <1>2, <1>3, <1>4, <2>1, Recording
  <2> QED
    BY <1>1, <1>2, <1>3, <2>2, <2>3, FineIf
<1> QED
  BY <1>5, <1>6 DEF e

\* A call of another function has effects of the right types, and is fine.
LEMMA CallFunctionFine ==
  ASSUME NEW f \in Callees, NEW v \in Values, NEW label \in Labels
  PROVE  Effect(CallFunction(f, v, label)) /\ (Sure(v) => Fine(CallFunction(f, v, label)))
<1> DEFINE e == CallFunction(f, v, label)
<1>1. label \in Type /\ f.gives \in Type /\ MachineType(f.gives) \in Registers
  BY TypesAssumption, InRegister
<1>2. /\ DOMAIN e = DOMAIN Quiet /\ e.asks = {} /\ e.defines = <<Value(label, f.gives, MachineType(f.gives))>>
      /\ e.diags = {}
      /\ e.gaps = Mislabelled(label, f.gives) \cup If(~(v.real = f.takes), {"unchecked"})
  BY DEF CallFunction, Defining, Quiet
<1>3. /\ e.ok <=> (v.cl = MachineType(f.takes))
      /\ e.confused <=> ~(v.real = f.takes)
      /\ e.right <=> (v.real = f.takes /\ label = f.gives)
      /\ e.direct
  BY DEF CallFunction, Defining, Quiet
<1>4. e.ok \in BOOLEAN /\ e.confused \in BOOLEAN /\ e.right \in BOOLEAN /\ e.gate \in BOOLEAN
  BY DEF CallFunction, Defining, Quiet
<1> HIDE DEF e
<1>5. Effect(e)
  <2>1. e.defines \in OneAtMost
    BY <1>1, <1>2, InRegister
  <2>2. e.diags \in SUBSET Codes /\ e.gaps \in SUBSET Gaps
    BY <1>2, EffectSets
  <2> QED
    BY <1>2, <1>4, <2>1, <2>2 DEF Effect, Asks
<1>6. ASSUME Sure(v) PROVE Fine(e)
  <2>1. /\ v.decl = v.real /\ v.cl = MachineType(v.real) /\ v.real \in Type
    BY <1>6, InRegister DEF Sure
  <2>2. Clean(e) => ~e.confused /\ label = f.gives /\ MachineType(f.gives) = MachineType(f.gives)
    BY <1>2, <1>3, <1>4, <2>1, Recording DEF Clean
  <2>3. e.right /\ e.gaps = {} => e.diags = {} /\ e.ok
    BY <1>2, <1>3, <1>4, <2>1, Recording
  <2> QED
    BY <1>1, <1>2, <1>3, <2>2, <2>3, FineIf
<1> QED
  BY <1>5, <1>6 DEF e

\* What Load does.
Loaded(label) ==
    [Defining(label, slot.real, slot.cl) EXCEPT
       !.gaps = Mislabelled(label, slot.real), !.right = label = slot.real]

\* A Load has effects of the right types, and is fine.
LEMMA LoadedFine ==
  ASSUME slot \in Values, NEW label \in Labels
  PROVE  Effect(Loaded(label)) /\ (Sure(slot) => Fine(Loaded(label)))
<1> DEFINE e == Loaded(label)
<1>1. label \in Type /\ slot.real \in Type /\ slot.cl \in Registers
  BY TypesAssumption, InRegister
<1>2. /\ DOMAIN e = DOMAIN Quiet /\ e.asks = {} /\ e.defines = <<Value(label, slot.real, slot.cl)>>
      /\ e.diags = {}
      /\ e.gaps = Mislabelled(label, slot.real)
  BY DEF Loaded, Defining, Quiet
<1>3. /\ e.ok <=> TRUE
      /\ e.confused <=> FALSE
      /\ e.right <=> (label = slot.real)
      /\ ~e.calls
  BY DEF Loaded, Defining, Quiet
<1>4. e.ok \in BOOLEAN /\ e.confused \in BOOLEAN /\ e.right \in BOOLEAN /\ e.gate \in BOOLEAN
  BY DEF Loaded, Defining, Quiet
<1> HIDE DEF e
<1>5. Effect(e)
  <2>1. e.defines \in OneAtMost
    BY <1>1, <1>2, InRegister
  <2>2. e.diags \in SUBSET Codes /\ e.gaps \in SUBSET Gaps
    BY <1>2, EffectSets
  <2> QED
    BY <1>2, <1>4, <2>1, <2>2 DEF Effect, Asks
<1>6. ASSUME Sure(slot) PROVE Fine(e)
  <2>1. /\ slot.decl = slot.real /\ slot.cl = MachineType(slot.real) /\ slot.real \in Type
    BY <1>6, InRegister DEF Sure
  <2>2. Clean(e) => ~e.confused /\ label = slot.real /\ slot.cl = MachineType(slot.real)
    <3>1. e.gaps = {} => label = slot.real
      BY <1>2 DEF Mislabelled, If
    <3> QED
      BY <1>3, <2>1, <3>1 DEF Clean
  <2>3. e.right /\ e.gaps = {} => e.diags = {} /\ e.ok
    BY <1>2, <1>3, <1>4, <2>1, Recording
  <2> QED
    BY <1>1, <1>2, <1>3, <2>2, <2>3, FineIf
<1> QED
  BY <1>5, <1>6 DEF e

\* A Branch has effects of the right types, and is fine.
LEMMA BranchFine ==
  ASSUME NEW v \in Values
  PROVE  /\ Effect(Branch(v))
         /\ (Sure(v) => Fine(Branch(v)))
         /\ ~Branch(v).calls /\ Branch(v).defines = <<>>
<1> DEFINE e == Branch(v)
<1>2. /\ DOMAIN e = DOMAIN Quiet /\ e.asks = {} /\ e.defines = <<>>
      /\ e.diags = If(v.decl \notin {Bool, Unknown}, {"E001"})
      /\ e.gaps = Untyped({v})
  BY DEF Branch, Quiet
<1>3. /\ e.ok <=> (v.cl # "f64")
      /\ e.confused <=> (v.real # Bool)
      /\ e.right <=> (v.real = Bool)
      /\ ~e.calls
  BY DEF Branch, Quiet
<1>4. e.ok \in BOOLEAN /\ e.confused \in BOOLEAN /\ e.right \in BOOLEAN /\ e.gate \in BOOLEAN
  BY DEF Branch, Quiet
<1> HIDE DEF e
<1>5. Effect(e)
  <2>1. e.defines \in OneAtMost
    BY <1>2 DEF OneAtMost
  <2>2. e.diags \in SUBSET Codes /\ e.gaps \in SUBSET Gaps
    BY <1>2, EffectSets
  <2> QED
    BY <1>2, <1>4, <2>1, <2>2 DEF Effect, Asks
<1>6. ASSUME Sure(v) PROVE Fine(e)
  <2>1. /\ v.decl = v.real /\ v.cl = MachineType(v.real) /\ v.real \in Type
    BY <1>6, InRegister DEF Sure
  <2>2. Clean(e) => ~e.confused
    BY <1>2, <1>3, <1>4, <2>1, Recording DEF Clean
  <2>3. e.right /\ e.gaps = {} => e.diags = {} /\ e.ok
    BY <1>2, <1>3, <1>4, <2>1, Recording, Basics
  <2> QED
    BY <1>2, <1>3, <2>2, <2>3, FineIfQuiet
<1> QED
  BY <1>2, <1>3, <1>5, <1>6 DEF e

\* A Match has effects of the right types, and is fine.
LEMMA MatchFine ==
  ASSUME NEW i, vals[i] \in Values
  PROVE  /\ Effect(Match(i))
         /\ (Sure(vals[i]) => Fine(Match(i)))
         /\ ~Match(i).calls /\ Match(i).defines = <<>>
<1> DEFINE e == Match(i)
<1>2. /\ DOMAIN e = DOMAIN Quiet /\ e.asks = {} /\ e.defines = <<>>
      /\ e.diags = {}
      /\ e.gaps = Untyped({vals[i]}) \cup If(~IsFailable(vals[i].decl), {"unchecked"})
  BY DEF Match, Quiet
<1>3. /\ e.ok <=> (IsFailable(vals[i].decl) /\ vals[i].cl = "i64")
      /\ e.confused <=> \/ ~(IsOption(vals[i].decl) <=> IsOption(vals[i].real))
                        \/ ~(IsResult(vals[i].decl) <=> IsResult(vals[i].real))
      /\ e.right <=> IsFailable(vals[i].real)
      /\ ~e.calls
  <2> DEFINE x == IsOption(vals[i].decl) # IsOption(vals[i].real)
             y == IsResult(vals[i].decl) # IsResult(vals[i].real)
             z == IsFailable(vals[i].real)
             t == IsFailable(vals[i].decl)
  <2>1. (e.ok <=> t /\ vals[i].cl = "i64") /\ (e.confused <=> x \/ y) /\ (e.right <=> z) /\ ~e.calls
    <3> HIDE DEF x, y, z, t
    <3> QED
      BY DEF Match, Quiet, x, y, z, t
  <2>2. x <=> ~(IsOption(vals[i].decl) <=> IsOption(vals[i].real))
    BY DEF IsOption
  <2>3. y <=> ~(IsResult(vals[i].decl) <=> IsResult(vals[i].real))
    BY DEF IsResult
  <2> QED
    BY <2>1, <2>2, <2>3
<1>4. e.ok \in BOOLEAN /\ e.confused \in BOOLEAN /\ e.right \in BOOLEAN /\ e.gate \in BOOLEAN
  BY DEF Match, Quiet, IsFailable, IsOption, IsResult
<1> HIDE DEF e
<1>5. Effect(e)
  <2>1. e.defines \in OneAtMost
    BY <1>2 DEF OneAtMost
  <2>2. e.diags \in SUBSET Codes /\ e.gaps \in SUBSET Gaps
    BY <1>2, EffectSets
  <2> QED
    BY <1>2, <1>4, <2>1, <2>2 DEF Effect, Asks
<1>6. ASSUME Sure(vals[i]) PROVE Fine(e)
  <2>1. /\ vals[i].decl = vals[i].real /\ vals[i].cl = MachineType(vals[i].real) /\ vals[i].real \in Type
    BY <1>6, InRegister DEF Sure
  <2>2. Clean(e) => ~e.confused
    BY <1>2, <1>3, <1>4, <2>1, Recording DEF Clean
  <2>3. e.right /\ e.gaps = {} => e.diags = {} /\ e.ok
    BY <1>2, <1>3, <1>4, <2>1, Recording, Boxes DEF IsFailable
  <2> QED
    BY <1>2, <1>3, <2>2, <2>3, FineIfQuiet
<1> QED
  BY <1>2, <1>3, <1>5, <1>6 DEF e

\* A Return has effects of the right types, and is fine.
LEMMA ReturnFine ==
  ASSUME NEW i, vals[i] \in Values, NEW ret \in Returns
  PROVE  /\ Effect(Return(i, ret))
         /\ (Sure(vals[i]) => Fine(Return(i, ret)))
         /\ ~Return(i, ret).calls /\ Return(i, ret).defines = <<>>
<1> DEFINE e == Return(i, ret)
<1>2. /\ DOMAIN e = DOMAIN Quiet /\ e.asks = {} /\ e.defines = <<>>
      /\ e.diags = If(vals[i].decl \notin {ret, Unknown}, {"E001"})
      /\ e.gaps = Untyped({vals[i]}) \cup If(ret = Void, {"voidFunction"})
  BY DEF Return, Quiet
<1>3. /\ e.ok <=> (ret # Void
                 /\ (IF ret = I64 /\ vals[i].cl = "i8" THEN "i64" ELSE vals[i].cl) = MachineType(ret))
      /\ e.confused <=> (vals[i].real # ret)
      /\ e.right <=> (vals[i].real = ret)
      /\ ~e.calls
  BY DEF Return, Quiet
<1>4. e.ok \in BOOLEAN /\ e.confused \in BOOLEAN /\ e.right \in BOOLEAN /\ e.gate \in BOOLEAN
  BY DEF Return, Quiet
<1> HIDE DEF e
<1>5. Effect(e)
  <2>1. e.defines \in OneAtMost
    BY <1>2 DEF OneAtMost
  <2>2. e.diags \in SUBSET Codes /\ e.gaps \in SUBSET Gaps
    BY <1>2, EffectSets
  <2> QED
    BY <1>2, <1>4, <2>1, <2>2 DEF Effect, Asks
<1>6. ASSUME Sure(vals[i]) PROVE Fine(e)
  <2>1. /\ vals[i].decl = vals[i].real /\ vals[i].cl = MachineType(vals[i].real) /\ vals[i].real \in Type
    BY <1>6, InRegister DEF Sure
  <2>2. Clean(e) => ~e.confused
    BY <1>2, <1>3, <1>4, <2>1, Recording DEF Clean
  <2>3. e.right /\ e.gaps = {} => e.diags = {} /\ e.ok
    BY ZenonT(40), <1>2, <1>3, <1>4, <2>1, Recording, Basics
  <2> QED
    BY <1>2, <1>3, <2>2, <2>3, FineIfQuiet
<1> QED
  BY <1>2, <1>3, <1>5, <1>6 DEF e

\* A Match that is not the last of its block is never clean.
LEMMA MatchBeforeOthersFine ==
  ASSUME NEW i, vals[i] \in Values
  PROVE  Effect(MatchBeforeOthers(i)) /\ Fine(MatchBeforeOthers(i))
<1> DEFINE e == Match(i)
           f == MatchBeforeOthers(i)
<1>1. Effect(e) /\ e.defines = <<>>
  BY MatchFine
<1>2. /\ DOMAIN f = DOMAIN e /\ f.defines = e.defines /\ f.diags = e.diags
      /\ f.gaps = e.gaps \cup {"afterMatch"} /\ f.ok = FALSE /\ f.confused = e.confused
      /\ f.right = e.right /\ f.gate = e.gate /\ f.asks = e.asks
  BY DEF MatchBeforeOthers, Match, Quiet
<1> HIDE DEF e, f
<1>3. Effect(f)
  BY <1>1, <1>2, EffectSets DEF Effect, Gaps, Asks
<1>4. ~Clean(f) /\ f.gaps # {}
  BY <1>2 DEF Clean
<1>5. Fine(f)
  BY <1>4 DEF Fine, Keeps, Deserves
<1> QED
  BY <1>3, <1>5 DEF f

\* A Store keeps the invariant.
LEMMA StoreKeeps ==
  ASSUME IInv, NEW v \in Values, Trusted => Sure(v), Store(v)
  PROVE  IInv'
<1> DEFINE cl == IF slot = NoValue THEN MachineType(v.decl) ELSE slot.cl
           e == [Quiet EXCEPT
                   !.ok = v.cl = cl, !.gaps = Untyped({v}),
                   !.right = slot = NoValue \/ slot.real = v.real]
           var == [v EXCEPT !.cl = cl]
<1>1. slot \in Values \cup {NoValue}
  BY DEF IInv, WellTyped, TypeOK
<1>2. cl \in Registers
  BY <1>1, InRegister
<1>3. Trusted /\ slot # NoValue => slot.cl = MachineType(slot.real)
  BY <1>1, InRegister DEF IInv, Believed, Sure, True, Value
<1>4. Trusted => v.decl = v.real /\ v.cl = MachineType(v.real) /\ v = True(v.real)
  BY InRegister DEF Sure
<1>5. /\ DOMAIN e = DOMAIN Quiet /\ e.asks = {} /\ e.defines = <<>> /\ e.diags = {} /\ e.gaps = Untyped({v})
      /\ e.ok <=> v.cl = cl
      /\ ~e.confused
      /\ e.right <=> slot = NoValue \/ slot.real = v.real
      /\ e.ok \in BOOLEAN /\ e.confused \in BOOLEAN /\ e.right \in BOOLEAN /\ e.gate \in BOOLEAN
  BY DEF Quiet
<1>6. var \in Values /\ (v.cl = cl => var = v)
  BY <1>2 DEF Values
<1>7. PlaceAndStore(e, var)
  BY DEF Store
<1>8. Trusted /\ e.right => v.cl = cl
  BY <1>3, <1>4, <1>5
<1> HIDE DEF cl, e, var
<1>9. Effect(e)
  BY <1>5, EffectSets DEF Effect, OneAtMost, Asks
<1>10. Trusted => Fine(e)
  BY <1>5, <1>8, FineIfQuiet
<1>11. Trusted /\ Clean(e) => var \in {NoValue, True(var.real)}
  BY <1>4, <1>5, <1>6 DEF Clean
<1> QED
  BY <1>6, <1>7, <1>9, <1>10, <1>11, PlaceAndStoreKeeps

-----------------------------------------------------------------------------
(* Library calls.                                                           *)

\* What the validator derives for an op, and what it looks at at most.
LEMMA HelperTypes ==
  ASSUME NEW o \in Ops, NEW label \in Type
  PROVE  /\ OutputType(o, label) \in Type
         /\ Runtime[o].gives \in Type
         /\ Returned(o) \in Type
         /\ Returned(o) # Void => Register(o) = MachineType(Returned(o)) /\ Register(o) # "none"
         /\ Returned(o) = Void => Register(o) = "none"
         /\ o \in DOMAIN Required => Returned(o) = Required[o].gives
<1>1. {Bool, String, I64, F64, Void} \subseteq Type
  BY PlainTypes DEF Plain
<1>2. o \in DOMAIN FixedOutput => FixedOutput[o] \in {Bool, String, I64, F64, Void}
  BY Merge, Rows DEF FixedOutput
<1>3. OutputType(o, label) \in Type
  BY <1>1, <1>2 DEF OutputType
<1>4. /\ Returned(o) \in Type
      /\ Register(o) = IF Returned(o) = Void THEN "none" ELSE MachineType(Returned(o))
  BY TablesAgree DEF RegistersAgree
<1>5. MachineType(Returned(o)) # "none"
  BY InRegister DEF Registers
<1>6. Runtime[o].gives \in Type
  <2>1. CASE o = "StringCompare"
    BY <1>1, <2>1, RuntimeRows, Merge, Rows DEF StringOps, RuntimeStrings, Sig
  <2>2. CASE o # "StringCompare"
    BY <1>4, <2>2 DEF Returned
  <2> QED
    BY <2>1, <2>2
<1>7. o \in DOMAIN Required => Returned(o) = Required[o].gives
  <2>1. "StringCompare" \notin DOMAIN Required
    BY RequiredRows DEF IOOps, ServerOps, HttpOps, DbOps
  <2> QED
    BY <2>1, TablesAgree DEF DemandsAgree, Returned
<1> QED
  BY <1>3, <1>4, <1>5, <1>6, <1>7

\* What the arguments are in the three places that look at them.
LEMMA HelperArguments ==
  ASSUME NEW o \in Ops, NEW args \in [Fields(o) -> DOMAIN vals],
         \A i \in DOMAIN vals : Sure(vals[i])
  PROVE  /\ Meant(o, args) => Understands(o, Passed(o, args))
         /\ Understands(o, Passed(o, args)) => Accepts(o, Passed(o, args))
         /\ \A label : /\ o \in DOMAIN Required /\ Demands(o, args, label) = {}
                       /\ \A e \in DOMAIN args : vals[args[e]].decl # Unknown
                       => Understands(o, Passed(o, args))
         /\ \A label : Meant(o, args) /\ label = Returned(o) => Demands(o, args, label) = {}
<1> DEFINE passed == Passed(o, args)
           n == Len(Parsed[o])
<1>1. /\ n \in Nat /\ DOMAIN Parsed[o] = 1..n /\ DOMAIN Runtime[o].takes = 1..n
      /\ Len(Declared[o].takes) = n /\ Lowered[o] = Parsed[o]
      /\ \A i \in 1..n : Declared[o].takes[i] = MachineType(Runtime[o].takes[i])
  BY TablesAgree DEF RegistersAgree
<1>2. \A i \in 1..n : /\ Parsed[o][i] \in DOMAIN args
                      /\ args[Parsed[o][i]] \in DOMAIN vals
  BY <1>1 DEF Fields
<1>3. DOMAIN passed = 1..n /\ Len(passed) = n
      /\ \A i \in 1..n : passed[i] = vals[args[Parsed[o][i]]]
  BY <1>1 DEF Passed
<1>4. \A i \in 1..n : Sure(passed[i])
  BY <1>2, <1>3
<1>5. \A i \in 1..n : passed[i].decl = passed[i].real /\ passed[i].cl = MachineType(passed[i].real)
  BY <1>4, InRegister DEF Sure
<1> HIDE DEF n, passed
<1>6. Meant(o, args) <=> \A i \in 1..n : passed[i].real = Runtime[o].takes[i]
  BY <1>1, <1>3 DEF Meant
<1>7. Understands(o, passed) <=> \A i \in 1..n : passed[i].real = Runtime[o].takes[i]
  BY <1>3 DEF Understands
<1>8. Understands(o, passed) => Accepts(o, passed)
  BY <1>1, <1>3, <1>5, <1>7 DEF Accepts
<1>9. ASSUME NEW label, o \in DOMAIN Required, Demands(o, args, label) = {},
             \A e \in DOMAIN args : vals[args[e]].decl # Unknown
      PROVE  Understands(o, passed)
  <2>1. \A e \in DOMAIN Required[o].takes :
          vals[args[e]].decl = Required[o].takes[e] \/ vals[args[e]].decl = Unknown
    BY <1>9 DEF Demands, If
  <2> SUFFICES ASSUME NEW i \in 1..n PROVE passed[i].real = Runtime[o].takes[i]
    BY <1>7
  <2>2. Parsed[o][i] \in DOMAIN Required[o].takes
        /\ Required[o].takes[Parsed[o][i]] = Runtime[o].takes[i]
    BY <1>1, <1>9, TablesAgree DEF DemandsAgree
  <2> QED
    BY <1>2, <1>3, <1>5, <1>9, <2>1, <2>2
<1>10. ASSUME NEW label, Meant(o, args), label = Returned(o)
       PROVE  Demands(o, args, label) = {}
  <2>1. ASSUME o \in DOMAIN Required, NEW e \in DOMAIN Required[o].takes
        PROVE  vals[args[e]].decl = Required[o].takes[e]
    <3>1. PICK i \in 1..n : e = Parsed[o][i]
      BY <1>1, <2>1, TablesAgree DEF DemandsAgree
    <3>2. Required[o].takes[e] = Runtime[o].takes[i]
      BY <1>1, <2>1, <3>1, TablesAgree DEF DemandsAgree
    <3> QED
      BY <1>3, <1>5, <1>6, <1>10, <3>1, <3>2
  <2>2. o \in DOMAIN Required => label = Required[o].gives
    <3>1. Void \in Type
      BY PlainTypes DEF Plain
    <3> QED
      BY <1>10, <3>1, HelperTypes
  <2> QED
    BY <2>1, <2>2 DEF Demands, If
<1> QED
  BY <1>6, <1>7, <1>8, <1>9, <1>10 DEF passed

\* A library call is fine, as the four lists agree.
LEMMA HelperFine ==
  ASSUME vals \in Seq(Values), NEW o \in Ops, NEW args \in [Fields(o) -> DOMAIN vals],
         NEW label \in Type
  PROVE  /\ Effect(Helper(o, args, label))
         /\ (\A i \in DOMAIN vals : Sure(vals[i])) => Fine(Helper(o, args, label))
<1> DEFINE e == Helper(o, args, label)
           type == OutputType(o, label)
           untyped == Untyped({vals[args[f]] : f \in DOMAIN args})
<1>1. /\ type \in Type /\ Returned(o) \in Type
      /\ Returned(o) # Void => Register(o) = MachineType(Returned(o)) /\ Register(o) # "none"
      /\ Returned(o) = Void => Register(o) = "none"
  BY HelperTypes
<1>2. /\ DOMAIN e = DOMAIN Quiet /\ e.asks = {}
      /\ e.defines = IF Register(o) = "none" THEN <<>>
                     ELSE <<Value(type, Returned(o), Register(o))>>
      /\ e.diags = Demands(o, args, label)
      /\ e.gaps = Mislabelled(type, Returned(o)) \cup untyped
                  \cup If(o \notin DOMAIN Required /\ ~Meant(o, args), {"unchecked"})
  BY DEF Helper, Quiet
<1>3. /\ e.ok <=> Accepts(o, Passed(o, args))
      /\ e.confused <=> ~Understands(o, Passed(o, args))
      /\ e.right <=> Meant(o, args) /\ label = Returned(o)
      /\ e.direct <=> o \in Direct
  BY DEF Helper, Quiet, Accepts, Understands, Meant
<1>4. e.ok \in BOOLEAN /\ e.confused \in BOOLEAN /\ e.right \in BOOLEAN /\ e.gate \in BOOLEAN
  BY DEF Helper, Quiet, Accepts, Understands, Meant
<1> HIDE DEF e, type, untyped
<1>5. Effect(e)
  <2>1. e.defines \in OneAtMost
    <3>1. Returned(o) = Void => e.defines = <<>>
      BY <1>1, <1>2
    <3>2. Returned(o) # Void => Register(o) \in Registers
      BY <1>1, InRegister
    <3>3. Returned(o) # Void => e.defines = <<Value(type, Returned(o), Register(o))>>
      BY <1>1, <1>2
    <3>4. Returned(o) # Void => <<Value(type, Returned(o), Register(o))>> \in OneAtMost
      BY <1>1, <3>2, InRegister
    <3>5. <<>> \in OneAtMost
      BY DEF OneAtMost
    <3> QED
      BY <3>1, <3>3, <3>4, <3>5
  <2>2. e.diags \in SUBSET Codes
    BY <1>2 DEF Demands, If, Codes
  <2>3. e.gaps \in SUBSET Gaps
    BY SMTT(30), <1>2, EffectSets DEF untyped
  <2> QED
    BY <1>2, <1>4, <2>1, <2>2, <2>3 DEF Effect, Asks
<1>6. ASSUME \A i \in DOMAIN vals : Sure(vals[i]) PROVE Fine(e)
  <2>1. e.gaps = {} => /\ type = Returned(o)
                       /\ \A f \in DOMAIN args : vals[args[f]].decl # Unknown
                       /\ o \notin DOMAIN Required => Meant(o, args)
    BY <1>2 DEF untyped, Untyped, Mislabelled, If
  <2>2. e.diags \subseteq {"E030", "E034"} <=> Demands(o, args, label) = {}
    BY <1>2 DEF Demands, If
  <2>3. Clean(e) => Understands(o, Passed(o, args))
    BY <1>6, <2>1, <2>2, HelperArguments DEF Clean
  <2>4. e.right => e.diags = {} /\ e.ok
    BY <1>2, <1>3, <1>6, HelperArguments
  <2>5. Clean(e) => ~e.confused /\ type = Returned(o)
    BY <1>3, <2>1, <2>3 DEF Clean
  <2>6. CASE Returned(o) = Void
    BY <1>1, <1>2, <2>4, <2>5, <2>6, FineIfQuiet
  <2>7. CASE Returned(o) # Void
    <3>1. Register(o) = MachineType(Returned(o)) /\ Register(o) # "none" /\ Register(o) \in Registers
      BY <1>1, <2>7, InRegister
    <3>2. IsFailable(Returned(o)) => e.direct
      BY <1>3, TablesAgree
    <3> QED
      BY <1>1, <1>2, <2>4, <2>5, <3>1, <3>2, FineIf
  <2> QED
    BY <2>6, <2>7
<1> QED
  BY <1>5, <1>6 DEF e

\* The arguments that library calls are tried with are values, and the labels types.
LEMMA CallsTyped ==
  ASSUME DOMAIN Params \subseteq DOMAIN vals, NEW o \in Ops, NEW call \in Calls(o)
  PROVE  call[1] \in [Fields(o) -> DOMAIN vals] /\ call[2] \in Type
<1>1. Labels \cup {Runtime[o].gives} \subseteq Type
  <2>1. Unknown \in Type
    BY PlainTypes DEF Plain
  <2> QED
    BY <2>1, TypesAssumption, HelperTypes
<1>2. CASE AnyCalls
  BY <1>1, <1>2 DEF Calls
<1>3. CASE ~AnyCalls
  <2>1. Exact(o) \in [Fields(o) -> DOMAIN vals]
    <3> SUFFICES ASSUME NEW e \in Fields(o)
                 PROVE  ParamOf(Runtime[o].takes[CHOOSE i \in DOMAIN Parsed[o] : Parsed[o][i] = e])
                          \in DOMAIN vals
      BY DEF Exact
    <3> DEFINE i == CHOOSE j \in DOMAIN Parsed[o] : Parsed[o][j] = e
    <3>1. i \in DOMAIN Parsed[o]
      BY DEF Fields
    <3>2. i \in DOMAIN Runtime[o].takes
      BY <3>1, TablesAgree DEF RegistersAgree
    <3> HIDE DEF i
    <3>3. \E p \in DOMAIN Params : Params[p] = Runtime[o].takes[i]
      BY <1>3, <3>2, ChosenAssumption
    <3>4. ParamOf(Runtime[o].takes[i]) \in DOMAIN Params
      BY <3>3 DEF ParamOf
    <3> QED
      BY <3>4 DEF i
  <2>2. AlmostExact(o) \subseteq [Fields(o) -> DOMAIN vals]
    BY <2>1 DEF AlmostExact
  <2>3. call \in (AlmostExact(o) \X {Runtime[o].gives}) \cup ({Exact(o)} \X Labels)
    BY <1>3 DEF Calls
  <2> QED
    BY <1>1, <2>1, <2>2, <2>3
<1> QED
  BY <1>2, <1>3, ChosenAssumption

\* The ops that ask a result or an option, or open it.
LEMMA ResultIsOkFine ==
  ASSUME NEW i \in DOMAIN vals, vals[i] \in Values
  PROVE  Effect(ResultIsOk(i)) /\ (Sure(vals[i]) => Fine(ResultIsOk(i)))
<1>1. IsResult(vals[i].real) \in BOOLEAN /\ (IsResult(vals[i].real) => MachineType(vals[i].real) = "i64")
  BY Boxes, InRegister DEF IsResult
<1> QED
  BY <1>1, AskFine DEF ResultIsOk

\* OptionIsSome has effects of the right types, and is fine.
LEMMA OptionIsSomeFine ==
  ASSUME NEW i \in DOMAIN vals, vals[i] \in Values
  PROVE  Effect(OptionIsSome(i)) /\ (Sure(vals[i]) => Fine(OptionIsSome(i)))
<1>1. IsOption(vals[i].real) \in BOOLEAN /\ (IsOption(vals[i].real) => MachineType(vals[i].real) = "i64")
  BY Boxes, InRegister DEF IsOption
<1> QED
  BY <1>1, AskFine DEF OptionIsSome

\* ResultUnwrap has effects of the right types, and is fine.
LEMMA ResultUnwrapFine ==
  ASSUME NEW i, vals[i] \in Values, NEW label \in Labels
  PROVE  Effect(ResultUnwrap(i, label)) /\ (Sure(vals[i]) => Fine(ResultUnwrap(i, label)))
<1>1. IsResult(vals[i].real) \in BOOLEAN /\ (IsResult(vals[i].real) => MachineType(vals[i].real) = "i64")
  BY Boxes, InRegister DEF IsResult
<1>2. Payload(vals[i].real) \in Type
  BY Boxes, InRegister
<1> QED
  BY <1>1, <1>2, UnwrapFine DEF ResultUnwrap

\* ResultUnwrapErr has effects of the right types, and is fine.
LEMMA ResultUnwrapErrFine ==
  ASSUME NEW i, vals[i] \in Values, NEW label \in Labels
  PROVE  Effect(ResultUnwrapErr(i, label)) /\ (Sure(vals[i]) => Fine(ResultUnwrapErr(i, label)))
<1>1. IsResult(vals[i].real) \in BOOLEAN /\ (IsResult(vals[i].real) => MachineType(vals[i].real) = "i64")
  BY Boxes, InRegister DEF IsResult
<1>2. String \in Type
  BY PlainTypes DEF Plain
<1> QED
  BY <1>1, <1>2, UnwrapFine DEF ResultUnwrapErr

\* OptionUnwrap has effects of the right types, and is fine.
LEMMA OptionUnwrapFine ==
  ASSUME NEW i, vals[i] \in Values, NEW label \in Labels
  PROVE  Effect(OptionUnwrap(i, label)) /\ (Sure(vals[i]) => Fine(OptionUnwrap(i, label)))
<1>1. IsOption(vals[i].real) \in BOOLEAN /\ (IsOption(vals[i].real) => MachineType(vals[i].real) = "i64")
  BY Boxes, InRegister DEF IsOption
<1>2. Payload(vals[i].real) \in Type
  BY Boxes, InRegister
<1> QED
  BY <1>1, <1>2, UnwrapFine DEF OptionUnwrap

\* A negation has effects of the right types, and is fine.
LEMMA NegateFine ==
  ASSUME NEW v \in Values, NEW label \in Labels
  PROVE  Effect(Negate(v, label)) /\ (Sure(v) => Fine(Negate(v, label)))
BY ArithmeticFine DEF Negate

-----------------------------------------------------------------------------
(* The steps, one by one.                                                   *)

\* What is known of the values that ops are tried with.
LEMMA Known ==
  ASSUME IInv
  PROVE  /\ vals \in Seq(Values) /\ DOMAIN Params \subseteq DOMAIN vals
         /\ \A i \in DOMAIN vals : vals[i] \in Values /\ (Trusted => Sure(vals[i]))
         /\ Several \subseteq DOMAIN vals
<1>1. vals \in Seq(Values) /\ Len(Params) <= Len(vals)
  BY DEF IInv, WellTyped, TypeOK
<1>2. DOMAIN Params = 1..Len(Params) /\ Len(Params) \in Nat
      /\ DOMAIN vals = 1..Len(vals) /\ Len(vals) \in Nat
  BY <1>1, TypesAssumption, LenProperties
<1>3. DOMAIN Params \subseteq DOMAIN vals
  BY <1>1, <1>2
<1>4. \A i \in DOMAIN vals : vals[i] \in Values
  BY <1>1, <1>2, ElementOfSeq
<1>5. Trusted => \A i \in DOMAIN vals : Sure(vals[i])
  BY <1>4 DEF IInv, Believed, Sure
<1>6. Several \subseteq DOMAIN vals
  BY <1>3, ChosenAssumption DEF Several
<1> QED
  BY <1>1, <1>3, <1>4, <1>5, <1>6

\* A library call keeps the invariant.
LEMMA CallKeeps ==
  ASSUME IInv, NEW o \in Ops, NEW call \in Calls(o), Place(Helper(o, call[1], call[2]))
  PROVE  IInv'
<1>1. call[1] \in [Fields(o) -> DOMAIN vals] /\ call[2] \in Type
  BY Known, CallsTyped
<1>2. Effect(Helper(o, call[1], call[2])) /\ (Trusted => Fine(Helper(o, call[1], call[2])))
  BY <1>1, Known, HelperFine
<1> QED
  BY <1>2, PlaceKeeps

\* A Load keeps the invariant.
LEMMA LoadKeeps ==
  ASSUME IInv, NEW label \in Labels, Load(label)
  PROVE  IInv'
<1>1. slot \in Values /\ Place(Loaded(label))
  BY DEF IInv, WellTyped, TypeOK, Load, Loaded
<1>2. Trusted => Sure(slot)
  BY <1>1 DEF IInv, Believed, Sure, Load
<1> QED
  BY <1>1, <1>2, LoadedFine, PlaceKeeps

\* An op with one operand.
LEMMA UnaryKeeps ==
  ASSUME IInv, NEW i \in DOMAIN vals,
         \/ Place(PrintNumber(vals[i]))
         \/ Place(StringFromI64(vals[i]))
         \/ Place(ArrayLength(vals[i]))
         \/ Place(CastI64ToF64(vals[i]))
         \/ Place(CastF64ToI64(vals[i]))
         \/ Store(vals[i])
         \/ Place(ResultIsOk(i))
         \/ Place(OptionIsSome(i))
         \/ Place(MatchBeforeOthers(i))
  PROVE  IInv'
<1>1. /\ vals[i] \in Values /\ (Trusted => Sure(vals[i]))
  BY Known
<1>2. CASE Place(PrintNumber(vals[i]))
  BY <1>1, <1>2, PrintNumberFine, PlaceKeeps
<1>3. CASE Place(StringFromI64(vals[i]))
  BY <1>1, <1>3, StringFromI64Fine, PlaceKeeps
<1>4. CASE Place(ArrayLength(vals[i]))
  BY <1>1, <1>4, ArrayLengthFine, PlaceKeeps
<1>5. CASE Place(CastI64ToF64(vals[i]))
  BY <1>1, <1>5, CastI64ToF64Fine, PlaceKeeps
<1>6. CASE Place(CastF64ToI64(vals[i]))
  BY <1>1, <1>6, CastF64ToI64Fine, PlaceKeeps
<1>7. CASE Store(vals[i])
  BY <1>1, <1>7, StoreKeeps
<1>8. CASE Place(ResultIsOk(i))
  BY <1>1, <1>8, ResultIsOkFine, PlaceKeeps
<1>9. CASE Place(OptionIsSome(i))
  BY <1>1, <1>9, OptionIsSomeFine, PlaceKeeps
<1>10. CASE Place(MatchBeforeOthers(i))
  BY <1>1, <1>10, MatchBeforeOthersFine, PlaceKeeps
<1> QED
  BY <1>2, <1>3, <1>4, <1>5, <1>6, <1>7, <1>8, <1>9, <1>10

\* A terminator.
LEMMA EndingKeeps ==
  ASSUME IInv, NEW i \in DOMAIN vals,
         \/ End(block + 1, Branch(vals[i]))
         \/ End(block + 1, Match(i))
         \/ \E ret \in Returns : End(0, Return(i, ret))
  PROVE  IInv'
<1>1. /\ vals[i] \in Values /\ (Trusted => Sure(vals[i]))
      /\ 0 \in Nat /\ block + 1 \in Nat
  BY Known DEF IInv, WellTyped, TypeOK
<1>2. CASE End(block + 1, Branch(vals[i]))
  BY <1>1, <1>2, BranchFine, EndKeeps
<1>3. CASE End(block + 1, Match(i))
  BY <1>1, <1>3, MatchFine, EndKeeps
<1>4. CASE \E ret \in Returns : End(0, Return(i, ret))
  BY <1>1, <1>4, ReturnFine, EndKeeps
<1> QED
  BY <1>2, <1>3, <1>4

\* An op with one operand and a label.
LEMMA LabelledKeeps ==
  ASSUME IInv, NEW i \in DOMAIN vals, NEW label \in Labels,
         \/ Place(Negate(vals[i], label))
         \/ Place(ResultOk(vals[i], label))
         \/ Place(ResultErr(vals[i], label))
         \/ Place(OptionSome(vals[i], label))
         \/ Place(ResultUnwrap(i, label))
         \/ Place(ResultUnwrapErr(i, label))
         \/ Place(OptionUnwrap(i, label))
         \/ \E f \in Callees : Place(CallFunction(f, vals[i], label))
  PROVE  IInv'
<1>1. /\ vals[i] \in Values /\ (Trusted => Sure(vals[i]))
  BY Known
<1>2. CASE Place(Negate(vals[i], label))
  BY <1>1, <1>2, NegateFine, PlaceKeeps
<1>3. CASE Place(ResultOk(vals[i], label))
  BY <1>1, <1>3, ResultOkFine, PlaceKeeps
<1>4. CASE Place(ResultErr(vals[i], label))
  BY <1>1, <1>4, ResultErrFine, PlaceKeeps
<1>5. CASE Place(OptionSome(vals[i], label))
  BY <1>1, <1>5, OptionSomeFine, PlaceKeeps
<1>6. CASE Place(ResultUnwrap(i, label))
  BY <1>1, <1>6, ResultUnwrapFine, PlaceKeeps
<1>7. CASE Place(ResultUnwrapErr(i, label))
  BY <1>1, <1>7, ResultUnwrapErrFine, PlaceKeeps
<1>8. CASE Place(OptionUnwrap(i, label))
  BY <1>1, <1>8, OptionUnwrapFine, PlaceKeeps
<1>9. CASE \E f \in Callees : Place(CallFunction(f, vals[i], label))
  BY <1>1, <1>9, CallFunctionFine, PlaceKeeps
<1> QED
  BY <1>2, <1>3, <1>4, <1>5, <1>6, <1>7, <1>8, <1>9

\* An op with several operands.
LEMMA BinaryKeeps ==
  ASSUME IInv, NEW i \in Several, NEW j \in Several,
         \/ Place(Compare(vals[i], vals[j]))
         \/ Place(StringConcat(vals[i], vals[j]))
         \/ \E shift \in BOOLEAN : Place(Bits(vals[i], vals[j], shift))
         \/ \E k \in Several : Place(ArrayPut(vals[i], vals[j], vals[k]))
  PROVE  IInv'
<1>1. /\ vals[i] \in Values /\ (Trusted => Sure(vals[i]))
      /\ vals[j] \in Values /\ (Trusted => Sure(vals[j]))
  BY Known
<1>2. CASE Place(Compare(vals[i], vals[j]))
  BY <1>1, <1>2, CompareFine, PlaceKeeps
<1>3. CASE Place(StringConcat(vals[i], vals[j]))
  BY <1>1, <1>3, StringConcatFine, PlaceKeeps
<1>4. CASE \E shift \in BOOLEAN : Place(Bits(vals[i], vals[j], shift))
  BY <1>1, <1>4, BitsFine, PlaceKeeps
<1>5. CASE \E k \in Several : Place(ArrayPut(vals[i], vals[j], vals[k]))
  BY <1>1, <1>5, Known, ArrayPutFine, PlaceKeeps
<1> QED
  BY <1>2, <1>3, <1>4, <1>5

\* An op with two operands and a label.
LEMMA LabelledBinaryKeeps ==
  ASSUME IInv, NEW i \in Several, NEW j \in Several, NEW label \in Labels,
         \/ \E op \in {"Add", "Div", "Modulo"} : Place(Arithmetic(op, vals[i], vals[j], label))
         \/ Place(Checked(vals[i], vals[j], label))
         \/ Place(ArrayGet(vals[i], vals[j], label))
         \/ Place(ArrayTryGet(vals[i], vals[j], label))
  PROVE  IInv'
<1>1. /\ vals[i] \in Values /\ (Trusted => Sure(vals[i]))
      /\ vals[j] \in Values /\ (Trusted => Sure(vals[j]))
  BY Known
<1>2. CASE \E op \in {"Add", "Div", "Modulo"} : Place(Arithmetic(op, vals[i], vals[j], label))
  BY <1>1, <1>2, ArithmeticFine, PlaceKeeps
<1>3. CASE Place(Checked(vals[i], vals[j], label))
  BY <1>1, <1>3, CheckedFine, PlaceKeeps
<1>4. CASE Place(ArrayGet(vals[i], vals[j], label))
  BY <1>1, <1>4, ArrayGetFine, PlaceKeeps
<1>5. CASE Place(ArrayTryGet(vals[i], vals[j], label))
  BY <1>1, <1>5, ArrayTryGetFine, PlaceKeeps
<1> QED
  BY <1>2, <1>3, <1>4, <1>5

-----------------------------------------------------------------------------

\* The invariant holds at the start, when there are only the parameters.
LEMMA InitIInv == Init => IInv
<1> SUFFICES ASSUME Init PROVE IInv
  OBVIOUS
<1>1. Params \in Seq(Type) /\ Len(Params) \in Nat /\ DOMAIN Params = 1..Len(Params)
      /\ \A i \in 1..Len(Params) : Params[i] \in Type
  BY TypesAssumption, LenProperties, ElementOfSeq
<1>2. \A t \in Type : /\ True(t) \in Values /\ True(t).real = t
  <2>1. \A t \in Type : True(t) = Value(t, t, MachineType(t)) /\ MachineType(t) \in Registers
    BY InRegister DEF True
  <2> QED
    BY <2>1 DEF Values, Value
<1>3. vals = [i \in 1..Len(Params) |-> True(Params[i])]
  BY <1>1 DEF Init
<1>4. vals \in Seq(Values) /\ Len(vals) = Len(Params) /\ DOMAIN vals = 1..Len(Params)
  <2>1. \A i \in 1..Len(Params) : True(Params[i]) \in Values
    BY <1>1, <1>2
  <2> QED
    BY <1>1, <1>3, <2>1
<1>5. WellTyped
  <2>1. placed = 0 /\ block = 1 /\ placed \in 0..MaxNodes /\ block \in 0..MaxBlocks
    BY BoundAssumption DEF Init
  <2>2. /\ Len(vals) <= Len(Params) + MaxNodes
        /\ Len(Params) <= Len(vals) /\ Len(vals) <= Len(Params) + placed
    BY <1>1, <1>4, <2>1, BoundAssumption
  <2> QED
    BY <1>4, <2>1, <2>2 DEF Init, WellTyped, TypeOK
<1>6. Believed
  BY <1>1, <1>2, <1>3, <1>4 DEF Init, Believed
<1> QED
  BY <1>5, <1>6 DEF Init, IInv, Watched, Accepted

\* Every step keeps the invariant.
LEMMA NextIInv == IInv /\ [Next]_vars => IInv'
<1> SUFFICES ASSUME IInv, [Next]_vars PROVE IInv'
  OBVIOUS
<1>1. CASE UNCHANGED vars
  BY <1>1 DEF vars, IInv, WellTyped, TypeOK, Believed, Trusted, Watched, Accepted
<1>2. CASE \E o \in Ops : \E call \in Calls(o) : Place(Helper(o, call[1], call[2]))
  BY <1>2, CallKeeps
<1>3. ASSUME NEW label \in Labels,
             \/ Place(Const(label)) \/ Place(ArrayNew(label)) \/ Place(OptionNone(label))
             \/ Load(label)
      PROVE  IInv'
  <2>1. CASE Place(Const(label))
    BY <2>1, ConstFine, PlaceKeeps
  <2>2. CASE Place(ArrayNew(label))
    BY <2>2, ArrayNewFine, PlaceKeeps
  <2>3. CASE Place(OptionNone(label))
    BY <2>3, OptionNoneFine, PlaceKeeps
  <2>4. CASE Load(label)
    BY <2>4, LoadKeeps
  <2> QED
    BY <1>3, <2>1, <2>2, <2>3, <2>4
<1>4. ASSUME NEW i \in DOMAIN vals,
             \/ Place(PrintNumber(vals[i])) \/ Place(StringFromI64(vals[i]))
             \/ Place(ArrayLength(vals[i]))
             \/ Place(CastI64ToF64(vals[i])) \/ Place(CastF64ToI64(vals[i]))
             \/ Store(vals[i])
             \/ Place(ResultIsOk(i)) \/ Place(OptionIsSome(i))
             \/ Place(MatchBeforeOthers(i))
      PROVE  IInv'
  BY <1>4, UnaryKeeps
<1>5. ASSUME NEW i \in DOMAIN vals,
             \/ End(block + 1, Branch(vals[i])) \/ End(block + 1, Match(i))
             \/ \E ret \in Returns : End(0, Return(i, ret))
      PROVE  IInv'
  BY <1>5, EndingKeeps
<1>6. ASSUME NEW i \in DOMAIN vals, NEW label \in Labels,
             \/ Place(Negate(vals[i], label))
             \/ Place(ResultOk(vals[i], label)) \/ Place(ResultErr(vals[i], label))
             \/ Place(OptionSome(vals[i], label))
             \/ Place(ResultUnwrap(i, label)) \/ Place(ResultUnwrapErr(i, label))
             \/ Place(OptionUnwrap(i, label))
             \/ \E f \in Callees : Place(CallFunction(f, vals[i], label))
      PROVE  IInv'
  BY <1>6, LabelledKeeps
<1>7. ASSUME NEW i \in Several, NEW j \in Several,
             \/ Place(Compare(vals[i], vals[j])) \/ Place(StringConcat(vals[i], vals[j]))
             \/ \E shift \in BOOLEAN : Place(Bits(vals[i], vals[j], shift))
             \/ \E k \in Several : Place(ArrayPut(vals[i], vals[j], vals[k]))
      PROVE  IInv'
  BY <1>7, BinaryKeeps
<1>8. ASSUME NEW i \in Several, NEW j \in Several, NEW label \in Labels,
             \/ \E op \in {"Add", "Div", "Modulo"} :
                  Place(Arithmetic(op, vals[i], vals[j], label))
             \/ Place(Checked(vals[i], vals[j], label))
             \/ Place(ArrayGet(vals[i], vals[j], label))
             \/ Place(ArrayTryGet(vals[i], vals[j], label))
      PROVE  IInv'
  BY <1>8, LabelledBinaryKeeps
<1> QED
  BY <1>1, <1>2, <1>3, <1>4, <1>5, <1>6, <1>7, <1>8 DEF Next

\* The invariant holds of every function, however far it is written.
LEMMA AlwaysIInv == Spec => []IInv
<1>1. Init => IInv
  BY InitIInv
<1>2. IInv /\ [Next]_vars => IInv'
  BY NextIInv
<1> QED
  BY <1>1, <1>2, PTL DEF Spec

\* The variables stay in their types, whatever the author writes.
THEOREM TypeCorrect == Spec => []TypeOK
<1>1. IInv => TypeOK
  BY DEF IInv, WellTyped
<1> QED
  BY <1>1, AlwaysIInv, PTL

\* Type soundness, of functions of any size: what a build makes a program of
\* gives nothing a value of another type, unless the workspace build did not
\* hear of a diagnostic or one of the gaps was used.
THEOREM TypesAreSound == Spec => []Sound
<1>1. IInv => Sound
  <2> SUFFICES ASSUME IInv, NEW b \in Builds, Compiled(b), ~Unvalidated(b), gaps = {}
               PROVE  ~confused
    BY DEF Sound
  <2>1. diags \subseteq {"E030", "E034"} /\ verified
    BY DEF Compiled, Unvalidated, Builds, Errors
  <2>2. Trusted
    BY <2>1 DEF Trusted
  <2> QED
    BY <2>2 DEF IInv, Believed
<1> QED
  BY <1>1, AlwaysIInv, PTL

\* Neither build refuses a function whose nodes are meant and labelled right
\* and whose unwraps follow a check of their value.
THEOREM RightFunctionsAreAccepted == Spec => []RightIsAccepted
<1>1. IInv => RightIsAccepted
  BY DEF IInv, Accepted, RightIsAccepted, Errors
<1> QED
  BY <1>1, AlwaysIInv, PTL

\* What validator and lowering believe of a value is true until something is
\* reported or a gap is used.
THEOREM BeliefsAreTrue == Spec => []BelievedIsTrue
<1>1. IInv => BelievedIsTrue
  BY DEF IInv, Believed, BelievedIsTrue, Trusted
<1> QED
  BY <1>1, AlwaysIInv, PTL

\* In a compiled function with some Result or Option op, of a file or of a
\* workspace the validator has nothing to say of, every result of a call was
\* looked at.
THEOREM NoFailureIsIgnored == Spec => []FailuresSeen
<1>1. IInv => FailuresSeen
  <2> SUFFICES ASSUME IInv, NEW b \in Builds, Compiled(b), ~Unvalidated(b), gated, gaps = {}
               PROVE  unseen = {}
    BY DEF FailuresSeen
  <2>1. Trusted /\ diags = {} /\ block = 0
    BY DEF Compiled, Unvalidated, Builds, Errors, Trusted
  <2> QED
    BY <2>1 DEF IInv, Watched
<1> QED
  BY <1>1, AlwaysIInv, PTL

=============================================================================
