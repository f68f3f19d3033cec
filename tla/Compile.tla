------------------------------- MODULE Compile -------------------------------
(***************************************************************************)
(* The types of one function, from its JSON-LD nodes to the code for them  *)
(* (parser/mod.rs, graph/validator.rs, graph/result_safety.rs, types.rs,   *)
(* compiler/lowering.rs, runtime/duumbi_runtime.c).                        *)
(*                                                                         *)
(* The author writes the function down node by node; each step places a    *)
(* node, validates it, lowers it, and runs it once, as validator, lowering *)
(* and run go through the nodes in the same order and no value changes its *)
(* type.  The build of a single file runs the validator and refuses at any *)
(* diagnostic, warnings included; the build of a workspace does not run it,*)
(* so that what is reported here, nobody hears of there.  The blocks follow*)
(* one another: what a branch does to the values that are defined is in    *)
(* Ownership.  A value is known by its place in vals; it has the type the  *)
(* validator derives (decl), the type of what is there at run time (real), *)
(* and the type of the register it is in (cl).  Structs and ownership ops  *)
(* are left out, and so are references to nodes that have no value, which  *)
(* the lowering refuses.                                                   *)
(***************************************************************************)
EXTENDS OpTable, FiniteSets

CONSTANTS
    Params,         \* the parameters, as the sequence of their types
    Returns,        \* return types a function may declare
    Chosen,         \* bound: the parameters that are operands of ops with several
    Labels,         \* what authors write for duumbi:resultType
    Callees,        \* other functions, of the file or of other modules: [takes, gives]
    AnyCalls,       \* whether library calls are tried with all arguments and labels
    MaxNodes,       \* bound: nodes of a function
    MaxBlocks       \* bound: blocks of a function

ASSUME BoundAssumption == MaxNodes \in Nat \ {0} /\ MaxBlocks \in Nat \ {0}

\* The language has no name for Junk.
ASSUME TypesAssumption ==
    /\ Params \in Seq(Type) /\ Returns \subseteq Type
    /\ Labels \subseteq Type \ {Junk}
    /\ Callees \subseteq [takes : Type, gives : Type]

\* There is a parameter of each type that a library function takes, unless all
\* values are tried as arguments.
ASSUME ChosenAssumption ==
    /\ Chosen \subseteq DOMAIN Params
    /\ AnyCalls \in BOOLEAN
    /\ \/ AnyCalls
       \/ \A o \in Ops : \A i \in DOMAIN Runtime[o].takes :
              \E p \in DOMAIN Params : Params[p] = Runtime[o].takes[i]

VARIABLES
    vals,           \* the values, parameters first, each loaded once
    slot,           \* the local variable
    placed,         \* number of nodes
    block,          \* number of the block, 0 after the Return
    gated,          \* has_result_option_ops
    pending,        \* results of this block that no node of it handles
    checked,        \* checked_ids: what this block asked for Ok or Some so far
    diags,          \* codes of the diagnostics emitted
    verified,       \* the lowering and Cranelift's verifier found nothing
    confused,       \* at run time something got a value of another type
    unseen,         \* results at run time that nothing has looked at
    right,          \* history: each node is meant, labelled and guarded right
    gaps            \* history: what no check looks at, and was done

vars == <<vals, slot, placed, block, gated, pending, checked, diags, verified,
          confused, unseen, right, gaps>>

\* "E030" stands for E031 too.
Codes == {"E001", "E030", "E033", "E034", "E035"}
Builds == {"file", "workspace"}
Gaps  == {"untyped", "mislabelled", "unchecked", "notNumbers", "narrow",
          "voidFunction", "afterMatch"}

Registers == {"i64", "f64", "i8"}
Values    == [decl : Type, real : Type, cl : Registers]

Value(decl, real, cl) == [decl |-> decl, real |-> real, cl |-> cl]
NoValue == Value(Unknown, Unknown, "none")

\* A value that is what it is said to be.
True(t) == Value(t, t, MachineType(t))

TypeOK ==
    /\ vals \in Seq(Values) /\ slot \in Values \cup {NoValue}
    /\ placed \in 0..MaxNodes /\ block \in 0..MaxBlocks
    /\ Len(vals) <= Len(Params) + MaxNodes
    /\ pending \subseteq DOMAIN vals /\ checked \subseteq DOMAIN vals /\ unseen \subseteq DOMAIN vals
    /\ diags \subseteq Codes /\ gaps \subseteq Gaps
    /\ gated \in BOOLEAN /\ verified \in BOOLEAN
    /\ confused \in BOOLEAN /\ right \in BOOLEAN

Init ==
    /\ vals = [i \in DOMAIN Params |-> True(Params[i])]
    /\ slot = NoValue
    /\ placed = 0 /\ block = 1
    /\ gated = FALSE /\ pending = {} /\ checked = {} /\ diags = {}
    /\ verified = TRUE /\ confused = FALSE /\ unseen = {}
    /\ right = TRUE /\ gaps = {}

If(condition, set) == IF condition THEN set ELSE {}

-----------------------------------------------------------------------------
(* What a node does: each op gives a record of its effects. *)

\* A node with no effect at all, and one that only defines a value.
Quiet == [defines |-> <<>>, diags |-> {}, ok |-> TRUE, confused |-> FALSE, gaps |-> {},
          right |-> TRUE, sees |-> {}, asks |-> {}, gate |-> FALSE, direct |-> FALSE, calls |-> FALSE]

Defining(decl, real, cl) == [Quiet EXCEPT !.defines = <<Value(decl, real, cl)>>]

IsFailable(t) == IsResult(t) \/ IsOption(t)

\* What is left of a set of results when a node with the effects e looks at some
\* of them; it may produce one.
Outstanding(results, e, produces) == (results \ e.sees) \cup If(produces, {Len(vals) + 1})

\* The result that counts at run time is one, that for the checks is labelled so.
Fails(e)    == e.calls /\ e.defines # <<>> /\ IsFailable(e.defines[1].real)
Recorded(e) == e.direct /\ e.defines # <<>> /\ IsFailable(e.defines[1].decl)

Effects(e) ==
    /\ vals' = vals \o e.defines
    /\ gated' = (gated \/ e.gate)
    /\ unseen' = Outstanding(unseen, e, Fails(e))
    /\ diags' = diags \cup e.diags
    /\ verified' = (verified /\ e.ok)
    /\ confused' = (confused \/ e.confused)
    /\ right' = (right /\ e.right)
    /\ gaps' = gaps \cup e.gaps

\* A node that is not the last of its block and stores var.
PlaceAndStore(e, var) ==
    /\ block # 0 /\ placed < MaxNodes
    /\ placed' = placed + 1
    /\ Effects(e)
    /\ pending' = Outstanding(pending, e, Recorded(e))
    /\ checked' = checked \cup e.asks
    /\ slot' = var
    /\ UNCHANGED block

Place(e) == PlaceAndStore(e, slot)

\* The types two edges come from are known and differ.
Differ(l, r) == l.decl # Unknown /\ r.decl # Unknown /\ l.decl # r.decl

Untyped(vs) == If(\E v \in vs : v.decl = Unknown, {"untyped"})
Mislabelled(decl, real) ==
    If(decl = Unknown, {"untyped"}) \cup If(decl \notin {Unknown, real}, {"mislabelled"})

Numbers == {I64, F64}

-----------------------------------------------------------------------------
(* Library calls *)

\* Mutant of Passed: the last argument comes first.
PassedBackwards(o, args) ==
    [i \in DOMAIN Lowered[o] |-> vals[args[Lowered[o][Len(Lowered[o]) + 1 - i]]]]

\* The values of the arguments, in the order they are passed.
Passed(o, args) == [i \in DOMAIN Lowered[o] |-> vals[args[Lowered[o][i]]]]

\* The declared function takes registers of these types.
Accepts(o, passed) ==
    /\ Len(passed) = Len(Declared[o].takes)
    /\ \A i \in DOMAIN passed : passed[i].cl = Declared[o].takes[i]

\* The C function gets what it takes its arguments for.
Understands(o, passed) ==
    \A i \in DOMAIN passed : passed[i].real = Runtime[o].takes[i]

\* check_operand_type, check_arg_types, check_exact_result_type.
Demands(o, args, label) ==
    If(/\ o \in DOMAIN Required
       /\ \/ label # Required[o].gives
          \/ \E e \in DOMAIN Required[o].takes :
               /\ vals[args[e]].decl # Required[o].takes[e]
               /\ vals[args[e]].decl # Unknown \/ o \in Strict,
       {"E001"})

\* What the author means: the fields in their order are the arguments.
Meant(o, args) ==
    \A i \in DOMAIN Parsed[o] : vals[args[Parsed[o][i]]].real = Runtime[o].takes[i]

\* StringCompare turns what the library returns into a Boolean.
Returned(o) == IF o = "StringCompare" THEN Bool ELSE Runtime[o].gives

\* Mutant of Register: what StringCompare returns is used as it is.
RegisterAsDeclared(o) == Declared[o].gives

Register(o) == IF o = "StringCompare" THEN "i8" ELSE Declared[o].gives

Helper(o, args, label) ==
    LET passed == Passed(o, args)
        type   == OutputType(o, label)
        value  == Value(type, Returned(o), Register(o))
    IN [Quiet EXCEPT
          !.defines = IF Register(o) = "none" THEN <<>> ELSE <<value>>,
          !.diags = Demands(o, args, label),
          !.ok = Accepts(o, passed),
          !.confused = ~Understands(o, passed),
          !.gaps = Mislabelled(type, Returned(o))
              \cup Untyped({vals[args[e]] : e \in DOMAIN args})
              \cup If(o \notin DOMAIN Required /\ ~Meant(o, args), {"unchecked"}),
          !.right = Meant(o, args) /\ label = Returned(o),
          !.gate = o \in Gating, !.direct = o \in Direct, !.calls = TRUE]

-----------------------------------------------------------------------------
(* Numbers *)

\* Const: the label decides which constant it is.
Const(label) ==
    LET real == IF label \in {F64, Bool, String} THEN label ELSE I64 IN
    [Defining(label, real, MachineType(real)) EXCEPT
       !.gaps = Mislabelled(label, real), !.right = label = real]

\* The type of a number made of l and r.
Number(l, r) == IF l.real = r.real /\ l.real \in Numbers THEN l.real ELSE Junk

\* Add, Sub and Mul; Div, which checks its divisor as an integer first;
\* Modulo, which compares no types.
Arithmetic(op, l, r, label) ==
    LET float == label = F64
        real  == Number(l, r)
    IN [Defining(label, real, IF float THEN "f64" ELSE l.cl) EXCEPT
          !.diags = If(op # "Modulo" /\ Differ(l, r), {"E001"}),
          !.ok = /\ l.cl = r.cl /\ (float <=> l.cl = "f64")
                 /\ op = "Div" => float \/ r.cl = "i64",
          !.confused = real = Junk,
          !.gaps = Untyped({l, r}) \cup Mislabelled(label, real)
              \cup If(real = Junk, {"notNumbers"}),
          !.right = real # Junk /\ label = real]

Negate(v, label) == Arithmetic("Modulo", v, v, label)

\* AddChecked, SubChecked, MulChecked, DivChecked.
Checked(l, r, label) ==
    [Defining(label, Result(I64), "i64") EXCEPT
       !.diags = If(Differ(l, r) \/ label # Result(I64), {"E001"}),
       !.ok = label = Result(I64) /\ l.cl = "i64" /\ r.cl = "i64",
       !.confused = l.real # I64 \/ r.real # I64,
       !.gaps = Untyped({l, r}) \cup If(l.real # I64, {"notNumbers"}),
       !.right = l.real = I64 /\ r.real = I64 /\ label = Result(I64),
       !.gate = TRUE, !.direct = TRUE, !.calls = TRUE]

Compare(l, r) ==
    [Defining(Bool, Bool, "i8") EXCEPT
       !.diags = If(Differ(l, r), {"E001"}),
       !.ok = l.cl = r.cl /\ (l.decl = F64 <=> l.cl = "f64"),
       !.confused = l.real # r.real \/ l.real \notin Numbers \cup {Bool},
       !.gaps = Untyped({l, r})
           \cup If(l.real \notin Numbers \cup {Bool}, {"notNumbers"}),
       !.right = l.real = r.real /\ l.real \in Numbers \cup {Bool}]

\* BitwiseAnd, BitwiseOr, BitwiseXor; the shifts; BitwiseNot with one operand for both.
Bits(l, r, shift) ==
    [Defining(I64, IF l.real = I64 THEN I64 ELSE Junk, l.cl) EXCEPT
       !.ok = "f64" \notin {l.cl, r.cl} /\ (l.cl = r.cl \/ shift),
       !.confused = l.real # I64 \/ r.real # I64,
       !.gaps = If(l.real # I64 \/ r.real # I64, {"notNumbers"}),
       !.right = l.real = I64 /\ r.real = I64]

CastI64ToF64(v) ==
    [Defining(F64, F64, "f64") EXCEPT
       !.ok = v.cl # "f64",
       !.confused = v.real \notin {I64, Bool},
       !.gaps = If(v.real \notin {I64, Bool}, {"notNumbers"}),
       !.right = v.real = I64]

\* A Boolean is widened.
CastF64ToI64(v) ==
    [Defining(I64, I64, "i64") EXCEPT
       !.ok = v.cl # "i64",
       !.confused = v.real \notin {F64, Bool},
       !.right = v.real = F64]

-----------------------------------------------------------------------------
(* Printing and strings *)

\* The print function goes by the type the validator derives.
PrintNumber(v) ==
    LET shown == IF v.decl \in {F64, Bool} THEN v.decl ELSE I64 IN
    [Quiet EXCEPT
       !.ok = v.cl = MachineType(shown),
       !.confused = v.real # shown,
       !.gaps = Untyped({v}) \cup If(v.real \notin Numbers \cup {Bool}, {"unchecked"}),
       !.right = v.real \in Numbers \cup {Bool}]

\* An operand that is no string is formatted, going by its type.
Formatted(v) == v.decl \in {I64, Bool}

Lowers(v) ==
    \/ Formatted(v) /\ v.cl # "f64"
    \/ v.decl \in {String, Unknown} /\ v.cl = "i64"

Misread(v) == v.real \notin (IF Formatted(v) THEN {I64, Bool} ELSE {String})

StringConcat(l, r) ==
    [Defining(String, String, "i64") EXCEPT
       !.ok = Lowers(l) /\ Lowers(r),
       !.confused = Misread(l) \/ Misread(r),
       !.gaps = Untyped({l, r}),
       !.right = {l.real, r.real} \subseteq {String, I64, Bool}]

StringFromI64(v) ==
    [Defining(String, String, "i64") EXCEPT
       !.ok = v.cl # "f64",
       !.confused = v.real \notin {I64, Bool},
       !.gaps = If(v.real \notin {I64, Bool}, {"unchecked"}),
       !.right = v.real \in {I64, Bool}]

-----------------------------------------------------------------------------
(* Arrays: the library keeps 64 bits for an element, whatever it is *)

\* The lowering hands a Boolean or a float to the library as it is.
Narrow(vs) == If(\E v \in vs : v.cl # "i64", {"narrow"})

\* An element or a payload of type t comes back as 64 bits.
NarrowOut(t) == If(t \in {F64, Bool}, {"narrow"})

Element(a) == IF IsArray(a.real) THEN Tail(a.real) ELSE Junk

ArrayNew(label) ==
    LET real == IF IsArray(label) THEN label ELSE Array(Junk) IN
    [Defining(label, real, "i64") EXCEPT
       !.gaps = Mislabelled(label, real), !.right = label = real]

\* ArrayPush and ArraySet; no type is compared.
ArrayPut(a, index, v) ==
    LET fits == IsArray(a.real) /\ Element(a) = v.real /\ index.real = I64 IN
    [Quiet EXCEPT
       !.ok = a.cl = "i64" /\ index.cl = "i64" /\ v.cl = "i64",
       !.confused = ~fits,
       !.gaps = Narrow({v}) \cup If(~fits, {"unchecked"}),
       !.right = fits]

ArrayGet(a, index, label) ==
    LET fits == IsArray(a.real) /\ index.real = I64 IN
    [Defining(label, Element(a), "i64") EXCEPT
       !.ok = a.cl = "i64" /\ index.cl = "i64",
       !.confused = ~fits,
       !.gaps = Mislabelled(label, Element(a)) \cup NarrowOut(Element(a))
           \cup If(~fits, {"unchecked"}),
       !.right = fits /\ label = Element(a)]

ArrayTryGet(a, index, label) ==
    LET fits == IsArray(a.real) /\ index.real = I64 IN
    [Defining(label, Option(Element(a)), "i64") EXCEPT
       !.ok = IsOption(label) /\ a.cl = "i64" /\ index.cl = "i64",
       !.confused = ~fits,
       !.gaps = Mislabelled(label, Option(Element(a))) \cup If(~fits, {"unchecked"}),
       !.right = fits /\ label = Option(Element(a)),
       !.gate = TRUE, !.direct = TRUE, !.calls = TRUE]

ArrayLength(a) ==
    [Defining(I64, I64, "i64") EXCEPT
       !.ok = a.cl = "i64", !.confused = ~IsArray(a.real),
       !.gaps = If(~IsArray(a.real), {"unchecked"}), !.right = IsArray(a.real)]

-----------------------------------------------------------------------------
(* Results and options *)

\* ResultOk, ResultErr and OptionSome of v, as a value of type made; payload is
\* what the label says it holds.
Wrap(v, label, made, fits, payload) ==
    [Defining(label, made, "i64") EXCEPT
       !.diags = If(label # Unknown /\ ~fits, {"E033"})
           \cup If(fits /\ v.decl # Unknown /\ v.decl # payload, {"E035"}),
       !.ok = v.cl = "i64",
       !.gaps = Untyped({v}) \cup If(label = Unknown, {"untyped"}) \cup Narrow({v}),
       !.right = label = made,
       !.gate = TRUE]

ResultOk(v, label) == Wrap(v, label, Result(v.real), IsResult(label), Tail(label))

OptionSome(v, label) == Wrap(v, label, Option(v.real), IsOption(label), Tail(label))

\* An error is a string; what an Ok would hold is known from the label alone.
ResultErr(v, label) ==
    Wrap(v, label,
         IF v.real # String THEN Junk ELSE IF IsResult(label) THEN label ELSE Result(I64),
         IsResult(label), String)

OptionNone(label) ==
    LET real == IF IsOption(label) THEN label ELSE Option(I64) IN
    [Defining(label, real, "i64") EXCEPT
       !.gaps = Mislabelled(label, real), !.right = label = real,
       !.gate = TRUE]

\* ResultIsOk and OptionIsSome: the operand is not looked at.
Ask(i, expected) ==
    [Defining(Bool, Bool, "i8") EXCEPT
       !.ok = vals[i].cl = "i64",
       !.confused = ~expected, !.gaps = If(~expected, {"unchecked"}),
       !.right = expected, !.sees = {i}, !.asks = {i, Len(vals) + 1},
       !.gate = TRUE]

ResultIsOk(i)   == Ask(i, IsResult(vals[i].real))
OptionIsSome(i) == Ask(i, IsOption(vals[i].real))

\* An unwrap of value i that holds a payload: a guard is ResultIsOk or
\* OptionIsSome earlier in the same block.
Unwrap(i, expected, payload, label) ==
    [Defining(label, payload, IF label = Bool THEN "i8" ELSE "i64") EXCEPT
       !.diags = If(i \notin checked, {"E034"}),
       !.ok = vals[i].cl = "i64",
       !.confused = ~expected,
       !.gaps = Mislabelled(label, payload) \cup If(~expected, {"unchecked"})
           \cup If(payload = F64, {"narrow"}),
       !.right = expected /\ label = payload /\ i \in checked,
       !.sees = {i}, !.gate = TRUE]

Payload(t) == IF IsResult(t) \/ IsOption(t) THEN Tail(t) ELSE Junk

ResultUnwrap(i, label) ==
    Unwrap(i, IsResult(vals[i].real), Payload(vals[i].real), label)
ResultUnwrapErr(i, label) ==
    Unwrap(i, IsResult(vals[i].real), String, label)
OptionUnwrap(i, label) ==
    Unwrap(i, IsOption(vals[i].real), Payload(vals[i].real), label)

-----------------------------------------------------------------------------
(* Calls and the local variable *)

\* The callee's types are known to the code generator only, as registers.
CallFunction(f, v, label) ==
    LET fits == v.real = f.takes IN
    [Defining(label, f.gives, MachineType(f.gives)) EXCEPT
       !.ok = v.cl = MachineType(f.takes),
       !.confused = ~fits,
       !.gaps = Mislabelled(label, f.gives) \cup If(~fits, {"unchecked"}),
       !.right = fits /\ label = f.gives,
       !.direct = TRUE, !.calls = TRUE]

\* The first Store decides the variable's register, by the type it stores.
Store(v) ==
    LET cl == IF slot = NoValue THEN MachineType(v.decl) ELSE slot.cl IN
    PlaceAndStore([Quiet EXCEPT
                     !.ok = v.cl = cl, !.gaps = Untyped({v}),
                     !.right = slot = NoValue \/ slot.real = v.real],
                  [v EXCEPT !.cl = cl])

Load(label) ==
    /\ slot # NoValue
    /\ Place([Defining(label, slot.real, slot.cl) EXCEPT
                !.gaps = Mislabelled(label, slot.real), !.right = label = slot.real])

-----------------------------------------------------------------------------
(* Terminators *)

\* The block ends with the effects e: results that no node of it handled are
\* reported.  Then comes the block next, or none.
End(next, e) ==
    /\ block # 0 /\ next <= MaxBlocks
    /\ block' = next
    /\ Effects([e EXCEPT !.diags = @ \cup If(pending \ e.sees # {}, {"E030"}),
                         !.right = @ /\ pending \ e.sees = {}])
    /\ pending' = {} /\ checked' = {}
    /\ UNCHANGED <<slot, placed>>

Branch(v) ==
    [Quiet EXCEPT
       !.diags = If(v.decl \notin {Bool, Unknown}, {"E001"}),
       !.ok = v.cl # "f64",
       !.confused = v.real # Bool,
       !.gaps = Untyped({v}), !.right = v.real = Bool]

\* The lowering goes by the type the validator derives.
Match(i) ==
    [Quiet EXCEPT
       !.ok = IsFailable(vals[i].decl) /\ vals[i].cl = "i64",
       !.confused = \/ IsOption(vals[i].decl) # IsOption(vals[i].real)
                    \/ IsResult(vals[i].decl) # IsResult(vals[i].real),
       !.gaps = Untyped({vals[i]})
           \cup If(~IsFailable(vals[i].decl), {"unchecked"}),
       !.right = IsFailable(vals[i].real), !.sees = {i}, !.gate = TRUE]

\* check_terminator_position does not count a Match in the middle of a block.
MatchBeforeOthers(i) ==
    [Match(i) EXCEPT !.ok = FALSE, !.gaps = @ \cup {"afterMatch"}]

\* ret is the type the function declares; a Boolean is widened for i64.
Return(i, ret) ==
    LET v  == vals[i]
        cl == IF ret = I64 /\ v.cl = "i8" THEN "i64" ELSE v.cl
    IN [Quiet EXCEPT
          !.diags = If(v.decl \notin {ret, Unknown}, {"E001"}),
          !.ok = ret # Void /\ cl = MachineType(ret),
          !.confused = v.real # ret,
          !.gaps = Untyped({v}) \cup If(ret = Void, {"voidFunction"}),
          !.right = v.real = ret, !.sees = {i}]

-----------------------------------------------------------------------------
(* The author places any op.  Unless AnyCalls, at most one operand of a library
   call is not the parameter of the type that is due. *)

\* The parameter of type t.
ParamOf(t) == CHOOSE i \in DOMAIN Params : Params[i] = t

Fields(o) == {Parsed[o][i] : i \in DOMAIN Parsed[o]}

Exact(o) ==
    [e \in Fields(o) |->
        ParamOf(Runtime[o].takes[CHOOSE i \in DOMAIN Parsed[o] : Parsed[o][i] = e])]

AlmostExact(o) ==
    {Exact(o)} \cup {[Exact(o) EXCEPT ![e] = i] : e \in Fields(o), i \in DOMAIN vals}

\* The arguments and labels that o is tried with.
Calls(o) ==
    IF AnyCalls THEN [Fields(o) -> DOMAIN vals] \X (Labels \cup {Runtime[o].gives})
    ELSE (AlmostExact(o) \X {Runtime[o].gives}) \cup ({Exact(o)} \X Labels)

\* The values that ops with several operands are tried with.
Several == Chosen \cup {i \in DOMAIN vals : i > Len(Params)}

Next ==
    \/ \E o \in Ops : \E call \in Calls(o) : Place(Helper(o, call[1], call[2]))
    \/ \E label \in Labels :
         \/ Place(Const(label)) \/ Place(ArrayNew(label)) \/ Place(OptionNone(label))
         \/ Load(label)
    \/ \E i \in DOMAIN vals :
         \/ Place(PrintNumber(vals[i])) \/ Place(StringFromI64(vals[i]))
         \/ Place(ArrayLength(vals[i]))
         \/ Place(CastI64ToF64(vals[i])) \/ Place(CastF64ToI64(vals[i]))
         \/ Store(vals[i])
         \/ Place(ResultIsOk(i)) \/ Place(OptionIsSome(i))
         \/ Place(MatchBeforeOthers(i))
         \/ End(block + 1, Branch(vals[i])) \/ End(block + 1, Match(i))
         \/ \E ret \in Returns : End(0, Return(i, ret))
         \/ \E label \in Labels :
              \/ Place(Negate(vals[i], label))
              \/ Place(ResultOk(vals[i], label)) \/ Place(ResultErr(vals[i], label))
              \/ Place(OptionSome(vals[i], label))
              \/ Place(ResultUnwrap(i, label)) \/ Place(ResultUnwrapErr(i, label))
              \/ Place(OptionUnwrap(i, label))
              \/ \E f \in Callees : Place(CallFunction(f, vals[i], label))
    \/ \E i, j \in Several :
         \/ Place(Compare(vals[i], vals[j])) \/ Place(StringConcat(vals[i], vals[j]))
         \/ \E shift \in BOOLEAN : Place(Bits(vals[i], vals[j], shift))
         \/ \E label \in Labels :
              \/ \E op \in {"Add", "Div", "Modulo"} :
                   Place(Arithmetic(op, vals[i], vals[j], label))
              \/ Place(Checked(vals[i], vals[j], label))
              \/ Place(ArrayGet(vals[i], vals[j], label))
              \/ Place(ArrayTryGet(vals[i], vals[j], label))
         \/ \E k \in Several : Place(ArrayPut(vals[i], vals[j], vals[k]))

Spec == Init /\ [][Next]_vars

-----------------------------------------------------------------------------

\* E030 counts only when has_result_option_ops found something.
Errors == IF gated THEN diags ELSE diags \ {"E030"}

\* Build b makes a program of the function: code can be emitted for it and,
\* where the validator is run, no diagnostic, error or warning.
Compiled(b) == block = 0 /\ verified /\ (b = "file" => Errors = {})

\* What only a workspace build makes a program of.
Unvalidated(b) == b = "workspace" /\ Errors # {}

\* Type soundness: a program some build makes never gives a library function,
\* an instruction or its caller a value of another type, unless the workspace
\* build did not hear of a diagnostic, or the author did one of the things in
\* Gaps, which no check looks at: what parser, validator, lowering and library
\* each list agree.
Sound ==
    \A b \in Builds : Compiled(b) /\ ~Unvalidated(b) /\ gaps = {} => ~confused

\* The other way round: what is written of a function is accepted, by either
\* build, as long as its nodes are all meant and labelled right and an unwrap
\* follows a check of its value: nothing is reported, not even a warning, and
\* Cranelift's verifier finds nothing.
RightIsAccepted == right /\ gaps = {} => Errors = {} /\ verified

\* As long as no type is reported, what the validator and the lowering believe
\* of a value is what it is, type and register.
BelievedIsTrue ==
    diags \subseteq {"E030", "E034"} /\ gaps = {} /\ verified =>
        /\ \A i \in DOMAIN vals : vals[i] = True(vals[i].real)
        /\ slot \in {NoValue, True(slot.real)}

\* "Checks that Result and Option values ... are always handled": in a program
\* with some Result or Option op, of a file or of a workspace the validator has
\* nothing to say of, no result of a call, of the library or of checked
\* arithmetic is left that nothing has looked at.
FailuresSeen ==
    \A b \in Builds :
        Compiled(b) /\ ~Unvalidated(b) /\ gated /\ gaps = {} => unseen = {}
=============================================================================
