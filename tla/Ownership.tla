----------------------------- MODULE Ownership -----------------------------
(***************************************************************************)
(* What becomes of the heap values of one compiled function               *)
(* (graph/ownership.rs, compiler/lowering.rs, runtime/duumbi_runtime.c).  *)
(*                                                                         *)
(* The function is written down node by node, in the order of its blocks.  *)
(* The ownership checks and the lowering walk the nodes in that same       *)
(* order, and so does a run, which skips the blocks it does not reach; so  *)
(* one step places a node, checks it, lowers it, and executes it when its  *)
(* block is the one the run is in.  Branches go forward only.  What is     *)
(* executed counts when a build takes the finished function.  The build of *)
(* a single file runs the checks and refuses at any diagnostic; the build  *)
(* of a workspace lowers without running them.                             *)
(*                                                                         *)
(* A node is named by its place, an SSA value by the node that defines it, *)
(* and an object on the heap by the SSA value it was made for.  Types are  *)
(* "string", "array" (of strings) and "plain", which stands for references *)
(* and for a node without duumbi:resultType.  The type a node records is   *)
(* whatever its author wrote: the parser keeps it and no check compares it *)
(* with the operation.  Local variables and scalar nodes are left out.     *)
(***************************************************************************)
EXTENDS Naturals, Sequences

CONSTANTS
    MaxNodes,       \* bound: nodes with an identity of their own
    MaxBlocks,      \* bound: blocks of the function
    Capacity        \* ARRAY_INITIAL_CAPACITY

ASSUME BoundAssumption ==
    MaxNodes \in Nat \ {0} /\ MaxBlocks \in Nat \ {0} /\ Capacity \in Nat

VARIABLES
    type,           \* the nodes placed, each with the type it records
    home,           \* node -> its block
    block,          \* the block being filled
    open,           \* it has no terminator yet
    wanted,         \* blocks some Branch names
    dom,            \* block -> the blocks every path to it passes
    moved,          \* moved_sources of check_use_after_move
    dropped,        \* dropped of check_drop_safety
    shared,         \* values with an active shared borrow
    unique,         \* values with an active mutable borrow
    diags,          \* codes of the diagnostics emitted
    vals,           \* value_map: node -> SSA value
    allocs,         \* heap_allocs: pairs of a node and the SSA value kept for it
    verified,       \* every use is dominated by its definition
    at,             \* the block the run is in or jumps to, 0 once it returned
    ptr,            \* SSA value -> the object it points to
    mem,            \* object -> "live" or "freed"
    elems,          \* object -> the objects stored in it
    out,            \* the object the function returned, 0 if none
    faults,         \* what the run did to freed memory
    root,           \* history: node -> the node whose object it borrows, or itself
    lapses          \* history: what the author did that no check looks for

program  == <<type, home, block, open, wanted, dom>>
analysis == <<moved, dropped, shared, unique, diags>>
lowering == <<vals, allocs, verified>>
machine  == <<at, ptr, mem, elems, out, faults>>
history  == <<root, lapses>>
vars     == <<program, analysis, lowering, machine, history>>

Nodes  == 1..MaxNodes
Blocks == 1..MaxBlocks
Heap   == {"string", "array"}       \* is_heap_type
Labels == Heap \cup {"plain"}       \* what an author records
Types  == Labels \cup {"void"}      \* "void": the node has no value
Codes  == {"E021", "E022", "E023", "E025", "E026", "E027"}
Faults == {"doubleFree", "useAfterFree"}
Builds == {"file", "workspace"}
Lapses == {"mislabelled", "consumeAgain", "lateUse", "borrowReturned", "taken",
           "grown", "argumentReturned", "elementsReturned", "otherBlock",
           "earlyReturn"}

Placed   == 1..Len(type)
Values   == {s \in Placed : type[s] # "void"}
New      == Len(type) + 1           \* the node placed next
Consumed == moved \cup dropped
Object(s) == ptr[vals[s]]           \* what node s points to in this run
Runs(s)   == at = block /\ Object(s) # 0

TypeOK ==
    /\ type \in Seq(Types) /\ Len(type) <= MaxNodes
    /\ home \in Seq(Blocks) /\ root \in Seq(Nodes) /\ vals \in Seq(Nodes)
    /\ Len(home) = Len(type) /\ Len(root) = Len(type) /\ Len(vals) = Len(type)
    /\ block \in Blocks /\ open \in BOOLEAN
    /\ wanted \subseteq Blocks /\ dom \in [Blocks -> SUBSET Blocks]
    /\ moved \subseteq Nodes /\ dropped \subseteq Nodes
    /\ shared \subseteq Nodes /\ unique \subseteq Nodes
    /\ diags \subseteq Codes
    /\ allocs \subseteq [node : Nodes, ssa : Nodes]
    /\ verified \in BOOLEAN
    /\ at \in Blocks \cup {0} /\ out \in Nodes \cup {0}
    /\ ptr \in [Nodes -> Nodes \cup {0}]
    /\ mem \in [Nodes -> {"none", "live", "freed"}]
    /\ elems \in [Nodes -> Seq(Nodes)]
    /\ faults \subseteq Faults /\ lapses \subseteq Lapses

Init ==
    /\ type = <<>> /\ home = <<>> /\ root = <<>> /\ vals = <<>>
    /\ block = 1 /\ open = TRUE /\ wanted = {1}
    /\ dom = [b \in Blocks |-> IF b = 1 THEN {1} ELSE Blocks]
    /\ moved = {} /\ dropped = {} /\ shared = {} /\ unique = {} /\ diags = {}
    /\ allocs = {} /\ verified = TRUE
    /\ at = 1 /\ out = 0
    /\ ptr = [v \in Nodes |-> 0]
    /\ mem = [h \in Nodes |-> "none"]
    /\ elems = [h \in Nodes |-> <<>>]
    /\ faults = {} /\ lapses = {}

\* The next node goes into the open block, records type t, borrows from r (or
\* owns, when r is the node itself) and stands for the SSA value v; the value
\* map of the nodes before it becomes known.
PlaceIn(known, t, r, v) ==
    /\ open /\ New <= MaxNodes
    /\ type' = Append(type, t)
    /\ home' = Append(home, block)
    /\ root' = Append(root, r)
    /\ vals' = Append(known, v)
    /\ UNCHANGED <<block, open, wanted, dom>>

Place(t, r, v) == PlaceIn(vals, t, r, v)

If(condition, set) == IF condition THEN set ELSE {}

Emit(codes)   == diags' = diags \cup codes
Remark(notes) == lapses' = lapses \cup notes

\* Cranelift's verifier: the SSA values used here are defined on every path.
Verify(used) ==
    verified' = (verified /\ \A v \in used : home[v] \in dom[block])

\* A run that reads the objects hs, all of them still on the heap or not.
Touch(hs) ==
    If(\E h \in hs : mem[h] = "freed", {"useAfterFree"})

\* The run gets a fresh object for the SSA value of the new node.
FreshObject ==
    IF at = block
    THEN /\ ptr' = [ptr EXCEPT ![New] = New]
         /\ mem' = [mem EXCEPT ![New] = "live"]
    ELSE UNCHANGED <<ptr, mem>>

Track(t) == allocs \cup If(t \in Heap, {[node |-> New, ssa |-> New]})

-----------------------------------------------------------------------------
(* Nodes that make values *)

\* Op::Alloc: lowering goes by the type to allocate, whatever the node
\* records.
Alloc(t, recorded) ==
    /\ Place(recorded, New, New)
    /\ allocs' = Track(t)
    /\ FreshObject
    /\ Remark(If(recorded # t, {"mislabelled"}))
    /\ UNCHANGED <<analysis, verified, at, elems, out, faults>>

\* Any other node with a heap result: lowering goes by the type it records.
Produce(t, recorded) ==
    /\ Place(recorded, New, New)
    /\ allocs' = Track(recorded)
    /\ FreshObject
    /\ Remark(If(recorded # t, {"mislabelled"}))
    /\ UNCHANGED <<analysis, verified, at, elems, out, faults>>

\* A call with the argument s whose callee returns an object of its own.
CallFresh(s, recorded) ==
    /\ Place(recorded, New, New)
    /\ allocs' = Track(recorded)
    /\ Verify({vals[s]})
    /\ FreshObject
    /\ faults' = faults \cup If(Runs(s), Touch({Object(s)}))
    /\ Remark(If(root[s] \in Consumed, {"lateUse"})
              \cup If(recorded # "string", {"mislabelled"}))
    /\ UNCHANGED <<analysis, at, elems, out>>

\* A call whose callee loads its parameter and returns it.
CallIdentity(s) ==
    /\ type[s] # "plain"
    /\ Place(type[s], New, New)
    /\ allocs' = Track(type[s])
    /\ Verify({vals[s]})
    /\ ptr' = IF Runs(s) THEN [ptr EXCEPT ![New] = Object(s)] ELSE ptr
    /\ Remark({"argumentReturned"})
    /\ UNCHANGED <<analysis, at, mem, elems, out, faults>>

-----------------------------------------------------------------------------
(* Ownership nodes *)

\* Mutant: an explicit drop leaves the source to the return as well.
KeepTracked(s) == {a \in allocs : a.node # s \/ a.ssa = s}

Untracked(s) == {a \in allocs : a.node # s}

\* Mutant: a move leaves its source tracked.
TrackedTwice(s) ==
    allocs \cup {[node |-> New, ssa |-> a.ssa] : a \in {x \in allocs : x.node = s}}

\* The SSA value kept for s goes over to the new node.
Retracked(s) ==
    Untracked(s) \cup {[node |-> New, ssa |-> a.ssa] : a \in {x \in allocs : x.node = s}}

Move(s, recorded) ==
    /\ Place(recorded, IF root[s] = s THEN New ELSE root[s], vals[s])
    /\ moved' = moved \cup {s}
    /\ Emit(If(s \in shared \cup unique, {"E027"}))
    /\ allocs' = Retracked(s)
    /\ Verify({vals[s]})
    /\ Remark(If(s \in Consumed, {"consumeAgain"})
              \cup If(home[s] # block, {"otherBlock"})
              \cup If(recorded # type[s], {"mislabelled"}))
    /\ UNCHANGED <<dropped, shared, unique, machine>>

\* Nothing is tracked for a borrow; but Drop frees it too when it records a
\* heap type.
Borrow(s, mutable, recorded) ==
    /\ Place(recorded, root[s], vals[s])
    /\ Emit(If(s \in moved, {"E021"}) \cup If(s \in dropped, {"E026"})
            \cup If(home[s] # block, {"E023"})
            \cup If(s \in unique \/ (mutable /\ s \in shared), {"E022"}))
    /\ shared' = shared \cup If(~mutable, {s})
    /\ unique' = unique \cup If(mutable, {s})
    /\ Verify({vals[s]})
    /\ Remark(If(recorded \in Heap, {"mislabelled"}))
    /\ UNCHANGED <<moved, dropped, allocs, machine>>

\* Lowering frees by the type the source records, and forgets the source.
Drop(s) ==
    /\ Place("void", New, New)
    /\ Emit(If(s \in moved, {"E021"}) \cup If(s \in dropped, {"E025"}))
    /\ dropped' = dropped \cup {s}
    /\ shared' = shared \ {s} /\ unique' = unique \ {s}
    /\ allocs' = Untracked(s)
    /\ Verify({vals[s]})
    /\ IF Runs(s) /\ type[s] \in Heap
       THEN /\ faults' = faults \cup If(mem[Object(s)] = "freed", {"doubleFree"})
            /\ mem' = [mem EXCEPT ![Object(s)] = "freed"]
       ELSE UNCHANGED <<mem, faults>>
    /\ Remark(If(home[s] # block, {"otherBlock"}))
    /\ UNCHANGED <<moved, at, ptr, elems, out>>

-----------------------------------------------------------------------------
(* Arrays *)

\* duumbi_array_push: a full array is reallocated, in place or elsewhere.
Stored(h, x) == Append(elems[h], Object(x))

PushInPlace(c, x) ==
    /\ ptr' = [ptr EXCEPT ![New] = Object(c)]
    /\ elems' = [elems EXCEPT ![Object(c)] = Stored(Object(c), x)]
    /\ UNCHANGED mem

PushGrows(c, x) ==
    /\ Len(elems[Object(c)]) >= Capacity
    /\ ptr' = [ptr EXCEPT ![New] = New]
    /\ elems' = [elems EXCEPT ![New] = Stored(Object(c), x)]
    /\ mem' = [mem EXCEPT ![New] = "live", ![Object(c)] = "freed"]

\* The value map learns the pointer the push returns; heap_allocs keeps the
\* one it has.
Push(c, x) ==
    /\ type[c] = "array" /\ type[x] = "string"
    /\ PlaceIn([vals EXCEPT ![c] = New], "void", New, New)
    /\ Verify({vals[c], vals[x]})
    /\ IF Runs(c) /\ Runs(x)
       THEN /\ PushInPlace(c, x) \/ PushGrows(c, x)
            /\ faults' = faults \cup Touch({Object(c)})
            /\ Remark(If(root[c] \in Consumed, {"lateUse"})
                      \cup If(Len(elems[Object(c)]) >= Capacity, {"grown"}))
       ELSE UNCHANGED <<ptr, mem, elems, faults, lapses>>
    /\ UNCHANGED <<analysis, allocs, at, out>>

\* ArrayGet of an element that is a heap value: the result is tracked.
Take(c) ==
    /\ type[c] = "array"
    /\ Place("string", New, New)
    /\ allocs' = Track("string")
    /\ Verify({vals[c]})
    /\ IF Runs(c)
       THEN /\ \E i \in DOMAIN elems[Object(c)] :
                  ptr' = [ptr EXCEPT ![New] = elems[Object(c)][i]]
            /\ faults' = faults \cup Touch({Object(c)})
       ELSE UNCHANGED <<ptr, faults>>
    /\ Remark({"taken"})
    /\ UNCHANGED <<analysis, at, mem, elems, out>>

-----------------------------------------------------------------------------
(* Terminators *)

Close == open /\ open' = FALSE /\ UNCHANGED <<type, home, root, vals, block>>

\* Freed before a return: what is tracked except the node returned.
AutoDropped(s) == {a.ssa : a \in {x \in allocs : x.node # s}}

\* The objects freed, and those among them freed twice.
Objects(ssas) == {ptr[v] : v \in ssas}
Twice(ssas)   == \/ \E v, w \in ssas : v # w /\ ptr[v] = ptr[w]
                 \/ \E v \in ssas : mem[ptr[v]] = "freed"

\* An array returned with an element the caller finds freed.
Dangling(h, freed) ==
    \E i \in DOMAIN elems[h] : elems[h][i] \in freed \/ mem[elems[h][i]] = "freed"

\* Op::Return of node s: the whole function forgets what it tracked.
Return(s) ==
    /\ Close
    /\ Verify(AutoDropped(s) \cup {vals[s]})
    /\ allocs' = {}
    /\ IF Runs(s) /\ \A v \in AutoDropped(s) : ptr[v] # 0
       THEN LET freed == Objects(AutoDropped(s)) IN
            /\ at' = 0 /\ out' = Object(s)
            /\ mem' = [h \in Nodes |-> IF h \in freed THEN "freed" ELSE mem[h]]
            /\ faults' = faults
                 \cup If(Twice(AutoDropped(s)), {"doubleFree"})
                 \cup If(Object(s) \in freed \/ mem[Object(s)] = "freed"
                         \/ Dangling(Object(s), freed), {"useAfterFree"})
            /\ Remark(If(root[s] # s, {"borrowReturned"})
                      \cup If(root[s] \in Consumed, {"lateUse"})
                      \cup If(elems[Object(s)] # <<>>, {"elementsReturned"})
                      \cup If(\E b \in wanted : b > block, {"earlyReturn"}))
       ELSE /\ Remark(If(\E b \in wanted : b > block, {"earlyReturn"}))
            /\ UNCHANGED <<at, out, mem, faults>>
    /\ UNCHANGED <<wanted, dom, analysis, ptr, elems, root>>

\* Op::Branch: the run goes either way; the checks and the lowering go on with
\* the next block of the list.
Branch(t, f) ==
    /\ Close
    /\ t > block /\ f > block
    /\ wanted' = wanted \cup {t, f}
    /\ dom' = [b \in Blocks |->
                 IF b \in {t, f} THEN dom[b] \cap (dom[block] \cup {b}) ELSE dom[b]]
    /\ at' \in IF at = block THEN {t, f} ELSE {at}
    /\ UNCHANGED <<analysis, allocs, verified, ptr, mem, elems, out, faults, lapses>>

\* Mutant: the walk goes on after the last block.
BlockAfterLast ==
    /\ ~open
    /\ block' = block + 1 /\ open' = TRUE
    /\ UNCHANGED <<type, home, root, vals, wanted, dom, analysis, allocs, verified,
                   machine, lapses>>

NextBlock ==
    /\ ~open
    /\ \E b \in wanted : b > block
    /\ block' = block + 1 /\ open' = TRUE
    /\ UNCHANGED <<type, home, root, vals, wanted, dom, analysis, allocs, verified,
                   machine, lapses>>

-----------------------------------------------------------------------------

Next ==
    \/ \E t \in Heap : \E r \in Labels : Alloc(t, r) \/ Produce(t, r)
    \/ \E s \in Values :
         \/ \E r \in Labels : CallFresh(s, r) \/ Move(s, r)
         \/ \E m \in BOOLEAN : \E r \in Labels : Borrow(s, m, r)
         \/ CallIdentity(s) \/ Drop(s) \/ Take(s) \/ Return(s)
         \/ \E x \in Values : Push(s, x)
    \/ \E t, f \in Blocks : Branch(t, f)
    \/ NextBlock

Spec == Init /\ [][Next]_vars

-----------------------------------------------------------------------------

\* The program is complete: every block named by a Branch is there.
Complete == ~open /\ \A b \in wanted : b <= block

\* Build b makes a program of the function: nothing for Cranelift's verifier
\* and, where the checks are run, no diagnostic.
Compiled(b) == Complete /\ verified /\ (b = "file" => diags = {})

\* What only a workspace build makes a program of.
Unvalidated(b) == b = "workspace" /\ diags # {}

Live == {h \in Nodes : mem[h] = "live"}

\* A program some build makes frees every object it made exactly once, except
\* the one it returns, and never touches a freed one - unless the workspace
\* build did not hear of a diagnostic, or the author did one of the things in
\* Lapses, which nothing looks for.  The checks of graph/ownership.rs against
\* the frees lowering.rs emits.
SafeUnlessLapse ==
    \A b \in Builds :
        Compiled(b) /\ ~Unvalidated(b) /\ lapses = {} /\ at = 0
            => faults = {} /\ Live \subseteq {out}

\* No diagnostic, no lapse, nothing for the verifier.
Clean == diags = {} /\ lapses = {} /\ verified

\* As long as a function is clean and not complete, each value of heap_allocs
\* the run has made points to a live object of its own, and no other object is
\* live: what Return frees is what there is to free, on every path.
TrackedIsLive ==
    Clean /\ ~Complete =>
        /\ \A a \in allocs : ptr[a.ssa] # 0 => mem[ptr[a.ssa]] = "live"
        /\ \A a, b \in allocs : ptr[a.ssa] # 0 /\ ptr[a.ssa] = ptr[b.ssa] => a = b
        /\ Live \subseteq {ptr[a.ssa] : a \in allocs}
=============================================================================
