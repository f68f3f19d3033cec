--------------------------- MODULE OwnershipProofs ---------------------------
(***************************************************************************)
(* Ownership, proved for functions of any number of nodes and blocks.      *)
(*                                                                         *)
(* Two things are tracked along a clean function.  Path: the run heads for *)
(* a block not yet closed, and an SSA value that is defined on every path  *)
(* to that block has been computed by this run.  Owned: until the run      *)
(* returns, the objects it made and did not free are those of heap_allocs, *)
(* one each, and a value whose owner was not moved or dropped points to    *)
(* its owner's object.                                                     *)
(***************************************************************************)
EXTENDS Ownership, TLAPS

\* Nothing is known of the nodes and objects to come.
Fresh ==
    /\ \A h \in Nodes : h > Len(type) => ptr[h] = 0 /\ mem[h] = "none"
    /\ \A v \in Nodes : ptr[v] # 0 => mem[ptr[v]] # "none"
    /\ \A o \in Nodes : \A i \in DOMAIN elems[o] : mem[elems[o][i]] # "none"

\* The tables speak of placed nodes.
Known ==
    /\ \A s \in Placed : vals[s] \in Placed /\ root[s] \in Placed /\ home[s] <= block
    /\ \A a \in allocs : a.node \in Placed /\ a.ssa \in Placed
    /\ Consumed \subseteq Placed

Defined(v) == home[v] \in dom[at] => ptr[v] # 0

Path ==
    Clean /\ at # 0 =>
        /\ at \in wanted /\ at >= block /\ (at = block => open)
        /\ \A k \in dom[at] : k = at \/ k < block \/ (k = block /\ ~open)
        /\ \A s \in Values : Defined(vals[s])
        /\ \A a \in allocs : Defined(a.ssa)
        /\ open /\ at # block => \A v \in Placed : home[v] = block => ptr[v] = 0

Owner(s, a) == a.node = root[s] /\ ptr[vals[s]] \in {0, ptr[a.ssa]}

\* Every value has an owner, and a value with a heap type is its own.
Roots ==
    \A s \in Values : /\ root[s] \in Values /\ root[root[s]] = root[s]
                      /\ type[s] \in Heap => root[s] = s

\* heap_allocs holds owners that were not moved or dropped, once each.
Entries ==
    /\ \A a \in allocs : /\ a.node \in Values /\ root[a.node] = a.node
                         /\ type[a.node] \in Heap /\ a.node \notin Consumed
                         /\ home[a.node] = home[a.ssa]
    /\ \A a, b \in allocs : a.node = b.node => a = b

\* All of them are there.
Owners == \A s \in Values : root[s] \notin Consumed => \E a \in allocs : Owner(s, a)

\* They hold the live objects, one each.
Held ==
    /\ \A a \in allocs : ptr[a.ssa] # 0 => mem[ptr[a.ssa]] = "live"
    /\ \A a, b \in allocs : ptr[a.ssa] # 0 /\ ptr[a.ssa] = ptr[b.ssa] => a = b
    /\ Live \subseteq {ptr[a.ssa] : a \in allocs}

Owned ==
    Clean /\ at # 0 => Roots /\ Entries /\ Owners /\ Held /\ faults = {}

Outcome ==
    Clean /\ at = 0 => Complete /\ faults = {} /\ Live \subseteq {out}

IInv == TypeOK /\ Fresh /\ Known /\ Path /\ Owned /\ Outcome

-----------------------------------------------------------------------------
(* What placing a node does to the tables *)

\* A row at the end of a table leaves the rows before it.
LEMMA Appended ==
    ASSUME NEW S, NEW q \in Seq(S), NEW e \in S
    PROVE  /\ Append(q, e) \in Seq(S) /\ Len(Append(q, e)) = Len(q) + 1
           /\ Len(q) \in Nat
           /\ \A i \in 1..Len(q) : Append(q, e)[i] = q[i]
           /\ Append(q, e)[Len(q) + 1] = e
OBVIOUS

\* The tables after a node with type t, owner r and SSA value v was placed: the
\* nodes before it keep their rows, except that the value map becomes `known`.
Grown(known, t, r, v) ==
    /\ open /\ New \in Nodes /\ New \notin Placed
    /\ Placed \subseteq Nodes /\ Placed' = Placed \cup {New}
    /\ Len(type') = New
    /\ type' \in Seq(Types) /\ home' \in Seq(Blocks)
    /\ root' \in Seq(Nodes) /\ vals' \in Seq(Nodes)
    /\ Len(home') = Len(type') /\ Len(root') = Len(type')
    /\ Len(vals') = Len(type') /\ Len(type') <= MaxNodes
    /\ \A s \in Placed : /\ type'[s] = type[s] /\ home'[s] = home[s]
                         /\ root'[s] = root[s] /\ vals'[s] = known[s]
    /\ type'[New] = t /\ home'[New] = block /\ root'[New] = r /\ vals'[New] = v
    /\ block' = block /\ open' = open /\ wanted' = wanted /\ dom' = dom

\* PlaceIn adds a row to every table.
LEMMA Placement ==
    ASSUME TypeOK, NEW known \in Seq(Nodes), Len(known) = Len(type),
           NEW t \in Types, NEW r \in Nodes, NEW v \in Nodes,
           PlaceIn(known, t, r, v)
    PROVE  Grown(known, t, r, v)
<1>1. /\ type \in Seq(Types) /\ home \in Seq(Blocks) /\ root \in Seq(Nodes)
      /\ Len(home) = Len(type) /\ Len(root) = Len(type) /\ block \in Blocks
      /\ New = Len(type) + 1 /\ New <= MaxNodes /\ MaxNodes \in Nat
      BY BoundAssumption DEF TypeOK, PlaceIn, New
<1>2. Len(type) \in Nat
      BY <1>1
<1>3. /\ type' = Append(type, t) /\ home' = Append(home, block)
      /\ root' = Append(root, r) /\ vals' = Append(known, v)
      BY DEF PlaceIn
<1>4. /\ type' \in Seq(Types) /\ Len(type') = New /\ type'[New] = t
      /\ \A s \in 1..Len(type) : type'[s] = type[s]
      BY <1>1, <1>3, Appended
<1>5. /\ home' \in Seq(Blocks) /\ Len(home') = New /\ home'[New] = block
      /\ \A s \in 1..Len(type) : home'[s] = home[s]
      BY <1>1, <1>3, Appended
<1>6. /\ root' \in Seq(Nodes) /\ Len(root') = New /\ root'[New] = r
      /\ \A s \in 1..Len(type) : root'[s] = root[s]
      BY <1>1, <1>3, Appended
<1>7. /\ vals' \in Seq(Nodes) /\ Len(vals') = New /\ vals'[New] = v
      /\ \A s \in 1..Len(type) : vals'[s] = known[s]
      BY <1>1, <1>3, Appended
<1>8. /\ New \in Nodes /\ New \notin Placed /\ Placed \subseteq Nodes
      /\ Placed' = Placed \cup {New}
      BY <1>1, <1>2, <1>4 DEF Placed, Nodes
<1>9. QED
      BY <1>1, <1>4, <1>5, <1>6, <1>7, <1>8 DEF PlaceIn, Placed, Grown

\* The rows of the tables before a step.
LEMMA Rows ==
    ASSUME TypeOK
    PROVE  /\ vals \in Seq(Nodes) /\ Len(vals) = Len(type) /\ Len(type) \in Nat
           /\ New = Len(type) + 1 /\ New \in Nat \ {0}
           /\ block \in Blocks /\ Nodes \subseteq Nat /\ Blocks \subseteq Nat \ {0}
           /\ 0 \notin Nodes /\ 0 \notin Blocks
           /\ at \in Nat /\ block \in Nat
           /\ \A s \in Placed : vals[s] \in Nodes /\ root[s] \in Nodes /\ home[s] \in Blocks
                                /\ type[s] \in Types
           /\ Values \subseteq Placed /\ Placed \subseteq Nodes
<1>1. /\ type \in Seq(Types) /\ Len(type) <= MaxNodes /\ MaxNodes \in Nat /\ MaxBlocks \in Nat
      /\ home \in Seq(Blocks) /\ root \in Seq(Nodes) /\ vals \in Seq(Nodes)
      /\ Len(home) = Len(type) /\ Len(root) = Len(type) /\ Len(vals) = Len(type)
      /\ block \in Blocks /\ at \in Blocks \cup {0}
      BY BoundAssumption DEF TypeOK
<1>2. Len(type) \in Nat
      BY <1>1
<1>3. \A s \in Placed : vals[s] \in Nodes /\ root[s] \in Nodes /\ home[s] \in Blocks
                        /\ type[s] \in Types
      BY <1>1, <1>2 DEF Placed
<1>4. Values \subseteq Placed /\ Placed \subseteq Nodes
      BY <1>1, <1>2 DEF Placed, Values, Nodes
<1>5. QED
      BY <1>1, <1>2, <1>3, <1>4 DEF Nodes, Blocks, New

-----------------------------------------------------------------------------
(* What placing a node does to the invariant, whatever the node *)

\* Known: the new rows speak of placed nodes when their entries do.
LEMMA KnownPlaced ==
    ASSUME TypeOK, Known, NEW known, NEW t, NEW r, NEW v, Grown(known, t, r, v),
           r \in Placed \cup {New}, v \in Placed \cup {New},
           \A s \in Placed : known[s] \in Placed \cup {New},
           \A a \in allocs' : a.node \in Placed \cup {New} /\ a.ssa \in Placed \cup {New},
           Consumed' \subseteq Placed \cup {New}
    PROVE  Known'
<1>1. /\ Placed' = Placed \cup {New} /\ New \notin Placed /\ block' = block
      /\ home'[New] = block /\ root'[New] = r /\ vals'[New] = v
      /\ \A s \in Placed : home'[s] = home[s] /\ root'[s] = root[s] /\ vals'[s] = known[s]
      BY DEF Grown
<1>2. ASSUME NEW s \in Placed'
      PROVE  vals'[s] \in Placed' /\ root'[s] \in Placed' /\ home'[s] <= block'
  <2>1. CASE s = New
        BY <1>1, <2>1, Rows
  <2>2. CASE s \in Placed
        BY <1>1, <2>2 DEF Known
  <2>3. QED
        BY <1>1, <2>1, <2>2
<1>3. QED
      BY <1>1, <1>2 DEF Known

\* Outcome: a function that is still open has not returned.
LEMMA OutcomePlaced ==
    ASSUME Outcome, Clean' => Clean, open, at' = at
    PROVE  Outcome'
BY DEF Outcome, Complete

\* Path: the new value is defined when the run is in the block, and nothing of
\* the block is defined when the run skips it.
LEMMA PathPlaced ==
    ASSUME TypeOK, Known, Path, Clean' => Clean,
           NEW known, NEW t, NEW r, NEW v, Grown(known, t, r, v),
           at' = at, \A u \in Placed : ptr'[u] = ptr[u],
           at # block => ptr'[New] = 0,
           Clean' /\ at = block /\ (\E s \in Placed : known[s] = New) => ptr'[New] # 0,
           Clean' /\ at = block /\ t # "void" /\ v = New => ptr'[New] # 0,
           \A s \in Placed : known[s] \in {vals[s], New},
           v = New \/ \E s \in Values : v = vals[s],
           \A a \in allocs' : \/ a.ssa = New /\ (Clean' /\ at = block => ptr'[New] # 0)
                              \/ \E b \in allocs : a.ssa = b.ssa
    PROVE  Path'
<1>1. SUFFICES ASSUME Clean', at' # 0 PROVE Path!2'
      BY DEF Path
<1>2. Clean /\ at # 0 /\ Path!2 /\ open /\ open' /\ block' = block /\ dom' = dom
      BY <1>1 DEF Path, Grown
<1>3. /\ Placed' = Placed \cup {New} /\ New \notin Placed /\ home'[New] = block
      /\ \A s \in Placed : home'[s] = home[s] /\ type'[s] = type[s] /\ vals'[s] = known[s]
      /\ type'[New] = t /\ vals'[New] = v /\ wanted' = wanted
      BY DEF Grown
<1>4. \A u \in Placed : Defined(u) => (home'[u] \in dom'[at'] => ptr'[u] # 0)
      BY <1>2, <1>3 DEF Defined
<1>5. block \in dom[at] => at = block
      BY <1>2, Rows
<1>6. (at = block => ptr'[New] # 0) => (home'[New] \in dom'[at'] => ptr'[New] # 0)
      BY <1>2, <1>3, <1>5
<1>7. ASSUME NEW s \in Values'
      PROVE  home'[vals'[s]] \in dom'[at'] => ptr'[vals'[s]] # 0
  <2>1. CASE s = New /\ v = New
        BY <1>1, <1>3, <1>6, <2>1 DEF Values
  <2>2. CASE s = New /\ v # New
    <3>1. PICK q \in Values : v = vals[q]
          BY <2>2
    <3>2. v \in Placed /\ Defined(v)
          BY <1>2, <3>1 DEF Known, Values
    <3>3. QED
          BY <1>3, <1>4, <2>2, <3>2
  <2>3. CASE s \in Placed /\ known[s] = New
        BY <1>1, <1>3, <1>6, <2>3
  <2>4. CASE s \in Placed /\ known[s] = vals[s]
    <3>1. s \in Values /\ vals[s] \in Placed
          BY <1>3, <2>4 DEF Known, Values
    <3>2. QED
          BY <1>2, <1>3, <1>4, <2>4, <3>1
  <2>5. s \in Placed' 
        BY DEF Values
  <2>6. QED
        BY <1>3, <2>1, <2>2, <2>3, <2>4, <2>5
<1>8. ASSUME NEW a \in allocs'
      PROVE  home'[a.ssa] \in dom'[at'] => ptr'[a.ssa] # 0
  <2>1. CASE a.ssa = New /\ (at = block => ptr'[New] # 0)
        BY <1>6, <2>1
  <2>2. CASE \E b \in allocs : a.ssa = b.ssa
        BY <1>2, <1>4, <2>2 DEF Known
  <2>3. QED
        BY <1>1, <2>1, <2>2
<1>9. open' /\ at' # block' => \A u \in Placed' : home'[u] = block' => ptr'[u] = 0
      BY <1>2, <1>3
<1>10. QED
      BY <1>2, <1>3, <1>7, <1>8, <1>9 DEF Defined

\* The new node has no pointer yet, and no pointer goes to its object.
LEMMA NewUnknown ==
    ASSUME TypeOK, Fresh, New \in Nodes
    PROVE  /\ ptr[New] = 0 /\ mem[New] = "none"
           /\ \A u \in Nodes : ptr[u] # New
<1>1. New > Len(type) /\ New # 0
      BY Rows
<1>2. ptr[New] = 0 /\ mem[New] = "none"
      BY <1>1 DEF Fresh
<1>3. ASSUME NEW u \in Nodes, ptr[u] = New
      PROVE  FALSE
  <2>1. mem[ptr[u]] # "none"
        BY <1>1, <1>3 DEF Fresh
  <2>2. QED
        BY <1>2, <1>3, <2>1
<1>4. QED
      BY <1>2, <1>3

\* TypeOK: the tables are well formed, so the rest of it has to be shown.
LEMMA TypePlaced ==
    ASSUME TypeOK, NEW known, NEW t, NEW r, NEW v, Grown(known, t, r, v),
           moved' \subseteq Nodes, dropped' \subseteq Nodes,
           shared' \subseteq Nodes, unique' \subseteq Nodes,
           diags' \subseteq Codes, allocs' \subseteq [node : Nodes, ssa : Nodes],
           verified' \in BOOLEAN, at' = at, out' = out,
           ptr' \in [Nodes -> Nodes \cup {0}],
           mem' \in [Nodes -> {"none", "live", "freed"}],
           elems' \in [Nodes -> Seq(Nodes)],
           faults' \subseteq Faults, lapses' \subseteq Lapses
    PROVE  TypeOK'
BY DEF TypeOK, Grown

\* Fresh: only the new node's pointer is new, and no object is unmade.
LEMMA FreshPlaced ==
    ASSUME TypeOK, Fresh, NEW known, NEW t, NEW r, NEW v, Grown(known, t, r, v),
           \A h \in Nodes : h # New => ptr'[h] = ptr[h],
           \A h \in Nodes : h # New => (mem'[h] = "none" <=> mem[h] = "none"),
           ptr'[New] = 0 \/ mem'[ptr'[New]] # "none",
           \/ elems' = elems
           \/ \A o \in Nodes : \A i \in DOMAIN elems'[o] : mem'[elems'[o][i]] # "none"
    PROVE  Fresh'
<1>1. Len(type') = New /\ New = Len(type) + 1 /\ Len(type) \in Nat /\ New \in Nodes
      /\ Nodes \subseteq Nat /\ ptr \in [Nodes -> Nodes \cup {0}]
      BY Rows DEF Grown, TypeOK
<1>2. ASSUME NEW h \in Nodes, h > Len(type')
      PROVE  ptr'[h] = 0 /\ mem'[h] = "none"
      BY <1>1, <1>2 DEF Fresh
<1>3. ASSUME NEW u \in Nodes, ptr'[u] # 0
      PROVE  mem'[ptr'[u]] # "none"
  <2>1. CASE u = New
        BY <1>3, <2>1
  <2>2. CASE u # New
    <3>1. ptr'[u] = ptr[u] /\ ptr[u] \in Nodes /\ mem[ptr[u]] # "none"
          BY <1>1, <1>3, <2>2 DEF Fresh
    <3>2. ptr[u] # New
          BY <1>1, <3>1 DEF Fresh
    <3>3. QED
          BY <3>1, <3>2
  <2>3. QED
        BY <2>1, <2>2
<1>4. ASSUME NEW o \in Nodes, NEW i \in DOMAIN elems'[o]
      PROVE  mem'[elems'[o][i]] # "none"
  <2>1. CASE elems' = elems
    <3>1. elems[o][i] \in Nodes /\ mem[elems[o][i]] # "none"
          BY <1>4, <2>1 DEF Fresh, TypeOK
    <3>2. elems[o][i] # New
          BY <1>1, <3>1 DEF Fresh
    <3>3. QED
          BY <2>1, <3>1, <3>2
  <2>2. QED
        BY <2>1
<1>5. QED
      BY <1>2, <1>3, <1>4 DEF Fresh

\* Roots: the new node owns its value or borrows from an owner.
LEMMA RootsPlaced ==
    ASSUME Roots, NEW known, NEW t, NEW r, NEW v, Grown(known, t, r, v),
           \/ r = New
           \/ t \notin Heap /\ \E s \in Values : r = root[s]
    PROVE  Roots'
<1>1. /\ Placed' = Placed \cup {New} /\ New \notin Placed
      /\ \A s \in Placed : type'[s] = type[s] /\ root'[s] = root[s]
      /\ type'[New] = t /\ root'[New] = r
      BY DEF Grown
<1>3. Values' \subseteq Values \cup {New} /\ Values \subseteq Placed
      /\ Values \subseteq Values' /\ (New \in Values' <=> t # "void")
      BY <1>1 DEF Values
<1>4. ASSUME NEW s \in Values'
      PROVE  /\ root'[s] \in Values' /\ root'[root'[s]] = root'[s]
             /\ type'[s] \in Heap => root'[s] = s
      BY <1>1, <1>3 DEF Roots
<1>5. QED
      BY <1>4 DEF Roots

-----------------------------------------------------------------------------
(* The nodes that leave the machine alone *)

\* A borrow shares its source's value and owner.
LEMMA BorrowKeeps ==
    ASSUME IInv, NEW s \in Values, NEW m \in BOOLEAN, NEW rec \in Labels,
           Borrow(s, m, rec), Clean' => Clean
    PROVE  IInv'
<1>1. TypeOK /\ Fresh /\ Known /\ Path /\ Owned /\ Outcome
      BY DEF IInv
<1>2. /\ s \in Placed /\ root[s] \in Nodes /\ vals[s] \in Nodes
      /\ root[s] \in Placed /\ vals[s] \in Placed
      BY <1>1, Rows DEF Known
<1>3. Grown(vals, rec, root[s], vals[s]) /\ rec \in Types
      BY <1>1, <1>2, Rows, Placement DEF Borrow, Place, Types
<1>4. /\ moved' = moved /\ dropped' = dropped /\ allocs' = allocs
      /\ at' = at /\ ptr' = ptr /\ mem' = mem /\ elems' = elems /\ out' = out
      /\ faults' = faults
      /\ shared' = shared \cup If(~m, {s}) /\ unique' = unique \cup If(m, {s})
      BY DEF Borrow, machine
<1>5. diags' \subseteq Codes /\ verified' \in BOOLEAN /\ lapses' \subseteq Lapses
      BY <1>1 DEF Borrow, Emit, Verify, Remark, If, Codes, Lapses, TypeOK
<1>6. TypeOK'
  <2>1. shared' \subseteq Nodes /\ unique' \subseteq Nodes
        BY <1>1, <1>2, <1>4, Rows DEF TypeOK, If
  <2>2. QED
        BY <1>1, <1>3, <1>4, <1>5, <2>1, TypePlaced DEF TypeOK
<1>7. ptr[New] = 0
      BY <1>1, <1>3, NewUnknown DEF Grown
<1>8. Fresh'
      BY <1>1, <1>3, <1>4, <1>7, FreshPlaced
<1>9. Known'
      BY <1>1, <1>2, <1>3, <1>4, KnownPlaced DEF Known, Consumed
<1>10. New \notin Placed /\ \A q \in Placed : vals[q] \in Placed
      BY <1>1, <1>3 DEF Known, Grown
<1>11. Path'
      BY <1>1, <1>2, <1>3, <1>4, <1>7, <1>10, PathPlaced
<1>12. Outcome'
      BY <1>1, <1>3, <1>4, OutcomePlaced DEF Grown
<1>13. ASSUME Clean', at' # 0
       PROVE  Roots' /\ Entries' /\ Owners' /\ Held' /\ faults' = {}
  <2>1. Roots /\ Entries /\ Owners /\ Held /\ faults = {}
        BY <1>1, <1>4, <1>13 DEF Owned
  <2>2. /\ Placed' = Placed \cup {New} /\ type'[New] = rec
        /\ root'[New] = root[s] /\ vals'[New] = vals[s]
        /\ \A q \in Placed : /\ type'[q] = type[q] /\ home'[q] = home[q]
                             /\ root'[q] = root[q] /\ vals'[q] = vals[q]
        BY <1>3 DEF Grown
  <2>3. Values' = Values \cup {New} /\ Values \subseteq Placed
        BY <2>2 DEF Values, Labels, Heap
  <2>4. Roots'
    <3>1. rec \notin Heap
          BY <1>13 DEF Borrow, Remark, If, Clean
    <3>2. QED
          BY <1>3, <2>1, <3>1, RootsPlaced
  <2>5. Entries'
        BY <1>1, <1>4, <2>1, <2>2, <2>3 DEF Entries, Known, Consumed
  <2>6. Owners'
    <3>1. ASSUME NEW q \in Values', root'[q] \notin Consumed'
          PROVE  \E a \in allocs' : Owner(q, a)'
      <4>1. CASE q = New
        <5>1. PICK a \in allocs : Owner(s, a)
              BY <1>4, <2>1, <2>2, <3>1, <4>1 DEF Owners, Consumed
        <5>2. QED
              BY <1>4, <2>2, <4>1, <5>1 DEF Owner
      <4>2. CASE q \in Values
        <5>1. PICK a \in allocs : Owner(q, a)
              BY <1>4, <2>1, <2>2, <2>3, <3>1, <4>2 DEF Owners, Consumed
        <5>2. QED
              BY <1>4, <2>2, <2>3, <4>2, <5>1 DEF Owner
      <4>3. QED
            BY <2>3, <4>1, <4>2
    <3>2. QED
          BY <3>1 DEF Owners
  <2>7. Held'
        BY <1>4, <2>1 DEF Held, Live
  <2>8. QED
        BY <1>4, <2>1, <2>4, <2>5, <2>6, <2>7
<1>14. QED
       BY <1>6, <1>8, <1>9, <1>11, <1>12, <1>13 DEF IInv, Owned

\* The entry of the source becomes the entry of the moved value.
LEMMA MoveKeeps ==
    ASSUME IInv, NEW s \in Values, NEW rec \in Labels, Move(s, rec), Clean' => Clean
    PROVE  IInv'
<1> DEFINE r == IF root[s] = s THEN New ELSE root[s]
<1>1. TypeOK /\ Fresh /\ Known /\ Path /\ Owned /\ Outcome
      BY DEF IInv
<1>2. /\ s \in Placed /\ root[s] \in Nodes /\ vals[s] \in Nodes
      /\ root[s] \in Placed /\ vals[s] \in Placed
      BY <1>1, Rows DEF Known
<1>3. Grown(vals, rec, r, vals[s]) /\ rec \in Types
  <2>1. PlaceIn(vals, rec, r, vals[s])
        BY DEF Move, Place
  <2>2. New \in Nodes
        BY <2>1, <1>1, Rows, BoundAssumption DEF PlaceIn, Nodes
  <2>3. rec \in Types
        BY DEF Types
  <2>4. QED
        BY <1>1, <1>2, <2>1, <2>2, <2>3, Rows, Placement
<1>4. /\ moved' = moved \cup {s} /\ dropped' = dropped
      /\ shared' = shared /\ unique' = unique
      /\ allocs' = Retracked(s)
      /\ at' = at /\ ptr' = ptr /\ mem' = mem /\ elems' = elems /\ out' = out
      /\ faults' = faults
      BY DEF Move, machine
<1>5. /\ diags' \subseteq Codes /\ verified' \in BOOLEAN /\ lapses' \subseteq Lapses
      BY <1>1 DEF Move, Emit, Verify, Remark, If, Codes, Lapses, TypeOK
<1>6. \A a \in allocs' : \/ a \in allocs /\ a.node # s
                         \/ \E b \in allocs : b.node = s /\ a = [node |-> New, ssa |-> b.ssa]
      BY <1>4 DEF Retracked, Untracked
<1>7. \A a \in allocs : \/ a \in allocs' /\ a.node # s
                        \/ a.node = s /\ [node |-> New, ssa |-> a.ssa] \in allocs'
      BY <1>4 DEF Retracked, Untracked
<1>8. /\ New \in Nodes /\ New \notin Placed /\ \A q \in Placed : vals[q] \in Placed
      /\ Placed \subseteq Nodes
      BY <1>1, <1>3 DEF Known, Grown
<1>9. TypeOK'
  <2>1. moved' \subseteq Nodes /\ allocs' \subseteq [node : Nodes, ssa : Nodes]
        BY <1>1, <1>2, <1>4, <1>6, <1>8 DEF TypeOK
  <2>2. QED
        BY <1>1, <1>3, <1>4, <1>5, <2>1, TypePlaced DEF TypeOK
<1>10. ptr[New] = 0
      BY <1>1, <1>3, NewUnknown DEF Grown
<1>11. Fresh'
      BY <1>1, <1>3, <1>4, <1>10, FreshPlaced
<1>12. Known'
  <2>1. Consumed' \subseteq Placed \cup {New}
        BY <1>1, <1>2, <1>4 DEF Known, Consumed
  <2>2. \A a \in allocs' : a.node \in Placed \cup {New} /\ a.ssa \in Placed \cup {New}
        BY <1>1, <1>6 DEF Known
  <2>3. QED
        BY <1>1, <1>2, <1>3, <1>8, <2>1, <2>2, KnownPlaced
<1>13. Path'
  <2>1. \A a \in allocs' : \E b \in allocs : a.ssa = b.ssa
        BY <1>6
  <2>2. QED
        BY <1>1, <1>2, <1>3, <1>4, <1>8, <1>10, <2>1, PathPlaced
<1>14. Outcome'
      BY <1>1, <1>3, <1>4, OutcomePlaced DEF Grown
<1>15. ASSUME Clean', at' # 0
       PROVE  Roots' /\ Entries' /\ Owners' /\ Held' /\ faults' = {}
  <2>1. Roots /\ Entries /\ Owners /\ Held /\ faults = {}
        BY <1>1, <1>4, <1>15 DEF Owned
  <2>2. /\ Placed' = Placed \cup {New} /\ type'[New] = rec
        /\ root'[New] = r /\ vals'[New] = vals[s] /\ home'[New] = block
        /\ \A q \in Placed : /\ type'[q] = type[q] /\ home'[q] = home[q]
                             /\ root'[q] = root[q] /\ vals'[q] = vals[q]
        BY <1>3 DEF Grown
  <2>3. s \notin Consumed /\ home[s] = block /\ rec = type[s] /\ rec # "void"
        BY <1>1, <1>15 DEF Move, Remark, If, Clean, TypeOK, Values
  <2>4. Values' = Values \cup {New} /\ Values \subseteq Placed
        BY <2>2, <2>3 DEF Values
  <2>5. Roots'
        BY <1>3, <2>1, <2>3, RootsPlaced DEF Roots
  <2>6. Consumed' = Consumed \cup {s} /\ Consumed \subseteq Placed
        BY <1>1, <1>4 DEF Consumed, Known
  <2>7. Entries'
    <3>1. ASSUME NEW a \in allocs'
          PROVE  /\ a.node \in Values' /\ root'[a.node] = a.node
                 /\ type'[a.node] \in Heap /\ a.node \notin Consumed'
                 /\ home'[a.node] = home'[a.ssa]
      <4>1. CASE a \in allocs /\ a.node # s
            BY <1>1, <2>1, <2>2, <2>4, <2>6, <4>1 DEF Entries, Known
      <4>2. CASE \E b \in allocs : b.node = s /\ a = [node |-> New, ssa |-> b.ssa]
        <5>1. PICK b \in allocs : b.node = s /\ a = [node |-> New, ssa |-> b.ssa]
              BY <4>2
        <5>2. a.node = New /\ a.ssa = b.ssa /\ root[s] = s /\ type[s] \in Heap
              /\ home[s] = home[b.ssa] /\ b.ssa \in Placed
              BY <1>1, <2>1, <5>1 DEF Entries, Known
        <5>3. QED
              BY <1>2, <1>8, <2>2, <2>3, <2>4, <2>6, <5>2
      <4>3. QED
            BY <1>6, <4>1, <4>2
    <3>2. ASSUME NEW a \in allocs', NEW b \in allocs', a.node = b.node
          PROVE  a = b
      <4>1. New # s /\ \A x \in allocs : x.node # New
            BY <1>1, <1>2, <1>8 DEF Known
      <4>2. CASE a.node = New
        <5>1. PICK x \in allocs : x.node = s /\ a = [node |-> New, ssa |-> x.ssa]
              BY <1>6, <4>1, <4>2
        <5>2. PICK y \in allocs : y.node = s /\ b = [node |-> New, ssa |-> y.ssa]
              BY <1>6, <3>2, <4>1, <4>2
        <5>3. QED
              BY <2>1, <5>1, <5>2 DEF Entries
      <4>3. CASE a.node # New
        <5>1. \A x \in allocs' : x.node # New => x \in allocs
              BY <1>6
        <5>2. a \in allocs /\ b \in allocs
              BY <3>2, <4>3, <5>1
        <5>3. QED
              BY <2>1, <3>2, <5>2 DEF Entries
      <4>4. QED
            BY <4>2, <4>3
    <3>3. QED
          BY <3>1, <3>2 DEF Entries
  <2>8. Owners'
    <3>1. ASSUME NEW q \in Values', root'[q] \notin Consumed'
          PROVE  \E a \in allocs' : Owner(q, a)'
      <4>1. CASE q = New /\ root[s] = s
        <5>1. PICK a \in allocs : Owner(s, a)
              BY <2>1, <2>3, <4>1 DEF Owners
        <5>2. [node |-> New, ssa |-> a.ssa] \in allocs'
              BY <1>7, <4>1, <5>1 DEF Owner
        <5>3. QED
              BY <1>4, <2>2, <4>1, <5>1, <5>2 DEF Owner
      <4>2. CASE q = New /\ root[s] # s
        <5>1. PICK a \in allocs : Owner(s, a)
              BY <2>1, <2>2, <2>6, <3>1, <4>2 DEF Owners
        <5>2. a \in allocs'
              BY <1>7, <4>2, <5>1 DEF Owner
        <5>3. QED
              BY <1>4, <2>2, <4>2, <5>1, <5>2 DEF Owner
      <4>3. CASE q \in Values
        <5>1. PICK a \in allocs : Owner(q, a)
              BY <2>1, <2>2, <2>4, <2>6, <3>1, <4>3 DEF Owners
        <5>2. a \in allocs'
              BY <1>7, <2>2, <2>4, <2>6, <3>1, <4>3, <5>1 DEF Owner
        <5>3. QED
              BY <1>4, <2>2, <2>4, <4>3, <5>1, <5>2 DEF Owner
      <4>4. QED
            BY <2>4, <4>1, <4>2, <4>3
    <3>2. QED
          BY <3>1 DEF Owners
  <2>9. Held'
    <3>1. \A a \in allocs' : ptr[a.ssa] # 0 => mem[ptr[a.ssa]] = "live"
          BY <1>6, <2>1 DEF Held
    <3>2. ASSUME NEW a \in allocs', NEW b \in allocs', ptr[a.ssa] # 0,
                 ptr[a.ssa] = ptr[b.ssa]
          PROVE  a = b
          BY <1>6, <2>1, <3>2 DEF Held
    <3>3. ASSUME NEW h \in Live
          PROVE  \E a \in allocs' : h = ptr[a.ssa]
      <4>1. PICK a \in allocs : h = ptr[a.ssa]
            BY <2>1 DEF Held
      <4>2. CASE a.node # s
            BY <1>7, <4>1, <4>2
      <4>3. CASE a.node = s
        <5>1. [node |-> New, ssa |-> a.ssa] \in allocs'
              BY <1>7, <4>3
        <5>2. QED
              BY <4>1, <5>1
      <4>4. QED
            BY <4>2, <4>3
    <3>4. QED
          BY <1>4, <2>1, <3>1, <3>2, <3>3 DEF Held, Live
  <2>10. QED
        BY <1>4, <2>1, <2>5, <2>7, <2>8, <2>9
<1>16. QED
       BY <1>9, <1>11, <1>12, <1>13, <1>14, <1>15 DEF IInv, Owned

-----------------------------------------------------------------------------
(* The nodes that make a value *)

\* A value whose owner is there points to the live object of the owner's entry.
LEMMA OwnedIsLive ==
    ASSUME Owned, Clean, at # 0, NEW s \in Values, root[s] \notin Consumed, Object(s) # 0
    PROVE  /\ mem[Object(s)] = "live"
           /\ \E a \in allocs : a.node = root[s] /\ Object(s) = ptr[a.ssa]
<1>1. PICK a \in allocs : Owner(s, a)
      BY DEF Owned, Owners
<1>2. a.node = root[s] /\ Object(s) = ptr[a.ssa]
      BY <1>1 DEF Owner, Object
<1>3. QED
      BY <1>2 DEF Owned, Held

\* The entry a node that makes a value gets in heap_allocs.
NewEntry == [node |-> New, ssa |-> New]

\* A new value with an object of its own.
LEMMA MakerKeeps ==
    ASSUME IInv, NEW t \in Types, Place(t, New, New), FreshObject,
           analysis' = analysis, at' = at, elems' = elems, out' = out,
           allocs' \subseteq allocs \cup {NewEntry},
           verified' \in BOOLEAN, faults' \subseteq Faults, lapses' \subseteq Lapses,
           Clean' => Clean,
           Clean' /\ at # 0 => t \in Heap /\ allocs' = allocs \cup {NewEntry} /\ faults' = faults
    PROVE  IInv'
<1>1. TypeOK /\ Fresh /\ Known /\ Path /\ Owned /\ Outcome
      BY DEF IInv
<1>2. Grown(vals, t, New, New)
  <2>1. New \in Nodes
        BY <1>1, Rows, BoundAssumption DEF Place, PlaceIn, Nodes
  <2>2. QED
        BY <1>1, <2>1, Rows, Placement DEF Place
<1>3. /\ moved' = moved /\ dropped' = dropped /\ shared' = shared /\ unique' = unique
      /\ diags' = diags
      BY DEF analysis
<1>4. /\ New \in Nodes /\ New \notin Placed /\ \A q \in Placed : vals[q] \in Placed
      /\ Placed \subseteq Nodes /\ at \in Nat /\ 0 \notin Nodes
      BY <1>1, <1>2, Rows DEF Known, Grown
<1>5. /\ ptr[New] = 0 /\ mem[New] = "none"
      /\ \A u \in Nodes : ptr[u] # New
      BY <1>1, <1>4, NewUnknown
<1>6. /\ ptr' \in [Nodes -> Nodes \cup {0}] /\ mem' \in [Nodes -> {"none", "live", "freed"}]
      /\ \A h \in Nodes : h # New => ptr'[h] = ptr[h] /\ mem'[h] = mem[h]
      /\ at = block => ptr'[New] = New /\ mem'[New] = "live"
      /\ at # block => ptr'[New] = 0 /\ mem'[New] = "none"
  <2>1. /\ ptr \in [Nodes -> Nodes \cup {0}] /\ mem \in [Nodes -> {"none", "live", "freed"}]
        BY <1>1 DEF TypeOK
  <2>2. CASE at = block
    <3>1. ptr' = [ptr EXCEPT ![New] = New] /\ mem' = [mem EXCEPT ![New] = "live"]
          BY <2>2 DEF FreshObject
    <3>2. QED
          BY <1>4, <2>1, <2>2, <3>1
  <2>3. CASE at # block
    <3>1. ptr' = ptr /\ mem' = mem
          BY <2>3 DEF FreshObject
    <3>2. QED
          BY <1>4, <1>5, <2>1, <2>3, <3>1
  <2>4. QED
        BY <2>2, <2>3
<1>7. TypeOK'
  <2>1. allocs' \subseteq [node : Nodes, ssa : Nodes]
        BY <1>1, <1>4 DEF TypeOK, NewEntry
  <2>2. QED
        BY <1>1, <1>2, <1>3, <1>6, <2>1, TypePlaced DEF TypeOK
<1>8. Fresh'
      BY <1>1, <1>2, <1>4, <1>6, FreshPlaced
<1>9. Known'
      BY <1>1, <1>2, <1>3, <1>4, KnownPlaced DEF Known, Consumed, NewEntry
<1>10. Path'
  <2>1. \A a \in allocs' : \/ a.ssa = New /\ (at = block => ptr'[New] # 0)
                           \/ \E b \in allocs : a.ssa = b.ssa
        BY <1>4, <1>6 DEF NewEntry
  <2>2. QED
        BY <1>1, <1>2, <1>4, <1>6, <2>1, PathPlaced
<1>11. Outcome'
      BY <1>1, <1>2, OutcomePlaced DEF Grown
<1>12. ASSUME Clean', at' # 0
       PROVE  Roots' /\ Entries' /\ Owners' /\ Held' /\ faults' = {}
  <2>1. /\ Roots /\ Entries /\ Owners /\ Held /\ faults' = {}
        /\ t \in Heap /\ allocs' = allocs \cup {NewEntry} /\ Consumed' = Consumed
        BY <1>1, <1>3, <1>12 DEF Owned, Consumed
  <2>2. /\ Placed' = Placed \cup {New} /\ type'[New] = t
        /\ root'[New] = New /\ vals'[New] = New /\ home'[New] = block
        /\ \A q \in Placed : /\ type'[q] = type[q] /\ home'[q] = home[q]
                             /\ root'[q] = root[q] /\ vals'[q] = vals[q]
        BY <1>2 DEF Grown
  <2>3. Values' = Values \cup {New} /\ Values \subseteq Placed
        BY <2>1, <2>2 DEF Values, Heap
  <2>4. Roots'
        BY <1>2, <2>1, RootsPlaced
  <2>5. Entries'
        BY <1>1, <1>4, <2>1, <2>2, <2>3 DEF Entries, Known, NewEntry
  <2>6. Owners'
    <3>1. ASSUME NEW q \in Values', root'[q] \notin Consumed'
          PROVE  \E a \in allocs' : Owner(q, a)'
      <4>1. CASE q = New
            BY <2>1, <2>2, <4>1 DEF Owner, NewEntry
      <4>2. CASE q \in Values
        <5>1. PICK a \in allocs : Owner(q, a)
              BY <2>1, <2>2, <2>3, <3>1, <4>2 DEF Owners
        <5>2. q \in Placed /\ a.ssa \in Placed /\ vals[q] \in Placed
              BY <1>1, <2>3, <4>2 DEF Known
        <5>3. ptr'[vals'[q]] = ptr[vals[q]] /\ ptr'[a.ssa] = ptr[a.ssa]
              BY <1>4, <1>6, <2>2, <5>2
        <5>4. Owner(q, a)'
              BY <2>2, <5>1, <5>2, <5>3 DEF Owner
        <5>5. QED
              BY <2>1, <5>4
      <4>3. QED
            BY <2>3, <4>1, <4>2
    <3>2. QED
          BY <3>1 DEF Owners
  <2>7. Held'
    <3>1. \A a \in allocs : ptr'[a.ssa] = ptr[a.ssa] /\ ptr[a.ssa] # New /\ a.ssa \in Nodes
          BY <1>1, <1>4, <1>5, <1>6 DEF Known
    <3>2. ASSUME NEW a \in allocs', ptr'[a.ssa] # 0
          PROVE  mem'[ptr'[a.ssa]] = "live"
      <4>1. CASE a = NewEntry
            BY <1>6, <3>2, <4>1 DEF NewEntry
      <4>2. CASE a \in allocs
        <5>1. ptr[a.ssa] \in Nodes /\ mem[ptr[a.ssa]] = "live"
              BY <1>1, <2>1, <3>1, <3>2, <4>2 DEF Held, TypeOK
        <5>2. QED
              BY <1>6, <3>1, <4>2, <5>1
      <4>3. QED
            BY <2>1, <4>1, <4>2
    <3>3. ASSUME NEW a \in allocs', NEW b \in allocs', ptr'[a.ssa] # 0,
                 ptr'[a.ssa] = ptr'[b.ssa]
          PROVE  a = b
      <4>1. CASE a \in allocs /\ b \in allocs
            BY <2>1, <3>1, <3>3, <4>1 DEF Held
      <4>2. CASE a = NewEntry \/ b = NewEntry
        <5>1. ptr'[New] \in {0, New}
              BY <1>6
        <5>2. QED
              BY <2>1, <3>1, <3>3, <4>2, <5>1 DEF NewEntry
      <4>3. QED
            BY <2>1, <4>1, <4>2
    <3>4. ASSUME NEW h \in Live'
          PROVE  \E a \in allocs' : h = ptr'[a.ssa]
      <4>1. CASE h = New
            BY <1>6, <2>1, <3>4, <4>1 DEF Live, NewEntry
      <4>2. CASE h # New
        <5>1. h \in Live
              BY <1>6, <3>4, <4>2 DEF Live
        <5>2. PICK a \in allocs : h = ptr[a.ssa]
              BY <2>1, <5>1 DEF Held
        <5>3. QED
              BY <2>1, <3>1, <5>2
      <4>3. QED
            BY <4>1, <4>2
    <3>5. QED
          BY <3>2, <3>3, <3>4 DEF Held
  <2>8. QED
        BY <2>1, <2>4, <2>5, <2>6, <2>7
<1>13. QED
       BY <1>7, <1>8, <1>9, <1>10, <1>11, <1>12 DEF IInv, Owned

-----------------------------------------------------------------------------
(* Op::Drop *)

\* The drop frees the object of the source's entry, and the entry goes.
LEMMA DropKeeps ==
    ASSUME IInv, NEW s \in Values, Drop(s), Clean' => Clean
    PROVE  IInv'
<1>1. TypeOK /\ Fresh /\ Known /\ Path /\ Owned /\ Outcome
      BY DEF IInv
<1>2. /\ s \in Placed /\ root[s] \in Placed /\ vals[s] \in Placed
      /\ type[s] \in Types /\ s \in Nodes
      BY <1>1, Rows DEF Known
<1>3. Grown(vals, "void", New, New)
  <2>1. New \in Nodes
        BY <1>1, Rows, BoundAssumption DEF Drop, Place, PlaceIn, Nodes
  <2>2. QED
        BY <1>1, <2>1, Rows, Placement DEF Drop, Place, Types
<1>4. /\ moved' = moved /\ dropped' = dropped \cup {s}
      /\ shared' = shared \ {s} /\ unique' = unique \ {s}
      /\ allocs' = Untracked(s)
      /\ at' = at /\ ptr' = ptr /\ elems' = elems /\ out' = out
      BY DEF Drop
<1>5. /\ diags' \subseteq Codes /\ verified' \in BOOLEAN /\ lapses' \subseteq Lapses
      BY <1>1 DEF Drop, Emit, Verify, Remark, If, Codes, Lapses, TypeOK
<1>6. allocs' = {a \in allocs : a.node # s}
      BY <1>4 DEF Untracked
<1>7. /\ New \in Nodes /\ New \notin Placed /\ \A q \in Placed : vals[q] \in Placed
      /\ Placed \subseteq Nodes /\ at \in Nat /\ 0 \notin Nodes
      BY <1>1, <1>3, Rows DEF Known, Grown
<1>8. /\ mem' \in [Nodes -> {"none", "live", "freed"}] /\ faults' \subseteq Faults
      /\ \A h \in Nodes : mem'[h] = "none" <=> mem[h] = "none"
      /\ Clean' /\ at' # 0 => Held' /\ faults' = {}
  <2>1. CASE Runs(s) /\ type[s] \in Heap
    <3>1. /\ faults' = faults \cup If(mem[Object(s)] = "freed", {"doubleFree"})
          /\ mem' = [mem EXCEPT ![Object(s)] = "freed"]
          /\ Object(s) \in Nodes /\ at = block
          BY <1>1, <1>2, <1>7, <2>1 DEF Drop, Runs, Object, TypeOK
    <3>2. /\ mem \in [Nodes -> {"none", "live", "freed"}]
          /\ mem' \in [Nodes -> {"none", "live", "freed"}] /\ mem'[Object(s)] = "freed"
          /\ \A h \in Nodes : h # Object(s) => mem'[h] = mem[h]
          /\ mem[Object(s)] # "none"
          BY <1>1, <1>2, <1>7, <2>1, <3>1 DEF TypeOK, Fresh, Runs, Object
    <3>3. faults' \subseteq Faults
          BY <1>1, <3>1 DEF TypeOK, If, Faults
    <3>4. \A h \in Nodes : mem'[h] = "none" <=> mem[h] = "none"
          BY <3>2
    <3>5. ASSUME Clean', at' # 0
          PROVE  Held' /\ faults' = {}
      <4>1. Roots /\ Entries /\ Held /\ faults = {} /\ Clean /\ at # 0
            BY <1>1, <1>4, <3>5 DEF Owned
      <4>2. root[s] = s /\ s \notin Consumed
            BY <1>1, <2>1, <3>5, <4>1 DEF Roots, Drop, Emit, If, Clean, Consumed, TypeOK
      <4>3. PICK x \in allocs : x.node = s /\ Object(s) = ptr[x.ssa]
            BY <1>1, <2>1, <4>1, <4>2, OwnedIsLive DEF Runs
      <4>4. mem[Object(s)] = "live"
            BY <1>1, <2>1, <4>1, <4>2, OwnedIsLive DEF Runs
      <4>5. ASSUME NEW a \in allocs', ptr[a.ssa] # 0
            PROVE  mem'[ptr[a.ssa]] = "live"
        <5>1. a \in allocs /\ a # x /\ ptr[a.ssa] # ptr[x.ssa]
              BY <1>6, <4>1, <4>3, <4>5 DEF Held
        <5>2. ptr[a.ssa] \in Nodes
              BY <1>1, <1>7, <4>5, <5>1 DEF TypeOK, Known
        <5>3. QED
              BY <3>2, <4>1, <4>3, <4>5, <5>1, <5>2 DEF Held
      <4>6. ASSUME NEW h \in Live'
            PROVE  \E a \in allocs' : h = ptr[a.ssa]
        <5>1. h \in Live /\ h # Object(s)
              BY <3>2, <4>6 DEF Live
        <5>2. PICK a \in allocs : h = ptr[a.ssa]
              BY <4>1, <5>1 DEF Held
        <5>3. a.node # s
              BY <4>1, <4>3, <5>1, <5>2 DEF Entries
        <5>4. QED
              BY <1>6, <5>2, <5>3
      <4>7. \A a, b \in allocs' : ptr[a.ssa] # 0 /\ ptr[a.ssa] = ptr[b.ssa] => a = b
            BY <1>6, <4>1 DEF Held
      <4>8. faults' = {}
            BY <3>1, <4>1, <4>4 DEF If
      <4>9. QED
            BY <1>4, <4>5, <4>6, <4>7, <4>8 DEF Held
    <3>6. QED
          BY <3>2, <3>3, <3>4, <3>5
  <2>2. CASE ~(Runs(s) /\ type[s] \in Heap)
    <3>1. mem' = mem /\ faults' = faults
          BY <2>2 DEF Drop
    <3>2. ASSUME Clean', at' # 0
          PROVE  Held' /\ faults' = {}
      <4>1. Roots /\ Entries /\ Held /\ faults = {} /\ Clean /\ at # 0
            BY <1>1, <1>4, <3>2 DEF Owned
      <4>2. ASSUME NEW a \in allocs, a.node = s
            PROVE  ptr[a.ssa] = 0
        <5>1. type[s] \in Heap /\ home[s] = home[a.ssa] /\ a.ssa \in Placed
              BY <1>1, <4>1, <4>2 DEF Entries, Known
        <5>2. home[s] = block /\ home[vals[s]] \in dom[block]
              BY <1>1, <3>2 DEF Drop, Remark, Verify, If, Clean, TypeOK
        <5>3. at # block
              BY <1>1, <2>2, <4>1, <5>1, <5>2 DEF Path, Defined, Runs, Object
        <5>4. QED
              BY <1>1, <1>3, <4>1, <5>1, <5>2, <5>3 DEF Path, Grown
      <4>3. ASSUME NEW h \in Live'
            PROVE  \E a \in allocs' : h = ptr[a.ssa]
        <5>1. h \in Live /\ h # 0
              BY <1>7, <3>1, <4>3 DEF Live
        <5>2. PICK a \in allocs : h = ptr[a.ssa]
              BY <4>1, <5>1 DEF Held
        <5>3. QED
              BY <1>6, <4>2, <5>1, <5>2
      <4>4. QED
            BY <1>4, <1>6, <3>1, <4>1, <4>3 DEF Held
    <3>3. QED
          BY <1>1, <3>1, <3>2 DEF TypeOK
  <2>3. QED
        BY <2>1, <2>2
<1>9. TypeOK'
  <2>1. /\ allocs' \subseteq [node : Nodes, ssa : Nodes] /\ dropped' \subseteq Nodes
        /\ shared' \subseteq Nodes /\ unique' \subseteq Nodes
        BY <1>1, <1>2, <1>4, <1>6 DEF TypeOK
  <2>2. QED
        BY <1>1, <1>3, <1>4, <1>5, <1>8, <2>1, TypePlaced DEF TypeOK
<1>10. ptr[New] = 0
      BY <1>1, <1>3, <1>7, NewUnknown DEF Grown
<1>11. Fresh'
      BY <1>1, <1>3, <1>4, <1>8, <1>10, FreshPlaced
<1>12. Known'
      BY <1>1, <1>2, <1>3, <1>4, <1>6, <1>7, KnownPlaced DEF Known, Consumed
<1>13. Path'
      BY <1>1, <1>3, <1>4, <1>6, <1>7, <1>10, PathPlaced
<1>14. Outcome'
      BY <1>1, <1>3, <1>4, OutcomePlaced DEF Grown
<1>15. ASSUME Clean', at' # 0
       PROVE  Roots' /\ Entries' /\ Owners'
  <2>1. Roots /\ Entries /\ Owners /\ Consumed' = Consumed \cup {s}
        BY <1>1, <1>4, <1>15 DEF Owned, Consumed
  <2>2. /\ Placed' = Placed \cup {New} /\ type'[New] = "void"
        /\ \A q \in Placed : /\ type'[q] = type[q] /\ home'[q] = home[q]
                             /\ root'[q] = root[q] /\ vals'[q] = vals[q]
        BY <1>3 DEF Grown
  <2>3. Values' = Values /\ Values \subseteq Placed
        BY <2>2 DEF Values
  <2>4. Roots'
        BY <1>3, <2>1, RootsPlaced
  <2>5. Entries'
        BY <1>1, <1>6, <2>1, <2>2, <2>3 DEF Entries, Known
  <2>6. ASSUME NEW q \in Values', root'[q] \notin Consumed'
        PROVE  \E a \in allocs' : Owner(q, a)'
    <3>1. q \in Placed /\ root'[q] = root[q] /\ vals'[q] = vals[q]
          BY <2>2, <2>3
    <3>2. PICK a \in allocs : Owner(q, a)
          BY <2>1, <2>3, <2>6, <3>1 DEF Owners
    <3>3. a \in allocs'
          BY <1>6, <2>1, <2>6, <3>1, <3>2 DEF Owner
    <3>4. QED
          BY <1>4, <3>1, <3>2, <3>3 DEF Owner
  <2>7. QED
        BY <2>4, <2>5, <2>6 DEF Owners
<1>16. QED
       BY <1>8, <1>9, <1>11, <1>12, <1>13, <1>14, <1>15 DEF IInv, Owned

-----------------------------------------------------------------------------
(* The makers, one by one *)

\* A new value gets at most the new entry.
LEMMA TrackIs ==
    ASSUME NEW t
    PROVE  /\ Track(t) \subseteq allocs \cup {NewEntry}
           /\ t \in Heap => Track(t) = allocs \cup {NewEntry}
BY DEF Track, If, NewEntry

\* Op::Alloc and the nodes lowered by the type they record.
LEMMA AllocKeeps ==
    ASSUME IInv, NEW t \in Heap, NEW rec \in Labels,
           Alloc(t, rec) \/ Produce(t, rec), Clean' => Clean
    PROVE  IInv'
<1>1. /\ Place(rec, New, New) /\ FreshObject /\ allocs' \in {Track(t), Track(rec)}
      /\ analysis' = analysis /\ verified' = verified /\ at' = at /\ elems' = elems
      /\ out' = out /\ faults' = faults /\ lapses' = lapses \cup If(rec # t, {"mislabelled"})
      BY DEF Alloc, Produce, Remark
<1>2. TypeOK
      BY DEF IInv
<1>3. /\ verified' \in BOOLEAN /\ faults' \subseteq Faults /\ lapses' \subseteq Lapses
      /\ rec \in Types
      BY <1>1, <1>2 DEF TypeOK, Lapses, Types, If
<1>4. allocs' \subseteq allocs \cup {NewEntry}
      BY <1>1, TrackIs
<1>5. Clean' => rec \in Heap /\ allocs' = allocs \cup {NewEntry}
      BY <1>1, TrackIs DEF Clean, If
<1>6. QED
      BY <1>1, <1>3, <1>4, <1>5, MakerKeeps

\* A call whose result is an object of its own.
LEMMA CallFreshKeeps ==
    ASSUME IInv, NEW s \in Values, NEW rec \in Labels, CallFresh(s, rec), Clean' => Clean
    PROVE  IInv'
<1>1. /\ Place(rec, New, New) /\ FreshObject /\ allocs' = Track(rec)
      /\ analysis' = analysis /\ at' = at /\ elems' = elems /\ out' = out
      /\ faults' = faults \cup If(Runs(s), Touch({Object(s)}))
      /\ lapses' = lapses \cup (If(root[s] \in Consumed, {"lateUse"})
                                \cup If(rec # "string", {"mislabelled"}))
      BY DEF CallFresh, Remark
<1>2. TypeOK /\ Owned
      BY DEF IInv
<1>3. /\ verified' \in BOOLEAN /\ faults' \subseteq Faults /\ lapses' \subseteq Lapses
      /\ rec \in Types /\ "string" \in Heap
      BY <1>1, <1>2 DEF CallFresh, Verify, TypeOK, Lapses, Faults, Types, Heap, If, Touch
<1>4. allocs' \subseteq allocs \cup {NewEntry}
      BY <1>1, TrackIs
<1>5. ASSUME Clean', at # 0
      PROVE  rec \in Heap /\ allocs' = allocs \cup {NewEntry} /\ faults' = faults
  <2>1. Clean /\ root[s] \notin Consumed /\ rec = "string"
        BY <1>1, <1>5 DEF Clean, If
  <2>2. Runs(s) => mem[Object(s)] = "live"
        BY <1>2, <1>5, <2>1, OwnedIsLive DEF Runs
  <2>3. QED
        BY <1>1, <1>3, <2>1, <2>2, TrackIs DEF Touch, If
<1>6. QED
      BY <1>1, <1>3, <1>4, <1>5, MakerKeeps

\* A step that leaves a lapse has only the tables to keep in order.
LEMMA LapseKeeps ==
    ASSUME TypeOK', Fresh', Known', lapses' # {}
    PROVE  IInv'
BY DEF IInv, Path, Owned, Outcome, Clean

\* A tracked value whose pointer is the argument's or an element.
LEMMA CallIdentityKeeps ==
    ASSUME IInv, NEW s \in Values, CallIdentity(s)
    PROVE  IInv'
<1>1. TypeOK /\ Fresh /\ Known
      BY DEF IInv
<1>2. /\ Place(type[s], New, New) /\ allocs' = Track(type[s])
      /\ ptr' = IF Runs(s) THEN [ptr EXCEPT ![New] = Object(s)] ELSE ptr
      /\ analysis' = analysis /\ at' = at /\ mem' = mem /\ elems' = elems /\ out' = out
      /\ faults' = faults /\ lapses' = lapses \cup {"argumentReturned"}
      BY DEF CallIdentity, Remark
<1>3. New \in Nodes /\ s \in Placed /\ vals[s] \in Nodes /\ type[s] \in Types
      BY <1>1, <1>2, Rows, BoundAssumption DEF Place, PlaceIn, Nodes
<1>4. Grown(vals, type[s], New, New)
      BY <1>1, <1>2, <1>3, Rows, Placement DEF Place
<1>5. /\ moved' = moved /\ dropped' = dropped /\ shared' = shared /\ unique' = unique
      /\ diags' = diags /\ lapses' \subseteq Lapses /\ verified' \in BOOLEAN
      BY <1>1, <1>2 DEF analysis, TypeOK, Lapses, CallIdentity, Verify
<1>6. ptr[New] = 0 /\ Object(s) \in Nodes \cup {0}
      BY <1>1, <1>3, NewUnknown DEF Object, TypeOK
<1>7. /\ ptr' \in [Nodes -> Nodes \cup {0}]
      /\ \A h \in Nodes : h # New => ptr'[h] = ptr[h]
      /\ ptr'[New] = 0 \/ (ptr'[New] = Object(s) /\ Object(s) # 0)
      BY <1>1, <1>2, <1>3, <1>6 DEF TypeOK, Runs
<1>8. allocs' \subseteq allocs \cup {NewEntry}
      BY <1>2, TrackIs
<1>9. TypeOK'
  <2>1. allocs' \subseteq [node : Nodes, ssa : Nodes]
        BY <1>1, <1>3, <1>8 DEF TypeOK, NewEntry
  <2>2. QED
        BY <1>1, <1>2, <1>4, <1>5, <1>7, <2>1, TypePlaced DEF TypeOK
<1>10. Fresh'
  <2>1. Object(s) # 0 => mem[Object(s)] # "none"
        BY <1>1, <1>3 DEF Fresh, Object
  <2>2. QED
        BY <1>1, <1>2, <1>4, <1>7, <2>1, FreshPlaced
<1>11. Known'
      BY <1>1, <1>4, <1>5, <1>8, KnownPlaced DEF Known, Consumed, NewEntry
<1>12. QED
      BY <1>2, <1>9, <1>10, <1>11, LapseKeeps

\* An element handed out by its array.
LEMMA TakeKeeps ==
    ASSUME IInv, NEW c \in Values, Take(c)
    PROVE  IInv'
<1>1. TypeOK /\ Fresh /\ Known
      BY DEF IInv
<1>2. /\ Place("string", New, New) /\ allocs' = Track("string")
      /\ analysis' = analysis /\ at' = at /\ mem' = mem /\ elems' = elems /\ out' = out
      /\ lapses' = lapses \cup {"taken"}
      BY DEF Take, Remark
<1>3. New \in Nodes /\ c \in Placed /\ vals[c] \in Nodes /\ "string" \in Types
      BY <1>1, <1>2, Rows, BoundAssumption DEF Place, PlaceIn, Nodes, Types, Labels, Heap
<1>4. Grown(vals, "string", New, New)
      BY <1>1, <1>2, <1>3, Rows, Placement DEF Place
<1>5. /\ moved' = moved /\ dropped' = dropped /\ shared' = shared /\ unique' = unique
      /\ diags' = diags /\ lapses' \subseteq Lapses /\ verified' \in BOOLEAN
      BY <1>1, <1>2 DEF analysis, TypeOK, Lapses, Take, Verify
<1>6. ptr[New] = 0 /\ 0 \notin Nodes
      BY <1>1, <1>3, NewUnknown, Rows
<1>7. /\ faults' \subseteq Faults
      /\ \/ ptr' = ptr
         \/ \E h \in Nodes : mem[h] # "none" /\ ptr' = [ptr EXCEPT ![New] = h]
  <2>1. CASE Runs(c)
    <3>1. Object(c) \in Nodes
          BY <1>1, <1>3, <2>1 DEF Runs, Object, TypeOK
    <3>2. PICK i \in DOMAIN elems[Object(c)] : ptr' = [ptr EXCEPT ![New] = elems[Object(c)][i]]
          BY <2>1 DEF Take
    <3>3. elems[Object(c)][i] \in Nodes /\ mem[elems[Object(c)][i]] # "none"
          BY <1>1, <3>1, <3>2 DEF TypeOK, Fresh
    <3>4. faults' \subseteq Faults
          BY <1>1, <2>1 DEF Take, Touch, If, Faults, TypeOK
    <3>5. QED
          BY <3>1, <3>2, <3>3, <3>4
  <2>2. CASE ~Runs(c)
        BY <1>1, <2>2 DEF Take, TypeOK
  <2>3. QED
        BY <2>1, <2>2
<1>8. /\ ptr' \in [Nodes -> Nodes \cup {0}]
      /\ \A h \in Nodes : h # New => ptr'[h] = ptr[h]
      /\ ptr'[New] = 0 \/ mem'[ptr'[New]] # "none"
  <2>1. CASE ptr' = ptr
        BY <1>1, <1>6, <2>1 DEF TypeOK
  <2>2. CASE \E h \in Nodes : mem[h] # "none" /\ ptr' = [ptr EXCEPT ![New] = h]
    <3>1. PICK h \in Nodes : mem[h] # "none" /\ ptr' = [ptr EXCEPT ![New] = h]
          BY <2>2
    <3>2. QED
          BY <1>1, <1>2, <1>3, <3>1 DEF TypeOK
  <2>3. QED
        BY <1>7, <2>1, <2>2
<1>9. allocs' \subseteq allocs \cup {NewEntry}
      BY <1>2, TrackIs
<1>10. TypeOK'
  <2>1. allocs' \subseteq [node : Nodes, ssa : Nodes]
        BY <1>1, <1>3, <1>9 DEF TypeOK, NewEntry
  <2>2. QED
        BY <1>1, <1>2, <1>4, <1>5, <1>7, <1>8, <2>1, TypePlaced DEF TypeOK
<1>11. Fresh'
      BY <1>1, <1>2, <1>4, <1>8, FreshPlaced
<1>12. Known'
      BY <1>1, <1>4, <1>5, <1>9, KnownPlaced DEF Known, Consumed, NewEntry
<1>13. QED
      BY <1>2, <1>10, <1>11, <1>12, LapseKeeps

-----------------------------------------------------------------------------
(* ArrayPush *)

\* What a push leaves in memory, in place or not, is well formed.
LEMMA StoredObjects ==
    ASSUME TypeOK, Fresh, New \in Nodes, NEW c \in Values, NEW x \in Values,
           Runs(c), Runs(x), PushInPlace(c, x) \/ PushGrows(c, x)
    PROVE  /\ ptr' \in [Nodes -> Nodes \cup {0}]
           /\ mem' \in [Nodes -> {"none", "live", "freed"}]
           /\ elems' \in [Nodes -> Seq(Nodes)]
           /\ \A h \in Nodes : h # New => ptr'[h] = ptr[h] /\ (mem'[h] = "none" <=> mem[h] = "none")
           /\ ptr'[New] # 0 /\ mem'[ptr'[New]] # "none"
           /\ \A o \in Nodes : \A i \in DOMAIN elems'[o] : mem'[elems'[o][i]] # "none"
<1> DEFINE oc == Object(c)
           ox == Object(x)
<1>1. /\ oc \in Nodes /\ ox \in Nodes /\ mem[oc] # "none" /\ mem[ox] # "none"
      /\ oc # New /\ ox # New /\ mem[New] = "none" /\ 0 \notin Nodes
  <2>1. vals[c] \in Nodes /\ vals[x] \in Nodes
        BY Rows
  <2>2. QED
        BY <2>1, NewUnknown, Rows DEF Runs, Object, TypeOK, Fresh
<1>2. /\ Append(elems[oc], ox) \in Seq(Nodes)
      /\ \A i \in DOMAIN Append(elems[oc], ox) : mem[Append(elems[oc], ox)[i]] # "none"
  <2>1. elems[oc] \in Seq(Nodes) /\ \A i \in 1..Len(elems[oc]) : mem[elems[oc][i]] # "none"
        BY <1>1 DEF TypeOK, Fresh
  <2>2. /\ Append(elems[oc], ox) \in Seq(Nodes)
        /\ Len(Append(elems[oc], ox)) = Len(elems[oc]) + 1 /\ Len(elems[oc]) \in Nat
        /\ \A i \in 1..Len(elems[oc]) : Append(elems[oc], ox)[i] = elems[oc][i]
        /\ Append(elems[oc], ox)[Len(elems[oc]) + 1] = ox
        BY <1>1, <2>1, Appended
  <2>3. DOMAIN Append(elems[oc], ox) = 1..(Len(elems[oc]) + 1)
        BY <2>2
  <2>4. QED
        BY <1>1, <2>1, <2>2, <2>3
<1>3. /\ ptr \in [Nodes -> Nodes \cup {0}] /\ mem \in [Nodes -> {"none", "live", "freed"}]
      /\ elems \in [Nodes -> Seq(Nodes)]
      /\ \A o \in Nodes : \A i \in DOMAIN elems[o] : elems[o][i] \in Nodes /\ mem[elems[o][i]] # "none"
      BY DEF TypeOK, Fresh
<1>4. CASE PushInPlace(c, x)
  <2>1. /\ ptr' = [ptr EXCEPT ![New] = oc] /\ mem' = mem
        /\ elems' = [elems EXCEPT ![oc] = Append(elems[oc], ox)]
        BY <1>4 DEF PushInPlace, Stored
  <2>2. \A o \in Nodes : \A i \in DOMAIN elems'[o] : mem'[elems'[o][i]] # "none"
        BY <1>1, <1>2, <1>3, <2>1
  <2>3. elems' \in [Nodes -> Seq(Nodes)]
        BY <1>1, <1>2, <1>3, <2>1
  <2>4. /\ ptr' \in [Nodes -> Nodes \cup {0}] /\ ptr'[New] = oc
        /\ \A h \in Nodes : h # New => ptr'[h] = ptr[h]
        BY <1>1, <1>3, <2>1
  <2>5. mem'[ptr'[New]] # "none" /\ ptr'[New] # 0
        BY <1>1, <2>1, <2>4
  <2>6. QED
        BY <1>3, <2>1, <2>2, <2>3, <2>4, <2>5
<1>5. CASE PushGrows(c, x)
  <2>1. /\ ptr' = [ptr EXCEPT ![New] = New]
        /\ elems' = [elems EXCEPT ![New] = Append(elems[oc], ox)]
        /\ mem' = [mem EXCEPT ![New] = "live", ![oc] = "freed"]
        BY <1>5 DEF PushGrows, Stored
  <2>2. /\ mem' \in [Nodes -> {"none", "live", "freed"}]
        /\ mem'[New] = "live" /\ mem'[oc] = "freed"
        /\ \A h \in Nodes : h # New /\ h # oc => mem'[h] = mem[h]
        BY <1>1, <1>3, <2>1
  <2>3. \A h \in Nodes : mem[h] # "none" => mem'[h] # "none"
        BY <2>2
  <2>4. \A i \in DOMAIN Append(elems[oc], ox) : Append(elems[oc], ox)[i] \in Nodes
        BY <1>2
  <2>5. \A o \in Nodes : \A i \in DOMAIN elems'[o] : mem'[elems'[o][i]] # "none"
        BY <1>1, <1>2, <1>3, <2>1, <2>3, <2>4
  <2>6. elems' \in [Nodes -> Seq(Nodes)]
        BY <1>1, <1>2, <1>3, <2>1
  <2>7. /\ ptr' \in [Nodes -> Nodes \cup {0}] /\ ptr'[New] = New
        /\ \A h \in Nodes : h # New => ptr'[h] = ptr[h]
        BY <1>1, <1>3, <2>1
  <2>8. \A h \in Nodes : h # New => (mem'[h] = "none" <=> mem[h] = "none")
        BY <1>1, <2>2
  <2>9. QED
        BY <1>1, <2>2, <2>5, <2>6, <2>7, <2>8
<1>6. QED
      BY <1>4, <1>5

\* The pushed array keeps its object; only its SSA value is new.
LEMMA PushKeeps ==
    ASSUME IInv, NEW c \in Values, NEW x \in Values, Push(c, x), Clean' => Clean
    PROVE  IInv'
<1> DEFINE known == [vals EXCEPT ![c] = New]
<1>1. TypeOK /\ Fresh /\ Known /\ Path /\ Owned /\ Outcome
      BY DEF IInv
<1>2. /\ c \in Placed /\ x \in Placed /\ New \in Nodes /\ 0 \notin Nodes /\ Values \subseteq Placed
      BY <1>1, Rows, BoundAssumption DEF Push, PlaceIn, Nodes
<1>3. /\ known \in Seq(Nodes) /\ Len(known) = Len(type) /\ known[c] = New
      /\ \A q \in Placed : q # c => known[q] = vals[q]
  <2>1. vals \in Seq(Nodes) /\ Len(vals) = Len(type)
        BY <1>1, Rows
  <2>2. QED
        BY <1>2, <2>1 DEF Placed
<1>4. Grown(known, "void", New, New)
      BY <1>1, <1>2, <1>3, Placement DEF Push, Types
<1>5. /\ moved' = moved /\ dropped' = dropped /\ shared' = shared /\ unique' = unique
      /\ diags' = diags /\ allocs' = allocs /\ at' = at /\ out' = out
      /\ verified' = (verified /\ \A v \in {vals[c], vals[x]} : home[v] \in dom[block])
      BY DEF Push, analysis, Verify
<1>6. New \notin Placed /\ Placed \subseteq Nodes /\ \A q \in Placed : vals[q] \in Placed
      BY <1>1, <1>4 DEF Known, Grown
<1>7. /\ ptr' \in [Nodes -> Nodes \cup {0}]
      /\ mem' \in [Nodes -> {"none", "live", "freed"}]
      /\ elems' \in [Nodes -> Seq(Nodes)]
      /\ \A h \in Nodes : h # New => ptr'[h] = ptr[h] /\ (mem'[h] = "none" <=> mem[h] = "none")
      /\ ptr'[New] = 0 \/ mem'[ptr'[New]] # "none"
      /\ \A o \in Nodes : \A i \in DOMAIN elems'[o] : mem'[elems'[o][i]] # "none"
      /\ faults' \subseteq Faults /\ lapses' \subseteq Lapses
  <2>1. CASE Runs(c) /\ Runs(x)
    <3>1. PushInPlace(c, x) \/ PushGrows(c, x)
          BY <2>1 DEF Push
    <3>2. faults' \subseteq Faults /\ lapses' \subseteq Lapses
          BY <1>1, <2>1 DEF Push, Remark, Touch, If, Faults, Lapses, TypeOK
    <3>3. QED
          BY <1>1, <1>2, <2>1, <3>1, <3>2, StoredObjects
  <2>2. CASE ~(Runs(c) /\ Runs(x))
    <3>1. ptr' = ptr /\ mem' = mem /\ elems' = elems /\ faults' = faults /\ lapses' = lapses
          BY <2>2 DEF Push
    <3>2. QED
          BY <1>1, <1>2, <3>1, NewUnknown DEF TypeOK, Fresh
  <2>3. QED
        BY <2>1, <2>2
<1>8. TypeOK'
      BY <1>1, <1>4, <1>5, <1>7, TypePlaced DEF TypeOK
<1>9. Fresh'
      BY <1>1, <1>4, <1>7, FreshPlaced
<1>10. Known'
      BY <1>1, <1>3, <1>4, <1>5, <1>6, KnownPlaced DEF Known, Consumed
<1>11. Outcome'
      BY <1>1, <1>4, <1>5, OutcomePlaced DEF Grown
<1>12. ptr[New] = 0
      BY <1>1, <1>2, NewUnknown
<1>13. ASSUME Clean', at = block
       PROVE  /\ root[c] \notin Consumed /\ ptr' = [ptr EXCEPT ![New] = Object(c)]
              /\ Object(c) # 0 /\ mem' = mem /\ faults' = faults \cup Touch({Object(c)})
  <2>1. Clean /\ at # 0 /\ home[vals[c]] \in dom[block] /\ home[vals[x]] \in dom[block]
        BY <1>1, <1>5, <1>13, Rows DEF Clean, TypeOK
  <2>2. Runs(c) /\ Runs(x)
        BY <1>1, <1>13, <2>1 DEF Path, Defined, Runs, Object
  <2>3. root[c] \notin Consumed /\ ~(Len(elems[Object(c)]) >= Capacity)
        BY <1>13, <2>2 DEF Push, Remark, Clean, If
  <2>4. PushInPlace(c, x) /\ faults' = faults \cup Touch({Object(c)})
        BY <2>2, <2>3 DEF Push, PushGrows
  <2>5. QED
        BY <2>2, <2>3, <2>4 DEF PushInPlace, Runs
<1>14. at # block => ptr' = ptr /\ mem' = mem /\ faults' = faults
       BY DEF Push, Runs
<1>15. Path'
  <2>1. Clean' /\ at = block => ptr'[New] # 0
        BY <1>1, <1>2, <1>13 DEF TypeOK
  <2>2. at # block => ptr'[New] = 0
        BY <1>12, <1>14
  <2>3. \A u \in Placed : ptr'[u] = ptr[u]
        BY <1>6, <1>7
  <2>4. \A s \in Placed : known[s] \in {vals[s], New}
        BY <1>3
  <2>5. \A a \in allocs' : \E b \in allocs : a.ssa = b.ssa
        BY <1>5
  <2>6. "void" = "void" /\ at' = at
        BY <1>5
  <2>7. QED
        BY <1>1, <1>4, <2>1, <2>2, <2>3, <2>4, <2>5, <2>6, PathPlaced
<1>16. ASSUME Clean', at' # 0
       PROVE  Roots' /\ Entries' /\ Owners' /\ Held' /\ faults' = {}
  <2>1. Roots /\ Entries /\ Owners /\ Held /\ faults = {} /\ Consumed' = Consumed /\ Clean /\ at # 0
        BY <1>1, <1>5, <1>16 DEF Owned, Consumed
  <2>2. /\ Placed' = Placed \cup {New} /\ type'[New] = "void"
        /\ \A q \in Placed : /\ type'[q] = type[q] /\ home'[q] = home[q]
                             /\ root'[q] = root[q] /\ vals'[q] = known[q]
        BY <1>4 DEF Grown
  <2>3. Values' = Values
        BY <1>6, <2>2 DEF Values
  <2>4. Roots'
        BY <1>4, <2>1, RootsPlaced
  <2>5. Entries'
        BY <1>1, <1>5, <2>1, <2>2, <2>3 DEF Entries, Known
  <2>6. \A v \in Placed : ptr'[v] = ptr[v]
        BY <1>6, <1>7
  <2>7. mem' = mem
        BY <1>13, <1>14, <1>16
  <2>8. ptr'[New] \in {0, Object(c)}
        BY <1>1, <1>2, <1>12, <1>13, <1>14, <1>16 DEF TypeOK
  <2>9. ASSUME NEW q \in Values', root'[q] \notin Consumed'
        PROVE  \E a \in allocs' : Owner(q, a)'
    <3>1. q \in Values /\ q \in Placed /\ root'[q] = root[q] /\ vals'[q] = known[q]
          BY <1>2, <2>2, <2>3
    <3>2. PICK a \in allocs : Owner(q, a)
          BY <2>1, <2>9, <3>1 DEF Owners
    <3>3. a.ssa \in Placed /\ vals[q] \in Placed
          BY <1>1, <3>1 DEF Known
    <3>4. CASE q = c
          BY <1>3, <1>5, <2>6, <2>8, <3>1, <3>2, <3>3, <3>4 DEF Owner, Object
    <3>5. CASE q # c
          BY <1>3, <1>5, <2>6, <3>1, <3>2, <3>3, <3>5 DEF Owner
    <3>6. QED
          BY <3>4, <3>5
  <2>10. Held'
        BY <1>1, <1>5, <2>1, <2>6, <2>7 DEF Held, Live, Known
  <2>11. faults' = {}
    <3>1. CASE at = block
      <4>1. mem[Object(c)] = "live"
            BY <1>1, <1>13, <1>16, <2>1, <3>1, OwnedIsLive
      <4>2. QED
            BY <1>13, <1>16, <2>1, <3>1, <4>1 DEF Touch, If
    <3>2. QED
          BY <1>14, <2>1, <3>1
  <2>12. QED
        BY <2>4, <2>5, <2>9, <2>10, <2>11 DEF Owners
<1>17. QED
       BY <1>8, <1>9, <1>10, <1>11, <1>15, <1>16 DEF IInv, Owned

-----------------------------------------------------------------------------
(* Terminators *)

\* A return frees what is tracked but the node it returns: at a clean return
\* that is every live object but the one returned, each of them once.
LEMMA ReturnKeeps ==
    ASSUME IInv, NEW s \in Values, Return(s), Clean' => Clean
    PROVE  IInv'
<1> DEFINE dropping == AutoDropped(s)
           freed == Objects(AutoDropped(s))
<1>1. TypeOK /\ Fresh /\ Known /\ Path /\ Owned /\ Outcome
      BY DEF IInv
<1>2. /\ open /\ ~open' /\ type' = type /\ home' = home /\ root' = root /\ vals' = vals
      /\ block' = block /\ wanted' = wanted /\ dom' = dom /\ ptr' = ptr /\ elems' = elems
      /\ moved' = moved /\ dropped' = dropped /\ shared' = shared /\ unique' = unique
      /\ diags' = diags /\ allocs' = {}
      /\ verified' = (verified /\ \A v \in dropping \cup {vals[s]} : home[v] \in dom[block])
      BY DEF Return, Close, Verify, analysis
<1>3. /\ s \in Placed /\ vals[s] \in Placed /\ Placed \subseteq Nodes
      /\ dropping \subseteq Placed /\ 0 \notin Nodes
      BY <1>1, Rows DEF Known, AutoDropped
<1> DEFINE returns == Runs(s) /\ \A v \in dropping : ptr[v] # 0
<1>4. returns => /\ at' = 0 /\ out' = Object(s)
                 /\ mem' = [h \in Nodes |-> IF h \in freed THEN "freed" ELSE mem[h]]
                 /\ faults' = faults
                       \cup If(Twice(dropping), {"doubleFree"})
                       \cup If(Object(s) \in freed \/ mem[Object(s)] = "freed"
                               \/ Dangling(Object(s), freed), {"useAfterFree"})
      BY DEF Return
<1>5. ~returns => at' = at /\ out' = out /\ mem' = mem /\ faults' = faults
      BY DEF Return
<1>6. lapses' \subseteq Lapses
      BY ZenonT(40), <1>1 DEF Return, Remark, If, TypeOK, Lapses
<1>7. mem' \in [Nodes -> {"none", "live", "freed"}]
      BY <1>1, <1>4, <1>5 DEF TypeOK
<1>8. \A h \in Nodes : mem'[h] = "none" <=> mem[h] = "none"
  <2>1. CASE returns
    <3>1. \A h \in freed : mem[h] # "none"
          BY <1>1, <1>3, <2>1 DEF Objects, Fresh
    <3>2. QED
          BY <1>4, <2>1, <3>1
  <2>2. QED
        BY <1>5, <2>1
<1>9. TypeOK'
  <2>1. at' \in Blocks \cup {0} /\ out' \in Nodes \cup {0}
        BY <1>1, <1>3, <1>4, <1>5 DEF TypeOK, Object
  <2>2. faults' \subseteq Faults
        BY <1>1, <1>4, <1>5 DEF TypeOK, If, Faults
  <2>3. verified' \in BOOLEAN
        BY <1>1, <1>2 DEF TypeOK
  <2>4. /\ type' = type /\ home' = home /\ root' = root /\ vals' = vals
        /\ block' = block /\ open' \in BOOLEAN /\ wanted' = wanted /\ dom' = dom
        /\ ptr' = ptr /\ elems' = elems /\ moved' = moved /\ dropped' = dropped
        /\ shared' = shared /\ unique' = unique /\ diags' = diags /\ allocs' = {}
        BY <1>2 DEF Return, Close
  <2>5. QED
        BY <1>1, <1>6, <1>7, <2>1, <2>2, <2>3, <2>4 DEF TypeOK
<1>10. Fresh'
  <2>1. \A o \in Nodes : \A i \in DOMAIN elems[o] : elems[o][i] \in Nodes
        BY <1>1 DEF TypeOK
  <2>2. \A v \in Nodes : ptr[v] # 0 => ptr[v] \in Nodes
        BY <1>1 DEF TypeOK
  <2>3. QED
        BY <1>1, <1>2, <1>8, <2>1, <2>2 DEF Fresh
<1>11. Known'
       BY <1>1, <1>2 DEF Known, Placed, Consumed
<1>12. ASSUME Clean'
       PROVE  /\ Clean /\ at = block /\ at # 0 /\ returns
              /\ \A b \in wanted : b <= block
  <2>1. Clean /\ at # 0
        BY <1>1, <1>2, <1>12 DEF Outcome, Complete
  <2>2. ~\E b \in wanted : b > block
        BY <1>12 DEF Return, Clean, Remark, If
  <2>3. at = block /\ \A b \in wanted : b <= block
        BY <1>1, <2>1, <2>2, Rows DEF Path, TypeOK, Blocks
  <2>4. \A v \in dropping \cup {vals[s]} : home[v] \in dom[at]
        BY <1>2, <1>12, <2>3 DEF Clean
  <2>5. \A v \in dropping \cup {vals[s]} : ptr[v] # 0
        BY <1>1, <2>1, <2>4 DEF Path, Defined, AutoDropped
  <2>6. QED
        BY <2>1, <2>3, <2>5 DEF Runs, Object
<1>13. Path' /\ Owned'
       BY <1>4, <1>12 DEF Path, Owned
<1>14. ASSUME Clean'
       PROVE  Complete' /\ faults' = {} /\ Live' \subseteq {out'}
  <2>1. Roots /\ Entries /\ Owners /\ Held /\ faults = {}
        BY <1>1, <1>12, <1>14 DEF Owned
  <2>2. root[s] = s /\ s \notin Consumed /\ elems[Object(s)] = <<>>
        BY <1>12, <1>14 DEF Return, Remark, Clean, If
  <2>3. PICK a \in allocs : Owner(s, a)
        BY <2>1, <2>2 DEF Owners
  <2>4. a.node = s /\ Object(s) = ptr[a.ssa] /\ Object(s) # 0
        BY <1>12, <1>14, <2>2, <2>3 DEF Owner, Object, Runs
  <2>5. mem[Object(s)] = "live"
        BY <2>1, <2>4 DEF Held
  <2>6. Object(s) \notin freed
    <3>1. SUFFICES ASSUME NEW b \in allocs, b.node # s, ptr[b.ssa] = Object(s) PROVE FALSE
          BY DEF Objects, AutoDropped
    <3>2. QED
          BY <2>1, <2>4, <3>1 DEF Held
  <2>7. ~Twice(dropping)
    <3>1. \A v \in dropping : mem[ptr[v]] = "live"
          BY <1>12, <1>14, <2>1 DEF AutoDropped, Held
    <3>2. \A v, w \in dropping : ptr[v] = ptr[w] => v = w
          BY <1>12, <1>14, <2>1 DEF AutoDropped, Held
    <3>3. QED
          BY <3>1, <3>2 DEF Twice
  <2>8. ~Dangling(Object(s), freed)
        BY <2>2 DEF Dangling
  <2>9. faults' = {}
        BY <1>4, <1>12, <1>14, <2>1, <2>5, <2>6, <2>7, <2>8 DEF If
  <2>10. ASSUME NEW h \in Nodes, mem'[h] = "live"
         PROVE  h = Object(s)
    <3>1. mem[h] = "live" /\ h \notin freed
          BY <1>4, <1>12, <1>14, <2>10
    <3>2. PICK b \in allocs : h = ptr[b.ssa]
          BY <2>1, <3>1 DEF Held, Live
    <3>3. b.node = s
          BY <3>1, <3>2 DEF Objects, AutoDropped
    <3>4. QED
          BY <2>1, <2>4, <3>2, <3>3 DEF Entries
  <2>11. Live' \subseteq {out'}
         BY <1>4, <1>12, <1>14, <2>10 DEF Live
  <2>12. QED
         BY <1>2, <1>12, <1>14, <2>9, <2>11 DEF Complete
<1>15. QED
       BY <1>9, <1>10, <1>11, <1>13, <1>14 DEF IInv, Outcome

\* The conjuncts that no terminator but Return can disturb.
LEMMA HeapKeeps ==
    ASSUME TypeOK, Fresh, Owned, Clean' => Clean, at' # 0 => at # 0,
           type' = type, home' = home, root' = root, vals' = vals,
           UNCHANGED <<moved, dropped, allocs, ptr, mem, elems, faults>>
    PROVE  Fresh' /\ Owned'
<1>1. /\ Nodes' = Nodes /\ Placed' = Placed /\ Values' = Values /\ Consumed' = Consumed
      /\ Live' = Live /\ Len(type') = Len(type)
      BY DEF Nodes, Placed, Values, Consumed, Live
<1>2. Fresh'
      BY <1>1 DEF Fresh
<1>3. Roots => Roots'
      BY <1>1 DEF Roots
<1>4. Entries => Entries'
      BY <1>1 DEF Entries
<1>5. Owners => Owners'
      BY <1>1 DEF Owners, Owner
<1>6. Held => Held'
      BY <1>1 DEF Held
<1>7. QED
      BY <1>2, <1>3, <1>4, <1>5, <1>6 DEF Owned

\* A branch takes the run to a block not yet there, every path to which passes
\* the blocks that every path to this one passes, and this one.
LEMMA BranchKeeps ==
    ASSUME IInv, NEW t \in Blocks, NEW f \in Blocks, Branch(t, f)
    PROVE  IInv'
<1>1. TypeOK /\ Fresh /\ Known /\ Path /\ Owned /\ Outcome
      BY DEF IInv
<1>2. /\ open /\ open' = FALSE /\ type' = type /\ home' = home /\ root' = root /\ vals' = vals
      /\ block' = block /\ t > block /\ f > block
      /\ wanted' = wanted \cup {t, f}
      /\ dom' = [b \in Blocks |->
                   IF b \in {t, f} THEN dom[b] \cap (dom[block] \cup {b}) ELSE dom[b]]
      /\ UNCHANGED <<moved, dropped, shared, unique, diags, allocs, verified, ptr, mem,
                     elems, out, faults, lapses>>
      BY DEF Branch, Close, analysis
<1>3. \/ at = block /\ at' \in {t, f}
      \/ at # block /\ at' = at
      BY DEF Branch
<1>4. /\ block \in Nat \ {0} /\ at \in Nat /\ t \in Nat /\ f \in Nat /\ at \in Blocks \cup {0}
      /\ \A s \in Placed : home[s] \in Nat
      BY <1>1, Rows DEF TypeOK, Blocks
<1>5. (Clean' => Clean) /\ (at' # 0 <=> at # 0)
      BY <1>2, <1>3, <1>4 DEF Clean
<1>6. Fresh' /\ Owned'
      BY <1>1, <1>2, <1>5, HeapKeeps
<1>7. TypeOK'
  <2>1. dom' \in [Blocks -> SUBSET Blocks] /\ wanted' \subseteq Blocks
        BY <1>1, <1>2 DEF TypeOK
  <2>2. at' \in Blocks \cup {0}
        BY <1>1, <1>3 DEF TypeOK
  <2>3. QED
        BY <1>1, <1>2, <2>1, <2>2 DEF TypeOK
<1>8. Known'
      BY <1>1, <1>2 DEF Known, Placed, Consumed
<1>9. Outcome'
      BY <1>1, <1>2, <1>5 DEF Outcome, Complete
<1>10. Placed' = Placed /\ Values' = Values
       BY <1>2 DEF Placed, Values
<1>11. ASSUME Clean', at' # 0
       PROVE  /\ at' \in wanted' /\ at' > block
              /\ \A k \in dom'[at'] : k = at' \/ k \in dom[at]
              /\ \A k \in dom[at] : k < block \/ k = block \/ k = at'
  <2>1. /\ Clean /\ at # 0 /\ at \in Blocks /\ at \in wanted /\ at >= block
        /\ \A k \in dom[at] : k = at \/ k < block
        BY <1>1, <1>2, <1>4, <1>5, <1>11 DEF Path
  <2>2. at' \in Blocks
        BY <1>3, <2>1
  <2>3. QED
        BY <1>2, <1>3, <1>4, <2>1, <2>2
<1>12. ASSUME Clean', at' # 0, NEW v \in Placed, Defined(v)
       PROVE  Defined(v)'
  <2>1. home[v] <= block
        BY <1>1 DEF Known
  <2>2. home[v] # at'
        BY <1>4, <1>11, <1>12, <2>1
  <2>3. QED
        BY <1>2, <1>11, <1>12, <2>2 DEF Defined
<1>13. Path'
  <2>1. SUFFICES ASSUME Clean', at' # 0 PROVE Path!2'
        BY DEF Path
  <2>2. /\ \A s \in Values : vals[s] \in Placed /\ Defined(vals[s])
        /\ \A a \in allocs : a.ssa \in Placed /\ Defined(a.ssa)
        BY <1>1, <1>5, <2>1, Rows DEF Path, Known
  <2>3. \A s \in Values' : Defined(vals[s])'
        BY <1>2, <1>10, <1>12, <2>1, <2>2 DEF Defined
  <2>4. \A a \in allocs' : Defined(a.ssa)'
        BY <1>2, <1>12, <2>1, <2>2 DEF Defined
  <2>5. /\ at' \in wanted' /\ at' > block
        /\ \A k \in dom'[at'] : k = at' \/ k < block \/ k = block
        BY <1>11, <2>1
  <2>6. at' >= block' /\ at' # block'
        BY <1>2, <1>3, <1>4, <2>5
  <2>7. QED
        BY <1>2, <2>3, <2>4, <2>5, <2>6 DEF Defined
<1>14. QED
       BY <1>6, <1>7, <1>8, <1>9, <1>13 DEF IInv

\* The walk goes on with the next block of the list, which the run may skip.
LEMMA NextBlockKeeps ==
    ASSUME IInv, NextBlock
    PROVE  IInv'
<1>1. TypeOK /\ Fresh /\ Known /\ Path /\ Owned /\ Outcome
      BY DEF IInv
<1>2. /\ ~open /\ open' = TRUE /\ type' = type /\ home' = home /\ root' = root /\ vals' = vals
      /\ block' = block + 1 /\ wanted' = wanted /\ dom' = dom
      /\ UNCHANGED <<moved, dropped, shared, unique, diags, allocs, verified, at, ptr, mem,
                     elems, out, faults, lapses>>
      BY DEF NextBlock, analysis, machine
<1>3. PICK b \in wanted : b > block
      BY DEF NextBlock
<1>4. block \in Nat \ {0} /\ at \in Nat /\ (\A s \in Placed : home[s] \in Nat) /\ b \in Blocks
      BY <1>1, Rows DEF TypeOK, Blocks
<1>5. Clean' => Clean
      BY <1>2 DEF Clean
<1>6. Fresh' /\ Owned'
      BY <1>1, <1>2, <1>5, HeapKeeps
<1>7. TypeOK'
  <2>1. block' \in Blocks
        BY <1>2, <1>3, <1>4, BoundAssumption DEF Blocks
  <2>2. QED
        BY <1>1, <1>2, <2>1 DEF TypeOK
<1>8. Placed' = Placed /\ Values' = Values
      BY <1>2 DEF Placed, Values
<1>9. Known'
      BY <1>1, <1>2, <1>4, <1>8 DEF Known, Consumed
<1>10. Outcome'
       BY <1>1, <1>2, <1>3, <1>4, <1>5 DEF Outcome, Complete, TypeOK, Blocks
<1>11. Path'
  <2>1. SUFFICES ASSUME Clean', at' # 0 PROVE Path!2'
        BY DEF Path
  <2>2. Clean /\ at # 0 /\ Path!2 /\ at > block
        BY <1>1, <1>2, <1>4, <1>5, <2>1 DEF Path
  <2>3. /\ \A s \in Values' : Defined(vals[s])'
        /\ \A a \in allocs' : Defined(a.ssa)'
        BY <1>2, <1>8, <2>2 DEF Defined
  <2>4. at' \in wanted' /\ at' >= block' /\ (at' = block' => open')
        BY <1>2, <1>4, <2>2
  <2>5. \A k \in dom'[at'] : k = at' \/ k < block'
    <3>1. at \in Blocks /\ dom \in [Blocks -> SUBSET Blocks] /\ Blocks \subseteq Nat
          BY <1>1, <2>2, Rows DEF TypeOK
    <3>2. \A k \in dom[at] : k \in Nat
          BY <3>1
    <3>3. \A k \in dom[at] : k = at \/ k < block \/ k = block
          BY <2>2
    <3>4. QED
          BY <1>2, <1>4, <3>2, <3>3
  <2>6. \A v \in Placed' : home'[v] # block'
        BY <1>1, <1>2, <1>4, <1>8 DEF Known
  <2>7. QED
        BY <2>3, <2>4, <2>5, <2>6 DEF Defined
<1>12. QED
       BY <1>6, <1>7, <1>9, <1>10, <1>11 DEF IInv

-----------------------------------------------------------------------------
(* The specification *)

\* Diagnostics, lapses and the verifier's refusals are not taken back.
LEMMA CleanBefore ==
    ASSUME TypeOK, [Next]_vars, Clean'
    PROVE  Clean
<1>1. /\ diags \subseteq diags' /\ lapses \subseteq lapses'
      /\ verified' => verified
  <2>1. ASSUME NEW t \in Heap, NEW r \in Labels, Alloc(t, r) \/ Produce(t, r)
        PROVE  diags' = diags /\ lapses \subseteq lapses' /\ verified' = verified
        BY <2>1 DEF Alloc, Produce, Remark, analysis
  <2>2. ASSUME NEW s \in Values, CallIdentity(s) \/ Take(s) \/ Return(s)
        PROVE  diags' = diags /\ lapses \subseteq lapses' /\ (verified' => verified)
        BY <2>2 DEF CallIdentity, Take, Return, Remark, analysis, Verify
  <2>3. ASSUME NEW s \in Values,
               \/ \E r \in Labels : CallFresh(s, r) \/ Move(s, r)
               \/ \E m \in BOOLEAN : \E r \in Labels : Borrow(s, m, r)
               \/ Drop(s)
        PROVE  diags \subseteq diags' /\ lapses \subseteq lapses' /\ (verified' => verified)
        BY <2>3 DEF CallFresh, Move, Borrow, Drop, Emit, Remark, Verify, analysis
  <2>4. ASSUME NEW s \in Values, NEW x \in Values, Push(s, x)
        PROVE  diags' = diags /\ lapses \subseteq lapses' /\ (verified' => verified)
        BY <2>4 DEF Push, Remark, analysis, Verify
  <2>5. ASSUME NEW t \in Blocks, NEW f \in Blocks, Branch(t, f)
        PROVE  diags' = diags /\ lapses' = lapses /\ verified' = verified
        BY <2>5 DEF Branch, analysis
  <2>6. ASSUME NextBlock
        PROVE  diags' = diags /\ lapses' = lapses /\ verified' = verified
        BY <2>6 DEF NextBlock, analysis
  <2>7. CASE UNCHANGED vars
        BY <2>7 DEF vars, analysis, lowering, history
  <2>8. QED
        BY <2>1, <2>2, <2>3, <2>4, <2>5, <2>6, <2>7 DEF Next
<1>2. QED
      BY <1>1 DEF Clean

\* The empty function.
LEMMA InitInv == Init => IInv
<1> SUFFICES ASSUME Init PROVE IInv
    OBVIOUS
<1>1. /\ type = <<>> /\ home = <<>> /\ root = <<>> /\ vals = <<>> /\ allocs = {}
      /\ Len(type) = 0 /\ block = 1 /\ open = TRUE /\ at = 1 /\ wanted = {1}
      /\ moved = {} /\ dropped = {} /\ faults = {} /\ lapses = {} /\ out = 0
      BY DEF Init
<1>2. Placed = {} /\ Values = {} /\ 1 \in Blocks
      BY <1>1, BoundAssumption DEF Placed, Values, Blocks
<1>3. TypeOK
  <2>1. /\ type \in Seq(Types) /\ home \in Seq(Blocks) /\ root \in Seq(Nodes)
        /\ vals \in Seq(Nodes)
        BY <1>1
  <2>2. dom \in [Blocks -> SUBSET Blocks]
        BY <1>2 DEF Init
  <2>3. ptr \in [Nodes -> Nodes \cup {0}] /\ mem \in [Nodes -> {"none", "live", "freed"}]
        BY DEF Init
  <2>4. elems \in [Nodes -> Seq(Nodes)]
    <3>1. <<>> \in Seq(Nodes)
          OBVIOUS
    <3>2. QED
          BY <3>1 DEF Init
  <2>5. QED
        BY <1>1, <1>2, <2>1, <2>2, <2>3, <2>4, BoundAssumption DEF TypeOK, Init
<1>4. Fresh
  <2>1. \A h \in Nodes : ptr[h] = 0 /\ mem[h] = "none" /\ elems[h] = <<>>
        BY DEF Init
  <2>2. QED
        BY <2>1 DEF Fresh
<1>5. Known
      BY <1>1, <1>2 DEF Known, Consumed
<1>6. Path
  <2>1. dom[1] = {1}
        BY <1>2 DEF Init
  <2>2. QED
        BY <1>1, <1>2, <2>1 DEF Path
<1>7. Roots /\ Entries /\ Owners
      BY <1>1, <1>2 DEF Roots, Entries, Owners
<1>8. Held
      BY <1>1 DEF Held, Live, Init
<1>9. QED
      BY <1>1, <1>3, <1>4, <1>5, <1>6, <1>7, <1>8 DEF IInv, Owned, Outcome

\* Every step keeps the invariant.
LEMMA NextInv == IInv /\ [Next]_vars => IInv'
<1> SUFFICES ASSUME IInv, [Next]_vars PROVE IInv'
    OBVIOUS
<1>1. Clean' => Clean
      BY CleanBefore DEF IInv
<1>2. ASSUME NEW t \in Heap, NEW r \in Labels, Alloc(t, r) \/ Produce(t, r)
      PROVE  IInv'
      BY <1>1, <1>2, AllocKeeps
<1>3. ASSUME NEW s \in Values, NEW r \in Labels, CallFresh(s, r)
      PROVE  IInv'
      BY <1>1, <1>3, CallFreshKeeps
<1>4. ASSUME NEW s \in Values, CallIdentity(s)
      PROVE  IInv'
      BY <1>4, CallIdentityKeeps
<1>5. ASSUME NEW s \in Values, NEW r \in Labels, Move(s, r)
      PROVE  IInv'
      BY <1>1, <1>5, MoveKeeps
<1>6. ASSUME NEW s \in Values, NEW m \in BOOLEAN, NEW r \in Labels, Borrow(s, m, r)
      PROVE  IInv'
      BY <1>1, <1>6, BorrowKeeps
<1>7. ASSUME NEW s \in Values, Drop(s)
      PROVE  IInv'
      BY <1>1, <1>7, DropKeeps
<1>8. ASSUME NEW s \in Values, Take(s)
      PROVE  IInv'
      BY <1>8, TakeKeeps
<1>9. ASSUME NEW s \in Values, Return(s)
      PROVE  IInv'
      BY <1>1, <1>9, ReturnKeeps
<1>10. ASSUME NEW s \in Values, NEW x \in Values, Push(s, x)
       PROVE  IInv'
       BY <1>1, <1>10, PushKeeps
<1>11. ASSUME NEW t \in Blocks, NEW f \in Blocks, Branch(t, f)
       PROVE  IInv'
       BY <1>11, BranchKeeps
<1>12. CASE NextBlock
       BY <1>12, NextBlockKeeps
<1>13. CASE UNCHANGED vars
  <2>1. /\ UNCHANGED <<type, home, block, open, wanted, dom, moved, dropped, shared, unique>>
        /\ UNCHANGED <<diags, vals, allocs, verified, at, ptr, mem, elems, out, faults>>
        /\ UNCHANGED <<root, lapses>>
        BY <1>13 DEF vars, program, analysis, lowering, machine, history
  <2>2. TypeOK /\ Fresh /\ Known /\ Path /\ Owned /\ Outcome
        BY DEF IInv
  <2>3. Fresh' /\ Owned'
        BY <1>1, <2>1, <2>2, HeapKeeps
  <2>4. TypeOK'
        BY <2>1, <2>2 DEF TypeOK
  <2>5. Known'
        BY <2>1, <2>2 DEF Known, Placed, Consumed
  <2>6. Path'
        BY <2>1, <2>2 DEF Path, Clean, Values, Placed, Defined
  <2>7. Outcome'
        BY <2>1, <2>2 DEF Outcome, Clean, Complete, Live
  <2>8. QED
        BY <2>3, <2>4, <2>5, <2>6, <2>7 DEF IInv
<1>14. QED
       BY <1>2, <1>3, <1>4, <1>5, <1>6, <1>7, <1>8, <1>9, <1>10, <1>11, <1>12, <1>13
       DEF Next

\* The tables, the analysis, heap_allocs and the machine stay well formed.
THEOREM TypeCorrect == Spec => []TypeOK
<1>1. IInv => TypeOK
      BY DEF IInv
<1>2. QED
      BY InitInv, NextInv, <1>1, PTL DEF Spec

\* In a clean function, what heap_allocs holds is what is on the heap, on every
\* path of the run (TrackedIsLive).
THEOREM Tracked == Spec => []TrackedIsLive
<1>1. IInv => TrackedIsLive
      BY DEF IInv, Owned, Outcome, Held, TrackedIsLive
<1>2. QED
      BY InitInv, NextInv, <1>1, PTL DEF Spec

\* A function that is compiled - by the build of a file, or by the build of a
\* workspace when there is no diagnostic to hear of - and whose author did none
\* of the things in Lapses, frees each object once and touches none that is
\* freed: of any number of nodes, blocks and elements (SafeUnlessLapse).
THEOREM Safe == Spec => []SafeUnlessLapse
<1>1. ASSUME IInv, NEW b \in Builds, Compiled(b), ~Unvalidated(b), lapses = {}, at = 0
      PROVE  faults = {} /\ Live \subseteq {out}
  <2>1. Clean
        BY <1>1 DEF Compiled, Unvalidated, Builds, Clean
  <2>2. QED
        BY <1>1, <2>1 DEF IInv, Outcome
<1>2. IInv => SafeUnlessLapse
      BY <1>1 DEF SafeUnlessLapse
<1>3. QED
      BY InitInv, NextInv, <1>2, PTL DEF Spec
=============================================================================
