------------------------------ MODULE Approval ------------------------------
(***************************************************************************)
(* The approval ledger of the MCP server (mcp/approval.rs): an agent       *)
(* requests approval of a graph patch, a human approves or rejects it, and *)
(* the agent applies it to main.jsonld while the program is still the one  *)
(* the patch was reviewed on.                                              *)
(*                                                                         *)
(* A server handles one call at a time, but every client starts a server   *)
(* of its own on the workspace, other commands edit the graph, and neither *)
(* the records nor the graph are locked.  A call is one step per file it   *)
(* reads or writes.  Hashes leave node ids out, so different texts may     *)
(* have the same hash.                                                     *)
(***************************************************************************)
EXTENDS Naturals, FiniteSets

CONSTANTS
    Servers,    \* MCP server processes of the workspace
    Ids,        \* approval ids (unique: a timestamp in nanoseconds)
    Ops,        \* patches
    Texts,      \* contents of a module
    Torn,       \* a file whose write died half way: not JSON
    Invalid,    \* the patch does not apply, or its result does not validate
    HashOf,     \* semantic hash of a text
    Patched,    \* patch -> text -> patched text, or Invalid
    MaxUses     \* bound: writes of main under one approval

ASSUME TornAssumption == {Torn, Invalid} \cap Texts = {}
ASSUME HashAssumption == DOMAIN HashOf = Texts
ASSUME UsesAssumption == MaxUses \in Nat \ {0, 1}
ASSUME PatchAssumption == Patched \in [Ops -> [Texts -> Texts \cup {Invalid}]]

VARIABLES
    main,       \* graph/main.jsonld
    lib,        \* the other graph files, as one
    records,    \* id -> session/approvals/<id>.json
    server,     \* server -> the call it is handling
    decisions,  \* id -> the decisions ever saved for it
    uses,       \* id -> how often main was written under it
    raced,      \* ids that two servers handled at the same time
    died        \* ids whose apply died after it wrote main

graph == <<main, lib>>
ghost == <<decisions, uses, raced, died>>
vars  == <<graph, records, server, ghost>>

Hashes == {HashOf[t] : t \in Texts}
Statuses == {"Pending", "Approved", "Rejected", "Applied"}

\* What a record binds the approval to: the patch, the hash of the reviewed
\* candidate, and the hash of the whole graph directory.
Record(o, candidate, workspace) ==
    [status |-> "Pending", ops |-> o, candidate |-> candidate, workspace |-> workspace]
Records == [status : Statuses, ops : Ops, candidate : Hashes,
            workspace : Hashes \X Hashes]

\* No such file, or one whose write died half way.
NoRecord   == [status |-> "absent"]
TornRecord == [status |-> "torn"]

\* at     next step of the call
\* id     the approval it is about
\* rec    the record it loaded or is about to save
\* ops, read   the patch and the text of main it patches
\* alone  nobody else has run since the call began
Steps == {"idle", "hashRequest", "saveRequest", "saveDecision", "readMain",
          "hashApply", "writeMain", "saveApplied"}
NoId  == "none"
ASSUME IdAssumption == NoId \notin Ids

Idle  == [at |-> "idle", id |-> NoId, rec |-> NoRecord, read |-> Torn, alone |-> TRUE]

Busy(p)  == server[p].at # "idle"
At(p, step) == server[p].at = step

TypeOK ==
    /\ main \in Texts \cup {Torn}
    /\ lib \in Texts \cup {Torn}
    /\ records \in [Ids -> Records \cup {NoRecord, TornRecord}]
    /\ \A p \in Servers :
        LET s == server[p] IN
        /\ s.at \in Steps /\ s.id \in Ids \cup {NoId} /\ s.alone \in BOOLEAN
        /\ s.rec # NoRecord /\ s.at # "hashRequest" => s.rec \in Records
        /\ s.at \in {"hashApply", "writeMain"} => s.read \in Texts
    /\ decisions \in [Ids -> SUBSET {"Approved", "Rejected"}]
    /\ uses \in [Ids -> 0..MaxUses]
    /\ raced \subseteq Ids /\ died \subseteq Ids

Init ==
    /\ main \in Texts /\ lib \in Texts
    /\ records = [i \in Ids |-> NoRecord]
    /\ server = [p \in Servers |-> Idle]
    /\ decisions = [i \in Ids |-> {}]
    /\ uses = [i \in Ids |-> 0]
    /\ raced = {} /\ died = {}

-----------------------------------------------------------------------------
\* p begins a call, which ends everybody else's being alone.
Begin(p, s) ==
    /\ ~Busy(p)
    /\ server' = [q \in Servers |->
                    IF q = p THEN [s EXCEPT !.alone = \A r \in Servers \ {p} : ~Busy(r)]
                    ELSE IF Busy(q) THEN [server[q] EXCEPT !.alone = FALSE]
                    ELSE server[q]]
    /\ raced' = raced \cup {i \in Ids : i = s.id /\ \E q \in Servers : server[q].id = i}

Goto(p, step) == server' = [server EXCEPT ![p].at = step]
Return(p)     == server' = [server EXCEPT ![p] = Idle]

\* preview_graph_patch: read and patch main, validate the candidate, then
\* read the directory again to hash it.
Candidate(s)  == Patched[s.rec.ops][s.read]
WorkspaceHash == <<HashOf[main], HashOf[lib]>>
Readable      == Torn \notin {main, lib}

-----------------------------------------------------------------------------
(* request_graph_patch_approval *)

\* A candidate that does not validate is an error: nothing is saved.
RequestRead(p) ==
    /\ main # Torn
    /\ \E o \in Ops :
        /\ Patched[o][main] # Invalid
        /\ Begin(p, [Idle EXCEPT !.at = "hashRequest", !.read = main,
                                 !.rec = [status |-> "Pending", ops |-> o]])
    /\ UNCHANGED <<graph, records, decisions, uses, died>>

RequestHash(p) ==
    /\ At(p, "hashRequest")
    /\ IF Readable
       THEN LET s == server[p] IN
            server' = [server EXCEPT ![p] =
                [s EXCEPT !.at = "saveRequest",
                          !.rec = Record(@.ops, HashOf[Candidate(s)], WorkspaceHash)]]
       ELSE Return(p)
    /\ UNCHANGED <<graph, records, ghost>>

SaveRequest(p) ==
    /\ At(p, "saveRequest")
    /\ \E i \in Ids :
        /\ records[i] = NoRecord
        /\ records' = [records EXCEPT ![i] = server[p].rec]
    /\ Return(p)
    /\ UNCHANGED <<graph, ghost>>

-----------------------------------------------------------------------------
(* decide_record *)

\* Mutant: any record may be decided, again.
AnyRecord(i) == records[i] \in Records

Undecided(i) == records[i].status = "Pending"

Decide(p, i) ==
    /\ Undecided(i)
    /\ Begin(p, [Idle EXCEPT !.at = "saveDecision", !.id = i, !.rec = records[i]])
    /\ UNCHANGED <<graph, records, decisions, uses, died>>

SaveDecision(p) ==
    LET s == server[p] IN
    /\ At(p, "saveDecision")
    /\ \E d \in {"Approved", "Rejected"} :
        /\ records' = [records EXCEPT ![s.id] = [s.rec EXCEPT !.status = d]]
        /\ decisions' = [decisions EXCEPT ![s.id] = @ \cup {d}]
    /\ Return(p)
    /\ UNCHANGED <<graph, uses, raced, died>>

-----------------------------------------------------------------------------
(* apply_approved_graph_patch *)

Apply(p, i) ==
    /\ records[i].status = "Approved"
    /\ Begin(p, [Idle EXCEPT !.at = "readMain", !.id = i, !.rec = records[i]])
    /\ UNCHANGED <<graph, records, decisions, uses, died>>

\* Mutant: main is not parsed before it is patched.
ReadUnparsed(p) ==
    /\ At(p, "readMain")
    /\ IF main = Torn \/ Patched[server[p].rec.ops][main] # Invalid
       THEN server' = [server EXCEPT ![p].at = "hashApply", ![p].read = main]
       ELSE Return(p)
    /\ UNCHANGED <<graph, records, ghost>>

ApplyRead(p) ==
    /\ At(p, "readMain")
    /\ IF main # Torn /\ Patched[server[p].rec.ops][main] # Invalid
       THEN server' = [server EXCEPT ![p].at = "hashApply", ![p].read = main]
       ELSE Return(p)
    /\ UNCHANGED <<graph, records, ghost>>

\* Mutant: only the candidate is compared.
SameCandidate(s) == HashOf[Candidate(s)] = s.rec.candidate

\* The workspace is the reviewed one and the patch gives the reviewed
\* candidate; otherwise the approval is stale.
Current(s) ==
    /\ WorkspaceHash = s.rec.workspace
    /\ HashOf[Candidate(s)] = s.rec.candidate

ApplyHash(p) ==
    /\ At(p, "hashApply")
    /\ IF Readable /\ Current(server[p]) THEN Goto(p, "writeMain") ELSE Return(p)
    /\ UNCHANGED <<graph, records, ghost>>

WriteMain(p) ==
    LET s == server[p] IN
    /\ At(p, "writeMain")
    /\ uses[s.id] < MaxUses
    /\ main' = Candidate(s)
    /\ uses' = [uses EXCEPT ![s.id] = @ + 1]
    /\ Goto(p, "saveApplied")
    /\ UNCHANGED <<lib, records, decisions, raced, died>>

\* Mutant: the record keeps its status.
SaveUnchanged(p) == records' = [records EXCEPT ![server[p].id] = server[p].rec]

MarkApplied(p) ==
    records' = [records EXCEPT ![server[p].id] =
                    [server[p].rec EXCEPT !.status = "Applied"]]

SaveApplied(p) ==
    /\ At(p, "saveApplied")
    /\ MarkApplied(p)
    /\ Return(p)
    /\ UNCHANGED <<graph, ghost>>

-----------------------------------------------------------------------------
\* A server dies, or an I/O error ends the call, and may leave the file it
\* was writing torn.
Die(p) ==
    LET s == server[p] IN
    /\ Busy(p)
    /\ \/ UNCHANGED <<main, records>>
       \/ /\ s.at = "saveRequest"
          /\ \E i \in Ids : /\ records[i] = NoRecord
                            /\ records' = [records EXCEPT ![i] = TornRecord]
          /\ UNCHANGED main
       \/ /\ s.at \in {"saveDecision", "saveApplied"}
          /\ records' = [records EXCEPT ![s.id] = TornRecord]
          /\ UNCHANGED main
       \/ /\ s.at = "writeMain"
          /\ main' = Torn
          /\ UNCHANGED records
    /\ died' = died \cup {i \in Ids : s.at = "saveApplied" /\ i = s.id}
    /\ Return(p)
    /\ UNCHANGED <<lib, decisions, uses, raced>>

\* Any other command writes a graph file.
Edit ==
    /\ \/ main' \in Texts \ {main} /\ UNCHANGED lib
       \/ lib' \in Texts \ {lib} /\ UNCHANGED main
    /\ server' = [q \in Servers |->
                    IF Busy(q) THEN [server[q] EXCEPT !.alone = FALSE] ELSE server[q]]
    /\ UNCHANGED <<records, ghost>>

Next ==
    \/ \E p \in Servers :
        \/ RequestRead(p) \/ RequestHash(p) \/ SaveRequest(p)
        \/ \E i \in Ids : Decide(p, i) \/ Apply(p, i)
        \/ SaveDecision(p)
        \/ ApplyRead(p) \/ ApplyHash(p) \/ WriteMain(p) \/ SaveApplied(p)
        \/ Die(p)
    \/ Edit

Spec == Init /\ [][Next]_vars

-----------------------------------------------------------------------------
(* Properties *)

\* About to write main, a server that nobody has disturbed writes over the
\* reviewed program, gets the reviewed candidate, and holds an approval that
\* is still on disk, given by a human, and not yet used: the checks of
\* apply_approved_graph_patch, also when the request itself was overlapped
\* and its two hashes belong to different programs.
AppliesWhatWasReviewed ==
    \A p \in Servers :
        LET s == server[p] IN
        s.at = "writeMain" /\ s.alone =>
            /\ records[s.id] = s.rec
            /\ "Approved" \in decisions[s.id]
            /\ WorkspaceHash = s.rec.workspace
            /\ s.read = main
            /\ HashOf[Candidate(s)] = s.rec.candidate

\* A decision is final: unless two servers handled the same approval at the
\* same time, nobody both approves and rejects it, and main is never written
\* under a rejected one.
DecisionIsFinal ==
    \A i \in Ids \ raced :
        /\ Cardinality(decisions[i]) <= 1
        /\ "Rejected" \in decisions[i] => uses[i] = 0

\* An approval is used once, and marked Applied only when it was used,
\* unless two servers handled it at the same time or one died between the
\* write of main and the write of the record.
ApprovalUsedOnce ==
    /\ \A i \in Ids \ (raced \cup died) : uses[i] <= 1
    /\ \A i \in Ids : records[i].status = "Applied" => uses[i] >= 1
=============================================================================
