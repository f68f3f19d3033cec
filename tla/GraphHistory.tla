---------------------------- MODULE GraphHistory ----------------------------
(***************************************************************************)
(* The graph directory .duumbi/graph and the undo history .duumbi/history, *)
(* shared by every command that edits the program: `duumbi add` and the    *)
(* studio chat endpoint (read, snapshot, overwrite main), the REPL turn    *)
(* (the same, but a failed snapshot is only a warning), the rewrite tool   *)
(* (temp file, snapshot, rename; any module), the MCP graph_mutate tool    *)
(* and the studio socket (overwrite without a snapshot; the socket writes  *)
(* any module), and `duumbi undo`.                                         *)
(*                                                                         *)
(* No lock protects either directory, so commands of different processes   *)
(* interleave at every file operation.  fs::write truncates the file and   *)
(* then fills it: both halves are steps here, and a process that dies (or  *)
(* meets an I/O error) between them leaves an empty file behind.           *)
(***************************************************************************)
EXTENDS Naturals, FiniteSets

CONSTANTS
    Procs,      \* processes that run duumbi commands on one workspace
    Modules,    \* module files of the graph directory
    Main,       \* the module main.jsonld
    Versions,   \* distinguishable contents of one module
    Torn,       \* the empty file a truncating open leaves; not a text
    MaxSeq      \* bound: largest snapshot number the model explores

ASSUME MainAssumption == Main \in Modules
ASSUME TornAssumption == Torn \notin [of : Modules, version : Versions]
ASSUME SeqAssumption  == MaxSeq \in Nat \ {0}

VARIABLES
    graph,      \* module file -> what the file holds
    hist,       \* snapshot number -> what the snapshot file holds
    cmd         \* process -> the command it is running

vars == <<graph, hist, cmd>>

\* What a file holds: a version of some module, or nothing readable.  The
\* module a text describes travels with it.
Text(m, v) == [of |-> m, version |-> v]
Texts      == [of : Modules, version : Versions]
Contents   == Texts \cup {Torn}

\* The edit commands, by what they do before the module file is replaced.
Snapshotting == {"add", "repl", "rewrite"}
Overwriting  == {"add", "repl", "mutate"}
Edits        == Snapshotting \cup {"mutate"}

Steps == {"idle", "pickSeq", "openSnap", "fillSnap", "openGraph", "fillGraph",
          "rename", "readSnap", "removeSnap"}

\* at     the next file operation of the command
\* read   the text it read when it started (an undo: the snapshot's text)
\* seq    the snapshot number it uses, 0 while it has none
\* alone  no other command has run at any time since it started
Idle == [kind |-> "none", mod |-> Main, at |-> "idle", read |-> Torn,
         seq |-> 0, alone |-> TRUE]

Commands == [kind : Edits \cup {"undo", "none"}, mod : Modules, at : Steps,
             read : Contents, seq : 0..MaxSeq, alone : BOOLEAN]

Busy(p)   == cmd[p].at # "idle"
Others(p) == {q \in Procs \ {p} : Busy(q)}

\* Which commands get to which file operation, and from where on they have
\* a snapshot number.
ControlOK(c) ==
    /\ c.at = "idle" <=> c.kind = "none"
    /\ c.at \in {"pickSeq", "openSnap", "fillSnap"} => c.kind \in Snapshotting
    /\ c.at \in {"openGraph", "fillGraph"} => c.kind \in Overwriting \cup {"undo"}
    /\ c.at = "rename" => c.kind = "rewrite"
    /\ c.at \in {"readSnap", "removeSnap"} => c.kind = "undo"
    /\ c.at \in {"openSnap", "fillSnap"} \/ c.kind = "undo" => c.seq # 0
    /\ c.kind \in {"add", "repl", "undo"} => c.mod = Main

TypeOK ==
    /\ \A p \in Procs : ControlOK(cmd[p])
    /\ graph \in [Modules -> Contents]
    /\ DOMAIN hist \subseteq 1..MaxSeq
    /\ \A n \in DOMAIN hist : hist[n] \in Contents
    /\ cmd \in [Procs -> Commands]

Init ==
    /\ \E v \in Versions : graph = [m \in Modules |-> Text(m, v)]
    /\ hist = [n \in {} |-> Torn]
    /\ cmd = [p \in Procs |-> Idle]

-----------------------------------------------------------------------------
(* snapshot.rs: numbering of the history files *)

\* Mutant: number the snapshot after how many there are.
CountedSeq(n) == n = Cardinality(DOMAIN hist) + 1

\* next_sequence_number: one above the largest number in the directory.
IsNextSeq(n) ==
    /\ \A k \in DOMAIN hist : k < n
    /\ n = 1 \/ n - 1 \in DOMAIN hist

\* latest_snapshot_path: the largest number in the directory.
IsLatest(n) == n \in DOMAIN hist /\ \A k \in DOMAIN hist : k <= n

Store(n, text) == [k \in DOMAIN hist \cup {n} |-> IF k = n THEN text ELSE hist[k]]
Discard(n)     == [k \in DOMAIN hist \ {n} |-> hist[k]]

\* Starting a command makes every command that is under way no longer alone.
Start(p, c) ==
    cmd' = [q \in Procs |->
              IF q = p THEN [c EXCEPT !.alone = Others(p) = {}]
              ELSE IF Busy(q) THEN [cmd[q] EXCEPT !.alone = FALSE]
              ELSE cmd[q]]

Goto(p, step) == cmd' = [cmd EXCEPT ![p].at = step]
Finish(p)     == cmd' = [cmd EXCEPT ![p] = Idle]

-----------------------------------------------------------------------------
(* The edit commands *)

\* The module is read and parsed; a torn file is a parse error and the
\* command returns before it has touched anything, so only an intact file
\* starts one.  The candidate the language model or the rule produced is
\* any text of the same module (FillGraph, Rename).
Read(p, kind, m) ==
    /\ ~Busy(p)
    /\ graph[m] # Torn
    /\ Start(p, [kind |-> kind, mod |-> m, read |-> graph[m], seq |-> 0,
                 at |-> IF kind \in Snapshotting THEN "pickSeq" ELSE "openGraph",
                 alone |-> TRUE])
    /\ UNCHANGED <<graph, hist>>

\* `duumbi add`.
Add(p) == Read(p, "add", Main)

\* The studio chat endpoint: the same steps.
StudioChat(p) == Read(p, "add", Main)

\* A mutation turn of the REPL.
ReplTurn(p) == Read(p, "repl", Main)

\* `duumbi rewrite apply` and the MCP tool rewrite_apply, on any module.
RewriteApply(p) == \E m \in Modules : Read(p, "rewrite", m)

\* The MCP tool graph_mutate: no snapshot.
GraphMutate(p) == Read(p, "mutate", Main)

\* The studio socket: any module, no snapshot.
StudioSocket(p) == \E m \in Modules : Read(p, "mutate", m)

PickSeq(p) ==
    /\ cmd[p].at = "pickSeq"
    /\ \E n \in 1..MaxSeq :
        /\ IsNextSeq(n)
        /\ cmd' = [cmd EXCEPT ![p].seq = n, ![p].at = "openSnap"]
    /\ UNCHANGED <<graph, hist>>

OpenSnap(p) ==
    /\ cmd[p].at = "openSnap"
    /\ hist' = Store(cmd[p].seq, Torn)
    /\ Goto(p, "fillSnap")
    /\ UNCHANGED graph

\* Mutant: save the candidate instead of the text it replaces.
SnapshotOfCandidate(p) ==
    \E v \in Versions : hist' = Store(cmd[p].seq, Text(cmd[p].mod, v))

\* What save_snapshot is given: the text as it was read.
SnapshotText(p) == hist' = Store(cmd[p].seq, cmd[p].read)

\* Mutant: the rewrite tool opens the module file itself.
OverwriteInPlace(p) ==
    /\ cmd[p].at = "fillSnap"
    /\ SnapshotText(p)
    /\ Goto(p, "openGraph")
    /\ UNCHANGED graph

FillSnap(p) ==
    /\ cmd[p].at = "fillSnap"
    /\ SnapshotText(p)
    /\ Goto(p, IF cmd[p].kind = "rewrite" THEN "rename" ELSE "openGraph")
    /\ UNCHANGED graph

\* save_snapshot returns an error (at any of its file operations): the REPL
\* only warns and goes on to write the graph, every other command gives up.
SnapshotFails(p) ==
    /\ cmd[p].at \in {"pickSeq", "openSnap", "fillSnap"}
    /\ IF cmd[p].kind = "repl"
       THEN cmd' = [cmd EXCEPT ![p].seq = 0, ![p].at = "openGraph"]
       ELSE Finish(p)
    /\ UNCHANGED <<graph, hist>>

OpenGraph(p) ==
    /\ cmd[p].at = "openGraph"
    /\ graph' = [graph EXCEPT ![cmd[p].mod] = Torn]
    /\ Goto(p, "fillGraph")
    /\ UNCHANGED hist

FillGraph(p) ==
    /\ cmd[p].at = "fillGraph"
    /\ cmd[p].kind \in Overwriting
    /\ \E v \in Versions : graph' = [graph EXCEPT ![cmd[p].mod] = Text(cmd[p].mod, v)]
    /\ Finish(p)
    /\ UNCHANGED hist

\* The rewrite tool prepared and synced a temp file; rename replaces the
\* module in one step.
Rename(p) ==
    /\ cmd[p].at = "rename"
    /\ \E v \in Versions : graph' = [graph EXCEPT ![cmd[p].mod] = Text(cmd[p].mod, v)]
    /\ Finish(p)
    /\ UNCHANGED hist

-----------------------------------------------------------------------------
(* snapshot.rs: restore_latest *)

BeginUndo(p) ==
    /\ ~Busy(p)
    /\ \E n \in DOMAIN hist :
        /\ IsLatest(n)
        /\ Start(p, [kind |-> "undo", mod |-> Main, at |-> "readSnap",
                     read |-> Torn, seq |-> n, alone |-> TRUE])
    /\ UNCHANGED <<graph, hist>>

\* Mutant: pop the history before main.jsonld is rewritten.
PopThenWrite(p) ==
    /\ cmd[p].at = "readSnap"
    /\ cmd[p].seq \in DOMAIN hist
    /\ hist' = Discard(cmd[p].seq)
    /\ cmd' = [cmd EXCEPT ![p].read = hist[cmd[p].seq], ![p].at = "openGraph"]
    /\ UNCHANGED graph

\* The snapshot may be gone if another undo removed it meanwhile: an error.
ReadSnap(p) ==
    /\ cmd[p].at = "readSnap"
    /\ IF cmd[p].seq \in DOMAIN hist
       THEN cmd' = [cmd EXCEPT ![p].read = hist[cmd[p].seq], ![p].at = "openGraph"]
       ELSE Finish(p)
    /\ UNCHANGED <<graph, hist>>

FillFromSnap(p) ==
    /\ cmd[p].at = "fillGraph"
    /\ cmd[p].kind = "undo"
    /\ graph' = [graph EXCEPT ![Main] = cmd[p].read]
    /\ Goto(p, "removeSnap")
    /\ UNCHANGED hist

RemoveSnap(p) ==
    /\ cmd[p].at = "removeSnap"
    /\ hist' = Discard(cmd[p].seq)
    /\ Finish(p)
    /\ UNCHANGED graph

\* A process dies, or an I/O error makes the command return, between two of
\* its file operations.  Whatever it had written so far stays.
Crash(p) ==
    /\ Busy(p)
    /\ Finish(p)
    /\ UNCHANGED <<graph, hist>>

Next ==
    \E p \in Procs :
        \/ Add(p) \/ StudioChat(p) \/ ReplTurn(p) \/ RewriteApply(p)
        \/ GraphMutate(p) \/ StudioSocket(p)
        \/ PickSeq(p) \/ OpenSnap(p) \/ FillSnap(p) \/ SnapshotFails(p)
        \/ OpenGraph(p) \/ FillGraph(p) \/ Rename(p)
        \/ BeginUndo(p) \/ ReadSnap(p) \/ FillFromSnap(p) \/ RemoveSnap(p)
        \/ Crash(p)

Spec == Init /\ [][Next]_vars

-----------------------------------------------------------------------------
(* Properties *)

\* While a snapshotting command that ran undisturbed is replacing the module
\* file, one undo would bring back exactly what it read: its snapshot is the
\* newest, intact, and equal to the text it read (and until the file is
\* opened, to the file).  A crash inside the write therefore loses nothing.
\* This is the order snapshot, then write, of add, the REPL and rewrite; only
\* the REPL writes after a snapshot that failed.
WriteAheadSnapshot ==
    \A p \in Procs :
        /\ cmd[p].alone
        /\ cmd[p].kind \in Snapshotting
        /\ cmd[p].kind = "repl" => cmd[p].seq # 0
        /\ cmd[p].at \in {"openGraph", "fillGraph", "rename"}
        => /\ IsLatest(cmd[p].seq)
           /\ hist[cmd[p].seq] = cmd[p].read
           /\ cmd[p].read # Torn
           /\ cmd[p].at # "fillGraph" => graph[cmd[p].mod] = cmd[p].read

\* A saved undo point is never overwritten, except by a command that another
\* one overlapped (two commands may then pick the same number).  This is
\* next_sequence_number, also after undos and crashes have left gaps.
UndoPointsKept ==
    [][\A n \in DOMAIN hist \cap DOMAIN hist' :
          hist[n] \notin {Torn, hist'[n]} =>
              \E p \in Procs : cmd[p].seq = n /\ ~cmd[p].alone]_vars

\* An undo point disappears only once main.jsonld holds what it held, again
\* unless commands overlapped.  This is restore_latest: write, then remove,
\* so that an undo that dies half way can be run again.
DiscardedOnlyIfRestored ==
    [][\A n \in DOMAIN hist \ DOMAIN hist' :
          \/ graph[Main] = hist[n]
          \/ \E p \in Procs : cmd[p].seq = n /\ ~cmd[p].alone]_vars

\* "duumbi undo restores the previous graph": the module file that an undo
\* rewrites gets a text of that module back.  The rewrite tool breaks it: it
\* snapshots whichever module it edits, and undo writes that to main.jsonld.
UndoRestoresItsModule ==
    \A m \in Modules : graph[m] # Torn => graph[m].of = m
=============================================================================
