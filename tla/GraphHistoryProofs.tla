-------------------------- MODULE GraphHistoryProofs --------------------------
(***************************************************************************)
(* Proofs that the undo history keeps its promises for any number of       *)
(* processes, modules, texts and snapshots.  The argument: a command that  *)
(* is alone is the only one under way, so until another one starts (which  *)
(* ends its being alone) only its own steps change the two directories.    *)
(***************************************************************************)
EXTENDS GraphHistory, TLAPS

\* A command under way that nobody has overlapped.
Calm(p) == Busy(p) /\ cmd[p].alone

AloneInv == \A p, q \in Procs : p # q /\ Calm(p) => ~Busy(q)

\* What a calm edit with a snapshot has read, numbered and saved so far.
EditInv(p) ==
    Calm(p) /\ cmd[p].kind \in Snapshotting =>
        /\ cmd[p].read # Torn
        /\ cmd[p].at # "fillGraph" => graph[cmd[p].mod] = cmd[p].read
        /\ cmd[p].at = "openSnap" => \A k \in DOMAIN hist : k < cmd[p].seq
        /\ cmd[p].at = "fillSnap" => IsLatest(cmd[p].seq) /\ hist[cmd[p].seq] = Torn
        /\ cmd[p].at \in {"openGraph", "fillGraph", "rename"} =>
               \/ cmd[p].kind = "repl" /\ cmd[p].seq = 0
               \/ IsLatest(cmd[p].seq) /\ hist[cmd[p].seq] = cmd[p].read

\* What a calm undo has read and written so far.
UndoInv(p) ==
    Calm(p) /\ cmd[p].kind = "undo" =>
        /\ cmd[p].seq \in DOMAIN hist
        /\ cmd[p].at \in {"openGraph", "fillGraph", "removeSnap"} =>
               hist[cmd[p].seq] = cmd[p].read
        /\ cmd[p].at = "removeSnap" => graph[Main] = cmd[p].read

IInv ==
    /\ TypeOK
    /\ AloneInv
    /\ \A p \in Procs : EditInv(p) /\ UndoInv(p)

-----------------------------------------------------------------------------
\* The invariant holds of a workspace in which no command has run yet.
LEMMA InitInv == Init => IInv
<1> SUFFICES ASSUME Init PROVE IInv
  OBVIOUS
<1>1. \A p \in Procs : ~Busy(p)
  BY DEF Init, Idle, Busy
<1>2. TypeOK
  BY MainAssumption, SeqAssumption
     DEF Init, TypeOK, ControlOK, Idle, Commands, Steps, Contents, Texts, Text,
         Edits, Snapshotting, Overwriting
<1> QED
  BY <1>1, <1>2 DEF IInv, AloneInv, EditInv, UndoInv, Calm

\* A step of a command under way: nobody else is calm after it, and the
\* command stays calm only if it was.
LEMMA OwnStep ==
  ASSUME IInv, NEW p \in Procs, Busy(p),
         cmd' \in [Procs -> Commands],
         \A q \in Procs \ {p} : cmd'[q] = cmd[q],
         cmd'[p].at = "idle" \/ cmd'[p].alone = cmd[p].alone
  PROVE  /\ AloneInv'
         /\ Calm(p)' => Calm(p)
         /\ \A q \in Procs \ {p} : EditInv(q)' /\ UndoInv(q)'
<1>1. \A q \in Procs \ {p} : ~Calm(q)
  BY DEF IInv, AloneInv
<1>2. \A q \in Procs \ {p} : ~Calm(q)'
  BY <1>1 DEF Calm, Busy
<1>3. Calm(p)' => Calm(p)
  BY DEF Calm, Busy
<1>4. Calm(p) => \A q \in Procs \ {p} : ~Busy(q)
  BY DEF IInv, AloneInv
<1>5. AloneInv'
  BY <1>2, <1>3, <1>4 DEF AloneInv, Busy
<1> QED
  BY <1>2, <1>3, <1>5 DEF EditInv, UndoInv

\* Starting a command: nobody else is calm after it.
LEMMA StartStep ==
  ASSUME IInv, NEW p \in Procs, ~Busy(p), NEW c \in Commands, c.at # "idle",
         Start(p, c)
  PROVE  /\ cmd' \in [Procs -> Commands]
         /\ cmd'[p] = [c EXCEPT !.alone = Others(p) = {}]
         /\ \A q \in Procs \ {p} : /\ cmd'[q] = cmd[q] \/ cmd'[q] = [cmd[q] EXCEPT !.alone = FALSE]
                                   /\ ~Calm(q)'
         /\ AloneInv'
<1>1. cmd \in [Procs -> Commands]
  BY DEF IInv, TypeOK
<1>2. cmd' \in [Procs -> Commands]
  BY <1>1 DEF Start, Commands
<1>3. cmd'[p] = [c EXCEPT !.alone = Others(p) = {}]
  BY DEF Start
<1>4. \A q \in Procs \ {p} :
        cmd'[q] = IF Busy(q) THEN [cmd[q] EXCEPT !.alone = FALSE] ELSE cmd[q]
  BY DEF Start
<1>5. ASSUME NEW q \in Procs \ {p} PROVE ~Calm(q)'
  <2>1. CASE Busy(q)
    <3>1. cmd'[q] = [cmd[q] EXCEPT !.alone = FALSE] /\ cmd[q] \in Commands
      BY <1>1, <1>4, <2>1
    <3>2. cmd'[q].alone = FALSE
      BY <3>1 DEF Commands
    <3> QED
      BY <3>2 DEF Calm
  <2>2. CASE ~Busy(q)
    BY <1>4, <2>2 DEF Calm, Busy
  <2> QED
    BY <2>1, <2>2
<1>6. \A q \in Procs \ {p} : Busy(q)' => Busy(q)
  BY <1>1, <1>4 DEF Busy, Commands
<1>7. Calm(p)' => Others(p) = {}
  <2>1. cmd'[p].alone = (Others(p) = {})
    BY <1>3 DEF Commands
  <2> QED
    BY <2>1 DEF Calm
<1>8. AloneInv'
  BY <1>5, <1>6, <1>7 DEF AloneInv, Others
<1> QED
  BY <1>2, <1>3, <1>4, <1>5, <1>8

\* An edit that starts has read its module and touched nothing (Read, the
\* first step of add, the REPL turn, rewrite and the MCP and studio edits).
LEMMA ReadStep ==
  ASSUME IInv, NEW p \in Procs, NEW kind \in Edits, NEW m \in Modules,
         kind \in {"add", "repl"} => m = Main, Read(p, kind, m)
  PROVE  IInv'
<1> DEFINE c == [kind |-> kind, mod |-> m, read |-> graph[m], seq |-> 0,
                 at |-> IF kind \in Snapshotting THEN "pickSeq" ELSE "openGraph",
                 alone |-> TRUE]
<1>1. /\ ~Busy(p) /\ graph[m] # Torn /\ Start(p, c)
      /\ UNCHANGED <<graph, hist>>
  BY DEF Read
<1>2. graph[m] \in Contents
  BY DEF IInv, TypeOK
<1>3. c \in Commands /\ c.at # "idle"
  BY <1>2, SeqAssumption DEF Commands, Steps, Edits
<1> HIDE DEF c
<1>4. /\ cmd' \in [Procs -> Commands]
      /\ cmd'[p] = [c EXCEPT !.alone = Others(p) = {}]
      /\ \A q \in Procs \ {p} : /\ cmd'[q] = cmd[q] \/ cmd'[q] = [cmd[q] EXCEPT !.alone = FALSE]
                                /\ ~Calm(q)'
      /\ AloneInv'
  BY <1>1, <1>3, StartStep
<1>5. \A q \in Procs \ {p} : ControlOK(cmd'[q])
  BY <1>4 DEF IInv, TypeOK, ControlOK, Commands
<1>6. /\ cmd'[p].kind = kind /\ cmd'[p].mod = m /\ cmd'[p].read = graph[m]
      /\ cmd'[p].at = IF kind \in Snapshotting THEN "pickSeq" ELSE "openGraph"
  BY <1>4 DEF c
<1>7. ControlOK(cmd'[p])
  BY <1>6 DEF ControlOK, Edits, Snapshotting, Overwriting
<1>8. TypeOK'
  BY <1>1, <1>4, <1>5, <1>7 DEF IInv, TypeOK
<1>9. EditInv(p)' /\ UndoInv(p)'
  BY <1>1, <1>6 DEF EditInv, UndoInv, Edits, Snapshotting
<1> QED
  BY <1>4, <1>8, <1>9 DEF IInv, EditInv, UndoInv

\* An undo that starts has chosen the newest snapshot (latest_snapshot_path).
LEMMA BeginUndoStep ==
  ASSUME IInv, NEW p \in Procs, BeginUndo(p)
  PROVE  IInv'
<1> PICK n \in DOMAIN hist :
        /\ IsLatest(n)
        /\ Start(p, [kind |-> "undo", mod |-> Main, at |-> "readSnap",
                     read |-> Torn, seq |-> n, alone |-> TRUE])
  BY DEF BeginUndo
<1> DEFINE c == [kind |-> "undo", mod |-> Main, at |-> "readSnap",
                 read |-> Torn, seq |-> n, alone |-> TRUE]
<1>1. ~Busy(p) /\ Start(p, c) /\ UNCHANGED <<graph, hist>>
  BY DEF BeginUndo
<1>2. n \in 1..MaxSeq
  BY DEF IInv, TypeOK
<1>3. c \in Commands /\ c.at # "idle"
  BY <1>2, MainAssumption DEF Commands, Steps, Contents
<1> HIDE DEF c
<1>4. /\ cmd' \in [Procs -> Commands]
      /\ cmd'[p] = [c EXCEPT !.alone = Others(p) = {}]
      /\ \A q \in Procs \ {p} : /\ cmd'[q] = cmd[q] \/ cmd'[q] = [cmd[q] EXCEPT !.alone = FALSE]
                                /\ ~Calm(q)'
      /\ AloneInv'
  BY <1>1, <1>3, StartStep
<1>5. \A q \in Procs \ {p} : ControlOK(cmd'[q])
  BY <1>4 DEF IInv, TypeOK, ControlOK, Commands
<1>6. /\ cmd'[p].kind = "undo" /\ cmd'[p].mod = Main /\ cmd'[p].at = "readSnap"
      /\ cmd'[p].seq = n
  BY <1>4 DEF c
<1>7. ControlOK(cmd'[p])
  BY <1>2, <1>6 DEF ControlOK
<1>8. TypeOK'
  BY <1>1, <1>4, <1>5, <1>7 DEF IInv, TypeOK
<1>9. EditInv(p)' /\ UndoInv(p)'
  BY <1>1, <1>6 DEF EditInv, UndoInv, Snapshotting
<1> QED
  BY <1>4, <1>8, <1>9 DEF IInv, EditInv, UndoInv

\* Changing the number and the next operation of a command.
LEMMA SeqAtFact ==
  ASSUME NEW c \in Commands, NEW n \in 0..MaxSeq, NEW step \in Steps
  PROVE  [c EXCEPT !.seq = n, !.at = step] \in Commands
<1> DEFINE d == [c EXCEPT !.seq = n]
<1>1. d \in Commands
  BY DEF Commands
<1>2. [d EXCEPT !.at = step] \in Commands
  BY <1>1 DEF Commands
<1> QED
  BY <1>2 DEF Commands

\* A step that only moves the command p on to another file operation.
LEMMA GotoFact ==
  ASSUME IInv, NEW p \in Procs, NEW step \in Steps, Goto(p, step)
  PROVE  /\ cmd' \in [Procs -> Commands]
         /\ \A q \in Procs \ {p} : cmd'[q] = cmd[q]
         /\ cmd'[p].at = step
         /\ cmd'[p].kind = cmd[p].kind /\ cmd'[p].mod = cmd[p].mod
         /\ cmd'[p].read = cmd[p].read /\ cmd'[p].seq = cmd[p].seq
         /\ cmd'[p].alone = cmd[p].alone
<1>1. cmd \in [Procs -> Commands]
  BY DEF IInv, TypeOK
<1>2. cmd[p] \in Commands
  BY <1>1
<1>3. cmd' = [cmd EXCEPT ![p] = [cmd[p] EXCEPT !.at = step]]
  BY DEF Goto
<1>4. [cmd[p] EXCEPT !.at = step] \in Commands
  BY <1>2 DEF Commands
<1> QED
  BY <1>1, <1>2, <1>3, <1>4 DEF Commands

\* A command that ends leaves the others as they are.
LEMMA FinishFact ==
  ASSUME IInv, NEW p \in Procs, Finish(p)
  PROVE  /\ cmd' \in [Procs -> Commands]
         /\ \A q \in Procs \ {p} : cmd'[q] = cmd[q]
         /\ cmd'[p] = Idle /\ cmd'[p].at = "idle"
         /\ ControlOK(cmd'[p]) /\ EditInv(p)' /\ UndoInv(p)'
<1>1. cmd \in [Procs -> Commands]
  BY DEF IInv, TypeOK
<1>2. Idle \in Commands
  BY MainAssumption, SeqAssumption DEF Idle, Commands, Steps, Contents
<1>3. cmd'[p] = Idle
  BY <1>1 DEF Finish
<1> QED
  BY <1>1, <1>2, <1>3
     DEF Finish, Idle, ControlOK, EditInv, UndoInv, Calm, Busy, Snapshotting, Edits

\* The rest of the invariant once the acting process's part is known.
LEMMA Assemble ==
  ASSUME IInv, NEW p \in Procs, Busy(p),
         cmd' \in [Procs -> Commands],
         \A q \in Procs \ {p} : cmd'[q] = cmd[q],
         cmd'[p].at = "idle" \/ cmd'[p].alone = cmd[p].alone,
         ControlOK(cmd'[p]),
         graph' \in [Modules -> Contents],
         DOMAIN hist' \subseteq 1..MaxSeq,
         \A n \in DOMAIN hist' : hist'[n] \in Contents,
         EditInv(p)', UndoInv(p)'
  PROVE  IInv'
<1>1. AloneInv' /\ \A q \in Procs \ {p} : EditInv(q)' /\ UndoInv(q)'
  BY OwnStep
<1>2. \A q \in Procs : ControlOK(cmd'[q])
  BY DEF IInv, TypeOK
<1>3. TypeOK'
  BY <1>2 DEF TypeOK
<1> QED
  BY <1>1, <1>3 DEF IInv, EditInv, UndoInv

-----------------------------------------------------------------------------
(* One lemma per file operation *)

\* A calm command that picks a number picks one above every snapshot
\* (next_sequence_number).
LEMMA PickSeqStep ==
  ASSUME IInv, NEW p \in Procs, PickSeq(p)
  PROVE  IInv'
<1>1. PICK n \in 1..MaxSeq :
        IsNextSeq(n) /\ cmd' = [cmd EXCEPT ![p].seq = n, ![p].at = "openSnap"]
  BY DEF PickSeq
<1>2. Busy(p) /\ cmd[p].at = "pickSeq" /\ UNCHANGED <<graph, hist>>
  BY DEF PickSeq, Busy
<1>3. cmd \in [Procs -> Commands] /\ cmd[p] \in Commands /\ ControlOK(cmd[p])
  BY DEF IInv, TypeOK
<1>4. cmd' = [cmd EXCEPT ![p] = [cmd[p] EXCEPT !.seq = n, !.at = "openSnap"]]
  BY <1>1
<1>5. [cmd[p] EXCEPT !.seq = n, !.at = "openSnap"] \in Commands
  <2>1. n \in 0..MaxSeq /\ "openSnap" \in Steps
    BY SeqAssumption DEF Steps
  <2> QED
    BY <1>3, <2>1, SeqAtFact
<1>6. /\ cmd' \in [Procs -> Commands]
      /\ \A q \in Procs \ {p} : cmd'[q] = cmd[q]
      /\ cmd'[p].at = "openSnap" /\ cmd'[p].seq = n
      /\ cmd'[p].kind = cmd[p].kind /\ cmd'[p].mod = cmd[p].mod
      /\ cmd'[p].read = cmd[p].read /\ cmd'[p].alone = cmd[p].alone
  BY <1>3, <1>4, <1>5 DEF Commands
<1>7. ControlOK(cmd'[p])
  BY <1>2, <1>3, <1>6 DEF ControlOK, Snapshotting
<1>8. EditInv(p)' /\ UndoInv(p)'
  BY <1>1, <1>2, <1>3, <1>6 DEF IInv, EditInv, UndoInv, Calm, Busy, IsNextSeq,
     ControlOK, Snapshotting
<1> QED
  BY <1>2, <1>6, <1>7, <1>8, Assemble DEF IInv, TypeOK

\* Opening the snapshot file truncates only the file of the number picked.
LEMMA OpenSnapStep ==
  ASSUME IInv, NEW p \in Procs, OpenSnap(p)
  PROVE  IInv'
<1>1. /\ Busy(p) /\ cmd[p].at = "openSnap" /\ Goto(p, "fillSnap")
      /\ hist' = Store(cmd[p].seq, Torn) /\ UNCHANGED graph
  BY DEF OpenSnap, Busy
<1>2. cmd[p] \in Commands /\ ControlOK(cmd[p]) /\ cmd[p].seq \in 1..MaxSeq
  BY <1>1, SeqAssumption DEF IInv, TypeOK, ControlOK, Commands
<1>3. /\ DOMAIN hist' = DOMAIN hist \cup {cmd[p].seq}
      /\ hist'[cmd[p].seq] = Torn
      /\ \A k \in DOMAIN hist \ {cmd[p].seq} : hist'[k] = hist[k]
  BY <1>1 DEF Store
<1>4. /\ cmd' \in [Procs -> Commands]
      /\ \A q \in Procs \ {p} : cmd'[q] = cmd[q]
      /\ cmd'[p].at = "fillSnap"
      /\ cmd'[p].kind = cmd[p].kind /\ cmd'[p].mod = cmd[p].mod
      /\ cmd'[p].read = cmd[p].read /\ cmd'[p].seq = cmd[p].seq
      /\ cmd'[p].alone = cmd[p].alone
  BY <1>1, GotoFact DEF Steps
<1>5. ControlOK(cmd'[p])
  BY <1>1, <1>2, <1>4 DEF ControlOK
<1>6. DOMAIN hist' \subseteq 1..MaxSeq /\ \A n \in DOMAIN hist' : hist'[n] \in Contents
  BY <1>2, <1>3 DEF IInv, TypeOK, Contents
<1>7. EditInv(p)'
  <2> SUFFICES ASSUME Calm(p)', cmd'[p].kind \in Snapshotting PROVE EditInv(p)'
    BY DEF EditInv
  <2>1. \A k \in DOMAIN hist : k < cmd[p].seq
    BY <1>1, <1>4 DEF IInv, EditInv, Calm, Busy
  <2>2. IsLatest(cmd[p].seq)'
    BY <1>2, <1>3, <1>4, <2>1 DEF IInv, TypeOK, IsLatest
  <2> QED
    BY <1>1, <1>3, <1>4, <2>2 DEF IInv, EditInv, Calm, Busy
<1>8. UndoInv(p)'
  BY <1>1, <1>2, <1>4 DEF UndoInv, ControlOK, Snapshotting
<1> QED
  BY <1>1, <1>4, <1>5, <1>6, <1>7, <1>8, Assemble DEF IInv, TypeOK

\* The snapshot file receives the text the command read (save_snapshot).
LEMMA FillSnapStep ==
  ASSUME IInv, NEW p \in Procs, FillSnap(p)
  PROVE  IInv'
<1> DEFINE next == IF cmd[p].kind = "rewrite" THEN "rename" ELSE "openGraph"
<1>1. /\ Busy(p) /\ cmd[p].at = "fillSnap" /\ Goto(p, next)
      /\ hist' = Store(cmd[p].seq, cmd[p].read) /\ UNCHANGED graph
  BY DEF FillSnap, SnapshotText, Busy
<1>2. cmd[p] \in Commands /\ ControlOK(cmd[p]) /\ cmd[p].seq \in 1..MaxSeq
  BY <1>1, SeqAssumption DEF IInv, TypeOK, ControlOK, Commands
<1>3. /\ DOMAIN hist' = DOMAIN hist \cup {cmd[p].seq}
      /\ hist'[cmd[p].seq] = cmd[p].read
      /\ \A k \in DOMAIN hist \ {cmd[p].seq} : hist'[k] = hist[k]
  BY <1>1 DEF Store
<1>4. /\ cmd' \in [Procs -> Commands]
      /\ \A q \in Procs \ {p} : cmd'[q] = cmd[q]
      /\ cmd'[p].at = next
      /\ cmd'[p].kind = cmd[p].kind /\ cmd'[p].mod = cmd[p].mod
      /\ cmd'[p].read = cmd[p].read /\ cmd'[p].seq = cmd[p].seq
      /\ cmd'[p].alone = cmd[p].alone
  BY <1>1, GotoFact DEF Steps
<1>5. ControlOK(cmd'[p])
  BY <1>1, <1>2, <1>4 DEF ControlOK, Snapshotting, Overwriting
<1>6. DOMAIN hist' \subseteq 1..MaxSeq /\ \A n \in DOMAIN hist' : hist'[n] \in Contents
  BY <1>2, <1>3 DEF IInv, TypeOK, Commands
<1>7. EditInv(p)'
  <2> SUFFICES ASSUME Calm(p)', cmd'[p].kind \in Snapshotting PROVE EditInv(p)'
    BY DEF EditInv
  <2>1. IsLatest(cmd[p].seq)
    BY <1>1, <1>4 DEF IInv, EditInv, Calm, Busy
  <2>2. IsLatest(cmd[p].seq)'
    BY <1>2, <1>3, <1>4, <2>1 DEF IInv, TypeOK, IsLatest
  <2> QED
    BY <1>1, <1>3, <1>4, <2>2 DEF IInv, EditInv, Calm, Busy
<1>8. UndoInv(p)'
  BY <1>1, <1>2, <1>4 DEF UndoInv, ControlOK, Snapshotting
<1> QED
  BY <1>1, <1>4, <1>5, <1>6, <1>7, <1>8, Assemble DEF IInv, TypeOK

\* After a failed snapshot only the REPL goes on, without a number.
LEMMA SnapshotFailsStep ==
  ASSUME IInv, NEW p \in Procs, SnapshotFails(p)
  PROVE  IInv'
<1>1. /\ Busy(p) /\ cmd[p].at \in {"pickSeq", "openSnap", "fillSnap"}
      /\ UNCHANGED <<graph, hist>>
  BY DEF SnapshotFails, Busy
<1>2. cmd \in [Procs -> Commands] /\ cmd[p] \in Commands /\ ControlOK(cmd[p])
  BY DEF IInv, TypeOK
<1>3. CASE cmd[p].kind = "repl"
  <2>1. cmd' = [cmd EXCEPT ![p] = [cmd[p] EXCEPT !.seq = 0, !.at = "openGraph"]]
    BY <1>3 DEF SnapshotFails
  <2>2. [cmd[p] EXCEPT !.seq = 0, !.at = "openGraph"] \in Commands
    <3>1. 0 \in 0..MaxSeq /\ "openGraph" \in Steps
      BY SeqAssumption DEF Steps
    <3> QED
      BY <1>2, <3>1, SeqAtFact
  <2>3. /\ cmd' \in [Procs -> Commands]
        /\ \A q \in Procs \ {p} : cmd'[q] = cmd[q]
        /\ cmd'[p].at = "openGraph" /\ cmd'[p].seq = 0
        /\ cmd'[p].kind = "repl" /\ cmd'[p].mod = cmd[p].mod
        /\ cmd'[p].read = cmd[p].read /\ cmd'[p].alone = cmd[p].alone
    BY <1>2, <1>3, <2>1, <2>2 DEF Commands
  <2>4. ControlOK(cmd'[p])
    BY <1>2, <1>3, <2>3 DEF ControlOK, Overwriting
  <2>5. EditInv(p)' /\ UndoInv(p)'
    BY <1>1, <1>3, <2>3 DEF IInv, EditInv, UndoInv, Calm, Busy, Snapshotting
  <2> QED
    BY <1>1, <2>3, <2>4, <2>5, Assemble DEF IInv, TypeOK
<1>4. CASE cmd[p].kind # "repl"
  <2>1. Finish(p)
    BY <1>4 DEF SnapshotFails
  <2> QED
    BY <1>1, <2>1, FinishFact, Assemble DEF IInv, TypeOK
<1> QED
  BY <1>3, <1>4

\* Opening the module file truncates the module of the command alone.
LEMMA OpenGraphStep ==
  ASSUME IInv, NEW p \in Procs, OpenGraph(p)
  PROVE  IInv'
<1>1. /\ Busy(p) /\ cmd[p].at = "openGraph" /\ Goto(p, "fillGraph")
      /\ graph' = [graph EXCEPT ![cmd[p].mod] = Torn] /\ UNCHANGED hist
  BY DEF OpenGraph, Busy
<1>2. cmd[p] \in Commands /\ ControlOK(cmd[p]) /\ graph \in [Modules -> Contents]
  BY DEF IInv, TypeOK
<1>3. /\ cmd' \in [Procs -> Commands]
      /\ \A q \in Procs \ {p} : cmd'[q] = cmd[q]
      /\ cmd'[p].at = "fillGraph"
      /\ cmd'[p].kind = cmd[p].kind /\ cmd'[p].mod = cmd[p].mod
      /\ cmd'[p].read = cmd[p].read /\ cmd'[p].seq = cmd[p].seq
      /\ cmd'[p].alone = cmd[p].alone
  BY <1>1, GotoFact DEF Steps
<1>4. ControlOK(cmd'[p])
  BY <1>1, <1>2, <1>3 DEF ControlOK
<1>5. graph' \in [Modules -> Contents]
  BY <1>1, <1>2 DEF Contents
<1>6. EditInv(p)' /\ UndoInv(p)'
  BY <1>1, <1>3 DEF IInv, EditInv, UndoInv, Calm, Busy, IsLatest
<1> QED
  BY <1>1, <1>3, <1>4, <1>5, <1>6, Assemble DEF IInv, TypeOK

\* A module that is replaced takes a content of the right type.
LEMMA WriteModule ==
  ASSUME IInv, NEW p \in Procs, Busy(p), Finish(p), UNCHANGED hist,
         \E v \in Versions : graph' = [graph EXCEPT ![cmd[p].mod] = Text(cmd[p].mod, v)]
  PROVE  IInv'
<1>1. /\ cmd' \in [Procs -> Commands]
      /\ \A q \in Procs \ {p} : cmd'[q] = cmd[q]
      /\ cmd'[p].at = "idle"
      /\ ControlOK(cmd'[p]) /\ EditInv(p)' /\ UndoInv(p)'
  BY FinishFact
<1>2. cmd[p].mod \in Modules /\ graph \in [Modules -> Contents]
  BY DEF IInv, TypeOK, Commands
<1>3. graph' \in [Modules -> Contents]
  BY <1>2 DEF Contents, Texts, Text
<1> QED
  BY <1>1, <1>3, Assemble DEF IInv, TypeOK

\* An undo reads the snapshot it chose (restore_latest).
LEMMA ReadSnapStep ==
  ASSUME IInv, NEW p \in Procs, ReadSnap(p)
  PROVE  IInv'
<1>1. Busy(p) /\ cmd[p].at = "readSnap" /\ UNCHANGED <<graph, hist>>
  BY DEF ReadSnap, Busy
<1>2. cmd \in [Procs -> Commands] /\ cmd[p] \in Commands /\ ControlOK(cmd[p])
  BY DEF IInv, TypeOK
<1>3. CASE cmd[p].seq \in DOMAIN hist
  <2> DEFINE text == hist[cmd[p].seq]
             read == [cmd[p] EXCEPT !.read = text]
  <2>1. cmd' = [cmd EXCEPT ![p] = [read EXCEPT !.at = "openGraph"]]
    BY <1>3 DEF ReadSnap
  <2>2. read \in Commands
    BY <1>2, <1>3 DEF IInv, TypeOK, Commands
  <2>3. "openGraph" \in Steps
    BY DEF Steps
  <2>4. [read EXCEPT !.at = "openGraph"] \in Commands
    BY <2>2, <2>3 DEF Commands
  <2>5. /\ cmd' \in [Procs -> Commands]
        /\ \A q \in Procs \ {p} : cmd'[q] = cmd[q]
        /\ cmd'[p].at = "openGraph" /\ cmd'[p].read = text
        /\ cmd'[p].kind = cmd[p].kind /\ cmd'[p].mod = cmd[p].mod
        /\ cmd'[p].seq = cmd[p].seq /\ cmd'[p].alone = cmd[p].alone
    BY <1>2, <2>1, <2>2, <2>4 DEF Commands
  <2>6. ControlOK(cmd'[p])
    BY <1>1, <1>2, <2>5 DEF ControlOK
  <2>7. EditInv(p)' /\ UndoInv(p)'
    BY <1>1, <1>2, <1>3, <2>5 DEF EditInv, UndoInv, ControlOK, Snapshotting
  <2> QED
    BY <1>1, <2>5, <2>6, <2>7, Assemble DEF IInv, TypeOK
<1>4. CASE cmd[p].seq \notin DOMAIN hist
  <2>1. Finish(p)
    BY <1>4 DEF ReadSnap
  <2> QED
    BY <1>1, <2>1, FinishFact, Assemble DEF IInv, TypeOK
<1> QED
  BY <1>3, <1>4

\* After the write of an undo, main.jsonld holds the snapshot it chose.
LEMMA FillFromSnapStep ==
  ASSUME IInv, NEW p \in Procs, FillFromSnap(p)
  PROVE  IInv'
<1>1. /\ Busy(p) /\ cmd[p].at = "fillGraph" /\ cmd[p].kind = "undo"
      /\ Goto(p, "removeSnap")
      /\ graph' = [graph EXCEPT ![Main] = cmd[p].read] /\ UNCHANGED hist
  BY DEF FillFromSnap, Busy
<1>2. cmd[p] \in Commands /\ ControlOK(cmd[p]) /\ graph \in [Modules -> Contents]
  BY DEF IInv, TypeOK
<1>3. /\ cmd' \in [Procs -> Commands]
      /\ \A q \in Procs \ {p} : cmd'[q] = cmd[q]
      /\ cmd'[p].at = "removeSnap"
      /\ cmd'[p].kind = cmd[p].kind /\ cmd'[p].mod = cmd[p].mod
      /\ cmd'[p].read = cmd[p].read /\ cmd'[p].seq = cmd[p].seq
      /\ cmd'[p].alone = cmd[p].alone
  BY <1>1, GotoFact DEF Steps
<1>4. ControlOK(cmd'[p])
  BY <1>1, <1>2, <1>3 DEF ControlOK
<1>5. graph' \in [Modules -> Contents]
  BY <1>1, <1>2 DEF Commands
<1>6. EditInv(p)'
  BY <1>1, <1>3 DEF EditInv, Snapshotting
<1>7. UndoInv(p)'
  BY <1>1, <1>2, <1>3, MainAssumption DEF IInv, UndoInv, Calm, Busy
<1> QED
  BY <1>1, <1>3, <1>4, <1>5, <1>6, <1>7, Assemble DEF IInv, TypeOK

\* The removal of the restored snapshot ends the undo.
LEMMA RemoveSnapStep ==
  ASSUME IInv, NEW p \in Procs, RemoveSnap(p)
  PROVE  IInv'
<1>1. /\ Busy(p) /\ Finish(p)
      /\ hist' = Discard(cmd[p].seq) /\ UNCHANGED graph
  BY DEF RemoveSnap, Busy
<1>2. DOMAIN hist' \subseteq 1..MaxSeq /\ \A n \in DOMAIN hist' : hist'[n] \in Contents
  BY <1>1 DEF Discard, IInv, TypeOK
<1> QED
  BY <1>1, <1>2, FinishFact, Assemble DEF IInv, TypeOK

\* A process that dies leaves the files as they are.
LEMMA CrashStep ==
  ASSUME IInv, NEW p \in Procs, Crash(p)
  PROVE  IInv'
<1>1. Busy(p) /\ Finish(p) /\ UNCHANGED <<graph, hist>>
  BY DEF Crash
<1> QED
  BY <1>1, FinishFact, Assemble DEF IInv, TypeOK

\* Every step of every command preserves the inductive invariant.
LEMMA NextInv == IInv /\ [Next]_vars => IInv'
<1> SUFFICES ASSUME IInv, [Next]_vars PROVE IInv'
  OBVIOUS
<1>1. CASE UNCHANGED vars
  BY <1>1 DEF vars, IInv, TypeOK, AloneInv, EditInv, UndoInv, Calm, Busy, IsLatest
<1>2. CASE Next
  <2>1. PICK p \in Procs :
          \/ Add(p) \/ StudioChat(p) \/ ReplTurn(p) \/ RewriteApply(p)
          \/ GraphMutate(p) \/ StudioSocket(p)
          \/ PickSeq(p) \/ OpenSnap(p) \/ FillSnap(p) \/ SnapshotFails(p)
          \/ OpenGraph(p) \/ FillGraph(p) \/ Rename(p)
          \/ BeginUndo(p) \/ ReadSnap(p) \/ FillFromSnap(p) \/ RemoveSnap(p)
          \/ Crash(p)
    BY <1>2 DEF Next
  <2>2. CASE \/ Add(p) \/ StudioChat(p) \/ ReplTurn(p) \/ RewriteApply(p)
             \/ GraphMutate(p) \/ StudioSocket(p)
    <3>1. {"add", "repl", "rewrite", "mutate"} = Edits
      BY DEF Edits, Snapshotting
    <3>2. CASE Add(p) \/ StudioChat(p)
      BY <3>1, <3>2, MainAssumption, ReadStep DEF Add, StudioChat
    <3>3. CASE ReplTurn(p)
      BY <3>1, <3>3, MainAssumption, ReadStep DEF ReplTurn
    <3>4. CASE RewriteApply(p)
      BY <3>1, <3>4, ReadStep DEF RewriteApply
    <3>5. CASE GraphMutate(p)
      BY <3>1, <3>5, MainAssumption, ReadStep DEF GraphMutate
    <3>6. CASE StudioSocket(p)
      BY <3>1, <3>6, ReadStep DEF StudioSocket
    <3> QED
      BY <2>2, <3>2, <3>3, <3>4, <3>5, <3>6
  <2>3. CASE FillGraph(p) \/ Rename(p)
    BY <2>3, WriteModule DEF FillGraph, Rename, Busy
  <2> QED
    BY <2>1, <2>2, <2>3, PickSeqStep, OpenSnapStep, FillSnapStep,
       SnapshotFailsStep, OpenGraphStep, BeginUndoStep, ReadSnapStep,
       FillFromSnapStep, RemoveSnapStep, CrashStep
<1> QED
  BY <1>1, <1>2

\* The inductive invariant holds throughout.
LEMMA Invariance == Spec => []IInv
  BY InitInv, NextInv, PTL DEF Spec

-----------------------------------------------------------------------------
(* The theorems *)

\* Files, numbers and the progress of every command stay well formed,
\* however the commands interleave, fail or die (all of GraphHistory).
THEOREM TypeCorrect == Spec => []TypeOK
<1>1. IInv => TypeOK
  BY DEF IInv
<1> QED
  BY <1>1, Invariance, PTL

\* Snapshot before write: whatever a command that runs undisturbed is about
\* to replace, or is half way through replacing, is the newest snapshot
\* (save_snapshot before the write in add, the REPL turn and rewrite).
THEOREM WriteAhead == Spec => []WriteAheadSnapshot
<1>1. IInv => WriteAheadSnapshot
  BY DEF IInv, WriteAheadSnapshot, EditInv, Calm, Busy
<1> QED
  BY <1>1, Invariance, PTL

\* An undo point is overwritten only by a command that another overlapped
\* (next_sequence_number and save_snapshot).
THEOREM PointsKept == Spec => UndoPointsKept
<1> DEFINE Kept == \A n \in DOMAIN hist \cap DOMAIN hist' :
                     hist[n] \notin {Torn, hist'[n]} =>
                         \E p \in Procs : cmd[p].seq = n /\ ~cmd[p].alone
<1>1. IInv /\ [Next]_vars => [Kept]_vars
  <2> SUFFICES ASSUME IInv, Next, NEW n \in DOMAIN hist \cap DOMAIN hist',
                      hist[n] \notin {Torn, hist'[n]}
               PROVE  \E p \in Procs : cmd[p].seq = n /\ ~cmd[p].alone
    BY DEF vars
  <2>1. PICK p \in Procs : OpenSnap(p) \/ FillSnap(p) \/ RemoveSnap(p)
    BY DEF Next, Add, StudioChat, ReplTurn, RewriteApply, GraphMutate,
       StudioSocket, Read, PickSeq, SnapshotFails, OpenGraph, FillGraph,
       Rename, BeginUndo, ReadSnap, FillFromSnap, Crash
  <2>2. cmd[p] \in Commands /\ ControlOK(cmd[p]) /\ EditInv(p) /\ n \in Nat
    BY DEF IInv, TypeOK
  <2>3. CASE OpenSnap(p)
    <3>1. cmd[p].at = "openSnap" /\ cmd[p].seq = n
      BY <2>3 DEF OpenSnap, Store
    <3>2. ~(n < n)
      BY <2>2
    <3>3. ~Calm(p)
      BY <2>2, <3>1, <3>2 DEF EditInv, ControlOK
    <3> QED
      BY <3>1, <3>3 DEF Calm, Busy
  <2>4. CASE FillSnap(p)
    <3>1. cmd[p].at = "fillSnap" /\ cmd[p].seq = n
      BY <2>4 DEF FillSnap, SnapshotText, Store
    <3>2. ~Calm(p)
      BY <2>2, <3>1 DEF EditInv, ControlOK
    <3> QED
      BY <3>1, <3>2 DEF Calm, Busy
  <2>5. CASE RemoveSnap(p)
    BY <2>5 DEF RemoveSnap, Discard
  <2> QED
    BY <2>1, <2>3, <2>4, <2>5
<1> QED
  BY <1>1, Invariance, PTL DEF Spec, UndoPointsKept

\* An undo point disappears only once main.jsonld holds its text, unless
\* commands overlapped (restore_latest writes before it removes).
THEOREM DiscardSafe == Spec => DiscardedOnlyIfRestored
<1> DEFINE Restored == \A n \in DOMAIN hist \ DOMAIN hist' :
                         \/ graph[Main] = hist[n]
                         \/ \E p \in Procs : cmd[p].seq = n /\ ~cmd[p].alone
<1>1. IInv /\ [Next]_vars => [Restored]_vars
  <2> SUFFICES ASSUME IInv, Next, NEW n \in DOMAIN hist \ DOMAIN hist'
               PROVE  \/ graph[Main] = hist[n]
                      \/ \E p \in Procs : cmd[p].seq = n /\ ~cmd[p].alone
    BY DEF vars
  <2>1. PICK p \in Procs : OpenSnap(p) \/ FillSnap(p) \/ RemoveSnap(p)
    BY DEF Next, Add, StudioChat, ReplTurn, RewriteApply, GraphMutate,
       StudioSocket, Read, PickSeq, SnapshotFails, OpenGraph, FillGraph,
       Rename, BeginUndo, ReadSnap, FillFromSnap, Crash
  <2>2. RemoveSnap(p) /\ cmd[p].at = "removeSnap" /\ cmd[p].seq = n
    BY <2>1 DEF OpenSnap, FillSnap, SnapshotText, RemoveSnap, Store, Discard
  <2>3. ControlOK(cmd[p]) /\ UndoInv(p)
    BY DEF IInv, TypeOK
  <2> QED
    BY <2>2, <2>3 DEF UndoInv, Calm, Busy, ControlOK
<1> QED
  BY <1>1, Invariance, PTL DEF Spec, DiscardedOnlyIfRestored
=============================================================================
