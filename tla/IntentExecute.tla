---------------------------- MODULE IntentExecute ----------------------------
(***************************************************************************)
(* `duumbi intent execute`: the runner that takes one intent from its YAML *)
(* file through preflight, snapshot, task mutations, verification, one     *)
(* repair cycle and archival, and the files it leaves behind when it ends, *)
(* fails or dies at any point.                                             *)
(*                                                                         *)
(* One process executes intents; other processes create and delete intents,*)
(* edit the graph and undo, at any time.  A language-model call is a step  *)
(* that returns any reply (the retries inside it are the orchestrator's);  *)
(* a program text is a member of Texts; the verifier returns any number of *)
(* passed tests.  A write is one step, and dying in it leaves the file     *)
(* torn (GraphHistory has the two halves of a write and concurrent         *)
(* writers).                                                               *)
(***************************************************************************)
EXTENDS Naturals, Sequences, SequencesExt, FiniteSets

CONSTANTS
    Slugs,      \* names of intents
    Libs,       \* library modules; the graph also has main
    Texts,      \* distinguishable contents of a module
    SpecChoices,\* specifications an intent may have
    MaxGen,     \* bound: intents created under one slug
    MaxSnaps    \* bound: snapshots in the undo history

Main    == "main"
Modules == Libs \cup {Main}
Absent  == "absent"     \* no such file
Torn    == "torn"       \* a write died in the middle
LibText == "built"      \* any text of a library

\* The parts of an intent specification that steer execution: the modules it
\* creates and modifies, in order, and how many test cases it has.
ASSUME SpecAssumption ==
    \A s \in SpecChoices : /\ s.create \in Seq(Libs)
                           /\ s.modify \in Seq(Modules)
                           /\ s.tests \in Nat
ASSUME BoundAssumption == MaxGen \in Nat \ {0} /\ MaxSnaps \in Nat \ {0}

VARIABLES
    specs,      \* slug -> specifications of the intents created under it
    active,     \* slug -> intents/<slug>.yaml: a status ("none": no file,
                \*   "torn": half written) and which of those intents it is
    companion,  \* slug -> where the companion directory is
    archived,   \* slug -> intents/history/<slug>.yaml
    deleted,    \* slug -> generations moved whole to intents/deleted/
    cut,        \* history: slug -> generations whose only copy a dying save tore
    graph,      \* module -> text, Absent or Torn
    snaps,      \* the undo history, newest last
    run,        \* the executing process
    outcome,    \* what the last run returned
    quiet,      \* no other process has changed anything since the run began
    raced,      \* slugs created or deleted while a run was executing them
    proven,     \* the graph on disk is one the verifier passed
    undoPoint   \* main before the last run, while one undo brings it back

files == <<specs, active, companion, archived, deleted, cut>>
disk  == <<graph, snaps>>
ghost == <<quiet, raced, proven, undoPoint>>
vars  == <<files, disk, run, outcome, ghost>>

NoFile   == [status |-> "none", gen |-> 0]
NoRecord == [state |-> "none", gen |-> 0, passed |-> 0, total |-> 0]

\* at        next step of the runner
\* gen       the intent it loaded; it is never loaded again but to archive it
\* task      index of the current task
\* todo      modules the repair cycle has still to visit
\* mod       module the next write goes to
\* passed, total, first, attempted, applied   the outcome being collected
Start(s) == [at |-> "mark", slug |-> s, gen |-> active[s].gen, task |-> 1,
             todo |-> {}, mod |-> Main, passed |-> 0,
             total |-> specs[s][active[s].gen].tests, first |-> FALSE,
             attempted |-> FALSE, applied |-> FALSE]
NoRun    == [at |-> "idle", slug |-> "none", gen |-> 0, task |-> 1, todo |-> {},
             mod |-> Main, passed |-> 0, total |-> 0, first |-> FALSE,
             attempted |-> FALSE, applied |-> FALSE]

\* OutcomeCollector::finish.  repaired is the field repair_success, which is
\* set once the last report is in.
Finish(r, success, terminal) ==
    [slug |-> r.slug, gen |-> r.gen, success |-> success, terminal |-> terminal,
     first |-> r.first, attempted |-> r.attempted, applied |-> r.applied,
     repaired |-> IF r.attempted /\ r.at \in {"archive", "moveCompanion", "saveFailed"}
                  THEN IF r.passed = r.total THEN "yes" ELSE "no"
                  ELSE "none",
     passed |-> r.passed, total |-> r.total]

Unfinished == [slug |-> "none", gen |-> 0, success |-> FALSE, terminal |-> "none",
               first |-> FALSE, attempted |-> FALSE, applied |-> FALSE,
               repaired |-> "none", passed |-> 0, total |-> 0]

\* An error return: a structured error with the partial outcome once repair
\* began, a bare one before.  A run that dies counts as the error it would
\* have returned.
Error(r) == IF r.attempted THEN Finish(r, FALSE, "infrastructure_error")
            ELSE [Unfinished EXCEPT !.terminal = "error"]

-----------------------------------------------------------------------------
(* coordinator.rs: decompose.  New modules first, then one task per         *)
(* modified module, then main, whether the intent lists it or not.         *)

Create(m)    == [kind |-> "CreateModule", mod |-> m]
AddFunction(m) == [kind |-> "AddFunction", mod |-> m]
ModifyMain   == [kind |-> "ModifyMain", mod |-> Main]

\* main is left to the last task.
ModifiedLibs(s) ==
    FoldLeft(LAMBDA kept, m : IF m = Main THEN kept ELSE Append(kept, m),
             <<>>, s.modify)

Decompose(s) ==
    [i \in 1..Len(s.create) |-> Create(s.create[i])]
    \o [i \in 1..Len(ModifiedLibs(s)) |-> AddFunction(ModifiedLibs(s)[i])]
    \o <<ModifyMain>>

Tasks == Decompose(specs[run.slug][run.gen])
Task  == Tasks[run.task]

\* Only a CreateModule task writes a file of its own; every other task, an
\* AddFunction for a library included, reads and writes main.jsonld.
TargetOf(task) == IF task.kind = "CreateModule" THEN task.mod ELSE Main

-----------------------------------------------------------------------------
Init ==
    /\ specs = [s \in Slugs |-> <<>>]
    /\ active = [s \in Slugs |-> NoFile]
    /\ companion = [s \in Slugs |-> "none"]
    /\ archived = [s \in Slugs |-> NoRecord]
    /\ deleted = [s \in Slugs |-> {}]
    /\ cut = [s \in Slugs |-> {}]
    /\ graph \in {g \in [Modules -> Texts \cup {Absent}] :
                    g[Main] \in Texts /\ \A m \in Libs : g[m] = Absent}
    /\ snaps = <<>>
    /\ run = NoRun
    /\ outcome = Unfinished
    /\ quiet = TRUE
    /\ raced = {}
    /\ proven = FALSE
    /\ undoPoint = Absent

Intact(s) == active[s].status \notin {"none", "torn"}
InHistory(s, g) == archived[s].state = "kept" /\ archived[s].gen = g
At(step)  == run.at = step
Goto(step) == run' = [run EXCEPT !.at = step]

\* The run ends and returns o.
Return(o) == run' = NoRun /\ outcome' = o

\* What a module may be written to hold.  Undo brings back main alone, so
\* nothing tells two texts of a library apart.
TextsOf(m) == IF m = Main THEN Texts ELSE {LibText}

WriteGraph(m, text) ==
    /\ graph' = [graph EXCEPT ![m] = text]
    /\ proven' = FALSE

\* save_intent writes the intent the run loaded, whatever the file holds now.
SaveIntent(status) ==
    active' = [active EXCEPT ![run.slug] = [status |-> status, gen |-> run.gen]]

-----------------------------------------------------------------------------
(* The runner *)

\* load_intent finds an intact file; the status it holds is not looked at.
\* Preflight either blocks, before anything is written, or lets the run go on.
Execute(s) ==
    /\ At("idle")
    /\ Intact(s)
    /\ Len(snaps) < MaxSnaps
    /\ \/ run' = Start(s) /\ outcome' = Unfinished
       \/ /\ UNCHANGED run
          /\ outcome' = Finish(Start(s), FALSE, "preflight_blocked")
    /\ quiet' = TRUE
    /\ UNCHANGED <<files, disk, raced, proven, undoPoint>>

MarkInProgress ==
    /\ At("mark")
    /\ SaveIntent("InProgress")
    /\ Goto("snapshot")
    /\ UNCHANGED <<specs, companion, archived, deleted, cut, disk, outcome, ghost>>

\* The text of main is saved unparsed, torn or not.
SaveSnapshot ==
    /\ At("snapshot")
    /\ snaps' = Append(snaps, graph[Main])
    /\ undoPoint' = graph[Main]
    /\ Goto("task")
    /\ UNCHANGED <<files, graph, outcome, quiet, raced, proven>>

\* A CreateModule task starts from a template.  Every other task parses
\* main.jsonld; when it is torn the run returns a bare error and the intent
\* stays InProgress.
ReadSource ==
    /\ At("task")
    /\ IF TargetOf(Task) = Main /\ graph[Main] = Torn
       THEN Return(Error(run))
       ELSE /\ run' = [run EXCEPT !.at = "mutate", !.mod = TargetOf(Task)]
            /\ UNCHANGED outcome
    /\ UNCHANGED <<files, disk, ghost>>

\* The model's reply: a patched module (after at most one more call when a
\* new module misses functions, whose failure keeps the first patch), a
\* question, or an error.  The last two fail the intent.
MutationReply ==
    /\ At("mutate")
    /\ \/ Goto("write")
       \/ Goto("fail")
    /\ UNCHANGED <<files, disk, outcome, ghost>>

\* Mutant: stop only after one task more than there are.
TasksOverrun == run.task > Len(Tasks)

LastTask == run.task = Len(Tasks)

\* Mutant: a snapshot before every task instead of one per intent.
SnapshotPerTask ==
    /\ At("write")
    /\ \E text \in TextsOf(run.mod) : WriteGraph(run.mod, text)
    /\ snaps' = Append(snaps, graph[Main])
    /\ run' = IF LastTask THEN [run EXCEPT !.at = "verify"]
              ELSE [run EXCEPT !.at = "task", !.task = @ + 1]
    /\ UNCHANGED <<files, outcome, quiet, raced, undoPoint>>

WriteTask ==
    /\ At("write")
    /\ \E text \in TextsOf(run.mod) : WriteGraph(run.mod, text)
    /\ run' = IF LastTask THEN [run EXCEPT !.at = "verify"]
              ELSE [run EXCEPT !.at = "task", !.task = @ + 1]
    /\ UNCHANGED <<files, snaps, outcome, quiet, raced, undoPoint>>

FailTask ==
    /\ At("fail")
    /\ SaveIntent("Failed")
    /\ \E terminal \in {"clarification_needed", "mutation_failed"} :
          Return(Finish(run, FALSE, terminal))
    /\ UNCHANGED <<specs, companion, archived, deleted, cut, disk, ghost>>

\* run_tests: any number of the test cases pass.
Verify ==
    /\ At("verify")
    /\ \E p \in 0..run.total :
        /\ run' = IF p = run.total
                  THEN [run EXCEPT !.at = "archive", !.passed = p, !.first = TRUE]
                  ELSE [run EXCEPT !.at = "repair", !.passed = p, !.attempted = TRUE,
                                   !.todo = {m \in Modules : graph[m] # Absent}]
        /\ proven' = (p = run.total)
    /\ UNCHANGED <<files, disk, outcome, quiet, raced, undoPoint>>

SkipModule(m) == run' = [run EXCEPT !.todo = @ \ {m}]

\* The repair cycle visits every module file, in directory order.  A file
\* that does not parse ends the run with a structured error.
RepairModule ==
    /\ At("repair")
    /\ \E m \in run.todo :
        \/ /\ graph[m] = Torn
           /\ Return(Error(run))
        \/ /\ graph[m] # Torn
           /\ SkipModule(m)             \* the reply was an error or a question
           /\ UNCHANGED outcome
        \/ /\ graph[m] # Torn
           /\ run' = [run EXCEPT !.at = "writeRepair", !.mod = m, !.todo = @ \ {m}]
           /\ UNCHANGED outcome
    /\ UNCHANGED <<files, disk, ghost>>

\* Mutant: a module stays on the list until its reply is an error.
RepairAgain ==
    /\ At("writeRepair")
    /\ \E text \in TextsOf(run.mod) : WriteGraph(run.mod, text)
    /\ run' = [run EXCEPT !.at = "repair", !.applied = TRUE, !.todo = @ \cup {run.mod}]
    /\ UNCHANGED <<files, snaps, outcome, quiet, raced, undoPoint>>

WriteRepair ==
    /\ At("writeRepair")
    /\ \E text \in TextsOf(run.mod) : WriteGraph(run.mod, text)
    /\ run' = [run EXCEPT !.at = "repair", !.applied = TRUE]
    /\ UNCHANGED <<files, snaps, outcome, quiet, raced, undoPoint>>

\* Mutant: archive the repaired graph on the strength of the first report.
TrustRepair ==
    /\ run' = [run EXCEPT !.at = "archive", !.passed = run.total]
    /\ UNCHANGED proven

Reverify ==
    \E p \in 0..run.total : /\ run' = [run EXCEPT !.at = "archive", !.passed = p]
                            /\ proven' = (p = run.total)

EndRepair ==
    /\ At("repair")
    /\ run.todo = {}
    /\ IF run.applied THEN Reverify
       ELSE Goto("archive") /\ UNCHANGED proven
    /\ UNCHANGED <<files, disk, outcome, quiet, raced, undoPoint>>

-----------------------------------------------------------------------------
(* status.rs: archive_intent, called whatever the report says *)

Failing == run.passed # run.total

\* Mutant: the active file goes before the archived copy is written.
DropActiveFirst(s) == /\ active' = [active EXCEPT ![s] = NoFile]
                      /\ UNCHANGED archived

\* The intent in the file is loaded, marked Completed and written with this
\* run's counts, over an older record of the same slug.
WriteArchive(s) ==
    /\ archived' = [archived EXCEPT ![s] = [state |-> "kept", gen |-> active[s].gen,
                                           passed |-> run.passed, total |-> run.total]]
    /\ UNCHANGED active

\* An error when the intent file was deleted or does not parse.
Archive ==
    /\ At("archive")
    /\ IF Intact(run.slug)
       THEN /\ WriteArchive(run.slug)
            /\ Goto("removeActive")
            /\ UNCHANGED outcome
       ELSE /\ Return(Error(run))
            /\ UNCHANGED <<active, archived>>
    /\ UNCHANGED <<specs, companion, deleted, cut, disk, ghost>>

RemoveActive ==
    /\ At("removeActive")
    /\ active' = [active EXCEPT ![run.slug] = NoFile]
    /\ Goto("moveCompanion")
    /\ UNCHANGED <<specs, companion, archived, deleted, cut, disk, outcome, ghost>>

\* The companion directory follows; then a failing run writes the intent
\* back as Failed (the archived copy, marked Completed, stays).
MoveCompanion ==
    /\ At("moveCompanion")
    /\ companion' = [companion EXCEPT ![run.slug] = IF @ = "active" THEN "history" ELSE @]
    /\ IF Failing
       THEN Goto("saveFailed") /\ UNCHANGED outcome
       ELSE Return(Finish(run, TRUE, "completed"))
    /\ UNCHANGED <<specs, active, archived, deleted, cut, disk, ghost>>

\* Mutant: the failed intent stays archived.
LeaveArchived ==
    /\ At("saveFailed")
    /\ Return(Finish(run, FALSE, "verifier_failed"))
    /\ UNCHANGED <<files, disk, ghost>>

SaveFailed ==
    /\ At("saveFailed")
    /\ SaveIntent("Failed")
    /\ Return(Finish(run, FALSE, "verifier_failed"))
    /\ UNCHANGED <<specs, companion, archived, deleted, cut, disk, ghost>>

\* The verifier runs the compiled program without a time limit.
Verifying == At("verify") \/ (At("repair") /\ run.todo = {} /\ run.applied)

Runner ==
    \/ MarkInProgress \/ SaveSnapshot
    \/ ReadSource \/ MutationReply \/ WriteTask \/ FailTask
    \/ Verify \/ RepairModule \/ WriteRepair \/ EndRepair
    \/ Archive \/ RemoveActive \/ MoveCompanion \/ SaveFailed

-----------------------------------------------------------------------------
(* The runner dies, or an I/O error makes it return, at any point.  A file  *)
(* it was writing may be left torn.                                        *)

TearsIntent  == At("mark") \/ At("fail") \/ At("saveFailed")
TearsGraph   == At("write") \/ At("writeRepair")

Die ==
    /\ ~At("idle")
    /\ Return(Error(run))
    /\ UNCHANGED <<files, disk, ghost>>

\* save_intent is an fs::write over the file, often the only copy there is.
DieWritingIntent ==
    /\ TearsIntent
    /\ SaveIntent("torn")
    /\ cut' = [cut EXCEPT ![run.slug] =
                  IF InHistory(run.slug, run.gen) THEN @ ELSE @ \cup {run.gen}]
    /\ Return(Error(run))
    /\ UNCHANGED <<specs, companion, archived, deleted, disk, ghost>>

DieWritingSnapshot ==
    /\ At("snapshot")
    /\ snaps' = Append(snaps, Torn)
    /\ undoPoint' = Absent
    /\ Return(Error(run))
    /\ UNCHANGED <<files, graph, quiet, raced, proven>>

DieWritingGraph ==
    /\ TearsGraph
    /\ WriteGraph(run.mod, Torn)
    /\ Return(Error(run))
    /\ UNCHANGED <<files, snaps, quiet, raced, undoPoint>>

DieWritingArchive ==
    /\ At("archive")
    /\ Intact(run.slug)
    /\ archived' = [archived EXCEPT ![run.slug] =
                        [NoRecord EXCEPT !.state = "torn", !.gen = active[run.slug].gen]]
    /\ Return(Error(run))
    /\ UNCHANGED <<specs, active, companion, deleted, cut, disk, ghost>>

-----------------------------------------------------------------------------
(* Other processes *)

Interfere(s) ==
    /\ quiet' = FALSE
    /\ raced' = IF run.slug = s THEN raced \cup {s} ELSE raced

\* `duumbi intent create`: unique_slug gives out a name with neither an
\* active file nor a companion directory; both are then written.
CreateIntent(s) ==
    /\ Len(specs[s]) < MaxGen
    /\ active[s] = NoFile /\ companion[s] # "active"
    /\ \E c \in SpecChoices : specs' = [specs EXCEPT ![s] = Append(@, c)]
    /\ active' = [active EXCEPT ![s] = [status |-> "Pending", gen |-> Len(specs[s]) + 1]]
    /\ companion' = [companion EXCEPT ![s] = "active"]
    /\ Interfere(s)
    /\ UNCHANGED <<archived, deleted, cut, disk, run, outcome, proven, undoPoint>>

\* delete_intent: rename the file, then the companion directory (a deletion
\* that dies between the two leaves the directory behind).  A torn file is
\* moved as it is, and brings no intent with it.
DeleteIntent(s) ==
    /\ active[s] # NoFile
    /\ active' = [active EXCEPT ![s] = NoFile]
    /\ deleted' = [deleted EXCEPT ![s] = IF Intact(s) THEN @ \cup {active[s].gen} ELSE @]
    /\ \/ companion' = [companion EXCEPT ![s] = IF @ = "active" THEN "deleted" ELSE @]
       \/ UNCHANGED companion
    /\ Interfere(s)
    /\ UNCHANGED <<specs, archived, cut, disk, run, outcome, proven, undoPoint>>

\* `duumbi undo`.
Undo ==
    /\ snaps # <<>>
    /\ WriteGraph(Main, Last(snaps))
    /\ snaps' = Front(snaps)
    /\ undoPoint' = Absent
    /\ quiet' = FALSE
    /\ UNCHANGED <<files, run, outcome, raced>>

\* `duumbi add` in another process: snapshot, then write main.
AddRequest ==
    /\ graph[Main] # Torn
    /\ Len(snaps) < MaxSnaps - 1
    /\ snaps' = Append(snaps, graph[Main])
    /\ \E text \in Texts : WriteGraph(Main, text)
    /\ undoPoint' = Absent
    /\ quiet' = FALSE
    /\ UNCHANGED <<files, run, outcome, raced>>

\* An edit without a snapshot: graph_mutate, the studio socket.
EditModule(m) ==
    /\ graph[m] \notin {Absent, Torn}
    /\ \E text \in TextsOf(m) : WriteGraph(m, text)
    /\ quiet' = FALSE
    /\ UNCHANGED <<files, snaps, run, outcome, raced, undoPoint>>

Next ==
    \/ \E s \in Slugs : Execute(s) \/ CreateIntent(s) \/ DeleteIntent(s)
    \/ Runner
    \/ Die \/ DieWritingIntent \/ DieWritingSnapshot \/ DieWritingGraph
    \/ DieWritingArchive
    \/ Undo \/ AddRequest \/ \E m \in Modules : EditModule(m)

\* Every model call has a timeout, so the runner takes its next step, except
\* in the verifier, where the program under test may never end.
Spec == Init /\ [][Next]_vars /\ WF_vars(Runner /\ ~Verifying)

-----------------------------------------------------------------------------
(* Properties *)

Statuses == {"none", "torn", "Pending", "InProgress", "Failed"}

TypeOK ==
    /\ specs \in [Slugs -> Seq(SpecChoices)]
    /\ active \in [Slugs -> [status : Statuses, gen : 0..MaxGen]]
    /\ companion \in [Slugs -> {"none", "active", "history", "deleted"}]
    /\ archived \in [Slugs -> [state : {"none", "torn", "kept"}, gen : 0..MaxGen,
                               passed : Nat, total : Nat]]
    /\ {deleted, cut} \subseteq [Slugs -> SUBSET (1..MaxGen)]
    /\ graph \in [Modules -> Texts \cup {LibText, Absent, Torn}]
    /\ snaps \in Seq(Texts \cup {Torn})
    /\ run.at = "idle" \/ run.task \in 1..Len(Tasks)
    /\ quiet \in BOOLEAN /\ proven \in BOOLEAN /\ raced \subseteq Slugs

\* Every intent ever created can still be read: in its active file, in the
\* deleted directory, or in the history, where only a later intent of the
\* same slug replaces it.  archive_intent writes the archived copy before it
\* removes the active file, and delete_intent moves the file.  There are two
\* exceptions.  A run that dies inside save_intent tears the file, which loses
\* the intent unless the history holds it (as it does when a failing run
\* writes the intent back); a death anywhere else loses nothing.  And a slug
\* may be deleted or created again while a run is executing it: the run saves
\* the intent it loaded over whatever the file holds by then.
IntentNeverLost ==
    \A s \in Slugs \ raced : \A g \in 1..Len(specs[s]) :
        \/ Intact(s) /\ active[s].gen = g
        \/ g \in deleted[s]
        \/ InHistory(s, g) \/ archived[s].gen > g
        \/ g \in cut[s]

\* From its snapshot on, and until somebody else touches the history, one
\* undo brings main back to the text it had before the intent, however many
\* tasks and repairs were written and wherever the run stopped: the advice
\* "Use `duumbi undo` to revert the graph" printed when a task fails.
OneUndoRevertsMain ==
    undoPoint # Absent => snaps # <<>> /\ Last(snaps) = undoPoint

\* A run reports success only for the program that is on disk: if no other
\* process interfered, the verifier passed every test of the spec on exactly
\* these module files, and no write came after it.
SuccessIsVerified ==
    outcome.success /\ quiet => proven /\ outcome.passed = outcome.total

\* What a run returns agrees with what it leaves on disk, when no other
\* process interfered: success leaves no active file and an archived record
\* with every test passed; a reported failure leaves the intent Failed, to be
\* run again; and the repair fields agree with each other.
OutcomeMatchesDisk ==
    /\ quiet /\ outcome.terminal # "none" =>
        LET s == outcome.slug IN
        /\ outcome.terminal = "completed" =>
               /\ active[s] = NoFile /\ companion[s] # "active"
               /\ archived[s] = [state |-> "kept", gen |-> outcome.gen,
                                 passed |-> outcome.total, total |-> outcome.total]
        /\ outcome.terminal \in {"verifier_failed", "mutation_failed",
                                 "clarification_needed"} =>
               active[s] = [status |-> "Failed", gen |-> outcome.gen]
        /\ outcome.terminal = "verifier_failed" => outcome.passed < outcome.total
    /\ outcome.first => ~outcome.attempted
    /\ outcome.applied => outcome.attempted
    /\ outcome.success => outcome.first \/ outcome.applied
    /\ outcome.success => outcome.repaired = (IF outcome.attempted THEN "yes" ELSE "none")

\* The runner never hangs outside the verifier: whatever the model replies,
\* its loops over tasks and modules end and the run returns.
OnlyVerifierHangs == []<>(At("idle") \/ Verifying)

\* "All tasks completed and all tests passed" is what spec.rs says of the
\* status Completed.  archive_intent stamps it on every archived intent, and
\* the runner archives before it looks at the report.
CompletedMeansAllPassed ==
    \A s \in Slugs : archived[s].state = "kept" => archived[s].passed = archived[s].total
=============================================================================
