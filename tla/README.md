# A verification project for duumbi

duumbi keeps a program as JSON-LD modules in a workspace directory and lets
people, language models and tools edit it. This project models the parts of it
that are state machines over files shared by several processes, checks them
with TLC and proves their main invariants with TLAPS. Every definition is
translated from the Rust source; `PROJECT.json` names, for each of them, the
lines it stands for.

Paths below are relative to the repository.

## 1. The system and its parts

A workspace has a hidden directory `.duumbi` with the graph, its undo history,
the intents, approvals, sessions, caches and telemetry. The command line, the
REPL, the MCP servers that coding agents start, and the studio web server are
separate processes that all work on these files. Nearly nothing is locked, a
write is `fs::write` (truncate, then fill) unless said otherwise, and any call
may wait for minutes on a language model or on a human between reading a file
and writing it. This is where the hard behaviour is: interleaved file
operations, state that is stale when it is used, and processes that die between
two writes. Inside one process there is little concurrency: benchmark attempts
that share a retention budget, and threads that drain the pipes of a child. The
other hard part is sequential: parser, validator, ownership checks, lowering and
C library go through a program one after the other, each with its own idea of
what an op means, and have to agree.

| component | state | operations | hard behaviour | what makes it correct |
|---|---|---|---|---|
| graph store and undo history (`snapshot.rs`, `main.rs`, `cli/repl.rs`, `cli/rewrite.rs`, `mcp/tools`, studio) | `graph/*.jsonld`, `history/NNNNNN.jsonld` | add, REPL turn, rewrite, mutate, studio chat and socket, undo | several processes, crashes, failed snapshots | an edit can be undone; undo points are neither overwritten nor lost; undo restores what was edited |
| intent execution (`intent/execute.rs`, `coordinator.rs`) | one run; the graph; the intent file | load, mark, snapshot, tasks, verify, repair, archive | failures at each of a dozen writes, model calls, others editing | success is verified; one undo reverts a run; the result agrees with the disk; a run ends |
| intent store (`intent/mod.rs`, `spec.rs`, `status.rs`) | `intents/*.yaml`, companion directories, `history/`, `deleted/` | create, load, save, archive, delete | three-step archival, torn files, names used again | no intent vanishes; a status means what it says |
| attempt evidence retention (`intent/attempt.rs`) | byte counters and a stop flag under a mutex; the run tree | begin, persist, stub, fail | concurrent attempts, limits, partial writes | the budgets hold; counters and reports match the tree; nothing after the stop |
| MCP approvals (`mcp/approval.rs`) | `session/approvals/<id>.json`, the graph | request, approve, reject, apply | two servers, stale candidates, death between two writes | only what was reviewed is applied, once, and never after a rejection |
| model catalog store (`agents/model_catalog.rs`) | `current.json`, `current.sha256`, `state.json`, their `.tmp` and `.bak` | check, skip, remind, disable, approve | three files replaced one by one, common temporary names | the active catalog was approved; decisions are kept; a failed adoption changes nothing |
| sessions (`session/mod.rs`) | `current.json`, archive | load, record, save, archive | a common temporary file, crash | a session is never half-saved |
| model access and performance records (`agents/model_access.rs`, `model_performance.rs`) | aggregate JSON files | load, change, save | lost updates | counts are those of the events |
| process runs (`workspace.rs`, `bench/process.rs`) | a child with a helper, its pipes, reader and writer threads, a deadline | spawn, drain, feed, wait, kill, join | deadline against completion, full pipes, helpers that keep a pipe | a run returns; what it reports is true; nothing is left running |
| dependencies, registry (`deps.rs`, `cli/deps.rs`, `registry/`) | the dependencies of `config.toml`, cache, vendor directory, `deps.lock` | add, remove, update, install, vendor, build, audit | downloads interrupted half way, config saved from a stale copy, one version read as a range and as a name | the lock file describes what is built; no declaration is lost; what was locked stays |
| ownership (`graph/ownership.rs`, `compiler/lowering.rs`, the C library) | moved and dropped values, borrows; `heap_allocs`; the heap of the run | check, lower, run each ownership op | one linear walk over a control-flow graph; arrays that move when they grow; one list of allocations for all paths | a program that is built frees every object once and never touches a freed one |
| types of a function (`parser/`, `graph/validator.rs`, `graph/result_safety.rs`, `compiler/lowering.rs`, the C library) | derived types, machine types, results not yet handled | parse, check, lower, call | five lists of ops that nothing ties together | a program that is built confuses no types and ignores no failure; a right program is accepted |
| loop-native engine (`loop_native/mod.rs`) | a loop record | start, iterate, stop | stop conditions, resume | a loop ends for a recorded reason |
| telemetry (`telemetry/mod.rs`) | trace and crash files | append, correlate, prune | concurrent appends | evidence belongs to the crash it names |
| provider clients, agents, prompts, knowledge, context, queries, UI | none that is shared | pure functions, HTTP requests, drawing | - | - |

`PROJECT.json` lists all 39 components with their files and says which are
modelled, partly modelled or not modelled, and why.

How they interact: everything that edits the program goes through the graph
files, so *graph store*, *intent execution* and *MCP approvals* disturb one
another; each of their models therefore contains the other two as an
environment that may edit or undo at any time. *Intent execution* calls the
*intent store* and, in benchmarks, reports to *retention*. The *catalog store*
is per user and independent of any workspace. *Ownership* and *types* are two
views of one pass over a program. Who runs the validator, which the checks of
both belong to, depends on the build: the build of a single file does, and refuses
at any diagnostic, warnings included (`cli/commands.rs:67`); the build of a
workspace, which *process runs* starts, goes from loading to lowering without it
(`workspace.rs:134`), so that only the lowering and Cranelift's verifier refuse
anything there. `Ownership` and `Compile` have both builds (`Builds`).

## 2. Modules

| module | models | checked by | proved in |
|---|---|---|---|
| `GraphHistory` | graph files and undo history, file operation by file operation | `MCGraphHistory` (.cfg, `MCUndoOtherModule.cfg`) | `GraphHistoryProofs` |
| `IntentExecute` | an intent from creation to archive | `MCIntentExecute` (.cfg, `MCIntentCompleted.cfg`) | `IntentExecuteProofs` |
| `Retention` | the shared evidence budget of a benchmark run, write by write | `MCRetention` | `BenchProofs` |
| `EvidenceBudget` | the same budget as its users may think of it: one step for each attempt | `MCRetention`, as a property of `Retention` | `BenchProofs` |
| `Approval` | the approval ledger and the patch it guards | `MCApproval` | `ApprovalProofs` |
| `CatalogStore` | the three files of the model catalog | `MCCatalogStore` | `CatalogStoreProofs` |
| `Dependencies` | config.toml, registry, cache, vendored copies and lock file | `MCDependencies` (.cfg, `MCInstallFinds.cfg`) | `DependenciesProofs` |
| `Ownership` | the heap values of one function: checked, lowered and run | `MCOwnership` | `OwnershipProofs` |
| `OpTable` | what parser, validator, lowering and library say of each op that becomes one library call | through `Compile` | `CompileProofs` |
| `Compile` | the types of one function: parsed, validated, lowered, verified and run | `MCCompile` | `CompileProofs` |
| `ProcessRun` | one run of a child whose output is captured | `MCProcessRun` | `BenchProofs` |

`Compile` extends `OpTable`, and `Retention` instantiates `EvidenceBudget`. `BenchProofs` extends
`Retention` and `ProcessRun`, which share nothing; the definitions of `ProcessRun`
are named `RunInit`, `RunNext` and so on for its sake. Else
the modules do not extend one another: each takes of the others only the effect
on the files it shares with them (`Edit` in `Approval`; `Undo`, `AddRequest` and
`EditModule` in `IntentExecute`; every editor in `GraphHistory`). Definitions that
end up only as mutants of another one are marked "Mutant" in their comment; they are not part of any
specification.

Conventions. A process is a record with the next file operation in `at`; an
action is one file operation, guarded by `at`. `alone` and `quiet` say that no
other process has run since the call began: properties that the code cannot
keep without a lock are stated for calls that were not overlapped, and the
properties say so. `Torn` is what a file holds after a write that died.

### GraphHistory

State: `graph` (module to content), `hist` (snapshot number to content), `cmd`
(process to the command under way). A content is a record `[of, version]`: the
module that a text describes travels with the text, which is what lets
`UndoRestoresItsModule` notice a library's text in main.

| action | code |
|---|---|
| `Add`, `StudioChat`, `ReplTurn`, `RewriteApply`, `GraphMutate`, `StudioSocket` | the editors read and parse a module; the model or the user may take any time afterwards |
| `PickSeq`, `OpenSnap`, `FillSnap` | `save_snapshot`: next number from a directory listing, then `fs::write` |
| `SnapshotFails` | the REPL's warning-and-continue; an error for everybody else |
| `OpenGraph`, `FillGraph` | `fs::write` over the module |
| `Rename` | the rewrite tool's write of a temporary file and rename |
| `BeginUndo`, `ReadSnap`, `OpenGraph`, `FillFromSnap`, `RemoveSnap` | `restore_latest` |
| `Crash` | death or an I/O error between two file operations |

### IntentExecute

State: `specs` (every intent ever created), `active`, `archived`, `companion`,
`deleted` (the intent files by slug), `graph`, `snaps`, `run` (the run under
way), `outcome` (what the last run returned), and history variables: `proven`
(the last verification passed on the files as they are), `undoPoint` (what one
undo must restore), `quiet`, `raced`.

A run goes `Execute`, `MarkInProgress`, `SaveSnapshot`, then for each task of
`Decompose` `ReadSource`, `MutationReply`, `WriteTask`; `Verify`, a repair cycle
(`RepairModule`, `WriteRepair`, `Reverify`, `EndRepair`), and `Archive`,
`RemoveActive`, `MoveCompanion`, or `FailTask`/`SaveFailed`. Each write may also
be the last thing the process does (`Die...`). It is the command-line path: no
external verifier is installed there. An I/O error and a death both end the run;
the difference, whether `outcome` is reported, is in `Error`. `save_intent` is a
plain write over a file that is often the only copy of the intent; the history
variable `cut` has the intents that a death in it has lost, and
`IntentNeverLost` allows for them and for no others. The texts of a
library are collapsed to one (`LibText`), because undo is about main only.

### Retention

State: what the mutex protects (`content`, `stub`, `stop`), the mutex (`lock`),
the run tree (`files`, `stubs`), and per attempt `at`, `todo`, `result`. Evidence
is a number of bytes; a write takes any part of what is left, so partial writes
and failures in the middle of the allowlist are covered. `force_persist_failure`
is false in every production caller and left out.

`EvidenceBudget` says what this comes to: the evidence of an attempt is settled in
one step, decided by what was settled before. `Retention` implements it
(`SettledAtOnce`), with what is spent mapped to the content counter but for the
files of an attempt that is still writing: an attempt writes many files, some of
which fail, and nobody who asks for the budget meanwhile sees half of them.

### Approval

State: `main`, `lib`, `records`, `server`; history variables `decisions`, `uses`,
`raced`, `died`. `HashOf` need not be injective, as the semantic hash drops the
node ids. Record and graph writes are one step that may leave the file torn (the
halves of a write are in `GraphHistory`). Read-only tools change no state.

### CatalogStore

State: `final`, `tmp`, `bak` (what each of the three files and its temporary and
backup hold), `handle` (where the file is that a process has opened and not yet
written: another process may have renamed it), `call`; history variables
`approved`, `promise`. A catalog stands for its own hash. Of
`CatalogRefreshState` the model keeps what decides an offer: installed and skipped
hashes and the disabled flag. A reminder is a time, so a check may always find
one that is not over and stay quiet. Errors of removals and of the way back are
ignored by the code (`let _ =`) and left out.

### Dependencies

State: `config` (the version that config.toml declares for each module),
`published` and `yanked` (the registry), `cache`, `vendor` (directories: which
version each graph file in them comes from, or `Torn`), `lock` (deps.lock), `op`
(process to the command under way); history variables `alone`, `stale` (who is
about to save a config that somebody has since replaced, or that it could not read), `wanted` (what the user
asked for) and `spoiled`. A file is written in two steps, truncate and fill.

| action | code |
|---|---|
| `StartAdd`, `StartRemove`, `StartUpdate`, `StartInstall`, `StartVendor`, `StartBuild` | the commands load the config |
| `ResolveVersion`, `VersionNotFound` | `resolve_version`: the highest version that is accepted and not yanked; is it cached already? |
| `Fetch`, `Unpack`, `UnpackFile` | `download_module`: the answer, then the archive file by file, over what the directory holds |
| `Reload`, `Truncate`, `Fill` | add loads the config again; `save_config` |
| `Planned`, `AddEntry`, `ListFiles`, `ParseFile`, `HashFile`, `EntryDone` | `build_lockfile`: where each dependency is, then `semantic_hash` and `integrity_hash`, each a pass over its files one by one |
| `Frozen`, `TruncateLock`, `FillLock` | the comparison of `--frozen`, `generate_lockfile` |
| `LoadModule`, `Loaded` | `load_program_with_deps_opts`, online and offline |
| `VendorDir`, `CopyFile`, `FillCopy`, `Vendored` | `vendor_dependencies` |
| `Die` | death, a refusal of the registry, or an I/O error that ends the command: what was written stays |
| `Publish`, `Yank` | what others do to the registry |

An error in `load_config` ends no command that says `unwrap_or_default()`: it goes
on with an empty config (`Loads`), and add saves that with its own entry alone.
An entry has what each hash was taken of, `meaning` and `content`, which may
differ when somebody unpacks into the directory between the passes; a torn file
ends the first pass, which parses it, and is hashed like any other by the second.
The audit changes nothing; what it reports is `Failures`, in `WholeStaysLocked`.
A declared version v accepts every version from v on, as semver reads "1.0.0".

### Ownership

The function is written down node by node. The ownership checks, the lowering
and a run go through the nodes in the same order (a run skips the blocks it does
not reach), so one action places a node, checks it, lowers it and executes it if
its block is the one the run is in (`at`). What is executed counts once a build
makes a program of the function: `Compiled("file")` wants no diagnostic,
`Compiled("workspace")` only the verifier's consent. The state falls into five groups:
`program` (the nodes with the type each records, their blocks, dominance),
`analysis` (moved and dropped sources, borrows, diagnostics), `lowering`
(`value_map`, `heap_allocs`, what Cranelift's verifier would find), `machine` (what
values point to, live and freed objects, array elements), and `history`.

| action | code |
|---|---|
| `Alloc`, `Produce`, `CallFresh`, `CallIdentity` | nodes with a heap result: `Op::Alloc`, library calls, calls of functions |
| `Move`, `Borrow`, `Drop` | the three ownership ops, in `check_use_after_move`, `check_borrow_exclusivity`, `check_drop_safety` and in the lowering |
| `Push`, `Take` | a growing array moves its elements; an element is taken out |
| `Return`, `Branch`, `NextBlock` | what is freed at the end, on the path that gets there |

The checks know less than the run. `lapses` names what an author may do that no
check looks at (recording another type than the operation has, which the parser
keeps and by which a drop frees, so that a dropped borrow labelled "string" frees
its source; using a value after its move in an op other than the checked
ones, consuming it again, returning a borrow, a callee that returns its argument,
and others). `SafeUnlessLapse` says that nothing else goes wrong, so the set is at
the same time the list of what the checks do not cover. A workspace build does
not hear of what they do cover (`Unvalidated`).

### OpTable and Compile

`OpTable` holds, for each op that compiles to one library call, the fields the
parser reads, the types the validator asks of them, the type `Op::output_type`
gives, the order in which the lowering passes them, and the C signature. `Compile`
writes a function down node by node from any operands and labels. Each op is a
record of its effects - the value it defines, diagnostics, whether the verifier
accepts it, and so on - and two actions apply such a record: `Place` to a node
inside a block, `End` to a terminator. `AnyCalls` says whether library calls are tried
with every argument and label, or with at most one argument that is not the
parameter of the type that is due; the proofs hold for both. As in `Ownership`, a
file is compiled only if nothing was reported, a workspace whatever was. A value has
the type that the validator derives (`decl`), the type of what is there at run
time (`real`) and the machine type of its register (`cl`). `right` records that the
author meant every node and labelled it right, and asked a value for its Ok or
Some in the same block (`checked`) before every unwrap of it: E034 is a warning,
but the build of a file refuses at it like at any other. `gaps` names what no check looks
at and was done: operands without a type, a wrong `duumbi:resultType`, ops whose
operands are never compared (`unchecked`), arithmetic on what is not a number,
payloads of fewer than 64 bits, a void function, a node behind a `Match`.

### ProcessRun

State: `call` (how the child is run, where the caller is, whether the deadline is
past), `procs` (child and helper), `out` (for each stream what was written and where
its lines `ends`, what the pipe holds, what the reader has kept and whether that is
`cut`), `stdin`, `outcome` (with the streams that did not end in time, `lost`).

| action | code |
|---|---|
| `Write`, `TakeInput`, `StartHelper`, `HelperEnds`, `ChildExits` | the child (external): it may run forever, write as much as it likes, and read nothing |
| `Read`, `ReadEnd`, `Send`, `SendEnd` | `pipe_reader`, `drain`, `stdin_writer` |
| `ReadAll`, `SeeExit`, `SeeDeadline`, `Kill`, `Reap`, `Join`, `JoinWriter` | `wait_with_optional_timeout` without and with a deadline, `join_reader`, `join_stdin_writer` |
| `KillTree`, `CollectStdout`, `CollectStderr`, `CleanupFails`, `Cancel` | `ManagedChild::finish` and `drop` of the bench fixtures |

A pipe is full at `PipeSize`, and it ends when it is empty and neither child nor
helper lives. Of a stream that went past `LogLimit`, `drain` keeps the complete
lines among the first `LogLimit` bytes (`LinesEnd`), which may be none; the redaction
of what is kept is left out. A spawn that fails returns before there is anything to run.

## 3. Runs

All runs finish within three minutes. `CHECK_DEADLOCK FALSE` is set throughout: the
bounds end every behaviour, and an idle system is allowed to stay idle.

| run | shows | bounds, and why they are enough |
|---|---|---|
| `graph_history` | an undisturbed edit is one undo away from what it replaced; undo points are overwritten or lost only by overlap | 2 processes (an overlap takes two), main and one library, 2 texts each, 2 snapshots: numbers grow and are used again after an undo |
| `undo_other_module` (violation) | undo of a library rewrite writes the library over main | 1 process |
| `intent_execute` | intents are lost only by a death inside the save of the only copy or under a slug taken from a run, one undo reverts a run, success is verified, outcome and disk agree, only the verifier hangs | one slug created up to twice (names are used again), one library that the spec creates and modifies, so three tasks; 2 texts; 2 snapshots: the run's and another command's |
| `intent_completed_failing` (violation) | an intent with failing tests is archived as completed | 1 text, 1 snapshot |
| `retention` | the budget holds, reports and tree agree, persisting ends, and the writes of each attempt implement one step of `EvidenceBudget` | 4 attempts of up to 2 bytes with budgets of 2 and 2: some fit, some get stubs, some find the pool used up |
| `approval` | only what was reviewed is applied, decisions are final, an approval is used once | 2 servers; one id, as approvals meet only through main, which `Edit` covers; 4 texts with 2 hashes; at most 2 uses |
| `catalog` | only approved catalogs are active; decisions are kept and adoption is all or nothing without overlap | 2 processes, 2 catalogs, 3 calls (adopt, decide, check), one fault or death at any file operation, at most 1 skipped hash so that the cap bites |
| `dependencies` | declarations are lost only by overlap, a dead save or a failed load; what was hashed as a whole cached module stays, also while others unpack; a build loads what it locked; `--frozen` keeps the lock file; vendoring brings every cached file to what the cache holds, the whole version if that is cached whole | either 2 commands: of one process on 2 modules, of 2 processes on one, or of 2 that add and remove two (a config entry is lost to one of another module); or 5 commands of one process on one module (say, interrupted add, vendor, update, vendor again, build); the constraint `WideOrNarrow` keeps to these shapes. 2 versions of which the second drops a file, 1 death, 1 yank |
| `install_finds_declared` (violation) | install on a fresh clone fails once a newer compatible version is published, with no command dying | 1 process, 1 module, 2 versions, up to 6 commands, no faults |
| `ownership` | a function that is built without a diagnostic or a lapse frees every object once and touches no freed one; what `heap_allocs` tracks is what is live | every function of 5 nodes, of any recorded types, in 3 blocks (a branch and its two ends), arrays of capacity 1, so that the second push moves one. One with a diagnostic or a lapse is written up to 3 nodes only (`Worthwhile`) |
| `compile` | a function that is built without a diagnostic confuses no types and ignores no failure unless through a gap; nothing is reported of a right one; what is believed of a value is so | every function of 2 nodes and a return in up to 2 blocks over 15 parameters, one of each kind of type: a node's effect depends on its operands, and every operand is within reach of a first node; 8 labels, 5 return types, 2 callees. Programs that are refused or have a gap are not continued (`Worthwhile`) |
| `process_run` | a result is true in all its parts and leaves nothing running; no one waits forever | pipes of 1 byte, up to 2 bytes of input and 3 of each stream, so that pipes fill and a kill leaves something in them; managed runs keep 2 bytes, so that a stream that is cut may keep all of them, its first line or nothing |

Symmetry is declared for processes, servers and catalogs in runs that check
safety only; no action and no property names one of them.

Every property of a passing run has a mutant: a plausible bug in one mapped
definition that makes TLC find the property violated.

### Fairness

Three properties are about progress. `OnlyVerifierHangs` assumes
`WF_vars(Runner /\ ~Verifying)`: every model call of the runner has a timeout, so
its next step is taken, but the verifier runs the compiled program without one
(`intent/verifier.rs`). `PersistEnds` assumes weak fairness of an attempt that
persists its evidence: it waits for nothing but the mutex, and a mutex that is
released is only taken by attempts that finish with it. `NobodyWaitsForever`
assumes weak fairness of each reader, the writer, the clock and the caller, which
are threads or tasks that wait for one thing each; nothing is assumed of the
child and its helper. Nothing is assumed of how long an attempt executes, nor of
any other module.

### Findings

1. `undo_other_module`: `restore_latest` writes the newest snapshot to
   `main.jsonld`, whichever module it was taken of.
2. `intent_completed_failing`: an intent is archived as `Completed` before the
   last verification is looked at.
3. `install_finds_declared`: install downloads the highest version that the
   declared one accepts, and then looks in the cache for the declared one. A
   fresh clone declares version 1, version 2 is published, the install
   downloads 2 and fails for want of 1.

Noticed while reading, without a run of their own.

- Editing: `docs/modes/README.md` says that edits are snapshotted, the studio socket
  and `graph_mutate` save none; an `AddFunction` task for a library mutates main;
  the archive of a slug is overwritten when the slug is used again.
- Approvals: the check that an approval is pending and the save of the decision
  are not one step for two servers (`src/mcp/approval.rs:189`), so one that a server
  approved and another rejected may be applied. `DecisionIsFinal` excuses it.
- Catalog: an adoption that fails to move an old file aside restores files that
  were never backed up, and so removes the active catalog
  (`src/agents/model_catalog.rs:1024`, `:954`, `:511`).
- Retention: `StubPoolExhausted` is documented as "cannot hold another stub", but a
  run stops only when nothing at all remains.
- Intents: every save of a running intent is `fs::write` over its only copy
  (`src/intent/mod.rs:177`).
- Builds: a workspace build never runs the validator (`src/workspace.rs:134`), nor
  does `check` on a file of a workspace, which prints "Validation passed"
  (`src/cli/commands.rs:303`); the lowering says of borrows that "Safety is enforced
  by the validator" (`src/compiler/lowering.rs:1954`).
- Dependencies: a vendored directory keeps the files that only an older version
  has, and they are loaded; a requirement such as `^1.0`, which
  docs/architecture.md:379 declares, is looked up as the name of a cache directory; a config that cannot be read counts
  as empty and may be saved as such (`src/cli/deps.rs:112`); an entry that is made
  while another command unpacks may have a torn file in its integrity hash, and
  vendoring copies what an interrupted unpack left.
- Ownership: `src/graph/ownership.rs` calls any use of a moved value an error, but
  looks only at the ops of ownership itself; a call, a push or a return of a moved
  value is accepted (the lapses `lateUse` and `consumeAgain`). Drops are judged by the
  list of nodes, not by path. The `duumbi:resultType` of an ownership op is compared
  with nothing, and a drop frees by it, that of a borrow too (`mislabelled`).
- Types: a payload of `Result`, `Option` or array op is passed as it is, so an f64
  or a bool one is refused by Cranelift's verifier, although
  `runtime/duumbi_runtime.c:517` says that this works; a `Match` may be followed by
  nodes of its block; a function that returns void never compiles; a `Const` with
  another `duumbi:resultType` is an integer labelled so; `Modulo` by zero has no
  guard; what `unwrap`, `ArrayGet`, `Load` and `Call` nodes are labelled with is never
  compared; E034 is called a warning that leaves an unwrap "valid but risky"
  (`src/graph/result_safety.rs:224`), but the build of a file fails at it
  (`src/cli/commands.rs:68`), and it looks at one block. The checks of Result and
  Option run only when the graph has some op of a list that lacks `Call`, hence the
  hypothesis `gated` of `FailuresSeen`.
- Process runs: a program that ends without reading its input makes its run an
  error or not depending on whether the writer was quicker (`JoinWriter`); the
  second `kill_tree` of a managed run signals a process group whose leader has been
  waited for, so the id may in principle be another's (`src/bench/process.rs:749`);
  a stranger that takes the port between `wait_for_port_handoff` and the bind is
  asked in the service's place, and its answer counts against the program, which
  the comment above that call says must never happen.

## 4. Proofs

TLAPS proves the following for every value of the constants, from the named
assumptions of the modules (`MainAssumption`, `TornAssumption`, `SeqAssumption`,
`CapAssumption`, `AttemptsAssumption`, `FreeAssumption`, `NoneAssumption`,
`VersionAssumption`, `ShippedAssumption`, `BoundAssumption`, `AbsentAssumption`,
`SizeAssumption`, `LimitAssumption`, `SpecAssumption`, `StateAssumption`,
`TypesAssumption`, `ChosenAssumption` and the five of `Approval`); TLC evaluates these
in every run. All of them say what kind of thing a constant is; none states a
fact that is used in place of a proof.

- `GraphHistoryProofs`: `TypeCorrect`, `WriteAhead`, `PointsKept`, `DiscardSafe`.
  None of the properties is inductive: that a snapshot is the newest when the
  module is replaced depends on nobody having run since it was numbered. The
  invariant is `TypeOK`, `AloneInv` (a command that is alone and under way is the
  only one under way) and, for each process, `EditInv` and `UndoInv`: what an
  undisturbed edit or undo has read, numbered and saved so far. `AloneInv` makes
  every step of another process irrelevant for them. `PointsKept` and `DiscardSafe` are
  about steps; they follow from the invariant by cases on the action.
- `BenchProofs`, of `Retention`: `TypeCorrect`, `BudgetRespected`, `ReportsHonest`,
  `StopIsFinal`, `CountersMeasureTree`, `SettlesAtOnce`. The code decides by what remains and writes steps later. The
  invariant says why this is sound: `LockInv` (only the holder of the mutex is
  writing, and nobody once the run has stopped), `ReserveInv` (what the writer has
  still to write fits the budget it is charged to), `ProgressInv` (an attempt
  that has not written has nothing on disk). `SettlesAtOnce` is the refinement of
  `EvidenceBudget`; it needs `UnderWayInv` besides, which says of the holder of the
  mutex what it had counted and why it writes a stub, for the abstract step is
  taken when the last write is done and must still agree with the decision.
  `CountersMeasureTree` is about a sum over all attempts. `SumFunction` of the community
  modules is a recursive function on sets, and the induction theorems of the
  library cannot be used; the induction is done by hand instead. The subsets of the
  attempts where a claim fails have a minimal member, if there are any
  (`Minimal`, from the well-foundedness of strict inclusion), and without its first
  element it is no longer one of them. So `SumsExist` shows that the function
  exists, `SumsAgree` that it does not depend on the set it was defined on, and
  `SumAdd` that adding to one entry adds to the sum. It needs finitely many attempts
  (`AttemptsAssumption`): a run goes through lists of tasks, providers and numbers.
- `IntentExecuteProofs`: `TypeCorrect`, `NeverLost`, `OneUndo`, `Verified`,
  `OutcomeTrue`. A run saves the intent it loaded over whatever the file holds, and
  reports at the end what it learnt on the way. `Held` says where its intent is at
  each step, as long as its slug was not taken from under it (a step that dies in a save without a copy in
  the history puts the intent into `cut`; `Gens` makes the archive
  and the active file of a slug agree on which came later); `Verdict` says what
  it knows of the verification and of the repair. `ModifiedAreLibs` says of
  `FoldLeft` what the types of the tasks need, by the same induction over sets
  of positions.
- `ApprovalProofs`: `TypeCorrect`, `Reviewed`, `Final`, `UsedOnce`, for any number of
  servers and approvals and any hash. A server checks a record when it loads it and
  acts on it several file operations later, so each property needs to know what still
  holds then. Two different things see to it. `Undisturbed`: a server that is alone
  is the only one at work, so what it loaded is on disk and the graph is what it
  hashed. `Ledger`: an approval no two servers held at once has the history its record
  says, whatever else goes on; an Approved record of a used approval has a server
  that is about to mark it, or one that died before it could. `Given` holds even for
  overlapped calls: Approved was given, and Applied was used.
- `CatalogStoreProofs`: `TypeCorrect`, `Approved`, `Respected`, `Atomic`. For `Approved`
  the invariant says of all that `current.json` and `current.sha256` may ever
  become - the files, their temporary files and backups, and the catalog that an
  adoption is about to write - that the user approved it, or that it is torn or
  absent. It holds whatever overlaps, fails or dies; that a torn pair of files never
  loads is `NoneAssumption`. `Respected` and `Atomic` are about a call that nobody
  overlaps, at its end; `LoneInv` says of each step of it what has been moved aside,
  replaced or put back. Its core is `Was`, which reads what a file held before the
  adoption wherever that is now, in the file or in its backup: the call remembers what
  `Was` says (`Remembers`), the temporary files hold what it will write (`Prepared`),
  and the decisions that `Was` gives keep the promises (`Keeps`). `Careful` claims this
  also of an idle process as long as nobody is at work, which carries the promises from
  one call to the next; an adoption that could not move a file aside is excused (`aside`),
  for it puts back files that were never backed up.
- `DependenciesProofs`: `TypeCorrect`, `ConfigIsKept`, `BuildIsLocked`, `FrozenKeeps`,
  `VendoredIsCurrent`, `LockedStays`. That config.toml declares
  what was asked for says nothing of the processes that are about to change it.
  The invariant `SaveInv` does: until a stale config is saved (one that was replaced
  since, or stands for one that could not be read) or a save dies,
  config.toml is right whenever nobody is filling it; a process that is not stale
  and fills it alone leaves it right; and of two that fill it one is stale. `AtInv`
  says of which command and module a process at each step is. Three of the others
  are about a command nobody disturbed: `UndisturbedInv` says that it is the only one
  at work, and for each step of a build, a frozen install and a vendoring what is
  already as it will be reported. `LockedStays` holds whatever overlaps. Its
  invariant is that a cached file is one of its archive, at that version or torn
  (`CacheInv`), and that what was read from the cache lists files that are still
  there (`BasedInv`); an entry that lists the whole archive can then differ from the
  cache only in a torn file. It says so of an entry in the making too, between and
  within the passes of the two hashes. `AbsentAssumption` makes a missing directory and a
  missing lock file differ from every one there may be.
- `OwnershipProofs`: `TypeCorrect`, `Tracked`, `Safe`, for functions of any number of
  nodes and blocks and any capacity. `Safe` is about a finished function and says
  nothing on the way; the invariant is `Fresh` and `Known` (the tables speak of placed
  nodes only), `Path` (a value that dominates the block the run is in has been
  computed), `Owned` (each value has an owner, `heap_allocs` holds the owners that
  were not consumed, once each, and they hold the live objects) and `Outcome` (what
  a `Return` made of that). Whatever build makes the program, it has no
  diagnostic unless it is `Unvalidated`, and that is all the invariant asks.
- `BenchProofs`, of `ProcessRun`: `RunTypeCorrect`, `Honest`, for pipes and outputs of any size. The
  caller puts its result together over several steps while everybody else goes on.
  `CallerInv` says for each step what the ones before it have seen to, `TreeInv` who
  can have been killed or waited for, `StreamInv` that a byte written is in the pipe
  or was read, and kept up to the limit, and of a stream that has ended that it is
  whole or the lines below the limit, `CollectInv` that what was taken of one stream
  stays true while the other is waited for, `InputInv` that no input is lost.
- `CompileProofs`: `TablesAgree`, `TypeCorrect`, `TypesAreSound`,
  `RightFunctionsAreAccepted`, `BeliefsAreTrue`, `NoFailureIsIgnored`, for functions of any
  number of nodes and blocks, over any types, parameters, labels and callees.
  `TablesAgree` is about the lists alone, op by op: what the lowering passes, what is
  declared, what the validator asks and what the C library takes and gives fit
  together, and a result that may fail is known to the checks of results. The
  lists are compared group by group (`ParsedRows`, `RuntimeRows`, `RequiredRows` and
  the like), as no prover evaluates tables of sixty rows. Then every op is `Fine`: on
  operands that are what they are believed to be, either something is reported, a
  gap is used or the verifier objects, or it confuses nothing and its value is what
  it is believed to be; meant and labelled right, nothing is reported at all. `IInv` is
  `WellTyped`, `Believed` (as long as no type is reported, nothing was confused and
  beliefs are true), `Watched` (a result that nobody looked at is pending or was
  reported) and `Accepted` (what is right so far has been accepted). `Sound` alone says
  something of complete functions only; `Believed` carries it from node to node.

Only model-checked: liveness (`OnlyVerifierHangs`, `PersistEnds`,
`NobodyWaitsForever`), which is out of the prover's reach, as fairness and ENABLED
are. Every invariant and every other action property of the passing runs is
proved, the refinement of `EvidenceBudget` included. The three properties that runs
show to be violated are of course not theorems.

## 5. What is not modelled

- The contents of programs, in the models of files: a patch is a partial function
  on texts, the verifier a choice of how many tests pass, a language model a choice
  of a text or an error. `Ownership` and `Compile` look at one function each.
  `Ownership` leaves out local variables, parameters, branches backwards, scalar
  nodes and the rules for Result and Option; `Compile` leaves out structs, the
  ownership ops, contracts, cycles and dominance.
- The build as a process of its own: it is a sequence of calls of the parts above.
  The request to the service under test and its port.
- `agents/cost.rs`, `merger.rs` and `rollback.rs`: only their own tests use them.
- Network clients, prompts, drawing, graph layout, generated and example code.
- Disk caches: a write that returned is on disk. Only the rewrite tool's
  temporary file is synced, so a power failure can lose more than a death of the
  process does.
- Dependencies by path, which are read in place, and lock files of version 0.
- The parts of section 6.

## 6. Plan

Done so far, in this order: the editors of the graph and their undo history,
intents, the retention budget, approvals, the model catalog, dependencies,
ownership, the types of ops, the abstract evidence budget and its refinement,
process runs. Next, the most shared state first:

1. Sessions and record files: `session/mod.rs`, `agents/model_access.rs`,
   `agents/model_performance.rs`, in one module of files that are saved through a
   common temporary name, with crash, archive and lost updates.
2. Loop-native engine and telemetry.
3. Abstract specifications: an undo stack that `GraphHistory` implements for
   commands that do not overlap; a store of decisions that `CatalogStore`
   implements; a ledger for `Approval`.
4. Composition: `IntentExecute` over the file operations of `GraphHistory`.
5. Proofs: the refinements of 3.
