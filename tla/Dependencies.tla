---------------------------- MODULE Dependencies ----------------------------
(***************************************************************************)
(* The dependencies of a workspace (deps.rs, cli/deps.rs and the download  *)
(* of registry/client.rs): what config.toml declares, what a registry      *)
(* publishes, the cache of downloaded modules, the vendored copies and the *)
(* lock file.  Processes run the `deps` commands and builds; no command    *)
(* takes a lock.                                                           *)
(*                                                                         *)
(* One action is one file operation or one answer of the registry.  The    *)
(* versions are compatible with one another: a declared v, which semver    *)
(* reads as ^v, accepts every version from v on.  Every module is scoped,  *)
(* and a version is a set of graph files, Shipped.  Dependencies by path   *)
(* are read in place and left out.                                         *)
(***************************************************************************)
EXTENDS Naturals, FiniteSets, Functions

CONSTANTS
    Proc,           \* processes
    Module,         \* names of registry modules
    File,           \* names of graph files
    MaxVersion,     \* bound: versions that are ever published
    Shipped,        \* version -> the graph files of its archive
    MaxCalls,       \* bound: commands that are run
    MaxYanks,       \* bound: versions that are yanked
    MaxFaults,      \* bound: commands that die or are refused by the registry
    Absent, Torn    \* no such file or directory; a file truncated by its write

Version == 1..MaxVersion

ASSUME VersionAssumption == MaxVersion \in Nat \ {0}
ASSUME ShippedAssumption == Shipped \in [Version -> (SUBSET File) \ {{}}]
ASSUME BoundAssumption ==
    MaxCalls \in Nat /\ MaxFaults \in Nat /\ MaxYanks \in Nat

VARIABLES
    config,         \* module -> the version that config.toml declares, or None
    published,      \* module -> versions the registry has
    yanked,         \* module -> versions marked as yanked
    cache,          \* module -> version -> its cached directory
    vendor,         \* module -> its vendored directory
    lock,           \* deps.lock: module -> entry
    op,             \* process -> the command it runs
    calls, faults,
    alone,          \* processes whose last command no other one overlapped
    stale,          \* processes about to save a config that is not the one on
                    \*   disk: it was replaced since, or could not be read
    wanted,         \* module -> the version the user asked for, or None
    spoiled         \* a stale config was saved, or a save died

registry == <<published, yanked>>
tree     == <<config, cache, vendor, lock>>
bounds   == <<calls, faults>>
history  == <<alone, stale, wanted, spoiled>>
vars     == <<registry, tree, op, bounds, history>>

None     == 0                               \* a module that is not declared
Nothing  == [m \in Module |-> None]         \* an empty config.toml declares this
Declared(cfg) == {m \in Module : cfg[m] # None}

\* A graph directory: the version that each file in it comes from, or Torn.
Directories == UNION {[S -> Version \cup {Torn}] : S \in SUBSET File}
EmptyDir    == [f \in {} |-> Torn]
Layers      == {"vendor", "cache"}
\* A lock entry: what the semantic hash, which has to parse it, and the integrity
\* hash were taken of.
Parsed      == UNION {[S -> Version] : S \in SUBSET File}
Entries     == [version : Version, layer : Layers, meaning : Parsed,
                content : Directories]
Locks       == UNION {[S -> Entries] : S \in SUBSET Module}

ASSUME AbsentAssumption ==
    Absent \notin Directories /\ \A S \in SUBSET Module : Absent \notin [S -> Entries]

Commands == {"none", "add", "remove", "update", "install", "frozen", "vendor",
             "build", "offline"}
Resting  == {"idle", "done", "failed"}
Steps    == Resting \cup {"resolve", "fetch", "unpack", "unpackFile",
                          "reload", "truncate", "fill", "lock", "list", "parse", "hash",
                          "write", "load", "copyDir", "copy", "copyFile"}

Versions == [Module -> Version \cup {None}]     \* what a config can declare

Command ==
    [cmd : Commands, at : Steps,
     cfg : Versions,                    \* the config it has loaded, or will save
     todo : SUBSET Module,              \* dependencies it has still to handle
     mod : Module \cup {Absent}, ver : Version \cup {None},    \* the one at hand
     left : SUBSET File, file : File \cup {Absent},    \* files to write or read
     entry : Entries \cup {Absent},     \* the lock entry that it is making
     want : SUBSET Version,             \* add: what the requirement accepts
     any : BOOLEAN,                     \* update: something was resolved
     found : Locks,                     \* what it has locked, loaded or copied
     held : {Absent, Torn} \cup Locks]  \* frozen: deps.lock as it was at the start

TypeOK ==
    /\ config \in Versions /\ wanted \in Versions
    /\ published \in [Module -> SUBSET Version]
    /\ yanked \in [Module -> SUBSET Version]
    /\ cache \in [Module -> [Version -> {Absent} \cup Directories]]
    /\ vendor \in [Module -> {Absent} \cup Directories]
    /\ lock \in {Absent, Torn} \cup Locks
    /\ op \in [Proc -> Command]
    /\ calls \in 0..MaxCalls /\ faults \in 0..MaxFaults
    /\ alone \subseteq Proc /\ stale \subseteq Proc /\ spoiled \in BOOLEAN

NoEntries == [m \in {} |-> None]

NoCommand ==
    [cmd |-> "none", at |-> "idle", cfg |-> Nothing, todo |-> {}, left |-> {}, file |-> Absent,
     mod |-> Absent, ver |-> None, entry |-> Absent, want |-> {}, any |-> FALSE,
     found |-> NoEntries, held |-> Absent]

\* A fresh clone: config.toml declares what is published, and the cache, which
\* .gitignore excludes, is empty.
Init ==
    /\ published = [m \in Module |-> {1}]
    /\ yanked = [m \in Module |-> {}]
    /\ config \in [Module -> {None, 1}]
    /\ cache = [m \in Module |-> [v \in Version |-> Absent]]
    /\ vendor = [m \in Module |-> Absent]
    /\ lock = Absent
    /\ op = [p \in Proc |-> NoCommand]
    /\ calls = 0 /\ faults = 0
    /\ alone = {} /\ stale = {} /\ wanted = config /\ spoiled = FALSE

Busy(p)    == op[p].at \notin Resting
At(p, at)  == op[p].at = at
Cmd(p, cs) == op[p].cmd \in cs

-----------------------------------------------------------------------------
(* Where a dependency is read from.                                        *)

\* The graph directory of a cache entry exists once a file of it is unpacked.
Cached(m, v) == cache[m][v] \notin {Absent, EmptyDir}

\* A dependency and its files as they are now.
Located(v, layer, files) ==
    [version |-> v, layer |-> layer, meaning |-> files, content |-> files]
FromVendor(m, v) == Located(v, "vendor", vendor[m])
FromCache(m, v)  == Located(v, "cache", cache[m][v])

\* The vendored copy, whatever version it is a copy of, comes before the cache.
ResolveModule(m, v, offline) ==
    IF vendor[m] # Absent THEN FromVendor(m, v)
    ELSE IF ~offline /\ Cached(m, v) THEN FromCache(m, v)
    ELSE Absent

\* Mutant of LockEntry: the lock file looks into the cache first.
CacheFirst(m, v) ==
    IF Cached(m, v) THEN FromCache(m, v) ELSE ResolveModule(m, v, FALSE)

LockEntry(m, v) == ResolveModule(m, v, FALSE)

\* Mutant of Usable: a dependency that is nowhere is not an error.
ReadableOrMissing(e) == IF e = Absent THEN TRUE ELSE Torn \notin Range(e.content)

\* A torn file does not parse: neither its hash nor its graph can be had.
Usable(e) == IF e = Absent THEN FALSE ELSE Torn \notin Range(e.content)

\* The files behind an entry.
FilesOf(m, e) == IF e.layer = "vendor" THEN vendor[m] ELSE cache[m][e.version]

\* verify_lockfile: the entries whose files are no longer those that were hashed.
Failures == {m \in DOMAIN lock : lock[m].content # FilesOf(m, lock[m])}

\* The directory of version v, complete and in one piece.
Whole(v) == [f \in Shipped[v] |-> v]

\* The function f with x mapped to y.
With(f, x, y) == [z \in DOMAIN f \cup {x} |-> IF z = x THEN y ELSE f[z]]

-----------------------------------------------------------------------------
(* Commands.                                                               *)

Start(p, command) ==
    /\ ~Busy(p) /\ calls < MaxCalls
    /\ calls' = calls + 1
    /\ op' = [op EXCEPT ![p] = command]
    /\ alone' = IF \E q \in Proc \ {p} : Busy(q) THEN {} ELSE {p}
    /\ UNCHANGED <<registry, tree, faults, stale, wanted, spoiled>>

\* The command returns: with a result, or with an error of its own.
Succeed(p, found) ==
    op' = [op EXCEPT ![p] = [NoCommand EXCEPT
              !.cmd = op[p].cmd, !.at = "done", !.found = found, !.held = op[p].held]]
Fail(p) ==
    op' = [op EXCEPT ![p] = [NoCommand EXCEPT
              !.cmd = op[p].cmd, !.at = "failed", !.held = op[p].held]]

\* load_config(...).unwrap_or_default(): a config.toml that cannot be read or parsed
\* counts as an empty one.  Where that only makes the command end (add and update
\* then know no registry, install reports it), Die stands for it.
Loads == {config, Nothing}

\* The requirement that the user types accepts the versions `want`.
StartAdd(p) ==
    \E m \in Module, want \in (SUBSET Version) \ {{}} :
        Start(p, [NoCommand EXCEPT !.cmd = "add", !.at = "resolve",
                                   !.cfg = config, !.todo = {m}, !.want = want])

\* A module that is not declared is not found, and nothing is saved.
StartRemove(p) ==
    \E m \in Module, cfg \in Loads :
        Start(p, [NoCommand EXCEPT !.cmd = "remove", !.mod = m,
                      !.at = IF cfg[m] = None THEN "done" ELSE "truncate",
                      !.cfg = [cfg EXCEPT ![m] = None]])

\* `deps update` of one dependency or of all.
StartUpdate(p) ==
    \E ms \in {Declared(config)} \cup {{m} : m \in Declared(config)} :
        Start(p, [NoCommand EXCEPT !.cmd = "update", !.at = "resolve",
                                   !.cfg = config, !.todo = ms])

LockText == IF lock = Absent THEN Torn ELSE lock    \* both read as an empty text

StartInstall(p) ==
    \E frozen \in BOOLEAN :
        Start(p, [NoCommand EXCEPT
                      !.cmd = IF frozen THEN "frozen" ELSE "install",
                      !.held = IF frozen THEN LockText ELSE Absent,
                      !.at = IF config = Nothing THEN "done" ELSE "resolve",
                      !.cfg = config, !.todo = Declared(config)])

\* `deps vendor` of all, or of those that a pattern or the config selects: of none
\* when the config cannot be read.
StartVendor(p) ==
    \E ms \in SUBSET Declared(config) :
        Start(p, [NoCommand EXCEPT !.cmd = "vendor", !.at = "copyDir",
                                   !.cfg = config, !.todo = ms])

StartBuild(p) ==
    \E offline \in BOOLEAN, cfg \in Loads :
        Start(p, [NoCommand EXCEPT
                      !.cmd = IF offline THEN "offline" ELSE "build",
                      !.at = IF offline THEN "load" ELSE "lock",
                      !.cfg = cfg, !.todo = Declared(cfg)])

-----------------------------------------------------------------------------
(* Resolution and download: add, update, install.                          *)

Acceptable(p, m) ==
    (published[m] \ yanked[m])
        \cap IF Cmd(p, {"add"}) THEN op[p].want ELSE op[p].cfg[m]..MaxVersion

\* The module is there: add goes on to config.toml, the others to the next one.
Obtained(p, m) ==
    op' = [op EXCEPT ![p].at = IF Cmd(p, {"add"}) THEN "reload" ELSE "resolve",
                     ![p].todo = @ \ {m}, ![p].any = TRUE, ![p].file = Absent,
                     ![p].mod = IF Cmd(p, {"add"}) THEN m ELSE Absent,
                     ![p].ver = IF Cmd(p, {"add"}) THEN @ ELSE None]

\* Any directory of that name counts as cached, except for add, which always
\* downloads.
ResolveVersion(p) ==
    /\ At(p, "resolve")
    /\ \E m \in op[p].todo :
        \E v \in Acceptable(p, m) :
            /\ \A w \in Acceptable(p, m) : w <= v
            /\ IF ~Cmd(p, {"add"}) /\ cache[m][v] # Absent
               THEN Obtained(p, m)
               ELSE op' = [op EXCEPT ![p].at = "fetch", ![p].mod = m, ![p].ver = v,
                                     ![p].want = {}]
    /\ UNCHANGED <<registry, tree, bounds, history>>

\* Update reports a module that it cannot resolve and goes on; the others stop.
VersionNotFound(p) ==
    /\ At(p, "resolve")
    /\ \E m \in op[p].todo :
        /\ Acceptable(p, m) = {}
        /\ IF Cmd(p, {"update"}) THEN op' = [op EXCEPT ![p].todo = @ \ {m}]
                                 ELSE Fail(p)
    /\ UNCHANGED <<registry, tree, bounds, history>>

\* Mutant of TargetDir: the versions of a module share one directory.
SharedDir(m, v) ==
    LET texts(f) == {cache[m][w][f] : w \in {u \in Version :
                        cache[m][u] # Absent /\ f \in DOMAIN cache[m][u]}}
    IN  [f \in {g \in File : texts(g) # {}} |-> CHOOSE text \in texts(f) : TRUE]

TargetDir(m, v) == IF cache[m][v] = Absent THEN EmptyDir ELSE cache[m][v]

\* The archive is received whole before its directory is created.
Fetch(p) ==
    /\ At(p, "fetch")
    /\ LET m == op[p].mod
           v == op[p].ver
       IN  /\ cache' = [cache EXCEPT ![m][v] = TargetDir(m, v)]
           /\ op' = [op EXCEPT ![p].at = "unpack", ![p].left = Shipped[v]]
    /\ UNCHANGED <<registry, config, vendor, lock, bounds, history>>

\* A file of the archive is opened, removing the one that is there, then filled.
Unpack(p) ==
    /\ At(p, "unpack")
    /\ \E f \in op[p].left :
        /\ cache' = [cache EXCEPT ![op[p].mod][op[p].ver] = With(@, f, Torn)]
        /\ op' = [op EXCEPT ![p].at = "unpackFile", ![p].file = f, ![p].left = @ \ {f}]
    /\ UNCHANGED <<registry, config, vendor, lock, bounds, history>>

UnpackFile(p) ==
    /\ At(p, "unpackFile")
    /\ LET m == op[p].mod
           v == op[p].ver
       IN  cache' = [cache EXCEPT ![m][v] = With(@, op[p].file, v)]
    /\ IF op[p].left = {} THEN Obtained(p, op[p].mod)
       ELSE op' = [op EXCEPT ![p].at = "unpack", ![p].file = Absent]
    /\ UNCHANGED <<registry, config, vendor, lock, bounds, history>>

\* Install locks the config it began with; update loads it again.
Planned(p) ==
    /\ At(p, "resolve") /\ op[p].todo = {}
    /\ IF Cmd(p, {"update"}) /\ ~op[p].any THEN Succeed(p, NoEntries)
       ELSE \E cfg \in IF Cmd(p, {"update"}) THEN Loads ELSE {op[p].cfg} :
                op' = [op EXCEPT ![p].at = "lock", ![p].any = FALSE,
                                 ![p].cfg = cfg, ![p].todo = Declared(cfg)]
    /\ UNCHANGED <<registry, tree, bounds, history>>

-----------------------------------------------------------------------------
(* config.toml: add and remove.                                            *)

\* Mutant of Reload: the config loaded before the download is saved.
KeepLoaded(p) ==
    /\ At(p, "reload")
    /\ op' = [op EXCEPT ![p].at = "truncate", ![p].cfg[op[p].mod] = op[p].ver]
    /\ UNCHANGED <<registry, tree, bounds, history>>

Reload(p) ==
    /\ At(p, "reload")
    /\ \E cfg \in Loads :
        /\ op' = [op EXCEPT ![p].at = "truncate",
                            ![p].cfg = [cfg EXCEPT ![op[p].mod] = op[p].ver]]
        /\ stale' = IF cfg = config THEN stale ELSE stale \cup {p}
    /\ UNCHANGED <<registry, tree, bounds, alone, wanted, spoiled>>

Saving(q) == op[q].at \in {"truncate", "fill"}

\* p replaces config.toml: what others are about to save is out of date.
MakeStale(p) == stale' = (stale \cup {q \in Proc : Saving(q)}) \ {p}

\* save_config truncates the file and fills it; an empty file is an empty config.
Truncate(p) ==
    /\ At(p, "truncate")
    /\ config' = Nothing
    /\ op' = [op EXCEPT ![p].at = "fill"]
    /\ stale' = stale \cup {q \in Proc \ {p} : Saving(q)}
    /\ UNCHANGED <<registry, cache, vendor, lock, bounds, alone, wanted, spoiled>>

Fill(p) ==
    /\ At(p, "fill")
    /\ config' = op[p].cfg
    /\ Succeed(p, NoEntries)
    /\ MakeStale(p)
    /\ wanted' = [wanted EXCEPT ![op[p].mod] = op[p].cfg[op[p].mod]]
    /\ spoiled' = (spoiled \/ p \in stale)
    /\ UNCHANGED <<registry, cache, vendor, lock, bounds, alone>>

-----------------------------------------------------------------------------
(* deps.lock: install, update and build.                                   *)

\* What cannot be found or parsed ends the command; for update it is a warning.
NotLocked(p) == IF Cmd(p, {"update"}) THEN Succeed(p, NoEntries) ELSE Fail(p)

\* Where a dependency is found is decided before anything of it is read.
AddEntry(p) ==
    /\ At(p, "lock")
    /\ \E m \in op[p].todo :
        LET e == LockEntry(m, op[p].cfg[m])
        IN  IF e = Absent THEN NotLocked(p)
            ELSE op' = [op EXCEPT ![p].at = "list", ![p].mod = m,
                                  ![p].entry = Located(e.version, e.layer, EmptyDir)]
    /\ UNCHANGED <<registry, tree, bounds, history>>

\* semantic_hash and then integrity_hash each list the directory and read the files
\* one by one.
ListFiles(p) ==
    /\ At(p, "list") \/ (At(p, "parse") /\ op[p].left = {})
    /\ op' = [op EXCEPT ![p].at = IF @ = "list" THEN "parse" ELSE "hash",
                        ![p].left = DOMAIN FilesOf(op[p].mod, op[p].entry)]
    /\ UNCHANGED <<registry, tree, bounds, history>>

ParseFile(p) ==
    /\ At(p, "parse")
    /\ \E f \in op[p].left :
        LET text == FilesOf(op[p].mod, op[p].entry)[f]
        IN  IF text = Torn THEN NotLocked(p)
            ELSE op' = [op EXCEPT ![p].left = @ \ {f},
                                  ![p].entry.meaning = With(@, f, text)]
    /\ UNCHANGED <<registry, tree, bounds, history>>

\* The integrity hash takes the bytes as they are, those of a torn file too.
HashFile(p) ==
    /\ At(p, "hash")
    /\ \E f \in op[p].left :
        op' = [op EXCEPT ![p].left = @ \ {f},
                         ![p].entry.content =
                            With(@, f, FilesOf(op[p].mod, op[p].entry)[f])]
    /\ UNCHANGED <<registry, tree, bounds, history>>

EntryDone(p) ==
    /\ At(p, "hash") /\ op[p].left = {}
    /\ op' = [op EXCEPT ![p].at = "lock", ![p].mod = Absent, ![p].entry = Absent,
                        ![p].found = With(@, op[p].mod, op[p].entry),
                        ![p].todo = @ \ {op[p].mod}]
    /\ UNCHANGED <<registry, tree, bounds, history>>

\* Mutant of WouldChange: only names and versions are compared.
OtherVersions(p) ==
    LET versions(entries) == {<<m, entries[m].version>> : m \in DOMAIN entries}
    IN  IF op[p].held = Torn THEN TRUE
        ELSE versions(op[p].held) # versions(op[p].found)

WouldChange(p) == op[p].held # op[p].found

Frozen(p) ==
    /\ At(p, "lock") /\ op[p].todo = {}
    /\ Cmd(p, {"frozen"}) /\ WouldChange(p)
    /\ Fail(p)
    /\ UNCHANGED <<registry, tree, bounds, history>>

TruncateLock(p) ==
    /\ At(p, "lock") /\ op[p].todo = {}
    /\ ~(Cmd(p, {"frozen"}) /\ WouldChange(p))
    /\ lock' = Torn
    /\ op' = [op EXCEPT ![p].at = "write"]
    /\ UNCHANGED <<registry, config, cache, vendor, bounds, history>>

\* A build then resolves every dependency a second time.
FillLock(p) ==
    /\ At(p, "write")
    /\ lock' = op[p].found
    /\ IF Cmd(p, {"build"})
       THEN op' = [op EXCEPT ![p].at = "load", ![p].found = NoEntries,
                             ![p].todo = Declared(op[p].cfg)]
       ELSE Succeed(p, NoEntries)
    /\ UNCHANGED <<registry, config, cache, vendor, bounds, history>>

\* The files are read in one step: what is loaded is looked at only of a build that
\* nobody else disturbs.
LoadModule(p) ==
    /\ At(p, "load")
    /\ \E m \in op[p].todo :
        LET e == ResolveModule(m, op[p].cfg[m], Cmd(p, {"offline"}))
        IN  IF ~Usable(e) THEN Fail(p)
            ELSE op' = [op EXCEPT ![p].found = With(@, m, e), ![p].todo = @ \ {m}]
    /\ UNCHANGED <<registry, tree, bounds, history>>

Loaded(p) ==
    /\ At(p, "load") /\ op[p].todo = {}
    /\ Succeed(p, op[p].found)
    /\ UNCHANGED <<registry, tree, bounds, history>>

-----------------------------------------------------------------------------
(* Vendoring: the files of the cached module are copied one by one over    *)
(* whatever the vendored directory holds.                                  *)

VendorDir(p) ==
    /\ At(p, "copyDir")
    /\ \E m \in op[p].todo :
        LET v == op[p].cfg[m]
        IN  IF ~Cached(m, v)
            THEN Fail(p) /\ UNCHANGED vendor
            ELSE /\ vendor' = [vendor EXCEPT ![m] =
                                  IF @ = Absent THEN EmptyDir ELSE @]
                 /\ op' = [op EXCEPT ![p].at = "copy", ![p].mod = m, ![p].ver = v,
                                     ![p].left = DOMAIN cache[m][v]]
    /\ UNCHANGED <<registry, config, cache, lock, bounds, history>>

\* Mutant of Replaced: a file that is there is kept.
OnlyMissing(dir, f, content) == IF f \in DOMAIN dir THEN dir ELSE With(dir, f, content)

Replaced(dir, f, content) == With(dir, f, content)

CopyFile(p) ==
    /\ At(p, "copy")
    /\ \E f \in op[p].left :
        /\ vendor' = [vendor EXCEPT ![op[p].mod] = Replaced(@, f, Torn)]
        /\ op' = [op EXCEPT ![p].at = "copyFile", ![p].file = f, ![p].left = @ \ {f}]
    /\ UNCHANGED <<registry, config, cache, lock, bounds, history>>

FillCopy(p) ==
    /\ At(p, "copyFile")
    /\ LET m == op[p].mod
           v == op[p].ver
           f == op[p].file
       IN  /\ vendor' = [vendor EXCEPT ![m] = Replaced(@, f, cache[m][v][f])]
           /\ op' = IF op[p].left = {}
                    THEN [op EXCEPT ![p].at = "copyDir", ![p].mod = Absent,
                                    ![p].ver = None, ![p].file = Absent,
                                    ![p].todo = @ \ {m},
                                    ![p].found =
                                        With(@, m, [FromCache(m, v) EXCEPT !.meaning = EmptyDir])]
                    ELSE [op EXCEPT ![p].at = "copy", ![p].file = Absent]
    /\ UNCHANGED <<registry, config, cache, lock, bounds, history>>

Vendored(p) ==
    /\ At(p, "copyDir") /\ op[p].todo = {}
    /\ Succeed(p, op[p].found)
    /\ UNCHANGED <<registry, tree, bounds, history>>

-----------------------------------------------------------------------------
\* The command dies, or the registry or an I/O error that it does not catch ends it:
\* what it wrote stays.  (An error in load_config is caught, see Loads.  A reader
\* that meets a graph file between its removal and its creation, which Unpack makes
\* one step, ends here.)
Die(p) ==
    /\ Busy(p) /\ faults < MaxFaults
    /\ faults' = faults + 1
    /\ op' = [op EXCEPT ![p] = NoCommand]
    /\ stale' = stale \ {p}
    /\ spoiled' = (spoiled \/ At(p, "fill"))
    /\ UNCHANGED <<registry, tree, calls, alone, wanted>>

\* Others publish and yank versions; what is published never changes.
Publish(m) ==
    /\ \E v \in Version \ published[m] :
        published' = [published EXCEPT ![m] = @ \cup {v}]
    /\ UNCHANGED <<yanked, tree, op, bounds, history>>

Yank(m) ==
    /\ Cardinality(UNION {{n} \X yanked[n] : n \in Module}) < MaxYanks
    /\ \E v \in published[m] \ yanked[m] :
        yanked' = [yanked EXCEPT ![m] = @ \cup {v}]
    /\ UNCHANGED <<published, tree, op, bounds, history>>

Call(p) ==
    \/ StartAdd(p) \/ StartRemove(p) \/ StartUpdate(p) \/ StartInstall(p)
    \/ StartVendor(p) \/ StartBuild(p)
Step(p) ==
    \/ ResolveVersion(p) \/ VersionNotFound(p) \/ Fetch(p) \/ Unpack(p) \/ UnpackFile(p)
    \/ Planned(p)
    \/ Reload(p) \/ Truncate(p) \/ Fill(p)
    \/ AddEntry(p) \/ ListFiles(p) \/ ParseFile(p) \/ HashFile(p) \/ EntryDone(p)
    \/ Frozen(p) \/ TruncateLock(p) \/ FillLock(p)
    \/ LoadModule(p) \/ Loaded(p)
    \/ VendorDir(p) \/ CopyFile(p) \/ FillCopy(p) \/ Vendored(p)

Next ==
    \/ \E p \in Proc : Call(p) \/ Step(p) \/ Die(p)
    \/ \E m \in Module : Publish(m) \/ Yank(m)

Spec == Init /\ [][Next]_vars

-----------------------------------------------------------------------------
(* Properties.                                                             *)

Result(p, cmd, how) == p \in alone /\ Cmd(p, {cmd}) /\ At(p, how)

\* What an online build loads is what it has just locked, file for file, although
\* it resolves every dependency twice (deps.rs:632 and 650): nobody else having run
\* since, deps.lock describes the program that was built.
BuildMatchesLock ==
    \A p \in Proc : Result(p, "build", "done") => lock = op[p].found

\* An install with --frozen that nobody disturbs leaves deps.lock as it found it,
\* whether it succeeds or refuses (cli/deps.rs:546): also when the versions are the
\* same and only files behind them have changed.
FrozenKeepsLock ==
    \A p \in Proc :
        Result(p, "frozen", "done") \/ Result(p, "frozen", "failed")
            => op[p].held = LockText

\* No declaration is lost or revived: config.toml declares what the user asked for,
\* unless two commands overlapped between loading and saving it, one died in
\* save_config, or an add could not load it the second time and saved what it took
\* for an empty one (cli/deps.rs:112: unwrap_or_default, which has no guard).  A slow
\* download beside other edits loses nothing, because add loads the config again
\* after it.
ConfigKept ==
    ~spoiled /\ (\A p \in Proc : ~At(p, "fill")) => config = wanted

\* What was locked as a whole cached module stays, whatever is downloaded again,
\* vendored or interrupted: the audit (deps.rs:518) reports it only while a file of it
\* is being unpacked again, or after that was interrupted.  An entry that was hashed
\* while the module was being unpacked is not such an entry: the integrity hash
\* (deps.rs:476) may have taken a torn file after the semantic hash (deps.rs:472) had
\* parsed it, and the audit then reports a module that is whole.
WholeStaysLocked ==
    lock \notin {Absent, Torn} =>
        \A m \in Failures :
            lock[m].layer = "cache" /\ lock[m].content = Whole(lock[m].version)
                => Torn \in Range(cache[m][lock[m].version])

\* After an undisturbed `deps vendor`, every file that the cache holds of the version
\* declared is in the vendored directory as the cache holds it, also where an older
\* version was vendored before (deps.rs:792): all files of that version when the
\* cached copy is whole.  What an interrupted unpack left missing or torn stays so;
\* vendoring does not notice it.
VendorIsCurrent ==
    \A p \in Proc : Result(p, "vendor", "done") =>
        \A m \in DOMAIN op[p].found :
            LET v      == op[p].found[m].version
                copied == op[p].found[m].content
            IN  /\ v = config[m] /\ copied = cache[m][v]
                /\ vendor[m] # Absent
                /\ \A f \in DOMAIN copied :
                    f \in DOMAIN vendor[m] /\ vendor[m][f] = copied[f]
                /\ copied = Whole(v) =>
                    \A f \in Shipped[v] : f \in DOMAIN vendor[m] /\ vendor[m][f] = v

\* Contradicted by the code.  As long as no command died, an undisturbed install finds
\* in the cache what config.toml declares, unless that version was yanked
\* (cli/deps.rs:110: add stores the exact version "so that cache paths match the
\* version string in config").
InstallFindsDeclared ==
    faults = 0 => \A p \in Proc : Result(p, "install", "failed") =>
        \E m \in Declared(config) : config[m] \in yanked[m]
=============================================================================
