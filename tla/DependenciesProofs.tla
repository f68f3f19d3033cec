-------------------------- MODULE DependenciesProofs --------------------------
(***************************************************************************)
(* Proofs about the dependency commands for any number of processes,       *)
(* modules, versions and files: every state has its type; config.toml      *)
(* keeps what the user declared unless two saves overlapped, one died, or  *)
(* a load failed; a build loads what was locked; a frozen install keeps    *)
(* the lock file; a vendored copy is brought to what the cache holds; a    *)
(* whole module stays as locked.                                           *)
(***************************************************************************)
EXTENDS Dependencies, TLAPS

\* The module, version and directories that a step at hand works on exist.
AtInv(p) ==
    /\ op[p].at \in {"lock", "list", "parse", "hash", "load", "copyDir", "copy", "copyFile"} =>
           op[p].todo \subseteq Declared(op[p].cfg)
    /\ op[p].at \in {"list", "parse", "hash"} =>
           /\ op[p].mod \in op[p].todo /\ op[p].mod \in Module /\ op[p].entry \in Entries
           /\ FilesOf(op[p].mod, op[p].entry) \in Directories
    /\ op[p].at \in {"parse", "hash"} =>
           op[p].left \subseteq DOMAIN FilesOf(op[p].mod, op[p].entry)
    /\ At(p, "reload") \/ Saving(p) => op[p].mod \in Module
    /\ op[p].at \in {"fetch", "unpack", "unpackFile", "copy", "copyFile"} =>
           op[p].mod \in Module /\ op[p].ver \in Version
    /\ op[p].at \in {"unpack", "unpackFile", "copy", "copyFile"} =>
           cache[op[p].mod][op[p].ver] \in Directories
    /\ op[p].at \in {"unpackFile", "copyFile"} => op[p].file \in File
    /\ op[p].at \in {"copy", "copyFile"} =>
           /\ vendor[op[p].mod] \in Directories
           /\ op[p].left \subseteq DOMAIN cache[op[p].mod][op[p].ver]
    /\ At(p, "copyFile") => op[p].file \in DOMAIN cache[op[p].mod][op[p].ver]

TypeInv == TypeOK /\ \A p \in Proc : AtInv(p)

-----------------------------------------------------------------------------
\* A directory stays one when a file of it is replaced or added.
LEMMA WithDirectory ==
  ASSUME NEW d \in Directories, NEW f \in File, NEW y \in Version \cup {Torn}
  PROVE  /\ With(d, f, y) \in Directories
         /\ DOMAIN d \subseteq DOMAIN With(d, f, y)
<1>1. PICK S \in SUBSET File : d \in [S -> Version \cup {Torn}]
  BY DEF Directories
<1>2. With(d, f, y) \in [S \cup {f} -> Version \cup {Torn}]
  BY <1>1 DEF With
<1>3. S \cup {f} \in SUBSET File
  BY <1>1
<1> QED
  BY <1>1, <1>2, <1>3 DEF Directories, With

\* So does a lock when an entry is added.
LEMMA WithLock ==
  ASSUME NEW l \in Locks, NEW m \in Module, NEW e \in Entries
  PROVE  With(l, m, e) \in Locks
<1>1. PICK S \in SUBSET Module : l \in [S -> Entries]
  BY DEF Locks
<1>2. With(l, m, e) \in [S \cup {m} -> Entries]
  BY <1>1 DEF With
<1> QED
  BY <1>2 DEF Locks

\* A file of a directory holds a version or is torn.
LEMMA InDirectory ==
  ASSUME NEW d \in Directories, NEW f \in DOMAIN d
  PROVE  d[f] \in Version \cup {Torn} /\ f \in File
<1>1. PICK S \in SUBSET File : d \in [S -> Version \cup {Torn}]
  BY DEF Directories
<1> QED
  BY <1>1

\* The empty directory, the empty lock and the empty command are of their types.
LEMMA EmptyTypes ==
  /\ EmptyDir \in Directories
  /\ EmptyDir \in Parsed
  /\ NoEntries \in Locks
  /\ Nothing \in Versions
  /\ NoCommand \in Command
<1>1. EmptyDir \in [{} -> Version \cup {Torn}]
  BY DEF EmptyDir
<1>2. NoEntries \in [{} -> Entries]
  BY DEF NoEntries
<1>5. EmptyDir \in [{} -> Version]
  BY DEF EmptyDir
<1>3. EmptyDir \in Directories /\ EmptyDir \in Parsed /\ NoEntries \in Locks
  BY <1>1, <1>2, <1>5 DEF Directories, Parsed, Locks
<1>4. Nothing \in Versions
  BY DEF Nothing, Versions
<1> QED
  BY <1>3, <1>4 DEF NoCommand, Command, Commands, Steps, Resting

\* What a dependency resolves to, when it does: its files, as they are now.
LEMMA ResolvedFiles ==
  ASSUME TypeOK, NEW m \in Module, NEW v \in Version, NEW offline \in BOOLEAN,
         ResolveModule(m, v, offline) # Absent
  PROVE  \E layer \in Layers :
           /\ ResolveModule(m, v, offline) =
                  Located(v, layer, FilesOf(m, Located(v, layer, EmptyDir)))
           /\ FilesOf(m, Located(v, layer, EmptyDir)) \in Directories
<1>1. CASE vendor[m] # Absent
  <2>1. vendor[m] \in Directories
    BY <1>1 DEF TypeOK
  <2>2. FilesOf(m, Located(v, "vendor", EmptyDir)) = vendor[m]
    BY DEF FilesOf, Located
  <2> QED
    BY <1>1, <2>1, <2>2 DEF ResolveModule, FromVendor, Layers
<1>2. CASE vendor[m] = Absent
  <2>1. cache[m][v] \in Directories /\ ResolveModule(m, v, offline) = FromCache(m, v)
    BY <1>2 DEF TypeOK, Cached, ResolveModule
  <2>2. FilesOf(m, Located(v, "cache", EmptyDir)) = cache[m][v]
    BY DEF FilesOf, Located
  <2> QED
    BY <2>1, <2>2 DEF FromCache, Layers
<1> QED
  BY <1>1, <1>2

\* A directory without a torn file parses.
LEMMA WholeParses ==
  ASSUME NEW d \in Directories, Torn \notin Range(d)
  PROVE  d \in Parsed
<1>1. PICK S \in SUBSET File : d \in [S -> Version \cup {Torn}]
  BY DEF Directories
<1>2. \A f \in S : d[f] \in Version
  BY <1>1 DEF Range
<1>3. d \in [S -> Version]
  BY <1>1, <1>2
<1> QED
  BY <1>3 DEF Parsed

\* When it parses, it is an entry of a lock.
LEMMA ResolvedEntry ==
  ASSUME TypeOK, NEW m \in Module, NEW v \in Version, NEW offline \in BOOLEAN,
         Usable(ResolveModule(m, v, offline))
  PROVE  ResolveModule(m, v, offline) \in Entries
<1>1. ResolveModule(m, v, offline) # Absent
      /\ Torn \notin Range(ResolveModule(m, v, offline).content)
  BY DEF Usable
<1>2. PICK layer \in Layers, d \in Directories : ResolveModule(m, v, offline) = Located(v, layer, d)
  BY <1>1, ResolvedFiles
<1>3. d \in Parsed
  BY <1>1, <1>2, WholeParses DEF Located
<1> QED
  BY <1>2, <1>3 DEF Located, Entries

\* A declared module has a version.
LEMMA DeclaredVersion ==
  ASSUME NEW cfg \in Versions, NEW m \in Declared(cfg)
  PROVE  m \in Module /\ cfg[m] \in Version
BY DEF Declared, Versions

-----------------------------------------------------------------------------
(* Types.                                                                  *)

\* Directories are never removed, and files never leave them.
Grows ==
    /\ \A m \in Module, v \in Version : cache[m][v] \in Directories =>
           /\ cache'[m][v] \in Directories
           /\ DOMAIN cache[m][v] \subseteq DOMAIN cache'[m][v]
    /\ \A m \in Module : vendor[m] \in Directories =>
           /\ vendor'[m] \in Directories
           /\ DOMAIN vendor[m] \subseteq DOMAIN vendor'[m]

\* A command that does not step keeps what its next step relies on.
LEMMA OthersAt ==
  ASSUME TypeInv, Grows, NEW q \in Proc, op'[q] = op[q]
  PROVE  AtInv(q)'
<1> USE DEF TypeInv, AtInv, At, Saving
<1>1. op[q].at \in {"unpack", "unpackFile", "copy", "copyFile"} =>
        /\ cache'[op[q].mod][op[q].ver] \in Directories
        /\ DOMAIN cache[op[q].mod][op[q].ver] \subseteq DOMAIN cache'[op[q].mod][op[q].ver]
  BY DEF Grows
<1>2. op[q].at \in {"copy", "copyFile"} => vendor'[op[q].mod] \in Directories
  BY DEF Grows
<1>3. op[q].at \in {"list", "parse", "hash"} =>
        /\ FilesOf(op[q].mod, op[q].entry)' \in Directories
        /\ DOMAIN FilesOf(op[q].mod, op[q].entry) \subseteq
               DOMAIN FilesOf(op[q].mod, op[q].entry)'
  BY DEF Grows, FilesOf, Entries
<1> QED
  BY <1>1, <1>2, <1>3

\* The types hold of a fresh clone.
LEMMA InitType == Init => TypeInv
<1> SUFFICES ASSUME Init PROVE TypeInv
  OBVIOUS
<1>1. 1 \in Version
  BY VersionAssumption DEF Version
<1>2. config \in Versions
  BY <1>1 DEF Init, Versions
<1>3. op \in [Proc -> Command]
  BY EmptyTypes DEF Init
<1>4. TypeOK
  <2>1. published \in [Module -> SUBSET Version] /\ yanked \in [Module -> SUBSET Version]
    BY <1>1 DEF Init
  <2>2. /\ cache \in [Module -> [Version -> {Absent} \cup Directories]]
        /\ vendor \in [Module -> {Absent} \cup Directories]
    BY DEF Init
  <2>3. calls \in 0..MaxCalls /\ faults \in 0..MaxFaults
    BY BoundAssumption DEF Init
  <2> QED
    BY <1>2, <1>3, <2>1, <2>2, <2>3 DEF Init, TypeOK
<1>5. \A p \in Proc : AtInv(p)
  BY DEF Init, AtInv, At, Saving, NoCommand
<1> QED
  BY <1>4, <1>5 DEF TypeInv

\* A step that writes no directory keeps the types if it leaves its own command
\* well-typed.
LEMMA QuietStep ==
  ASSUME TypeInv, NEW p \in Proc, NEW c \in Command,
         op' = [op EXCEPT ![p] = c], cache' = cache, vendor' = vendor
  PROVE  /\ op' \in [Proc -> Command]
         /\ \A q \in Proc \ {p} : AtInv(q)'
         /\ op'[p] = c
<1>1. Grows
  BY DEF Grows
<1>2. op' \in [Proc -> Command] /\ op'[p] = c
  BY DEF TypeInv, TypeOK
<1>3. \A q \in Proc \ {p} : op'[q] = op[q]
  BY DEF TypeInv, TypeOK
<1> QED
  BY <1>1, <1>2, <1>3, OthersAt

\* Starting a command keeps the types.
LEMMA StartType ==
  ASSUME TypeInv, NEW p \in Proc, NEW c \in Command, Start(p, c),
         c.at \notin {"reload", "fill", "fetch", "unpack", "unpackFile", "list", "parse",
                      "hash", "copy", "copyFile"},
         c.at = "truncate" => c.mod \in Module,
         c.at \in {"lock", "load", "copyDir"} => c.todo \subseteq Declared(c.cfg)
  PROVE  TypeInv'
<1>1. op' \in [Proc -> Command] /\ (\A q \in Proc \ {p} : AtInv(q)') /\ op'[p] = c
  BY QuietStep DEF Start, tree
<1>2. AtInv(p)'
  BY <1>1 DEF AtInv, At, Saving
<1>3. calls' \in 0..MaxCalls
  BY BoundAssumption DEF Start, TypeInv, TypeOK
<1>4. alone' \subseteq Proc
  BY DEF Start
<1> QED
  BY <1>1, <1>2, <1>3, <1>4 DEF Start, tree, registry, TypeInv, TypeOK

\* Every call starts a command of that kind.
LEMMA CallType == ASSUME TypeInv, NEW p \in Proc, Call(p) PROVE TypeInv'
<1> USE DEF Command, Commands, Steps, Resting
<1>0. config \in Versions /\ lock \in {Absent, Torn} \cup Locks
      /\ NoCommand \in Command /\ NoCommand.at = "idle" /\ Loads \subseteq Versions
      /\ \A cfg : Declared(cfg) \subseteq Module
  BY EmptyTypes DEF TypeInv, TypeOK, NoCommand, Declared, Loads
<1>1. ASSUME StartAdd(p) PROVE TypeInv'
  <2>1. PICK m \in Module, want \in (SUBSET Version) \ {{}} :
          Start(p, [NoCommand EXCEPT !.cmd = "add", !.at = "resolve",
                                     !.cfg = config, !.todo = {m}, !.want = want])
    BY <1>1 DEF StartAdd
  <2> DEFINE c == [NoCommand EXCEPT !.cmd = "add", !.at = "resolve",
                                    !.cfg = config, !.todo = {m}, !.want = want]
  <2>2. c \in Command /\ c.at = "resolve"
    BY <1>0
  <2> QED
    BY <2>1, <2>2, StartType
<1>2. ASSUME StartRemove(p) PROVE TypeInv'
  <2>1. PICK m \in Module, cfg \in Loads :
          Start(p, [NoCommand EXCEPT !.cmd = "remove", !.mod = m,
                        !.at = IF cfg[m] = None THEN "done" ELSE "truncate",
                        !.cfg = [cfg EXCEPT ![m] = None]])
    BY <1>2 DEF StartRemove
  <2> DEFINE c == [NoCommand EXCEPT !.cmd = "remove", !.mod = m,
                       !.at = IF cfg[m] = None THEN "done" ELSE "truncate",
                       !.cfg = [cfg EXCEPT ![m] = None]]
  <2>2. [cfg EXCEPT ![m] = None] \in Versions
    BY <1>0 DEF Versions
  <2>3. c \in Command /\ c.at \in {"done", "truncate"} /\ c.mod = m
    BY ZenonT(40), <1>0, <2>2
  <2> QED
    BY ZenonT(40), <2>1, <2>3, StartType
<1>3. ASSUME StartUpdate(p) PROVE TypeInv'
  <2>1. PICK ms \in {Declared(config)} \cup {{m} : m \in Declared(config)} :
          Start(p, [NoCommand EXCEPT !.cmd = "update", !.at = "resolve",
                                     !.cfg = config, !.todo = ms])
    BY <1>3 DEF StartUpdate
  <2> DEFINE c == [NoCommand EXCEPT !.cmd = "update", !.at = "resolve",
                                    !.cfg = config, !.todo = ms]
  <2>2. ms \subseteq Module
    BY <1>0
  <2>3. c \in Command /\ c.at = "resolve"
    BY <1>0, <2>2
  <2> QED
    BY <2>1, <2>3, StartType
<1>4. ASSUME StartInstall(p) PROVE TypeInv'
  <2> DEFINE c(cmd, at, held) ==
               [NoCommand EXCEPT !.cmd = cmd, !.held = held, !.at = at,
                                 !.cfg = config, !.todo = Declared(config)]
  <2>1. LockText \in {Absent, Torn} \cup Locks
    BY <1>0 DEF LockText
  <2>2. PICK cmd \in {"frozen", "install"}, at \in {"done", "resolve"},
             held \in {Absent, Torn} \cup Locks : Start(p, c(cmd, at, held))
    BY <1>4, <2>1 DEF StartInstall
  <2>3. c(cmd, at, held) \in Command /\ c(cmd, at, held).at = at
    BY ZenonT(40), <1>0, <2>2
  <2> HIDE DEF c
  <2> QED
    BY <2>2, <2>3, StartType
<1>5. ASSUME StartVendor(p) PROVE TypeInv'
  <2>1. PICK ms \in SUBSET Declared(config) :
          Start(p, [NoCommand EXCEPT !.cmd = "vendor", !.at = "copyDir",
                                     !.cfg = config, !.todo = ms])
    BY <1>5 DEF StartVendor
  <2> DEFINE c == [NoCommand EXCEPT !.cmd = "vendor", !.at = "copyDir",
                                    !.cfg = config, !.todo = ms]
  <2>2. c \in Command /\ c.at = "copyDir" /\ c.todo \subseteq Declared(c.cfg)
    BY <1>0
  <2> QED
    BY <2>1, <2>2, StartType
<1>6. ASSUME StartBuild(p) PROVE TypeInv'
  <2>1. PICK offline \in BOOLEAN, cfg \in Loads :
          Start(p, [NoCommand EXCEPT
                        !.cmd = IF offline THEN "offline" ELSE "build",
                        !.at = IF offline THEN "load" ELSE "lock",
                        !.cfg = cfg, !.todo = Declared(cfg)])
    BY <1>6 DEF StartBuild
  <2> DEFINE c == [NoCommand EXCEPT
                       !.cmd = IF offline THEN "offline" ELSE "build",
                       !.at = IF offline THEN "load" ELSE "lock",
                       !.cfg = cfg, !.todo = Declared(cfg)]
  <2>2. c \in Command /\ c.at \in {"load", "lock"} /\ c.todo = Declared(c.cfg)
    BY ZenonT(40), <1>0
  <2> QED
    BY <2>1, <2>2, StartType
<1> QED
  BY <1>1, <1>2, <1>3, <1>4, <1>5, <1>6 DEF Call

\* A step of p that leaves everything but its own command alone.
LEMMA OwnStepType ==
  ASSUME TypeInv, NEW p \in Proc, op' \in [Proc -> Command],
         \A q \in Proc \ {p} : op'[q] = op[q], AtInv(p)',
         UNCHANGED <<registry, tree, bounds, history>>
  PROVE  TypeInv'
<1>1. Grows
  BY DEF Grows, tree
<1>2. \A q \in Proc : AtInv(q)'
  BY <1>1, OthersAt
<1>3. TypeOK'
  BY DEF TypeInv, TypeOK, registry, tree, bounds, history
<1> QED
  BY <1>2, <1>3 DEF TypeInv

\* A command that returns leaves a well-typed command behind.
LEMMA ReturnType ==
  ASSUME TypeInv, NEW p \in Proc,
         Fail(p) \/ \E found \in Locks : Succeed(p, found)
  PROVE  /\ op' \in [Proc -> Command]
         /\ \A q \in Proc \ {p} : op'[q] = op[q]
         /\ op'[p].at \in {"done", "failed"}
         /\ AtInv(p)'
<1> USE DEF Command, Commands, Steps, Resting
<1>1. NoCommand \in Command /\ op \in [Proc -> Command]
  BY EmptyTypes DEF TypeInv, TypeOK
<1>2. CASE Fail(p)
  <2> DEFINE c == [NoCommand EXCEPT !.cmd = op[p].cmd, !.at = "failed", !.held = op[p].held]
  <2>1. c \in Command /\ c.at = "failed"
    BY <1>1
  <2>2. op' = [op EXCEPT ![p] = c]
    BY <1>2 DEF Fail
  <2> QED
    BY <1>1, <2>1, <2>2 DEF AtInv, At, Saving
<1>3. ASSUME NEW found \in Locks, Succeed(p, found)
      PROVE  /\ op' \in [Proc -> Command]
             /\ \A q \in Proc \ {p} : op'[q] = op[q]
             /\ op'[p].at \in {"done", "failed"}
             /\ AtInv(p)'
  <2> DEFINE c == [NoCommand EXCEPT !.cmd = op[p].cmd, !.at = "done",
                                    !.found = found, !.held = op[p].held]
  <2>1. c \in Command /\ c.at = "done"
    BY <1>1
  <2>2. op' = [op EXCEPT ![p] = c]
    BY <1>3 DEF Succeed
  <2> QED
    BY <1>1, <2>1, <2>2 DEF AtInv, At, Saving
<1> QED
  BY <1>2, <1>3

\* A module that was obtained leaves a well-typed command behind.
LEMMA ObtainedType ==
  ASSUME TypeInv, NEW p \in Proc, NEW m \in Module, Obtained(p, m)
  PROVE  /\ op' \in [Proc -> Command]
         /\ \A q \in Proc \ {p} : op'[q] = op[q]
         /\ op'[p].at \in {"reload", "resolve"}
         /\ AtInv(p)'
<1>1. op \in [Proc -> Command]
  BY DEF TypeInv, TypeOK
<1> DEFINE at  == IF Cmd(p, {"add"}) THEN "reload" ELSE "resolve"
           mod == IF Cmd(p, {"add"}) THEN m ELSE Absent
           ver == IF Cmd(p, {"add"}) THEN op[p].ver ELSE None
           c   == [op[p] EXCEPT !.at = at, !.todo = @ \ {m}, !.any = TRUE,
                                !.file = Absent, !.mod = mod, !.ver = ver]
<1>4. op[p] \in Command
  BY <1>1
<1>5. at \in Steps /\ mod \in Module \cup {Absent} /\ ver \in Version \cup {None}
  BY <1>4 DEF Command, Steps
<1>6. c \in Command
  <2> HIDE DEF at, mod, ver
  <2> QED
    BY <1>4, <1>5 DEF Command
<1>7. op' = [op EXCEPT ![p] = c]
  BY <1>1, <1>4 DEF Obtained, Command
<1>2. /\ op' \in [Proc -> Command]
      /\ \A q \in Proc \ {p} : op'[q] = op[q]
  <2> HIDE DEF c
  <2> QED
    BY <1>1, <1>6, <1>7
<1>3. /\ op'[p].at = IF Cmd(p, {"add"}) THEN "reload" ELSE "resolve"
      /\ op'[p].mod = IF Cmd(p, {"add"}) THEN m ELSE Absent
  BY <1>1 DEF Obtained, Command
<1> QED
  BY <1>2, <1>3 DEF AtInv, At, Saving

\* Resolving versions keeps the types.
LEMMA ResolveType ==
  ASSUME TypeInv, NEW p \in Proc, ResolveVersion(p) \/ VersionNotFound(p) \/ Planned(p)
  PROVE  TypeInv'
<1>1. op \in [Proc -> Command] /\ config \in Versions
      /\ \A m \in Module : published[m] \subseteq Version
  BY DEF TypeInv, TypeOK
<1>2. ASSUME ResolveVersion(p) PROVE TypeInv'
  <2>0. PICK m \in op[p].todo : \E v \in Acceptable(p, m) :
          IF ~Cmd(p, {"add"}) /\ cache[m][v] # Absent
          THEN Obtained(p, m)
          ELSE op' = [op EXCEPT ![p].at = "fetch", ![p].mod = m, ![p].ver = v,
                                ![p].want = {}]
    BY <1>2 DEF ResolveVersion
  <2>1. PICK v \in Acceptable(p, m) :
          IF ~Cmd(p, {"add"}) /\ cache[m][v] # Absent
          THEN Obtained(p, m)
          ELSE op' = [op EXCEPT ![p].at = "fetch", ![p].mod = m, ![p].ver = v,
                                ![p].want = {}]
    BY <2>0
  <2>2. m \in Module /\ v \in Version
    BY <1>1 DEF Command, Acceptable
  <2>3. CASE Obtained(p, m)
    BY <1>2, <2>2, <2>3, ObtainedType, OwnStepType DEF ResolveVersion
  <2>4. CASE op' = [op EXCEPT ![p].at = "fetch", ![p].mod = m, ![p].ver = v,
                              ![p].want = {}]
    <3> DEFINE c == [op[p] EXCEPT !.at = "fetch", !.mod = m, !.ver = v, !.want = {}]
    <3>5. op[p] \in Command /\ "fetch" \in Steps
      BY <1>1 DEF Steps
    <3>3. c \in Command
      BY <3>5, <2>2 DEF Command
    <3>4. op' = [op EXCEPT ![p] = c]
      BY <1>1, <2>4 DEF Command
    <3>1. op' \in [Proc -> Command] /\ \A q \in Proc \ {p} : op'[q] = op[q]
      <4> HIDE DEF c
      <4> QED
        BY <1>1, <3>3, <3>4
    <3>2. AtInv(p)'
      BY <1>1, <2>2, <2>4 DEF AtInv, At, Saving, Command
    <3> QED
      BY <1>2, <3>1, <3>2, OwnStepType DEF ResolveVersion
  <2> QED
    BY <2>1, <2>3, <2>4
<1>3. ASSUME VersionNotFound(p) PROVE TypeInv'
  <2>1. PICK m \in op[p].todo :
          \/ op' = [op EXCEPT ![p].todo = @ \ {m}]
          \/ Fail(p)
    BY <1>3 DEF VersionNotFound
  <2>2. CASE op' = [op EXCEPT ![p].todo = @ \ {m}]
    <3>1. op' \in [Proc -> Command] /\ \A q \in Proc \ {p} : op'[q] = op[q]
      BY <1>1, <2>2 DEF Command
    <3>2. AtInv(p)'
      BY <1>1, <1>3, <2>2 DEF AtInv, At, Saving, Command, VersionNotFound
    <3> QED
      BY <1>3, <3>1, <3>2, OwnStepType DEF VersionNotFound
  <2>3. CASE Fail(p)
    BY <1>3, <2>3, ReturnType, OwnStepType DEF VersionNotFound
  <2> QED
    BY <2>1, <2>2, <2>3
<1>4. ASSUME Planned(p) PROVE TypeInv'
  <2>1. CASE Succeed(p, NoEntries)
    BY <1>4, <2>1, EmptyTypes, ReturnType, OwnStepType DEF Planned
  <2>2. CASE ~Succeed(p, NoEntries)
    <3>1. PICK cfg \in Versions :
            op' = [op EXCEPT ![p].at = "lock", ![p].any = FALSE,
                             ![p].cfg = cfg, ![p].todo = Declared(cfg)]
      <4>1. Loads \subseteq Versions /\ op[p].cfg \in Versions
        BY <1>1, EmptyTypes DEF Loads, Command
      <4> QED
        BY <1>4, <2>2, <4>1 DEF Planned
    <3>2. Declared(cfg) \subseteq Module
      BY DEF Declared
    <3> DEFINE c == [op[p] EXCEPT !.at = "lock", !.any = FALSE, !.cfg = cfg,
                                  !.todo = Declared(cfg)]
    <3>7. op[p] \in Command /\ "lock" \in Steps
      BY <1>1 DEF Steps
    <3>5. c \in Command
      BY <3>7, <3>2 DEF Command
    <3>6. op' = [op EXCEPT ![p] = c]
      BY <1>1, <3>1 DEF Command
    <3>3. op' \in [Proc -> Command] /\ \A q \in Proc \ {p} : op'[q] = op[q]
      <4> HIDE DEF c
      <4> QED
        BY <1>1, <3>5, <3>6
    <3>4. AtInv(p)'
      BY <1>1, <3>1 DEF AtInv, At, Saving, Command
    <3> QED
      BY <1>4, <3>3, <3>4, OwnStepType DEF Planned
  <2> QED
    BY <2>1, <2>2
<1> QED
  BY <1>2, <1>3, <1>4

\* A step of p that may write the cache or the vendored copies.
LEMMA DirStepType ==
  ASSUME TypeInv, NEW p \in Proc, op' \in [Proc -> Command],
         \A q \in Proc \ {p} : op'[q] = op[q], AtInv(p)', Grows,
         cache' \in [Module -> [Version -> {Absent} \cup Directories]],
         vendor' \in [Module -> {Absent} \cup Directories],
         UNCHANGED <<registry, config, lock, bounds, history>>
  PROVE  TypeInv'
<1>1. \A q \in Proc : AtInv(q)'
  BY OthersAt
<1>2. TypeOK'
  BY DEF TypeInv, TypeOK, registry, bounds, history
<1> QED
  BY <1>1, <1>2 DEF TypeInv

\* A directory that is replaced by one with as many files grows.
LEMMA CacheGrows ==
  ASSUME TypeInv, NEW m \in Module, NEW v \in Version, NEW d \in Directories,
         cache[m][v] \in Directories => DOMAIN cache[m][v] \subseteq DOMAIN d,
         cache' = [cache EXCEPT ![m][v] = d], vendor' = vendor
  PROVE  /\ Grows /\ cache'[m][v] = d
         /\ cache' \in [Module -> [Version -> {Absent} \cup Directories]]
         /\ vendor' \in [Module -> {Absent} \cup Directories]
<1>1. cache \in [Module -> [Version -> {Absent} \cup Directories]]
      /\ vendor \in [Module -> {Absent} \cup Directories]
  BY DEF TypeInv, TypeOK
<1> QED
  BY <1>1 DEF Grows

\* So does a vendored directory that is replaced.
LEMMA VendorGrows ==
  ASSUME TypeInv, NEW m \in Module, NEW d \in Directories,
         vendor[m] \in Directories => DOMAIN vendor[m] \subseteq DOMAIN d,
         vendor' = [vendor EXCEPT ![m] = d], cache' = cache
  PROVE  /\ Grows /\ vendor'[m] = d
         /\ cache' \in [Module -> [Version -> {Absent} \cup Directories]]
         /\ vendor' \in [Module -> {Absent} \cup Directories]
<1>1. cache \in [Module -> [Version -> {Absent} \cup Directories]]
      /\ vendor \in [Module -> {Absent} \cup Directories]
  BY DEF TypeInv, TypeOK
<1> QED
  BY <1>1 DEF Grows

\* Downloading keeps the types.
LEMMA DownloadType ==
  ASSUME TypeInv, NEW p \in Proc, Fetch(p) \/ Unpack(p) \/ UnpackFile(p)
  PROVE  TypeInv'
<1> DEFINE m == op[p].mod
           v == op[p].ver
<1>1. op \in [Proc -> Command] /\ op[p] \in Command
      /\ {"unpack", "unpackFile"} \subseteq Steps
  BY DEF TypeInv, TypeOK, Steps
<1>2. m \in Module /\ v \in Version
  BY DEF TypeInv, AtInv, At, Fetch, Unpack, UnpackFile
<1>3. ASSUME Fetch(p) PROVE TypeInv'
  <2> DEFINE d == TargetDir(m, v)
             c == [op[p] EXCEPT !.at = "unpack", !.left = Shipped[v]]
  <2>1. d \in Directories /\ (cache[m][v] \in Directories => DOMAIN cache[m][v] \subseteq DOMAIN d)
    <3>1. cache[m][v] \in {Absent} \cup Directories
      BY <1>2 DEF TypeInv, TypeOK
    <3>2. CASE cache[m][v] = Absent
      <4>1. d = EmptyDir
        BY <3>2 DEF TargetDir
      <4>2. Absent \notin Directories
        BY AbsentAssumption
      <4> QED
        BY <3>2, <4>1, <4>2, EmptyTypes
    <3>3. CASE cache[m][v] # Absent
      BY <3>1, <3>3 DEF TargetDir
    <3> QED
      BY <3>2, <3>3
  <2>2. cache' = [cache EXCEPT ![m][v] = d] /\ vendor' = vendor
    BY <1>3 DEF Fetch
  <2>3. Grows /\ cache'[m][v] = d
        /\ cache' \in [Module -> [Version -> {Absent} \cup Directories]]
        /\ vendor' \in [Module -> {Absent} \cup Directories]
    <3> HIDE DEF d, m, v
    <3> QED
      BY <1>2, <2>1, <2>2, CacheGrows
  <2>4. Shipped[v] \subseteq File
    BY <1>2, ShippedAssumption
  <2>5. c \in Command
    <3> HIDE DEF v
    <3> QED
      BY <1>1, <2>4 DEF Command
  <2>6. op' = [op EXCEPT ![p] = c] /\ c.at = "unpack" /\ c.mod = m /\ c.ver = v
    BY <1>1, <1>3 DEF Fetch, Command
  <2>7. op' \in [Proc -> Command] /\ (\A q \in Proc \ {p} : op'[q] = op[q]) /\ op'[p] = c
    <3> HIDE DEF c
    <3> QED
      BY <1>1, <2>5, <2>6
  <2>8. AtInv(p)'
    <3> HIDE DEF c, d, m, v
    <3> QED
      BY <1>2, <2>1, <2>3, <2>6, <2>7 DEF AtInv, At, Saving
  <2> QED
    BY <1>3, <2>3, <2>7, <2>8, DirStepType DEF Fetch
<1>4. ASSUME Unpack(p) PROVE TypeInv'
  <2>1. PICK f \in op[p].left :
          /\ cache' = [cache EXCEPT ![m][v] = With(@, f, Torn)]
          /\ op' = [op EXCEPT ![p].at = "unpackFile", ![p].file = f, ![p].left = @ \ {f}]
    BY <1>4 DEF Unpack
  <2> DEFINE d == With(cache[m][v], f, Torn)
             c == [op[p] EXCEPT !.at = "unpackFile", !.file = f, !.left = @ \ {f}]
  <2>2. f \in File /\ cache[m][v] \in Directories
    BY <1>1, <1>4 DEF TypeInv, AtInv, At, Unpack, Command
  <2>3. d \in Directories /\ DOMAIN cache[m][v] \subseteq DOMAIN d
    BY <2>2, WithDirectory
  <2>4. cache' = [cache EXCEPT ![m][v] = d] /\ vendor' = vendor
    BY <1>4, <2>1 DEF Unpack
  <2>5. Grows /\ cache'[m][v] = d
        /\ cache' \in [Module -> [Version -> {Absent} \cup Directories]]
        /\ vendor' \in [Module -> {Absent} \cup Directories]
    <3> HIDE DEF d, m, v
    <3> QED
      BY <1>2, <2>3, <2>4, CacheGrows
  <2>6. c \in Command
    BY <1>1, <2>2 DEF Command
  <2>7. op' = [op EXCEPT ![p] = c] /\ c.at = "unpackFile" /\ c.mod = m /\ c.ver = v
        /\ c.file = f
    BY <1>1, <2>1 DEF Command
  <2>8. op' \in [Proc -> Command] /\ (\A q \in Proc \ {p} : op'[q] = op[q]) /\ op'[p] = c
    <3> HIDE DEF c
    <3> QED
      BY <1>1, <2>6, <2>7
  <2>9. AtInv(p)'
    <3> HIDE DEF c, d, m, v
    <3> QED
      BY <1>2, <2>2, <2>3, <2>5, <2>7, <2>8 DEF AtInv, At, Saving
  <2> QED
    BY <1>4, <2>5, <2>8, <2>9, DirStepType DEF Unpack
<1>5. ASSUME UnpackFile(p) PROVE TypeInv'
  <2> DEFINE d == With(cache[m][v], op[p].file, v)
             c == [op[p] EXCEPT !.at = "unpack", !.file = Absent]
  <2>1. op[p].file \in File /\ cache[m][v] \in Directories
    BY <1>5 DEF TypeInv, AtInv, At, UnpackFile
  <2>2. d \in Directories /\ DOMAIN cache[m][v] \subseteq DOMAIN d
    BY <1>2, <2>1, WithDirectory
  <2>3. cache' = [cache EXCEPT ![m][v] = d] /\ vendor' = vendor
    BY <1>5 DEF UnpackFile
  <2>4. Grows /\ cache'[m][v] = d
        /\ cache' \in [Module -> [Version -> {Absent} \cup Directories]]
        /\ vendor' \in [Module -> {Absent} \cup Directories]
    <3> HIDE DEF d, m, v
    <3> QED
      BY <1>2, <2>2, <2>3, CacheGrows
  <2>5. CASE Obtained(p, m)
    BY <1>2, <1>5, <2>4, <2>5, ObtainedType, DirStepType DEF UnpackFile
  <2>6. CASE op' = [op EXCEPT ![p].at = "unpack", ![p].file = Absent]
    <3>1. c \in Command
      BY <1>1 DEF Command
    <3>2. op' = [op EXCEPT ![p] = c] /\ c.at = "unpack" /\ c.mod = m /\ c.ver = v
      BY <1>1, <2>6 DEF Command
    <3>3. op' \in [Proc -> Command] /\ (\A q \in Proc \ {p} : op'[q] = op[q]) /\ op'[p] = c
      <4> HIDE DEF c
      <4> QED
        BY <1>1, <3>1, <3>2
    <3>4. AtInv(p)'
      <4> HIDE DEF c, d, m, v
      <4> QED
        BY <1>2, <2>2, <2>4, <3>2, <3>3 DEF AtInv, At, Saving
    <3> QED
      BY <1>5, <2>4, <3>3, <3>4, DirStepType DEF UnpackFile
  <2> QED
    BY <1>5, <2>5, <2>6 DEF UnpackFile
<1> QED
  BY <1>3, <1>4, <1>5

\* Saving config.toml keeps the types.
LEMMA SaveType ==
  ASSUME TypeInv, NEW p \in Proc, Reload(p) \/ Truncate(p) \/ Fill(p)
  PROVE  TypeInv'
<1>1. op \in [Proc -> Command] /\ op[p] \in Command /\ config \in Versions
      /\ wanted \in Versions /\ {"truncate", "fill"} \subseteq Steps
  BY DEF TypeInv, TypeOK, Steps
<1>2. op[p].mod \in Module
  BY DEF TypeInv, AtInv, At, Saving, Reload, Truncate, Fill
<1>3. op[p].cfg \in Versions /\ op[p].ver \in Version \cup {None}
  BY <1>1 DEF Command
<1>4. ASSUME Reload(p) PROVE TypeInv'
  <2>0. PICK load \in Loads :
          /\ op' = [op EXCEPT ![p].at = "truncate",
                              ![p].cfg = [load EXCEPT ![op[p].mod] = op[p].ver]]
          /\ stale' = IF load = config THEN stale ELSE stale \cup {p}
    BY <1>4 DEF Reload
  <2> DEFINE cfg == [load EXCEPT ![op[p].mod] = op[p].ver]
             c == [op[p] EXCEPT !.at = "truncate", !.cfg = cfg]
  <2>1. cfg \in Versions
    BY <1>1, <1>3, EmptyTypes DEF Versions, Loads
  <2>2. c \in Command
    <3> HIDE DEF cfg
    <3> QED
      BY <1>1, <2>1 DEF Command
  <2>3. op' = [op EXCEPT ![p] = c] /\ c.at = "truncate" /\ c.mod = op[p].mod
    BY <1>1, <2>0 DEF Command
  <2>4. op' \in [Proc -> Command] /\ (\A q \in Proc \ {p} : op'[q] = op[q]) /\ op'[p] = c
    <3> HIDE DEF c
    <3> QED
      BY <1>1, <2>2, <2>3
  <2>5. AtInv(p)'
    <3> HIDE DEF c
    <3> QED
      BY <1>2, <2>3, <2>4 DEF AtInv, At, Saving
  <2>6. Grows
    BY <1>4 DEF Grows, Reload, tree
  <2>7. \A q \in Proc : AtInv(q)'
    BY <2>4, <2>5, <2>6, OthersAt
  <2>8. stale' \subseteq Proc
    BY <2>0 DEF TypeInv, TypeOK
  <2> QED
    BY <1>4, <2>4, <2>7, <2>8 DEF Reload, TypeInv, TypeOK, registry, tree, bounds
<1>5. ASSUME Truncate(p) PROVE TypeInv'
  <2>1. op' \in [Proc -> Command] /\ (\A q \in Proc \ {p} : op'[q] = op[q])
        /\ op'[p].at = "fill" /\ op'[p].mod = op[p].mod
    BY <1>1, <1>5 DEF Truncate, Command
  <2>2. AtInv(p)'
    BY <1>2, <2>1 DEF AtInv, At, Saving
  <2>3. Grows
    BY <1>5 DEF Grows, Truncate
  <2>4. \A q \in Proc : AtInv(q)'
    BY <2>1, <2>2, <2>3, OthersAt
  <2>5. config' \in Versions /\ stale' \subseteq Proc
    BY <1>5, EmptyTypes DEF Truncate, TypeInv, TypeOK
  <2> QED
    BY <1>5, <2>1, <2>4, <2>5 DEF Truncate, TypeInv, TypeOK, registry, bounds
<1>6. ASSUME Fill(p) PROVE TypeInv'
  <2>1. op' \in [Proc -> Command] /\ (\A q \in Proc \ {p} : op'[q] = op[q]) /\ AtInv(p)'
    BY <1>6, EmptyTypes, ReturnType DEF Fill
  <2>2. Grows
    BY <1>6 DEF Grows, Fill
  <2>3. \A q \in Proc : AtInv(q)'
    BY <2>1, <2>2, OthersAt
  <2>4. config' \in Versions /\ stale' \subseteq Proc
    BY <1>3, <1>6 DEF Fill, MakeStale, TypeInv, TypeOK
  <2>5. wanted' \in Versions
    BY <1>1, <1>2, <1>3, <1>6 DEF Fill, Versions
  <2>6. spoiled' \in BOOLEAN
    BY <1>6 DEF Fill
  <2> QED
    BY <1>6, <2>1, <2>3, <2>4, <2>5, <2>6 DEF Fill, TypeInv, TypeOK, registry, bounds
<1> QED
  BY <1>4, <1>5, <1>6

\* An entry that is found leaves a well-typed command behind.
LEMMA FoundType ==
  ASSUME TypeInv, NEW p \in Proc, NEW m \in op[p].todo, NEW e \in Entries,
         op[p].at = "load",
         op' = [op EXCEPT ![p].found = With(@, m, e), ![p].todo = @ \ {m}]
  PROVE  /\ op' \in [Proc -> Command]
         /\ \A q \in Proc \ {p} : op'[q] = op[q]
         /\ AtInv(p)'
<1> DEFINE found == With(op[p].found, m, e)
           c == [op[p] EXCEPT !.found = found, !.todo = @ \ {m}]
<1>1. op \in [Proc -> Command] /\ op[p] \in Command
  BY DEF TypeInv, TypeOK
<1>2. m \in Module /\ op[p].found \in Locks
  BY <1>1 DEF Command
<1>3. found \in Locks
  BY <1>2, WithLock
<1>4. c \in Command
  <2> HIDE DEF found
  <2> QED
    BY <1>1, <1>3 DEF Command
<1>5. op' = [op EXCEPT ![p] = c] /\ c.at = op[p].at
      /\ c.todo \subseteq op[p].todo /\ c.cfg = op[p].cfg
  BY <1>1 DEF Command
<1>6. op[p].todo \subseteq Declared(op[p].cfg)
  BY DEF TypeInv, AtInv
<1> HIDE DEF c
<1> QED
  BY <1>1, <1>4, <1>5, <1>6 DEF AtInv, At, Saving

\* The lock entry of a module that is found grows file by file.
LEMMA PassType ==
  ASSUME TypeInv, NEW p \in Proc,
         AddEntry(p) \/ ListFiles(p) \/ ParseFile(p) \/ HashFile(p) \/ EntryDone(p)
  PROVE  TypeInv'
<1> USE DEF At
<1>1. op \in [Proc -> Command] /\ op[p] \in Command /\ op[p].cfg \in Versions
      /\ op[p].found \in Locks /\ op[p].todo \subseteq Module
      /\ {"lock", "list", "parse", "hash"} \subseteq Steps /\ TypeOK
      /\ op[p].todo \subseteq Declared(op[p].cfg)
  BY DEF TypeInv, TypeOK, AtInv, Command, Steps, AddEntry, ListFiles, ParseFile, HashFile, EntryDone
<1>2. UNCHANGED <<registry, tree, bounds, history>> /\ UNCHANGED <<cache, vendor>>
  BY DEF AddEntry, ListFiles, ParseFile, HashFile, EntryDone, tree
<1>3. ASSUME NEW c \in Command, op' = [op EXCEPT ![p] = c],
             c.at \in {"list", "parse", "hash", "lock"}, c.todo \subseteq Declared(c.cfg),
             c.at # "lock" =>
                 /\ c.mod \in c.todo /\ c.mod \in Module /\ c.entry \in Entries
                 /\ FilesOf(c.mod, c.entry) \in Directories,
             c.at \in {"parse", "hash"} => c.left \subseteq DOMAIN FilesOf(c.mod, c.entry)
      PROVE  TypeInv'
  <2>1. op' \in [Proc -> Command] /\ (\A q \in Proc \ {p} : op'[q] = op[q]) /\ op'[p] = c
    BY <1>1, <1>3
  <2>2. \A m, e : FilesOf(m, e)' = FilesOf(m, e)
    BY <1>2 DEF FilesOf
  <2>3. AtInv(p)'
    BY <1>3, <2>1, <2>2 DEF AtInv, Saving
  <2> QED
    BY <1>2, <2>1, <2>3, OwnStepType
<1>4. ASSUME Fail(p) \/ Succeed(p, NoEntries) PROVE TypeInv'
  BY <1>2, <1>4, EmptyTypes, ReturnType, OwnStepType
<1>5. CASE AddEntry(p)
  <2>1. PICK m \in op[p].todo :
          \/ Fail(p) \/ Succeed(p, NoEntries)
          \/ /\ LockEntry(m, op[p].cfg[m]) # Absent
             /\ op' = [op EXCEPT ![p].at = "list", ![p].mod = m,
                    ![p].entry = Located(LockEntry(m, op[p].cfg[m]).version,
                                         LockEntry(m, op[p].cfg[m]).layer, EmptyDir)]
    BY <1>5 DEF AddEntry, NotLocked
  <2>2. m \in Module /\ op[p].cfg[m] \in Version
    BY <1>1, DeclaredVersion
  <2>3. CASE /\ LockEntry(m, op[p].cfg[m]) # Absent
             /\ op' = [op EXCEPT ![p].at = "list", ![p].mod = m,
                    ![p].entry = Located(LockEntry(m, op[p].cfg[m]).version,
                                         LockEntry(m, op[p].cfg[m]).layer, EmptyDir)]
    <3>1. PICK v \in Version : v = op[p].cfg[m]
      BY <2>2
    <3>2. PICK layer \in Layers :
            /\ LockEntry(m, v) = Located(v, layer, FilesOf(m, Located(v, layer, EmptyDir)))
            /\ FilesOf(m, Located(v, layer, EmptyDir)) \in Directories
      BY <1>1, <2>2, <2>3, <3>1, ResolvedFiles DEF LockEntry
    <3> DEFINE e == Located(v, layer, EmptyDir)
               c == [op[p] EXCEPT !.at = "list", !.mod = m, !.entry = e]
    <3>3. LockEntry(m, v).version = v /\ LockEntry(m, v).layer = layer
      BY <3>2 DEF Located
    <3>4. e \in Entries
      BY EmptyTypes DEF Located, Entries
    <3> HIDE DEF e
    <3>5. c \in Command
      BY <1>1, <2>2, <3>4 DEF Command
    <3>6. op' = [op EXCEPT ![p] = c] /\ c.at = "list" /\ c.mod = m /\ c.entry = e
          /\ c.todo = op[p].todo /\ c.cfg = op[p].cfg
      BY <1>1, <2>3, <3>1, <3>3 DEF Command, e
    <3>7. FilesOf(m, e) \in Directories
      BY <3>2 DEF e
    <3> HIDE DEF c
    <3> QED
      BY <1>1, <1>3, <2>2, <3>4, <3>5, <3>6, <3>7
  <2> QED
    BY <1>4, <2>1, <2>3
<1>6. ASSUME ~AddEntry(p)
      PROVE  /\ op[p].mod \in op[p].todo /\ op[p].mod \in Module /\ op[p].entry \in Entries
             /\ FilesOf(op[p].mod, op[p].entry) \in Directories
  BY <1>6 DEF TypeInv, AtInv, ListFiles, ParseFile, HashFile, EntryDone
<1>7. CASE ListFiles(p)
  <2>1. PICK at, files : /\ at = IF op[p].at = "list" THEN "parse" ELSE "hash"
                         /\ files = DOMAIN FilesOf(op[p].mod, op[p].entry)
    OBVIOUS
  <2> DEFINE c == [op[p] EXCEPT !.at = at, !.left = files]
  <2>2. ~AddEntry(p) /\ files \subseteq File
    BY <1>6, <1>7, <2>1, InDirectory DEF ListFiles, AddEntry
  <2>3. c \in Command
    BY <1>1, <2>1, <2>2 DEF Command
  <2>4. op' = [op EXCEPT ![p] = c] /\ c.at = at /\ c.mod = op[p].mod /\ c.entry = op[p].entry
        /\ c.todo = op[p].todo /\ c.cfg = op[p].cfg /\ c.left = files
    BY <1>1, <1>7, <2>1 DEF ListFiles, Command
  <2> HIDE DEF c
  <2> QED
    BY <1>1, <1>3, <1>6, <2>1, <2>2, <2>3, <2>4
<1>8. ASSUME NEW f \in op[p].left, NEW e \in Entries, ParseFile(p) \/ HashFile(p),
             e.layer = op[p].entry.layer, e.version = op[p].entry.version,
             op' = [op EXCEPT ![p].left = @ \ {f}, ![p].entry = e]
      PROVE  TypeInv'
  <2> DEFINE c == [op[p] EXCEPT !.left = @ \ {f}, !.entry = e]
  <2>1. c \in Command
    BY <1>1, <1>8 DEF Command
  <2>2. op' = [op EXCEPT ![p] = c] /\ c.at = op[p].at /\ c.mod = op[p].mod /\ c.entry = e
        /\ c.todo = op[p].todo /\ c.cfg = op[p].cfg /\ c.left = op[p].left \ {f}
    BY <1>1, <1>8 DEF Command
  <2>3. FilesOf(op[p].mod, e) = FilesOf(op[p].mod, op[p].entry)
    BY <1>8 DEF FilesOf
  <2>4. ~AddEntry(p) /\ op[p].at \in {"parse", "hash"}
        /\ op[p].left \subseteq DOMAIN FilesOf(op[p].mod, op[p].entry)
    BY <1>8 DEF ParseFile, HashFile, AddEntry, TypeInv, AtInv
  <2> HIDE DEF c
  <2> QED
    BY <1>1, <1>3, <1>6, <1>8, <2>1, <2>2, <2>3, <2>4
<1>9. ASSUME NEW d \in Directories, NEW f \in DOMAIN d
      PROVE  /\ f \in File /\ d[f] \in Version \cup {Torn}
  BY InDirectory
<1>10. CASE ParseFile(p)
  <2>0. PICK f \in op[p].left :
          LET text == FilesOf(op[p].mod, op[p].entry)[f]
          IN  \/ Fail(p) \/ Succeed(p, NoEntries)
              \/ /\ text # Torn
                 /\ op' = [op EXCEPT ![p].left = @ \ {f},
                                     ![p].entry.meaning = With(@, f, text)]
    BY <1>10 DEF ParseFile, NotLocked
  <2>1. PICK text :
          /\ text = FilesOf(op[p].mod, op[p].entry)[f]
          /\ \/ Fail(p) \/ Succeed(p, NoEntries)
             \/ /\ text # Torn
                /\ op' = [op EXCEPT ![p].left = @ \ {f},
                                    ![p].entry.meaning = With(@, f, text)]
    BY <2>0
  <2>2. CASE /\ text # Torn
             /\ op' = [op EXCEPT ![p].left = @ \ {f},
                                 ![p].entry.meaning = With(@, f, text)]
    <3>1. ~AddEntry(p) /\ f \in DOMAIN FilesOf(op[p].mod, op[p].entry)
      BY <1>10 DEF ParseFile, AddEntry, TypeInv, AtInv
    <3>2. f \in File /\ text \in Version
      BY <1>6, <2>1, <2>2, <3>1, InDirectory
    <3>3. PICK meaning : meaning = With(op[p].entry.meaning, f, text)
      OBVIOUS
    <3>4. meaning \in Parsed
      <4>1. PICK S \in SUBSET File : op[p].entry.meaning \in [S -> Version]
        BY <1>6, <3>1 DEF Entries, Parsed
      <4>2. meaning \in [S \cup {f} -> Version] /\ S \cup {f} \in SUBSET File
        BY <3>2, <3>3, <4>1 DEF With
      <4> QED
        BY <4>2 DEF Parsed
    <3> DEFINE e == [op[p].entry EXCEPT !.meaning = meaning]
    <3>5. e \in Entries /\ e.layer = op[p].entry.layer /\ e.version = op[p].entry.version
      BY <1>6, <3>1, <3>4 DEF Entries
    <3>6. op' = [op EXCEPT ![p].left = @ \ {f}, ![p].entry = e]
      BY <1>1, <2>2, <3>3 DEF Command
    <3> HIDE DEF e
    <3> QED
      BY <1>8, <1>10, <3>5, <3>6
  <2> QED
    BY <1>4, <2>1, <2>2
<1>11. CASE HashFile(p)
  <2>0. PICK f \in op[p].left :
          op' = [op EXCEPT ![p].left = @ \ {f},
                           ![p].entry.content =
                              With(@, f, FilesOf(op[p].mod, op[p].entry)[f])]
    BY <1>11 DEF HashFile
  <2>1. PICK text :
          /\ text = FilesOf(op[p].mod, op[p].entry)[f]
          /\ op' = [op EXCEPT ![p].left = @ \ {f}, ![p].entry.content = With(@, f, text)]
    BY <2>0
  <2>2. ~AddEntry(p) /\ f \in DOMAIN FilesOf(op[p].mod, op[p].entry)
    BY <1>11 DEF HashFile, AddEntry, TypeInv, AtInv
  <2>3. f \in File /\ text \in Version \cup {Torn} /\ op[p].entry.content \in Directories
    BY <1>6, <2>1, <2>2, InDirectory DEF Entries
  <2>4. PICK content : content = With(op[p].entry.content, f, text)
    OBVIOUS
  <2>5. content \in Directories
    BY <2>3, <2>4, WithDirectory
  <2> DEFINE e == [op[p].entry EXCEPT !.content = content]
  <2>6. e \in Entries /\ e.layer = op[p].entry.layer /\ e.version = op[p].entry.version
    BY <1>6, <2>2, <2>5 DEF Entries
  <2>7. op' = [op EXCEPT ![p].left = @ \ {f}, ![p].entry = e]
    BY <1>1, <2>1, <2>4 DEF Command
  <2> HIDE DEF e
  <2> QED
    BY <1>8, <1>11, <2>6, <2>7
<1>12. CASE EntryDone(p)
  <2>1. PICK found : found = With(op[p].found, op[p].mod, op[p].entry)
    OBVIOUS
  <2>2. ~AddEntry(p)
    BY <1>12 DEF EntryDone, AddEntry
  <2>3. found \in Locks
    BY <1>1, <1>6, <2>1, <2>2, WithLock
  <2> DEFINE c == [op[p] EXCEPT !.at = "lock", !.mod = Absent, !.entry = Absent,
                                !.found = found, !.todo = @ \ {op[p].mod}]
  <2>4. c \in Command
    BY <1>1, <2>3 DEF Command
  <2>5. op' = [op EXCEPT ![p] = c] /\ c.at = "lock" /\ c.cfg = op[p].cfg
        /\ c.todo \subseteq op[p].todo
    BY <1>1, <1>12, <2>1 DEF EntryDone, Command
  <2> HIDE DEF c
  <2> QED
    BY <1>1, <1>3, <2>4, <2>5
<1> QED
  BY <1>5, <1>7, <1>10, <1>11, <1>12

\* Writing deps.lock and loading modules keep the types.
LEMMA LockType ==
  ASSUME TypeInv, NEW p \in Proc,
         \/ Frozen(p) \/ TruncateLock(p) \/ FillLock(p) \/ LoadModule(p) \/ Loaded(p)
  PROVE  TypeInv'
<1>1. op \in [Proc -> Command] /\ op[p] \in Command
      /\ op[p].cfg \in Versions /\ op[p].found \in Locks
      /\ {"write", "load"} \subseteq Steps /\ TypeOK
  BY DEF TypeInv, TypeOK, Command, Steps
<1>2. ASSUME NEW m \in op[p].todo, NEW offline \in BOOLEAN, op[p].at = "load",
             Usable(ResolveModule(m, op[p].cfg[m], offline))
      PROVE  ResolveModule(m, op[p].cfg[m], offline) \in Entries
  <2>1. m \in Declared(op[p].cfg)
    BY <1>2 DEF TypeInv, AtInv
  <2>2. m \in Module /\ op[p].cfg[m] \in Version
    BY <1>1, <2>1, DeclaredVersion
  <2> QED
    BY <1>1, <1>2, <2>2, ResolvedEntry
<1>4. ASSUME LoadModule(p) PROVE TypeInv'
  <2>1. PICK m \in op[p].todo :
          LET e == ResolveModule(m, op[p].cfg[m], Cmd(p, {"offline"}))
          IN  IF ~Usable(e) THEN Fail(p)
              ELSE op' = [op EXCEPT ![p].found = With(@, m, e), ![p].todo = @ \ {m}]
    BY <1>4 DEF LoadModule
  <2> DEFINE e == ResolveModule(m, op[p].cfg[m], Cmd(p, {"offline"}))
  <2>2. CASE Usable(e)
    <3>3. Cmd(p, {"offline"}) \in BOOLEAN
      BY DEF Cmd
    <3>1. e \in Entries
      BY <1>2, <1>4, <2>2, <3>3 DEF LoadModule, At
    <3>2. op' = [op EXCEPT ![p].found = With(@, m, e), ![p].todo = @ \ {m}]
      BY <2>1, <2>2
    <3> HIDE DEF e
    <3> QED
      BY <1>4, <3>1, <3>2, FoundType, OwnStepType DEF LoadModule, At, Saving
  <2>3. CASE Fail(p)
    BY <1>4, <2>3, ReturnType, OwnStepType DEF LoadModule
  <2> QED
    BY <2>1, <2>2, <2>3
<1>5. ASSUME Frozen(p) \/ Loaded(p) PROVE TypeInv'
  BY <1>1, <1>5, ReturnType, OwnStepType DEF Frozen, Loaded
<1>6. ASSUME TruncateLock(p) PROVE TypeInv'
  <2>1. op' \in [Proc -> Command] /\ (\A q \in Proc \ {p} : op'[q] = op[q])
        /\ op'[p].at = "write"
    BY <1>1, <1>6 DEF TruncateLock, Command
  <2>2. AtInv(p)'
    BY <2>1 DEF AtInv, At, Saving
  <2>3. Grows
    BY <1>6 DEF Grows, TruncateLock
  <2>4. \A q \in Proc : AtInv(q)'
    BY <2>1, <2>2, <2>3, OthersAt
  <2> QED
    BY <1>6, <2>1, <2>4 DEF TruncateLock, TypeInv, TypeOK, registry, bounds, history
<1>7. ASSUME FillLock(p) PROVE TypeInv'
  <2>1. op' \in [Proc -> Command] /\ (\A q \in Proc \ {p} : op'[q] = op[q]) /\ AtInv(p)'
    <3>1. CASE Cmd(p, {"build"})
      <4> DEFINE c == [op[p] EXCEPT !.at = "load", !.found = NoEntries,
                                    !.todo = Declared(op[p].cfg)]
      <4>1. Declared(op[p].cfg) \subseteq Module
        BY DEF Declared
      <4>2. c \in Command
        BY <1>1, <4>1, EmptyTypes DEF Command
      <4>3. op' = [op EXCEPT ![p] = c] /\ c.at = "load" /\ c.todo = Declared(c.cfg)
        BY <1>1, <1>7, <3>1 DEF FillLock, Command
      <4> HIDE DEF c
      <4> QED
        BY <1>1, <4>2, <4>3 DEF AtInv, At, Saving
    <3>2. CASE ~Cmd(p, {"build"})
      BY <1>7, <3>2, EmptyTypes, ReturnType DEF FillLock
    <3> QED
      BY <3>1, <3>2
  <2>2. Grows
    BY <1>7 DEF Grows, FillLock
  <2>3. \A q \in Proc : AtInv(q)'
    BY <2>1, <2>2, OthersAt
  <2>4. lock' \in Locks
    BY <1>1, <1>7 DEF FillLock
  <2> QED
    BY <1>7, <2>1, <2>3, <2>4 DEF FillLock, TypeInv, TypeOK, registry, bounds, history
<1> QED
  BY <1>4, <1>5, <1>6, <1>7

\* Vendoring keeps the types.
LEMMA VendorType ==
  ASSUME TypeInv, NEW p \in Proc,
         VendorDir(p) \/ CopyFile(p) \/ FillCopy(p) \/ Vendored(p)
  PROVE  TypeInv'
<1>1. op \in [Proc -> Command] /\ op[p] \in Command
      /\ op[p].cfg \in Versions /\ op[p].found \in Locks
      /\ {"copyDir", "copy", "copyFile"} \subseteq Steps /\ TypeOK
      /\ op[p].todo \subseteq Declared(op[p].cfg)
  BY DEF TypeInv, TypeOK, AtInv, At, Command, Steps, VendorDir, CopyFile, FillCopy, Vendored
<1>2. ASSUME Vendored(p) PROVE TypeInv'
  BY <1>1, <1>2, ReturnType, OwnStepType DEF Vendored
<1>3. ASSUME VendorDir(p) PROVE TypeInv'
  <2>1. PICK m \in op[p].todo :
          LET v == op[p].cfg[m]
          IN  IF ~Cached(m, v)
              THEN Fail(p) /\ UNCHANGED vendor
              ELSE /\ vendor' = [vendor EXCEPT ![m] = IF @ = Absent THEN EmptyDir ELSE @]
                   /\ op' = [op EXCEPT ![p].at = "copy", ![p].mod = m, ![p].ver = v,
                                       ![p].left = DOMAIN cache[m][v]]
    BY <1>3 DEF VendorDir
  <2> DEFINE v == op[p].cfg[m]
  <2>2. m \in Module /\ v \in Version
    BY <1>1, DeclaredVersion
  <2>3. CASE Cached(m, v)
    <3> DEFINE files == DOMAIN cache[m][v]
               d == IF vendor[m] = Absent THEN EmptyDir ELSE vendor[m]
               c == [op[p] EXCEPT !.at = "copy", !.mod = m, !.ver = v, !.left = files]
    <3>11. vendor[m] \in Directories => DOMAIN vendor[m] \subseteq DOMAIN d
      BY AbsentAssumption
    <3>1. cache[m][v] \in Directories
      BY <1>1, <2>2, <2>3 DEF TypeOK, Cached
    <3>2. files \subseteq File
      BY <3>1, InDirectory
    <3>3. d \in Directories
      BY <1>1, <2>2, EmptyTypes DEF TypeOK
    <3>4. vendor' = [vendor EXCEPT ![m] = d] /\ cache' = cache
      BY <1>3, <2>1, <2>3 DEF VendorDir
    <3>5. Grows /\ vendor'[m] = d
          /\ cache' \in [Module -> [Version -> {Absent} \cup Directories]]
          /\ vendor' \in [Module -> {Absent} \cup Directories]
      <4> HIDE DEF d
      <4> QED
        BY <2>2, <3>3, <3>4, <3>11, VendorGrows
    <3>6. c \in Command
      <4> HIDE DEF files, v
      <4> QED
        BY <1>1, <2>2, <3>2 DEF Command
    <3>7. op' = [op EXCEPT ![p] = c]
      BY <1>1, <2>1, <2>3 DEF Command
    <3>8. c.at = "copy" /\ c.mod = m /\ c.ver = v /\ c.left = files
          /\ c.todo = op[p].todo /\ c.cfg = op[p].cfg
      BY <1>1 DEF Command
    <3>9. op' \in [Proc -> Command] /\ (\A q \in Proc \ {p} : op'[q] = op[q]) /\ op'[p] = c
      <4> HIDE DEF c
      <4> QED
        BY <1>1, <3>6, <3>7
    <3>10. AtInv(p)'
      <4> HIDE DEF c, d, v
      <4> QED
        BY <1>1, <2>2, <3>1, <3>3, <3>4, <3>5, <3>8, <3>9 DEF AtInv, At, Saving
    <3> QED
      BY <1>3, <3>5, <3>9, <3>10, DirStepType DEF VendorDir
  <2>4. CASE ~Cached(m, v)
    <3>1. Fail(p) /\ UNCHANGED vendor
      BY <2>1, <2>4
    <3> QED
      BY <1>3, <3>1, ReturnType, OwnStepType DEF VendorDir, tree
  <2> QED
    BY <2>3, <2>4
<1>4. ASSUME CopyFile(p) PROVE TypeInv'
  <2> DEFINE m == op[p].mod
             v == op[p].ver
  <2>1. PICK f \in op[p].left :
          /\ vendor' = [vendor EXCEPT ![m] = Replaced(@, f, Torn)]
          /\ op' = [op EXCEPT ![p].at = "copyFile", ![p].file = f, ![p].left = @ \ {f}]
    BY <1>4 DEF CopyFile
  <2> DEFINE d == With(vendor[m], f, Torn)
             c == [op[p] EXCEPT !.at = "copyFile", !.file = f, !.left = @ \ {f}]
  <2>2. /\ m \in Module /\ v \in Version
        /\ cache[m][v] \in Directories /\ vendor[m] \in Directories
        /\ op[p].left \subseteq DOMAIN cache[m][v]
    BY <1>4 DEF CopyFile, TypeInv, AtInv, At
  <2>3. f \in File
    BY <1>1 DEF Command
  <2>4. d \in Directories /\ DOMAIN vendor[m] \subseteq DOMAIN d
    BY <2>2, <2>3, WithDirectory
  <2>5. vendor' = [vendor EXCEPT ![m] = d] /\ cache' = cache
    BY <1>4, <2>1 DEF CopyFile, Replaced
  <2>6. Grows /\ vendor'[m] = d
        /\ cache' \in [Module -> [Version -> {Absent} \cup Directories]]
        /\ vendor' \in [Module -> {Absent} \cup Directories]
    <3> HIDE DEF d, m, v
    <3> QED
      BY <2>2, <2>4, <2>5, VendorGrows
  <2>7. c \in Command
    BY <1>1, <2>3 DEF Command
  <2>8. op' = [op EXCEPT ![p] = c]
    BY <1>1, <2>1 DEF Command
  <2>9. c.at = "copyFile" /\ c.mod = m /\ c.ver = v /\ c.file = f
        /\ c.left \subseteq op[p].left /\ c.todo = op[p].todo /\ c.cfg = op[p].cfg
    BY <1>1 DEF Command
  <2>10. op' \in [Proc -> Command] /\ (\A q \in Proc \ {p} : op'[q] = op[q]) /\ op'[p] = c
    <3> HIDE DEF c
    <3> QED
      BY <1>1, <2>7, <2>8
  <2>11. AtInv(p)'
    <3> HIDE DEF c, d, m, v
    <3> QED
      BY <1>1, <2>2, <2>3, <2>4, <2>5, <2>6, <2>9, <2>10 DEF AtInv, At, Saving
  <2> QED
    BY <1>4, <2>6, <2>10, <2>11, DirStepType DEF CopyFile
<1>5. ASSUME FillCopy(p) PROVE TypeInv'
  <2> DEFINE m == op[p].mod
             v == op[p].ver
             f == op[p].file
             d == With(vendor[m], f, cache[m][v][f])
             e == [FromCache(m, v) EXCEPT !.meaning = EmptyDir]
             found == With(op[p].found, m, e)
  <2>1. /\ m \in Module /\ v \in Version /\ f \in File
        /\ cache[m][v] \in Directories /\ vendor[m] \in Directories
        /\ op[p].left \subseteq DOMAIN cache[m][v] /\ f \in DOMAIN cache[m][v]
    BY <1>5 DEF FillCopy, TypeInv, AtInv, At
  <2>2. d \in Directories /\ DOMAIN vendor[m] \subseteq DOMAIN d
    <3>1. cache[m][v][f] \in Version \cup {Torn}
      BY <2>1, InDirectory
    <3> HIDE DEF m, v, f
    <3> QED
      BY <2>1, <3>1, WithDirectory
  <2>3. vendor' = [vendor EXCEPT ![m] = d] /\ cache' = cache
    BY <1>5 DEF FillCopy, Replaced
  <2>4. Grows /\ vendor'[m] = d
        /\ cache' \in [Module -> [Version -> {Absent} \cup Directories]]
        /\ vendor' \in [Module -> {Absent} \cup Directories]
    <3> HIDE DEF d, m, v
    <3> QED
      BY <2>1, <2>2, <2>3, VendorGrows
  <2>5. e \in Entries
    <3> HIDE DEF m, v
    <3> QED
      BY <2>1, EmptyTypes DEF FromCache, Located, Entries, Layers
  <2>6. found \in Locks
    <3> HIDE DEF m, e
    <3> QED
      BY <1>1, <2>1, <2>5, WithLock
  <2>7. CASE op[p].left = {}
    <3> DEFINE c == [op[p] EXCEPT !.at = "copyDir", !.mod = Absent, !.ver = None,
                                  !.file = Absent, !.todo = @ \ {m}, !.found = found]
    <3>1. c \in Command
      <4> HIDE DEF found, m
      <4> QED
        BY <1>1, <2>6 DEF Command
    <3>2. op' = [op EXCEPT ![p] = c]
      BY <1>1, <1>5, <2>7 DEF FillCopy, Command
    <3>3. c.at = "copyDir" /\ c.todo \subseteq op[p].todo /\ c.cfg = op[p].cfg
      BY <1>1 DEF Command
    <3>4. op' \in [Proc -> Command] /\ (\A q \in Proc \ {p} : op'[q] = op[q]) /\ op'[p] = c
      <4> HIDE DEF c
      <4> QED
        BY <1>1, <3>1, <3>2
    <3>5. AtInv(p)'
      <4> HIDE DEF c
      <4> QED
        BY <1>1, <3>3, <3>4 DEF AtInv, At, Saving
    <3> QED
      BY <1>5, <2>4, <3>4, <3>5, DirStepType DEF FillCopy
  <2>8. CASE op[p].left # {}
    <3> DEFINE c == [op[p] EXCEPT !.at = "copy", !.file = Absent]
    <3>1. c \in Command
      BY <1>1 DEF Command
    <3>2. op' = [op EXCEPT ![p] = c]
      BY <1>1, <1>5, <2>8 DEF FillCopy, Command
    <3>3. c.at = "copy" /\ c.mod = m /\ c.ver = v /\ c.left = op[p].left
          /\ c.todo = op[p].todo /\ c.cfg = op[p].cfg
      BY <1>1 DEF Command
    <3>4. op' \in [Proc -> Command] /\ (\A q \in Proc \ {p} : op'[q] = op[q]) /\ op'[p] = c
      <4> HIDE DEF c
      <4> QED
        BY <1>1, <3>1, <3>2
    <3>5. AtInv(p)'
      <4> HIDE DEF c, d, m, v, f
      <4> QED
        BY <1>1, <2>1, <2>2, <2>3, <2>4, <3>3, <3>4 DEF AtInv, At, Saving
    <3> QED
      BY <1>5, <2>4, <3>4, <3>5, DirStepType DEF FillCopy
  <2> QED
    BY <2>7, <2>8
<1> QED
  BY <1>2, <1>3, <1>4, <1>5

\* Every step keeps the types.
LEMMA StepType == TypeInv /\ [Next]_vars => TypeInv'
<1> SUFFICES ASSUME TypeInv, [Next]_vars PROVE TypeInv'
  OBVIOUS
<1>1. ASSUME NEW p \in Proc, Call(p) PROVE TypeInv'
  BY <1>1, CallType
<1>2. ASSUME NEW p \in Proc, Step(p) PROVE TypeInv'
  BY <1>2, ResolveType, DownloadType, SaveType, PassType, LockType, VendorType DEF Step
<1>3. ASSUME NEW p \in Proc, Die(p) PROVE TypeInv'
  <2>1. op' = [op EXCEPT ![p] = NoCommand] /\ cache' = cache /\ vendor' = vendor
    BY <1>3 DEF Die, tree
  <2>2. op' \in [Proc -> Command] /\ (\A q \in Proc \ {p} : AtInv(q)') /\ op'[p] = NoCommand
    BY <2>1, EmptyTypes, QuietStep
  <2>3. AtInv(p)'
    BY <2>2 DEF AtInv, At, Saving, NoCommand
  <2>4. faults' \in 0..MaxFaults
    BY <1>3, BoundAssumption DEF Die, TypeInv, TypeOK
  <2>5. stale' \subseteq Proc /\ spoiled' \in BOOLEAN
    BY <1>3 DEF Die, At, TypeInv, TypeOK
  <2> QED
    BY <1>3, <2>2, <2>3, <2>4, <2>5 DEF Die, TypeInv, TypeOK, registry, tree
<1>4. ASSUME NEW m \in Module, Publish(m) \/ Yank(m) PROVE TypeInv'
  <2>1. /\ published' \in [Module -> SUBSET Version]
        /\ yanked' \in [Module -> SUBSET Version]
    <3>1. CASE Publish(m)
      <4>1. PICK v \in Version : published' = [published EXCEPT ![m] = @ \cup {v}]
        BY <3>1 DEF Publish
      <4> QED
        BY <3>1, <4>1 DEF Publish, TypeInv, TypeOK
    <3>2. CASE Yank(m)
      <4>1. PICK v \in published[m] : yanked' = [yanked EXCEPT ![m] = @ \cup {v}]
        BY <3>2 DEF Yank
      <4> QED
        BY <3>2, <4>1 DEF Yank, TypeInv, TypeOK
    <3> QED
      BY <1>4, <3>1, <3>2
  <2>2. UNCHANGED <<tree, op, bounds, history>>
    BY <1>4 DEF Publish, Yank
  <2>3. TypeOK'
    BY <2>1, <2>2 DEF TypeInv, TypeOK, tree, bounds, history
  <2>4. \A q \in Proc : AtInv(q)'
    BY <2>2 DEF TypeInv, AtInv, At, Saving, FilesOf, tree
  <2> QED
    BY <2>3, <2>4 DEF TypeInv
<1>5. CASE UNCHANGED vars
  BY <1>5 DEF vars, registry, tree, bounds, history, TypeInv, TypeOK, AtInv, At, Saving, FilesOf
<1> QED
  BY <1>1, <1>2, <1>3, <1>4, <1>5 DEF Next

\* Whatever commands, publications, faults and deaths interleave, the command of every
\* process, every directory and the lock file are well-formed: a lock file never holds a
\* dependency that was found nowhere (deps.rs:465).
THEOREM TypeCorrect == Spec => []TypeOK
<1>1. TypeInv => TypeOK
  BY DEF TypeInv
<1> QED
  BY InitType, StepType, <1>1, PTL DEF Spec

-----------------------------------------------------------------------------
(* What config.toml declares.                                              *)

Filling(p) == At(p, "fill")
NoneFilling == \A q \in Proc : ~Filling(q)

\* Apart from the module it is about, p is about to save what the user declared.
AgreesElsewhere(p) == \A n \in Module \ {op[p].mod} : op[p].cfg[n] = wanted[n]

\* Until a stale config is saved or a save dies: config.toml is right while nobody is
\* filling it; a save that is not stale will leave it right, if it is the only one that
\* has truncated it; and of two that have truncated it one is stale, so that the second
\* to end counts as spoiling it.
SaveInv ==
    ~spoiled =>
        /\ NoneFilling => config = wanted
        /\ \A p \in Proc \ stale : At(p, "truncate") /\ NoneFilling => AgreesElsewhere(p)
        /\ \A p \in Proc \ stale :
               Filling(p) /\ (\A q \in Proc \ {p} : ~Filling(q)) => AgreesElsewhere(p)
        /\ \A p, q \in Proc :
               Filling(p) /\ Filling(q) /\ p # q => p \in stale \/ q \in stale

ConfigInv == TypeInv /\ SaveInv

\* Nothing is being saved in a fresh clone.
LEMMA InitSave == Init => SaveInv
BY DEF Init, SaveInv, AgreesElsewhere, Filling, NoneFilling, At, NoCommand

\* A step of a command that neither was nor becomes a save.
LEMMA UnrelatedStep ==
  ASSUME SaveInv, NEW p \in Proc, ~Saving(p), ~Saving(p)',
         \A q \in Proc \ {p} : op'[q] = op[q],
         UNCHANGED <<config, wanted, stale, spoiled>>
  PROVE  SaveInv'
<1>1. \A q \in Proc : (At(q, "truncate"))' = At(q, "truncate") /\ Filling(q)' = Filling(q)
  BY DEF Saving, At, Filling
<1>2. NoneFilling' = NoneFilling
  BY <1>1 DEF NoneFilling
<1>3. \A q \in Proc : Saving(q) => AgreesElsewhere(q)' = AgreesElsewhere(q)
  BY DEF AgreesElsewhere
<1>4. \A q \in Proc : At(q, "truncate") \/ Filling(q) => Saving(q)
  BY DEF Saving, At, Filling
<1> QED
  BY <1>1, <1>2, <1>3, <1>4 DEF SaveInv

\* A command that has just loaded config.toml is about to save what it declares, or
\* what it takes for that is known to be out of date.
LEMMA LoadStep ==
  ASSUME TypeInv, SaveInv, NEW p \in Proc, ~Saving(p), NEW v, NEW cfg,
         op'[p].at = "truncate", op'[p].mod \in Module,
         op'[p].cfg = [cfg EXCEPT ![op'[p].mod] = v],
         \A q \in Proc \ {p} : op'[q] = op[q] /\ (q \in stale' <=> q \in stale),
         p \notin stale' => cfg = config,
         UNCHANGED <<config, wanted, spoiled>>
  PROVE  SaveInv'
<1>1. \A q \in Proc : Filling(q)' = Filling(q)
  BY DEF Saving, At, Filling
<1>2. NoneFilling' = NoneFilling
  BY <1>1 DEF NoneFilling
<1>3. \A q \in Proc \ {p} : /\ (At(q, "truncate"))' = At(q, "truncate")
                           /\ AgreesElsewhere(q)' = AgreesElsewhere(q)
  BY DEF AgreesElsewhere, At
<1>4. ~spoiled /\ NoneFilling /\ p \notin stale' => AgreesElsewhere(p)'
  BY DEF SaveInv, AgreesElsewhere, TypeInv, TypeOK, Versions
<1>5. ~Filling(p)
  BY DEF Filling, Saving, At
<1> QED
  BY <1>1, <1>2, <1>3, <1>4, <1>5 DEF SaveInv

\* Truncating: the others that are saving become stale.
LEMMA TruncateStep ==
  ASSUME TypeInv, SaveInv, NEW p \in Proc, Truncate(p)
  PROVE  SaveInv'
<1> USE DEF At, Filling
<1>1. /\ op'[p].at = "fill" /\ op'[p].cfg = op[p].cfg /\ op'[p].mod = op[p].mod
      /\ \A q \in Proc \ {p} : op'[q] = op[q]
      /\ wanted' = wanted /\ spoiled' = spoiled
      /\ stale' = stale \cup {q \in Proc \ {p} : Saving(q)}
  BY DEF Truncate, TypeInv, TypeOK, Command
<1>2. ~NoneFilling'
  BY <1>1 DEF NoneFilling
<1>3. \A q \in Proc \ {p} : Filling(q)' => q \in stale'
  BY <1>1 DEF Saving
<1>4. ASSUME ~spoiled, p \notin stale', \A q \in Proc \ {p} : ~Filling(q)'
      PROVE  AgreesElsewhere(p)'
  <2>1. NoneFilling
    BY <1>1, <1>4 DEF NoneFilling, Truncate
  <2>2. p \notin stale
    BY <1>1, <1>4
  <2>3. AgreesElsewhere(p)
    BY <1>4, <2>1, <2>2 DEF SaveInv, Truncate
  <2> QED
    BY <1>1, <2>3 DEF AgreesElsewhere
<1> QED
  BY <1>1, <1>2, <1>3, <1>4 DEF SaveInv

\* Filling: a stale save spoils the config; another one leaves it right, unless somebody
\* else has truncated it and is stale.
LEMMA FillStep ==
  ASSUME TypeInv, SaveInv, NEW p \in Proc, Fill(p)
  PROVE  SaveInv'
<1> USE DEF At, Filling
<1>1. /\ op'[p].at = "done" /\ \A q \in Proc \ {p} : op'[q] = op[q]
  BY DEF Fill, Succeed, TypeInv, TypeOK, NoCommand
<1>2. /\ config' = op[p].cfg
      /\ wanted' = [wanted EXCEPT ![op[p].mod] = op[p].cfg[op[p].mod]]
      /\ stale' = (stale \cup {q \in Proc : Saving(q)}) \ {p}
      /\ spoiled' = (spoiled \/ p \in stale)
      /\ op[p].at = "fill"
  BY DEF Fill, MakeStale
<1>3. /\ op[p].cfg \in Versions /\ wanted \in Versions /\ op[p].mod \in Module
  BY <1>2 DEF TypeInv, TypeOK, AtInv, Saving, Command
<1>4. \A q \in Proc : Saving(q)' => q # p /\ q \in stale'
  BY <1>1, <1>2 DEF Saving
<1>5. ASSUME ~spoiled', NoneFilling' PROVE config' = wanted'
  <2>1. ~spoiled /\ p \notin stale
    BY <1>2, <1>5
  <2>2. \A q \in Proc \ {p} : ~Filling(q)
    BY <1>1, <1>5 DEF NoneFilling
  <2>3. AgreesElsewhere(p)
    BY <1>2, <2>1, <2>2 DEF SaveInv
  <2> QED
    BY <1>2, <1>3, <2>3 DEF AgreesElsewhere, Versions
<1> QED
  BY <1>4, <1>5 DEF SaveInv, Saving

\* What a step that makes a lock entry leaves alone.
LEMMA PassKeeps ==
  ASSUME TypeInv, NEW p \in Proc,
         AddEntry(p) \/ ListFiles(p) \/ ParseFile(p) \/ HashFile(p) \/ EntryDone(p)
  PROVE  /\ UNCHANGED <<registry, tree, bounds, history>>
         /\ \/ (AddEntry(p) \/ ParseFile(p)) /\ NotLocked(p)
            \/ /\ \A q \in Proc \ {p} : op'[q] = op[q]
               /\ op'[p].cmd = op[p].cmd /\ op'[p].held = op[p].held
               /\ op'[p].cfg = op[p].cfg
               /\ op'[p].at \in {"lock", "list", "parse", "hash"}
               /\ ~EntryDone(p) => op'[p].todo = op[p].todo /\ op'[p].found = op[p].found
<1> USE DEF At
<1>1. op \in [Proc -> Command] /\ op[p] \in Command
  BY DEF TypeInv, TypeOK
<1>2. ASSUME NEW c, op' = [op EXCEPT ![p] = c]
      PROVE  op'[p] = c /\ \A q \in Proc \ {p} : op'[q] = op[q]
  BY <1>1, <1>2
<1>3. CASE AddEntry(p)
  <2>1. PICK m, e :
          \/ NotLocked(p)
          \/ op' = [op EXCEPT ![p].at = "list", ![p].mod = m, ![p].entry = e]
    BY <1>3 DEF AddEntry
  <2>2. CASE op' = [op EXCEPT ![p].at = "list", ![p].mod = m, ![p].entry = e]
    BY <1>1, <1>3, <2>2 DEF AddEntry, Command
  <2> QED
    BY <1>3, <2>1, <2>2 DEF AddEntry
<1>4. CASE ListFiles(p)
  <2>0. PICK at \in {"parse", "hash"} : \E files :
          op' = [op EXCEPT ![p].at = at, ![p].left = files]
    BY <1>4 DEF ListFiles
  <2>1. PICK files : op' = [op EXCEPT ![p].at = at, ![p].left = files]
    BY <2>0
  <2> QED
    BY <1>1, <1>4, <2>1 DEF ListFiles, Command
<1>5. ASSUME ParseFile(p) \/ HashFile(p), NEW f, NEW e,
             op' = [op EXCEPT ![p].left = @ \ {f}, ![p].entry = e]
      PROVE  /\ \A q \in Proc \ {p} : op'[q] = op[q]
             /\ op'[p].cmd = op[p].cmd /\ op'[p].held = op[p].held
             /\ op'[p].cfg = op[p].cfg /\ op'[p].at \in {"parse", "hash"}
             /\ op'[p].todo = op[p].todo /\ op'[p].found = op[p].found
  BY <1>1, <1>5 DEF ParseFile, HashFile, Command
<1>6. CASE ParseFile(p)
  <2>1. PICK f, text :
          \/ NotLocked(p)
          \/ op' = [op EXCEPT ![p].left = @ \ {f}, ![p].entry.meaning = With(@, f, text)]
    BY <1>6 DEF ParseFile
  <2>2. ASSUME op' = [op EXCEPT ![p].left = @ \ {f}, ![p].entry.meaning = With(@, f, text)]
        PROVE  \E e : op' = [op EXCEPT ![p].left = @ \ {f}, ![p].entry = e]
    <3> WITNESS [op[p].entry EXCEPT !.meaning = With(@, f, text)]
    <3> QED
      BY <1>1, <2>2 DEF Command
  <2> QED
    BY <1>5, <1>6, <2>1, <2>2 DEF ParseFile
<1>7. CASE HashFile(p)
  <2>1. PICK f, text :
          op' = [op EXCEPT ![p].left = @ \ {f}, ![p].entry.content = With(@, f, text)]
    BY <1>7 DEF HashFile
  <2>2. \E e : op' = [op EXCEPT ![p].left = @ \ {f}, ![p].entry = e]
    <3> WITNESS [op[p].entry EXCEPT !.content = With(@, f, text)]
    <3> QED
      BY <1>1, <2>1 DEF Command
  <2> QED
    BY <1>5, <1>7, <2>2 DEF HashFile
<1>8. CASE EntryDone(p)
  BY <1>1, <1>8 DEF EntryDone, Command
<1> QED
  BY <1>3, <1>4, <1>6, <1>7, <1>8

\* The steps that do not save are unrelated to config.toml.
LEMMA OtherSteps ==
  ASSUME TypeInv, SaveInv, NEW p \in Proc, Step(p),
         ~Reload(p), ~Truncate(p), ~Fill(p)
  PROVE  SaveInv'
<1> USE DEF At, Saving
<1>1. op \in [Proc -> Command] /\ op[p] \in Command
  BY DEF TypeInv, TypeOK
<1>2. UNCHANGED <<config, wanted, stale, spoiled>>
  BY DEF Step, ResolveVersion, VersionNotFound, Fetch, Unpack, UnpackFile, Planned,
         AddEntry, ListFiles, ParseFile, HashFile, EntryDone,
         Frozen, TruncateLock, FillLock, LoadModule, Loaded, VendorDir,
         CopyFile, FillCopy, Vendored, tree, history
<1>3. ~Saving(p)
  BY DEF Step, ResolveVersion, VersionNotFound, Fetch, Unpack, UnpackFile, Planned,
         AddEntry, ListFiles, ParseFile, HashFile, EntryDone,
         Frozen, TruncateLock, FillLock, LoadModule, Loaded, VendorDir,
         CopyFile, FillCopy, Vendored
<1>4. ~Saving(p)' /\ \A q \in Proc \ {p} : op'[q] = op[q]
  <2>1. ASSUME Fail(p) \/ \E found \in Locks : Succeed(p, found)
        PROVE  ~Saving(p)' /\ \A q \in Proc \ {p} : op'[q] = op[q]
    BY <2>1, ReturnType
  <2>2. op[p].found \in Locks /\ NoEntries \in Locks /\ op[p].todo \subseteq Module
    BY <1>1, EmptyTypes DEF Command
  <2>3. ASSUME NEW m \in Module, Obtained(p, m)
        PROVE  ~Saving(p)' /\ \A q \in Proc \ {p} : op'[q] = op[q]
    BY <2>3, ObtainedType
  <2>4. CASE ResolveVersion(p)
    BY <1>1, <2>2, <2>3, <2>4 DEF ResolveVersion, Command
  <2>5. CASE VersionNotFound(p)
    BY <1>1, <1>3, <2>1, <2>5 DEF VersionNotFound, Command
  <2>6. CASE Fetch(p)
    BY <1>1, <2>6 DEF Fetch, Command
  <2>7. CASE Unpack(p)
    BY <1>1, <2>7 DEF Unpack, Command
  <2>8. CASE UnpackFile(p)
    <3>1. op[p].mod \in Module
      BY <2>8 DEF UnpackFile, TypeInv, AtInv
    <3> QED
      BY <1>1, <2>3, <2>8, <3>1 DEF UnpackFile, Command
  <2>9. CASE Planned(p)
    <3>1. \A cfg : op' = [op EXCEPT ![p].at = "lock", ![p].any = FALSE,
                                    ![p].cfg = cfg, ![p].todo = Declared(cfg)]
                   => ~Saving(p)' /\ \A q \in Proc \ {p} : op'[q] = op[q]
      BY <1>1 DEF Command
    <3> QED
      BY <2>1, <2>2, <2>9, <3>1 DEF Planned
  <2>10. CASE AddEntry(p) \/ ListFiles(p) \/ ParseFile(p) \/ HashFile(p) \/ EntryDone(p)
    <3>1. NotLocked(p) => ~Saving(p)' /\ \A q \in Proc \ {p} : op'[q] = op[q]
      BY <2>1, <2>2 DEF NotLocked
    <3> QED
      BY <2>10, <3>1, PassKeeps
  <2>11. CASE Frozen(p) \/ Loaded(p) \/ Vendored(p)
    BY <2>1, <2>2, <2>11 DEF Frozen, Loaded, Vendored
  <2>12. CASE TruncateLock(p)
    BY <1>1, <2>12 DEF TruncateLock, Command
  <2>13. CASE FillLock(p)
    BY <1>1, <2>1, <2>2, <2>13 DEF FillLock, Command
  <2>14. CASE LoadModule(p)
    BY <1>1, <1>3, <2>1, <2>14 DEF LoadModule, Command
  <2>15. CASE VendorDir(p)
    BY <1>1, <2>1, <2>15 DEF VendorDir, Command
  <2>16. CASE CopyFile(p)
    BY <1>1, <2>16 DEF CopyFile, Command
  <2>17. CASE FillCopy(p)
    BY <1>1, <2>17 DEF FillCopy, Command
  <2> QED
    BY <2>4, <2>5, <2>6, <2>7, <2>8, <2>9, <2>10, <2>11, <2>12, <2>13, <2>14, <2>15,
       <2>16, <2>17 DEF Step
<1> QED
  BY <1>2, <1>3, <1>4, UnrelatedStep

\* Starting a command: remove has loaded config.toml, the others save nothing yet.
LEMMA CallStep ==
  ASSUME TypeInv, SaveInv, NEW p \in Proc, Call(p)
  PROVE  SaveInv'
<1> USE DEF At, Saving, Resting, Busy
<1>1. op \in [Proc -> Command] /\ NoCommand \in Command
  BY EmptyTypes DEF TypeInv, TypeOK
<1> DEFINE Quiet == /\ op'[p].at \notin {"truncate", "fill"}
                    /\ \A q \in Proc \ {p} : op'[q] = op[q]
                    /\ ~Saving(p) /\ UNCHANGED <<config, wanted, stale, spoiled>>
<1>2. CASE StartAdd(p)
  <2>1. Quiet
    BY <1>1, <1>2 DEF StartAdd, Start, Command, tree
  <2> QED
    BY <2>1, UnrelatedStep
<1>3. CASE StartRemove(p)
  <2>1. PICK m \in Module, cfg \in Loads :
          Start(p, [NoCommand EXCEPT !.cmd = "remove", !.mod = m,
                        !.at = IF cfg[m] = None THEN "done" ELSE "truncate",
                        !.cfg = [cfg EXCEPT ![m] = None]])
    BY <1>3 DEF StartRemove
  <2>2. /\ op'[p].at = IF cfg[m] = None THEN "done" ELSE "truncate"
        /\ op'[p].mod = m /\ op'[p].cfg = [cfg EXCEPT ![m] = None]
        /\ \A q \in Proc \ {p} : op'[q] = op[q]
        /\ ~Saving(p) /\ UNCHANGED <<config, wanted, stale, spoiled>>
    BY <1>1, <2>1 DEF Start, Command, tree
  <2>3. CASE cfg[m] = None
    BY <2>2, <2>3, UnrelatedStep
  <2>4. CASE cfg[m] # None
    <3>1. cfg = config
      BY <2>4 DEF Loads, Nothing
    <3> QED
      BY <2>2, <2>4, <3>1, LoadStep
  <2> QED
    BY <2>3, <2>4
<1>4. CASE StartUpdate(p)
  <2>1. Quiet
    BY <1>1, <1>4 DEF StartUpdate, Start, Command, tree
  <2> QED
    BY <2>1, UnrelatedStep
<1>5. CASE StartInstall(p)
  <2>1. Quiet
    BY <1>1, <1>5 DEF StartInstall, Start, Command, tree
  <2> QED
    BY <2>1, UnrelatedStep
<1>6. CASE StartVendor(p)
  <2>1. Quiet
    BY <1>1, <1>6 DEF StartVendor, Start, Command, tree
  <2> QED
    BY <2>1, UnrelatedStep
<1>7. CASE StartBuild(p)
  <2>1. Quiet
    BY <1>1, <1>7 DEF StartBuild, Start, Command, tree
  <2> QED
    BY <2>1, UnrelatedStep
<1> QED
  BY <1>2, <1>3, <1>4, <1>5, <1>6, <1>7 DEF Call

\* A command that dies while it fills config.toml spoils it; elsewhere it changes nothing.
LEMMA DieStep ==
  ASSUME TypeInv, SaveInv, NEW p \in Proc, Die(p)
  PROVE  SaveInv'
<1>1. /\ op'[p].at = "idle" /\ \A q \in Proc \ {p} : op'[q] = op[q]
      /\ config' = config /\ wanted' = wanted
      /\ stale' = stale \ {p} /\ spoiled' = (spoiled \/ Filling(p))
  BY DEF Die, tree, TypeInv, TypeOK, NoCommand, Filling
<1>2. ~spoiled' => NoneFilling' = NoneFilling
                   /\ \A q \in Proc : Filling(q)' => q # p /\ Filling(q)
  BY <1>1 DEF NoneFilling, Filling, At
<1>3. \A q \in Proc : At(q, "truncate")' => q # p /\ At(q, "truncate")
  BY <1>1 DEF At
<1>4. \A q \in Proc \ {p} : AgreesElsewhere(q)' = AgreesElsewhere(q)
  BY <1>1 DEF AgreesElsewhere
<1>5. ASSUME ~spoiled', NEW q \in Proc, Filling(q)', \A r \in Proc \ {q} : ~Filling(r)'
      PROVE  \A r \in Proc \ {q} : ~Filling(r)
  BY <1>1, <1>5 DEF Filling, At
<1> QED
  BY <1>1, <1>2, <1>3, <1>4, <1>5 DEF SaveInv

\* Every step keeps what is known of config.toml.
LEMMA SaveStep == ConfigInv /\ [Next]_vars => ConfigInv'
<1> SUFFICES ASSUME TypeInv, SaveInv, [Next]_vars PROVE SaveInv'
  BY StepType DEF ConfigInv
<1>1. ASSUME NEW p \in Proc, Call(p) PROVE SaveInv'
  BY <1>1, CallStep
<1>2. ASSUME NEW p \in Proc, Step(p) PROVE SaveInv'
  <2>1. CASE Reload(p)
    <3>1. op[p].mod \in Module /\ ~Saving(p)
      BY <2>1 DEF Reload, TypeInv, AtInv, At, Saving
    <3>2. PICK cfg \in Loads :
            /\ op'[p].at = "truncate" /\ op'[p].mod = op[p].mod
            /\ op'[p].cfg = [cfg EXCEPT ![op[p].mod] = op[p].ver]
            /\ \A q \in Proc \ {p} : op'[q] = op[q]
            /\ stale' = IF cfg = config THEN stale ELSE stale \cup {p}
            /\ UNCHANGED <<config, wanted, spoiled>>
      <4>1. PICK cfg \in Loads :
              /\ op' = [op EXCEPT ![p].at = "truncate",
                                  ![p].cfg = [cfg EXCEPT ![op[p].mod] = op[p].ver]]
              /\ stale' = IF cfg = config THEN stale ELSE stale \cup {p}
        BY <2>1 DEF Reload
      <4>2. op \in [Proc -> Command] /\ op[p] \in Command
        BY DEF TypeInv, TypeOK
      <4>3. UNCHANGED <<config, wanted, spoiled>>
        BY <2>1 DEF Reload, tree
      <4> QED
        BY <4>1, <4>2, <4>3 DEF Command
    <3> QED
      BY <3>1, <3>2, LoadStep
  <2>2. CASE Truncate(p)
    BY <2>2, TruncateStep
  <2>3. CASE Fill(p)
    BY <2>3, FillStep
  <2> QED
    BY <1>2, <2>1, <2>2, <2>3, OtherSteps
<1>3. ASSUME NEW p \in Proc, Die(p) PROVE SaveInv'
  BY <1>3, DieStep
<1>4. ASSUME UNCHANGED <<op, config, history>> PROVE SaveInv'
  BY <1>4 DEF history, SaveInv, AgreesElsewhere, NoneFilling, Filling, At
<1>5. ASSUME NEW m \in Module, Publish(m) \/ Yank(m) PROVE SaveInv'
  BY <1>4, <1>5 DEF Publish, Yank, tree
<1>6. CASE UNCHANGED vars
  BY <1>4, <1>6 DEF vars, tree
<1> QED
  BY <1>1, <1>2, <1>3, <1>5, <1>6 DEF Next

\* config.toml declares what the user asked for, whatever commands run beside each
\* other and whatever loads fail, unless one saved a config that had since been replaced,
\* died saving, or was an add that could not load config.toml again after its download
\* and saved an empty one with its own line.
THEOREM ConfigIsKept == Spec => []ConfigKept
<1>1. ConfigInv => ConfigKept
  BY DEF ConfigInv, SaveInv, ConfigKept, NoneFilling, Filling
<1>2. Init => ConfigInv
  BY InitType, InitSave DEF ConfigInv
<1> QED
  BY <1>1, <1>2, SaveStep, PTL DEF Spec

-----------------------------------------------------------------------------
(* What an undisturbed command leaves behind.                              *)

\* What p has found so far is where each of these modules is read from now.
Placed(p, entries) ==
    \A m \in DOMAIN entries : entries[m] = LockEntry(m, op[p].cfg[m])

\* All of a directory but the files in `left`.
PartOf(part, whole, left) ==
    DOMAIN part = DOMAIN whole \ left /\ \A f \in DOMAIN part : part[f] = whole[f]

\* The entry that p is making is where the module is read from now, as far as it has
\* been read.
Passing(p) == op[p].at \in {"list", "parse", "hash"} =>
    LET e == LockEntry(op[p].mod, op[p].cfg[op[p].mod])
    IN  /\ e # Absent
        /\ op[p].entry.version = e.version /\ op[p].entry.layer = e.layer
        /\ At(p, "list") => op[p].entry.meaning = EmptyDir
        /\ At(p, "parse") => PartOf(op[p].entry.meaning, e.content, op[p].left)
        /\ op[p].at \in {"list", "parse"} => op[p].entry.content = EmptyDir
        /\ At(p, "hash") => /\ op[p].entry.meaning = e.content
                           /\ PartOf(op[p].entry.content, e.content, op[p].left)

\* A build locks where every dependency is read from, and finds it there again.
BuildInv(p) == Cmd(p, {"build"}) =>
    /\ op[p].at \in {"lock", "list", "parse", "hash", "write", "load", "done", "failed"}
    /\ op[p].at \in {"lock", "list", "parse", "hash", "write", "load"} =>
           /\ Placed(p, op[p].found)
           /\ DOMAIN op[p].found \cup op[p].todo = Declared(op[p].cfg)
    /\ Passing(p)
    /\ At(p, "write") => op[p].todo = {}
    /\ At(p, "load") =>
           lock \in Locks /\ Placed(p, lock) /\ DOMAIN lock = Declared(op[p].cfg)
    /\ At(p, "done") => lock = op[p].found

\* Until it writes, a frozen install leaves deps.lock alone; it writes what was there.
FrozenInv(p) == Cmd(p, {"frozen"}) =>
    /\ op[p].at \in {"resolve", "fetch", "unpack", "unpackFile", "lock", "list", "parse",
                     "hash", "write", "done", "failed"}
    /\ op[p].held = IF At(p, "write") THEN op[p].found ELSE LockText

\* The files of d, but for those in `left`, are in the vendored directory of m.
CopiedBut(m, d, left) ==
    /\ vendor[m] # Absent
    /\ \A f \in DOMAIN d \ left : f \in DOMAIN vendor[m] /\ vendor[m][f] = d[f]

\* A vendoring command is at a module that it has not copied yet, and keeps those it has.
VendorInv(p) == Cmd(p, {"vendor"}) =>
    /\ op[p].at \in {"copyDir", "copy", "copyFile", "done", "failed"}
    /\ op[p].at \in {"copyDir", "copy", "copyFile"} => op[p].cfg = config
    /\ \A m \in DOMAIN op[p].found :
           /\ m \notin op[p].todo /\ op[p].found[m].version = config[m]
           /\ op[p].found[m].content = cache[m][config[m]]
           /\ CopiedBut(m, op[p].found[m].content, {})
    /\ op[p].at \in {"copy", "copyFile"} =>
           /\ op[p].mod \in op[p].todo /\ op[p].ver = config[op[p].mod]
           /\ CopiedBut(op[p].mod, cache[op[p].mod][op[p].ver],
                        op[p].left \cup IF At(p, "copyFile") THEN {op[p].file} ELSE {})

CommandInv(p) == BuildInv(p) /\ FrozenInv(p) /\ VendorInv(p)

UndisturbedInv ==
    \A p \in alone : (\A q \in Proc \ {p} : ~Busy(q)) /\ CommandInv(p)

\* What a command that returns leaves of itself.
LEMMA Returned ==
  ASSUME TypeInv, NEW p \in Proc
  PROVE  /\ Fail(p) => /\ op'[p].cmd = op[p].cmd /\ op'[p].held = op[p].held
                       /\ op'[p].at = "failed" /\ op'[p].found = NoEntries
                       /\ \A q \in Proc \ {p} : op'[q] = op[q]
         /\ \A found : Succeed(p, found) =>
               /\ op'[p].cmd = op[p].cmd /\ op'[p].held = op[p].held
               /\ op'[p].at = "done" /\ op'[p].found = found
               /\ \A q \in Proc \ {p} : op'[q] = op[q]
<1>1. op \in [Proc -> Command]
  BY DEF TypeInv, TypeOK
<1>2. ASSUME Fail(p)
      PROVE  /\ op'[p].cmd = op[p].cmd /\ op'[p].held = op[p].held
             /\ op'[p].at = "failed" /\ op'[p].found = NoEntries
             /\ \A q \in Proc \ {p} : op'[q] = op[q]
  <2> DEFINE c == [NoCommand EXCEPT !.cmd = op[p].cmd, !.at = "failed", !.held = op[p].held]
  <2>1. c.cmd = op[p].cmd /\ c.held = op[p].held /\ c.at = "failed" /\ c.found = NoEntries
    BY DEF NoCommand
  <2>2. op' = [op EXCEPT ![p] = c]
    BY <1>2 DEF Fail
  <2> HIDE DEF c
  <2>3. op'[p] = c /\ \A q \in Proc \ {p} : op'[q] = op[q]
    BY <1>1, <2>2
  <2> QED
    BY <2>1, <2>3
<1>3. ASSUME NEW found, Succeed(p, found)
      PROVE  /\ op'[p].cmd = op[p].cmd /\ op'[p].held = op[p].held
             /\ op'[p].at = "done" /\ op'[p].found = found
             /\ \A q \in Proc \ {p} : op'[q] = op[q]
  <2> DEFINE c == [NoCommand EXCEPT !.cmd = op[p].cmd, !.at = "done", !.found = found,
                                    !.held = op[p].held]
  <2>1. c.cmd = op[p].cmd /\ c.held = op[p].held /\ c.at = "done" /\ c.found = found
    BY DEF NoCommand
  <2>2. op' = [op EXCEPT ![p] = c]
    BY <1>3 DEF Succeed
  <2> HIDE DEF c
  <2>3. op'[p] = c /\ \A q \in Proc \ {p} : op'[q] = op[q]
    BY <1>1, <2>2
  <2> QED
    BY <2>1, <2>3
<1> QED
  BY <1>2, <1>3

\* A step changes no other command, and not what its own command is.
LEMMA StepKeeps ==
  ASSUME TypeInv, NEW p \in Proc, Step(p)
  PROVE  /\ op'[p].cmd = op[p].cmd /\ op[p].at \notin Resting
         /\ \A q \in Proc \ {p} : op'[q] = op[q]
         /\ alone' = alone
<1> USE DEF At
<1>1. op \in [Proc -> Command] /\ op[p] \in Command
  BY DEF TypeInv, TypeOK
<1>2. \A m : Obtained(p, m) =>
        op'[p].cmd = op[p].cmd /\ \A q \in Proc \ {p} : op'[q] = op[q]
  BY <1>1 DEF Obtained, Command
<1>3. \A found : Succeed(p, found) =>
        op'[p].cmd = op[p].cmd /\ \A q \in Proc \ {p} : op'[q] = op[q]
  BY Returned
<1>4. Fail(p) => op'[p].cmd = op[p].cmd /\ \A q \in Proc \ {p} : op'[q] = op[q]
  BY Returned
<1>5. alone' = alone /\ op[p].at \notin Resting
  BY DEF Step, ResolveVersion, VersionNotFound, Fetch, Unpack, UnpackFile, Planned,
         Reload, Truncate, Fill,
         AddEntry, ListFiles, ParseFile, HashFile, EntryDone,
         Frozen, TruncateLock, FillLock, LoadModule, Loaded, VendorDir,
         CopyFile, FillCopy, Vendored, tree, history, Resting
<1>6. op'[p].cmd = op[p].cmd /\ \A q \in Proc \ {p} : op'[q] = op[q]
  <2>1. CASE ResolveVersion(p) \/ VersionNotFound(p) \/ Planned(p)
    <3>1. CASE ResolveVersion(p)
      BY <1>1, <1>2, <3>1 DEF ResolveVersion, Command
    <3>2. CASE VersionNotFound(p)
      BY <1>1, <1>4, <3>2 DEF VersionNotFound, Command
    <3>3. CASE Planned(p)
      <4>1. \A cfg : op' = [op EXCEPT ![p].at = "lock", ![p].any = FALSE,
                                      ![p].cfg = cfg, ![p].todo = Declared(cfg)]
                     => op'[p].cmd = op[p].cmd /\ \A q \in Proc \ {p} : op'[q] = op[q]
        BY <1>1 DEF Command
      <4> QED
        BY <1>3, <3>3, <4>1 DEF Planned
    <3> QED
      BY <2>1, <3>1, <3>2, <3>3
  <2>2. CASE Fetch(p) \/ Unpack(p) \/ UnpackFile(p)
    <3>1. CASE Fetch(p)
      BY <1>1, <3>1 DEF Fetch, Command
    <3>2. CASE Unpack(p)
      BY <1>1, <3>2 DEF Unpack, Command
    <3>3. CASE UnpackFile(p)
      BY <1>1, <1>2, <3>3 DEF UnpackFile, Command
    <3> QED
      BY <2>2, <3>1, <3>2, <3>3
  <2>3. CASE Reload(p) \/ Truncate(p) \/ Fill(p)
    <3>1. \A cfg : op' = [op EXCEPT ![p].at = "truncate", ![p].cfg = cfg]
                   => op'[p].cmd = op[p].cmd /\ \A q \in Proc \ {p} : op'[q] = op[q]
      BY <1>1 DEF Command
    <3> QED
      BY <1>1, <1>3, <2>3, <3>1 DEF Reload, Truncate, Fill, Command
  <2>4. CASE AddEntry(p) \/ ListFiles(p) \/ ParseFile(p) \/ HashFile(p) \/ EntryDone(p)
             \/ LoadModule(p)
    <3>1. CASE AddEntry(p) \/ ListFiles(p) \/ ParseFile(p) \/ HashFile(p) \/ EntryDone(p)
      BY <1>3, <1>4, <3>1, PassKeeps DEF NotLocked
    <3>2. CASE LoadModule(p)
      BY <1>1, <1>4, <3>2 DEF LoadModule, Command
    <3> QED
      BY <2>4, <3>1, <3>2
  <2>5. CASE Frozen(p) \/ TruncateLock(p) \/ FillLock(p) \/ Loaded(p) \/ Vendored(p)
    <3>1. CASE Frozen(p) \/ Loaded(p) \/ Vendored(p)
      BY <1>3, <1>4, <3>1 DEF Frozen, Loaded, Vendored
    <3>2. CASE TruncateLock(p)
      BY <1>1, <3>2 DEF TruncateLock, Command
    <3>3. CASE FillLock(p)
      BY <1>1, <1>3, <3>3 DEF FillLock, Command
    <3> QED
      BY <2>5, <3>1, <3>2, <3>3
  <2>6. CASE VendorDir(p) \/ CopyFile(p) \/ FillCopy(p)
    <3>1. CASE VendorDir(p)
      BY <1>1, <1>4, <3>1 DEF VendorDir, Command
    <3>2. CASE CopyFile(p)
      BY <1>1, <3>2 DEF CopyFile, Command
    <3>3. CASE FillCopy(p)
      BY <1>1, <3>3 DEF FillCopy, Command
    <3> QED
      BY <2>6, <3>1, <3>2, <3>3
  <2> QED
    BY <2>1, <2>2, <2>3, <2>4, <2>5, <2>6 DEF Step
<1> QED
  BY <1>5, <1>6

\* Two locks with the same modules and entries are the same lock.
LEMMA SameLock ==
  ASSUME NEW k \in Locks, NEW l \in Locks, DOMAIN k = DOMAIN l,
         \A m \in DOMAIN k : k[m] = l[m]
  PROVE  k = l
<1>1. PICK S \in SUBSET Module : k \in [S -> Entries]
  BY DEF Locks
<1>2. PICK T \in SUBSET Module : l \in [T -> Entries]
  BY DEF Locks
<1>3. S = T
  BY <1>1, <1>2
<1> QED
  BY <1>1, <1>2, <1>3

\* A part that lacks nothing is the whole.
LEMMA WholePart ==
  ASSUME NEW d \in Directories, NEW part \in Directories \cup Parsed, PartOf(part, d, {})
  PROVE  part = d
<1>1. PICK S \in SUBSET File : d \in [S -> Version \cup {Torn}]
  BY DEF Directories
<1>2. PICK T \in SUBSET File : part \in [T -> Version \cup {Torn}]
  BY DEF Directories, Parsed
<1>3. S = T /\ \A f \in S : part[f] = d[f]
  BY <1>1, <1>2 DEF PartOf
<1> QED
  BY <1>1, <1>2, <1>3

\* A part that one more file is added to.
LEMMA LargerPart ==
  ASSUME NEW d, NEW left \in SUBSET DOMAIN d, NEW f \in left, NEW part, PartOf(part, d, left)
  PROVE  PartOf(With(part, f, d[f]), d, left \ {f})
BY DEF PartOf, With

\* While nobody writes, an entry comes out as what its module is read from.
LEMMA PassStep ==
  ASSUME TypeInv, NEW p \in Proc, Passing(p), Placed(p, op[p].found),
         DOMAIN op[p].found \cup op[p].todo = Declared(op[p].cfg),
         AddEntry(p) \/ ListFiles(p) \/ ParseFile(p) \/ HashFile(p) \/ EntryDone(p),
         ~NotLocked(p)
  PROVE  /\ Passing(p)' /\ Placed(p, op[p].found)'
         /\ (DOMAIN op[p].found \cup op[p].todo = Declared(op[p].cfg))'
<1> USE DEF At
<1>1. op \in [Proc -> Command] /\ op[p] \in Command /\ TypeOK
      /\ op[p].cfg \in Versions /\ op[p].found \in Locks
  BY DEF TypeInv, TypeOK, Command
<1>2. /\ UNCHANGED tree /\ op'[p].cfg = op[p].cfg
      /\ ~EntryDone(p) => op'[p].todo = op[p].todo /\ op'[p].found = op[p].found
  BY PassKeeps
<1>3. \A n, v : LockEntry(n, v)' = LockEntry(n, v)
  BY <1>2 DEF tree, LockEntry, ResolveModule, FromVendor, FromCache, Cached
<1>4. ~EntryDone(p) => /\ Placed(p, op[p].found)'
                       /\ (DOMAIN op[p].found \cup op[p].todo = Declared(op[p].cfg))'
  BY <1>2, <1>3 DEF Placed
<1>5. PICK m, e : m = op[p].mod /\ e = LockEntry(m, op[p].cfg[m])
  OBVIOUS
<1>6. ASSUME ~AddEntry(p)
      PROVE  /\ e # Absent /\ e.content \in Directories
             /\ e = Located(e.version, e.layer, e.content)
             /\ FilesOf(m, op[p].entry) = e.content
             /\ m \in op[p].todo /\ op[p].entry \in Entries
             /\ op[p].entry.version = e.version /\ op[p].entry.layer = e.layer
             /\ op[p].at \in {"list", "parse", "hash"}
  <2>1. /\ op[p].at \in {"list", "parse", "hash"}
        /\ m \in op[p].todo /\ m \in Declared(op[p].cfg) /\ op[p].entry \in Entries
    BY <1>5, <1>6 DEF TypeInv, AtInv, ListFiles, ParseFile, HashFile, EntryDone
  <2>2. /\ e # Absent /\ op[p].entry.version = e.version /\ op[p].entry.layer = e.layer
    BY <1>5, <2>1 DEF Passing
  <2>3. PICK v \in Version : v = op[p].cfg[m] /\ m \in Module
    BY <1>1, <2>1, DeclaredVersion
  <2>4. PICK layer \in Layers :
          /\ e = Located(v, layer, FilesOf(m, Located(v, layer, EmptyDir)))
          /\ FilesOf(m, Located(v, layer, EmptyDir)) \in Directories
    BY <1>1, <1>5, <2>2, <2>3, ResolvedFiles DEF LockEntry
  <2>5. e.version = v /\ e.layer = layer /\ e.content = FilesOf(m, Located(v, layer, EmptyDir))
    BY <2>4 DEF Located
  <2>6. FilesOf(m, op[p].entry) = FilesOf(m, Located(v, layer, EmptyDir))
    BY <2>2, <2>5 DEF FilesOf, Located
  <2> QED
    BY <2>1, <2>2, <2>4, <2>5, <2>6
<1>7. CASE AddEntry(p)
  <2>1. PICK n \in op[p].todo :
          /\ LockEntry(n, op[p].cfg[n]) # Absent
          /\ op' = [op EXCEPT ![p].at = "list", ![p].mod = n,
                 ![p].entry = Located(LockEntry(n, op[p].cfg[n]).version,
                                      LockEntry(n, op[p].cfg[n]).layer, EmptyDir)]
    BY <1>7 DEF AddEntry
  <2>2. /\ op'[p].at = "list" /\ op'[p].mod = n
        /\ op'[p].entry = Located(LockEntry(n, op[p].cfg[n]).version,
                                  LockEntry(n, op[p].cfg[n]).layer, EmptyDir)
    BY <1>1, <2>1 DEF Command
  <2>3. Passing(p)'
    BY <1>2, <1>3, <2>1, <2>2 DEF Passing, Located
  <2>4. ~EntryDone(p)
    BY <1>7 DEF AddEntry, EntryDone
  <2> QED
    BY <1>4, <2>3, <2>4
<1>8. CASE ListFiles(p)
  <2>1. /\ op'[p].at = IF op[p].at = "list" THEN "parse" ELSE "hash"
        /\ op'[p].left = DOMAIN FilesOf(m, op[p].entry)
        /\ op'[p].mod = m /\ op'[p].entry = op[p].entry
        /\ op[p].at = "list" \/ (op[p].at = "parse" /\ op[p].left = {})
    BY <1>1, <1>5, <1>8 DEF ListFiles, Command
  <2>2. ~AddEntry(p) /\ ~EntryDone(p)
    BY <1>8 DEF ListFiles, AddEntry, EntryDone
  <2>3. op'[p].left = DOMAIN e.content /\ LockEntry(m, op[p].cfg[m])' = e
    BY <1>2, <1>3, <1>5, <1>6, <2>1, <2>2
  <2>4. PartOf(EmptyDir, e.content, DOMAIN e.content)
    BY DEF PartOf, EmptyDir
  <2>5. op[p].entry.content = EmptyDir /\ (op[p].at = "list" => op[p].entry.meaning = EmptyDir)
    BY <1>6, <2>1, <2>2 DEF Passing
  <2>6. op[p].at = "parse" => op[p].entry.meaning = e.content
    <3>1. SUFFICES ASSUME op[p].at = "parse" PROVE op[p].entry.meaning = e.content
      OBVIOUS
    <3>2. PartOf(op[p].entry.meaning, e.content, {})
      BY <1>5, <2>1, <3>1 DEF Passing
    <3>3. op[p].entry.meaning \in Parsed
      BY <1>6, <2>2 DEF Entries
    <3> QED
      BY <1>6, <2>2, <3>2, <3>3, WholePart
  <2>7. Passing(p)'
    BY <1>2, <1>3, <1>5, <1>6, <2>1, <2>2, <2>3, <2>4, <2>5, <2>6 DEF Passing
  <2> QED
    BY <1>4, <2>2, <2>7
<1>9. CASE ParseFile(p)
  <2>1. PICK f \in op[p].left :
          op' = [op EXCEPT ![p].left = @ \ {f},
                           ![p].entry.meaning = With(@, f, FilesOf(m, op[p].entry)[f])]
    BY <1>5, <1>9 DEF ParseFile
  <2>2. ~AddEntry(p) /\ ~EntryDone(p) /\ op[p].at = "parse"
    BY <1>9 DEF ParseFile, AddEntry, EntryDone
  <2>3. PICK entry : /\ entry = op[p].entry /\ entry \in Entries
                     /\ FilesOf(m, entry) = e.content
    BY <1>6, <2>2
  <2>4. /\ op'[p].at = "parse" /\ op'[p].left = op[p].left \ {f} /\ op'[p].mod = m
        /\ op'[p].entry = [entry EXCEPT !.meaning = With(@, f, e.content[f])]
    BY <1>1, <1>5, <2>1, <2>2, <2>3 DEF Command
  <2>5. /\ op'[p].entry.meaning = With(entry.meaning, f, e.content[f])
        /\ op'[p].entry.content = entry.content /\ op'[p].entry.version = entry.version
        /\ op'[p].entry.layer = entry.layer
    BY <2>3, <2>4 DEF Entries
  <2>6. PartOf(entry.meaning, e.content, op[p].left) /\ entry.content = EmptyDir
    BY <1>5, <2>2, <2>3 DEF Passing
  <2>7. op[p].left \subseteq DOMAIN e.content
    BY <1>5, <2>2, <2>3 DEF TypeInv, AtInv
  <2>11. PartOf(With(entry.meaning, f, e.content[f]), e.content, op[p].left \ {f})
    BY <2>6, <2>7, LargerPart
  <2>8. PartOf(op'[p].entry.meaning, e.content, op'[p].left)
    BY <2>4, <2>5, <2>11
  <2>9. LockEntry(m, op[p].cfg[m])' = e
    BY <1>2, <1>3, <1>5
  <2>10. Passing(p)'
    BY <1>6, <2>2, <2>3, <2>4, <2>5, <2>6, <2>8, <2>9 DEF Passing
  <2> QED
    BY <1>4, <2>2, <2>10
<1>10. CASE HashFile(p)
  <2>1. PICK f \in op[p].left :
          op' = [op EXCEPT ![p].left = @ \ {f},
                           ![p].entry.content = With(@, f, FilesOf(m, op[p].entry)[f])]
    BY <1>5, <1>10 DEF HashFile
  <2>2. ~AddEntry(p) /\ ~EntryDone(p) /\ op[p].at = "hash"
    BY <1>1, <1>5, <1>10, <2>1 DEF HashFile, AddEntry, EntryDone
  <2>3. PICK entry : /\ entry = op[p].entry /\ entry \in Entries
                     /\ FilesOf(m, entry) = e.content
    BY <1>6, <2>2
  <2>4. /\ op'[p].at = "hash" /\ op'[p].left = op[p].left \ {f} /\ op'[p].mod = m
        /\ op'[p].entry = [entry EXCEPT !.content = With(@, f, e.content[f])]
    BY <1>1, <1>5, <2>1, <2>2, <2>3 DEF Command
  <2>5. /\ op'[p].entry.content = With(entry.content, f, e.content[f])
        /\ op'[p].entry.meaning = entry.meaning /\ op'[p].entry.version = entry.version
        /\ op'[p].entry.layer = entry.layer
    BY <2>3, <2>4 DEF Entries
  <2>6. PartOf(entry.content, e.content, op[p].left) /\ entry.meaning = e.content
    BY <1>5, <2>2, <2>3 DEF Passing
  <2>7. op[p].left \subseteq DOMAIN e.content
    BY <1>5, <2>2, <2>3 DEF TypeInv, AtInv
  <2>11. PartOf(With(entry.content, f, e.content[f]), e.content, op[p].left \ {f})
    BY <2>6, <2>7, LargerPart
  <2>8. PartOf(op'[p].entry.content, e.content, op'[p].left)
    BY <2>4, <2>5, <2>11
  <2>9. LockEntry(m, op[p].cfg[m])' = e
    BY <1>2, <1>3, <1>5
  <2>10. Passing(p)'
    BY <1>6, <2>2, <2>3, <2>4, <2>5, <2>6, <2>8, <2>9 DEF Passing
  <2> QED
    BY <1>4, <2>2, <2>10
<1>11. CASE EntryDone(p)
  <2>1. /\ op'[p].at = "lock" /\ op'[p].found = With(op[p].found, m, op[p].entry)
        /\ op'[p].todo = op[p].todo \ {m}
    BY <1>1, <1>5, <1>11 DEF EntryDone, Command
  <2>2. ~AddEntry(p) /\ op[p].at = "hash" /\ op[p].left = {}
    BY <1>11 DEF EntryDone, AddEntry
  <2>3. PartOf(op[p].entry.content, e.content, {}) /\ op[p].entry.meaning = e.content
    BY <1>5, <2>2 DEF Passing
  <2>4. op[p].entry.content = e.content
    BY <1>6, <2>2, <2>3, WholePart DEF Entries
  <2>5. op[p].entry = e
    BY <1>6, <2>2, <2>3, <2>4 DEF Entries, Located
  <2>6. Placed(p, op[p].found)'
    BY <1>2, <1>3, <1>5, <2>1, <2>5 DEF Placed, With
  <2>7. (DOMAIN op[p].found \cup op[p].todo = Declared(op[p].cfg))'
    BY <1>2, <1>6, <2>1, <2>2 DEF With
  <2>8. Passing(p)'
    BY <2>1 DEF Passing
  <2> QED
    BY <2>6, <2>7, <2>8
<1> QED
  BY <1>7, <1>8, <1>9, <1>10, <1>11

\* A build locks and loads the same files.
LEMMA BuildStep ==
  ASSUME TypeInv, NEW p \in Proc, BuildInv(p), Step(p), Cmd(p, {"build"})
  PROVE  BuildInv(p)'
<1> USE DEF At, Cmd
<1>1. op \in [Proc -> Command] /\ op[p] \in Command /\ op[p].found \in Locks
      /\ Declared(op[p].cfg) \subseteq Module
  BY DEF TypeInv, TypeOK, Command, Declared, Versions
<1>2. op[p].at \in {"lock", "list", "parse", "hash", "write", "load"}
      /\ op'[p].cmd = "build" /\ op[p].cmd = "build"
  BY StepKeeps DEF BuildInv, Resting
<1>3. \/ AddEntry(p) \/ ListFiles(p) \/ ParseFile(p) \/ HashFile(p) \/ EntryDone(p)
      \/ TruncateLock(p) \/ FillLock(p) \/ LoadModule(p) \/ Loaded(p)
  BY <1>2 DEF Step, ResolveVersion, VersionNotFound, Fetch, Unpack, UnpackFile, Planned,
         Reload, Truncate, Fill, Frozen, VendorDir, CopyFile, FillCopy, Vendored
<1>4. Placed(p, op[p].found) /\ DOMAIN op[p].found \cup op[p].todo = Declared(op[p].cfg)
  BY <1>2 DEF BuildInv
<1>5. ASSUME NEW m \in op[p].todo, UNCHANGED tree, op[p].at = "load",
             op' = [op EXCEPT ![p].found = With(@, m, LockEntry(m, op[p].cfg[m])),
                              ![p].todo = @ \ {m}]
      PROVE  BuildInv(p)'
  <2> DEFINE e == LockEntry(m, op[p].cfg[m])
  <2>1. /\ op'[p].found = With(op[p].found, m, e) /\ op'[p].todo = op[p].todo \ {m}
        /\ op'[p].cfg = op[p].cfg /\ op'[p].at = op[p].at
    BY <1>1, <1>5 DEF Command
  <2>2. \A n, v : LockEntry(n, v)' = LockEntry(n, v)
    BY <1>5 DEF tree, LockEntry, ResolveModule, FromVendor, FromCache, Cached
  <2>3. Placed(p, op[p].found)' = \A n \in DOMAIN op'[p].found :
                                     op'[p].found[n] = LockEntry(n, op'[p].cfg[n])
    BY <2>2 DEF Placed
  <2> HIDE DEF e
  <2>4. Placed(p, op[p].found)'
    BY <1>4, <2>1, <2>3 DEF Placed, With, e
  <2>5. DOMAIN op'[p].found \cup op'[p].todo = Declared(op'[p].cfg)
    BY <1>4, <2>1 DEF With
  <2>6. Placed(p, lock)' = Placed(p, lock) /\ lock' = lock
    BY <1>5, <2>1, <2>2 DEF Placed, tree
  <2> QED
    BY <1>2, <1>5, <2>1, <2>4, <2>5, <2>6 DEF BuildInv, Passing
<1>6. ASSUME Fail(p) PROVE BuildInv(p)'
  BY <1>2, <1>6, Returned DEF BuildInv, Passing
<1>7. CASE AddEntry(p) \/ ListFiles(p) \/ ParseFile(p) \/ HashFile(p) \/ EntryDone(p)
  <2>1. CASE NotLocked(p)
    BY <1>2, <1>6, <2>1 DEF NotLocked
  <2>2. CASE ~NotLocked(p)
    <3>1. Passing(p)
      BY <1>2 DEF BuildInv
    <3>2. /\ Passing(p)' /\ Placed(p, op[p].found)'
          /\ (DOMAIN op[p].found \cup op[p].todo = Declared(op[p].cfg))'
      BY <1>4, <1>7, <2>2, <3>1, PassStep
    <3>3. op'[p].at \in {"lock", "list", "parse", "hash"}
      BY <1>7, <2>2, PassKeeps
    <3> QED
      BY <1>2, <3>2, <3>3 DEF BuildInv
  <2> QED
    BY <2>1, <2>2
<1>8. CASE LoadModule(p)
  <2>1. PICK m \in op[p].todo :
          \/ op' = [op EXCEPT ![p].found = With(@, m, LockEntry(m, op[p].cfg[m])),
                              ![p].todo = @ \ {m}]
          \/ Fail(p)
    <3>1. Cmd(p, {"offline"}) = FALSE
      BY <1>2
    <3> QED
      BY <3>1, <1>8 DEF LoadModule, LockEntry
  <2> QED
    BY <1>5, <1>6, <1>8, <2>1 DEF LoadModule
<1>9. CASE TruncateLock(p)
  <2>1. /\ op'[p].at = "write" /\ op'[p].found = op[p].found /\ op'[p].todo = {}
        /\ op'[p].cfg = op[p].cfg /\ op[p].todo = {}
    BY <1>1, <1>9 DEF TruncateLock, Command
  <2>2. \A n, v : LockEntry(n, v)' = LockEntry(n, v)
    BY <1>9 DEF TruncateLock, LockEntry, ResolveModule, FromVendor, FromCache, Cached
  <2>3. Placed(p, op[p].found)'
    BY <1>4, <2>1, <2>2 DEF Placed
  <2> QED
    BY <1>2, <1>4, <2>1, <2>3 DEF BuildInv, Passing
<1>10. CASE FillLock(p)
  <2>1. /\ op'[p].at = "load" /\ op'[p].found = NoEntries
        /\ op'[p].todo = Declared(op[p].cfg)
        /\ op'[p].cfg = op[p].cfg /\ lock' = op[p].found
        /\ op[p].todo = {}
    BY <1>1, <1>2, <1>10 DEF FillLock, Command, BuildInv
  <2>2. \A n, v : LockEntry(n, v)' = LockEntry(n, v)
    BY <1>10 DEF FillLock, LockEntry, ResolveModule, FromVendor, FromCache, Cached
  <2>3. Placed(p, op[p].found)' /\ DOMAIN op'[p].found = {}
    BY <2>1 DEF Placed, NoEntries
  <2>4. Placed(p, lock)'
    BY <1>4, <2>1, <2>2 DEF Placed
  <2> QED
    BY <1>1, <1>2, <1>4, <2>1, <2>3, <2>4 DEF BuildInv, Passing
<1>11. CASE Loaded(p)
  <2>1. op'[p].at = "done" /\ op'[p].found = op[p].found /\ lock' = lock
    BY <1>1, <1>11, Returned DEF Loaded, tree
  <2>2. op[p].at = "load" /\ op[p].todo = {}
    BY <1>11 DEF Loaded
  <2>3. lock \in Locks /\ Placed(p, lock) /\ DOMAIN lock = DOMAIN op[p].found
    BY <1>2, <1>4, <2>2 DEF BuildInv
  <2>4. lock = op[p].found
    BY <1>1, <1>4, <2>3, SameLock DEF Placed
  <2> QED
    BY <1>2, <2>1, <2>4 DEF BuildInv, Passing
<1> QED
  BY <1>3, <1>7, <1>8, <1>9, <1>10, <1>11

\* A frozen install keeps deps.lock.
LEMMA FrozenStep ==
  ASSUME TypeInv, NEW p \in Proc, FrozenInv(p), Step(p), Cmd(p, {"frozen"})
  PROVE  FrozenInv(p)'
<1> USE DEF At, Cmd
<1>1. op \in [Proc -> Command] /\ op[p] \in Command /\ op[p].found \in Locks
      /\ lock \in {Absent, Torn} \cup Locks
  BY DEF TypeInv, TypeOK, Command
<1>2. op[p].at \in {"resolve", "fetch", "unpack", "unpackFile", "lock", "list", "parse",
                    "hash", "write"}
      /\ op'[p].cmd = "frozen" /\ op[p].cmd = "frozen"
  BY StepKeeps DEF FrozenInv, Resting
<1>3. op[p].held = IF op[p].at = "write" THEN op[p].found ELSE LockText
  BY <1>2 DEF FrozenInv
<1>4. ASSUME lock' = lock, op'[p].held = op[p].held, op[p].at # "write",
             op'[p].at \in {"resolve", "fetch", "unpack", "unpackFile", "lock", "list",
                            "parse", "hash", "done", "failed"}
      PROVE  FrozenInv(p)'
  BY <1>3, <1>4 DEF FrozenInv, LockText
<1>5. ASSUME NEW m, Obtained(p, m)
      PROVE  op'[p].held = op[p].held /\ op'[p].at = "resolve"
  BY <1>1, <1>2, <1>5 DEF Obtained, Command
<1>6. CASE ResolveVersion(p)
  <2>1. op'[p].held = op[p].held /\ op'[p].at \in {"resolve", "fetch"}
    BY <1>1, <1>5, <1>6 DEF ResolveVersion, Command
  <2> QED
    BY <1>4, <1>6, <2>1 DEF ResolveVersion, tree
<1>7. CASE VersionNotFound(p)
  <2>1. Fail(p)
    BY <1>2, <1>7 DEF VersionNotFound
  <2> QED
    BY <1>4, <1>7, <2>1, Returned DEF VersionNotFound, tree
<1>8. CASE Fetch(p)
  <2>1. op'[p].held = op[p].held /\ op'[p].at = "unpack"
    BY <1>1, <1>8 DEF Fetch, Command
  <2> QED
    BY <1>4, <1>8, <2>1 DEF Fetch
<1>9. CASE Unpack(p)
  <2>1. op'[p].held = op[p].held /\ op'[p].at = "unpackFile"
    BY <1>1, <1>9 DEF Unpack, Command
  <2> QED
    BY <1>4, <1>9, <2>1 DEF Unpack
<1>10. CASE UnpackFile(p)
  <2>1. op'[p].held = op[p].held /\ op'[p].at \in {"resolve", "unpack"}
    BY <1>1, <1>5, <1>10 DEF UnpackFile, Command
  <2> QED
    BY <1>4, <1>10, <2>1 DEF UnpackFile
<1>11. CASE Planned(p)
  <2>1. PICK cfg : op' = [op EXCEPT ![p].at = "lock", ![p].any = FALSE,
                                   ![p].cfg = cfg, ![p].todo = Declared(cfg)]
    BY <1>2, <1>11 DEF Planned
  <2>2. op'[p].held = op[p].held /\ op'[p].at = "lock"
    BY <1>1, <2>1 DEF Command
  <2> QED
    BY <1>4, <1>11, <2>2 DEF Planned, tree
<1>12. CASE AddEntry(p) \/ ListFiles(p) \/ ParseFile(p) \/ HashFile(p) \/ EntryDone(p)
  <2>1. op'[p].held = op[p].held /\ op'[p].at \in {"lock", "list", "parse", "hash", "failed"}
    BY <1>2, <1>12, PassKeeps, Returned DEF NotLocked
  <2>2. op[p].at # "write" /\ lock' = lock
    BY <1>12, PassKeeps DEF AddEntry, ListFiles, ParseFile, HashFile, EntryDone, tree
  <2> QED
    BY <1>4, <2>1, <2>2
<1>13. CASE Frozen(p)
  BY <1>4, <1>13, Returned DEF Frozen, tree
<1>14. CASE TruncateLock(p)
  <2>1. op'[p].held = op[p].held /\ op'[p].at = "write" /\ op'[p].found = op[p].found
    BY <1>1, <1>14 DEF TruncateLock, Command
  <2>2. op[p].held = op[p].found
    BY <1>2, <1>14 DEF TruncateLock, WouldChange
  <2> QED
    BY <2>1, <2>2 DEF FrozenInv
<1>15. CASE FillLock(p)
  <2>1. op'[p].held = op[p].held /\ op'[p].at = "done" /\ lock' = op[p].held
    BY <1>2, <1>3, <1>15, EmptyTypes, Returned DEF FillLock
  <2>2. lock' # Absent
    BY <1>1, <1>15, AbsentAssumption DEF FillLock, Locks
  <2> QED
    BY <2>1, <2>2 DEF FrozenInv, LockText
<1> QED
  BY <1>2, <1>6, <1>7, <1>8, <1>9, <1>10, <1>11, <1>12, <1>13, <1>14, <1>15
     DEF Step, Reload, Truncate, Fill, LoadModule, Loaded, VendorDir, CopyFile, FillCopy,
         Vendored

\* Copying one more file keeps those that are copied.
LEMMA CopiedMore ==
  ASSUME TypeInv, NEW m \in Module, NEW d, NEW left, CopiedBut(m, d, left),
         NEW f, NEW y,
         vendor' = [vendor EXCEPT ![m] = Replaced(@, f, y)], vendor'[m] # Absent
  PROVE  /\ CopiedBut(m, d, left \cup {f})'
         /\ y = d[f] => CopiedBut(m, d, left \ {f})'
BY DEF CopiedBut, Replaced, With, TypeInv, TypeOK

\* Vendoring keeps what it has copied.
LEMMA VendorStep ==
  ASSUME TypeInv, NEW p \in Proc, VendorInv(p), Step(p), Cmd(p, {"vendor"})
  PROVE  VendorInv(p)'
<1> USE DEF At, Cmd
<1>1. op \in [Proc -> Command] /\ op[p] \in Command /\ op[p].found \in Locks
      /\ op[p].todo \subseteq Module /\ Absent \notin Directories
      /\ vendor \in [Module -> {Absent} \cup Directories]
  BY AbsentAssumption DEF TypeInv, TypeOK, Command
<1>2. op[p].at \in {"copyDir", "copy", "copyFile"} /\ op'[p].cmd = "vendor"
  BY StepKeeps DEF VendorInv, Resting
<1>3. PICK found, todo, mod, ver, file, left, d :
        /\ found = op[p].found /\ todo = op[p].todo /\ mod = op[p].mod /\ ver = op[p].ver
        /\ file = op[p].file /\ left = op[p].left /\ d = cache[mod][ver]
  OBVIOUS
<1>4. /\ \A m \in DOMAIN found : m \notin todo /\ CopiedBut(m, found[m].content, {})
      /\ DOMAIN found \subseteq Module /\ todo \subseteq Module
  BY <1>1, <1>3 DEF VendorInv, Locks
<1>12. /\ \A m \in DOMAIN found : /\ found[m].version = config[m]
                                  /\ found[m].content = cache[m][config[m]]
       /\ op[p].cfg = config
  BY <1>2, <1>3 DEF VendorInv
<1>13. config' = config /\ cache' = cache
  <2>1. VendorDir(p) \/ CopyFile(p) \/ FillCopy(p) \/ Vendored(p)
    BY <1>2
       DEF Step, ResolveVersion, VersionNotFound, Fetch, Unpack, UnpackFile, Planned,
           Reload, Truncate, Fill, AddEntry, ListFiles, ParseFile, HashFile, EntryDone,
           Frozen, TruncateLock, FillLock, LoadModule, Loaded
  <2> QED
    BY <2>1 DEF VendorDir, CopyFile, FillCopy, Vendored, tree
<1>5. ASSUME NEW m \in todo, vendor' = [vendor EXCEPT ![m] = vendor'[m]]
      PROVE  \A n \in DOMAIN found : CopiedBut(n, found[n].content, {})'
  <2> SUFFICES ASSUME NEW n \in DOMAIN found PROVE CopiedBut(n, found[n].content, {})'
    OBVIOUS
  <2>1. n # m /\ n \in Module
    BY <1>4
  <2>2. vendor'[n] = vendor[n]
    BY <1>1, <1>5, <2>1
  <2> QED
    BY <1>4, <2>2 DEF CopiedBut
<1>14. ASSUME NEW m \in todo, vendor' = [vendor EXCEPT ![m] = vendor'[m]],
              op'[p].found = found, op'[p].todo = todo
       PROVE  \A n \in DOMAIN op'[p].found :
                /\ n \notin op'[p].todo /\ op'[p].found[n].version = config'[n]
                /\ op'[p].found[n].content = cache'[n][config'[n]]
                /\ CopiedBut(n, op[p].found[n].content, {})'
  <2>1. \A n \in DOMAIN found : CopiedBut(n, found[n].content, {})'
    BY <1>5, <1>14
  <2> QED
    BY <1>4, <1>12, <1>13, <1>14, <2>1
<1>6. op[p].at \in {"copy", "copyFile"} =>
        /\ mod \in todo /\ ver \in Version /\ ver = config[mod]
        /\ cache[mod][ver] \in Directories
        /\ CopiedBut(mod, d, left \cup IF op[p].at = "copyFile" THEN {file} ELSE {})
  BY <1>2, <1>3 DEF VendorInv, TypeInv, AtInv
<1>7. ASSUME Fail(p), vendor' = vendor PROVE VendorInv(p)'
  BY <1>7, Returned DEF VendorInv, NoEntries
<1>8. CASE VendorDir(p)
  <2>0. PICK m \in todo : \E v :
          /\ v = op[p].cfg[m]
          /\ \/ Fail(p) /\ UNCHANGED vendor
             \/ /\ vendor' = [vendor EXCEPT ![m] = IF @ = Absent THEN EmptyDir ELSE @]
                /\ op' = [op EXCEPT ![p].at = "copy", ![p].mod = m, ![p].ver = v,
                                    ![p].left = DOMAIN cache[m][v]]
    BY <1>3, <1>8 DEF VendorDir
  <2>1. PICK v :
          /\ v = op[p].cfg[m]
          /\ \/ Fail(p) /\ UNCHANGED vendor
             \/ /\ vendor' = [vendor EXCEPT ![m] = IF @ = Absent THEN EmptyDir ELSE @]
                /\ op' = [op EXCEPT ![p].at = "copy", ![p].mod = m, ![p].ver = v,
                                    ![p].left = DOMAIN cache[m][v]]
    BY <2>0
  <2>2. CASE Fail(p) /\ UNCHANGED vendor
    BY <1>7, <2>2
  <2>3. CASE /\ vendor' = [vendor EXCEPT ![m] = IF @ = Absent THEN EmptyDir ELSE @]
             /\ op' = [op EXCEPT ![p].at = "copy", ![p].mod = m, ![p].ver = v,
                                 ![p].left = DOMAIN cache[m][v]]
    <3>1. /\ op'[p].at = "copy" /\ op'[p].mod = m /\ op'[p].ver = v
          /\ op'[p].left = DOMAIN cache[m][v]
          /\ op'[p].todo = todo /\ op'[p].found = found /\ op'[p].cfg = op[p].cfg
      BY <1>1, <1>3, <2>3 DEF Command
    <3>2. vendor'[m] # Absent /\ vendor' = [vendor EXCEPT ![m] = vendor'[m]]
      BY <1>1, <1>4, <2>3, EmptyTypes
    <3>3. cache' = cache
      BY <1>8 DEF VendorDir
    <3> QED
      BY <1>2, <1>12, <1>13, <1>14, <2>1, <3>1, <3>2, <3>3 DEF VendorInv, CopiedBut
  <2> QED
    BY <2>1, <2>2, <2>3
<1>9. CASE CopyFile(p)
  <2>1. PICK f \in left :
          /\ vendor' = [vendor EXCEPT ![mod] = Replaced(@, f, Torn)]
          /\ op' = [op EXCEPT ![p].at = "copyFile", ![p].file = f, ![p].left = @ \ {f}]
    BY <1>3, <1>9 DEF CopyFile
  <2>2. /\ op'[p].at = "copyFile" /\ op'[p].mod = mod /\ op'[p].ver = ver
        /\ op'[p].left = left \ {f} /\ op'[p].file = f
        /\ op'[p].todo = todo /\ op'[p].found = found /\ op'[p].cfg = op[p].cfg
    BY <1>1, <1>3, <2>1 DEF Command
  <2>3. f \in File /\ vendor[mod] \in Directories /\ mod \in Module
    BY <1>1, <1>3, <1>9, <2>1 DEF CopyFile, TypeInv, AtInv, Command
  <2>4. vendor'[mod] # Absent /\ vendor' = [vendor EXCEPT ![mod] = vendor'[mod]]
    <3>1. vendor'[mod] = With(vendor[mod], f, Torn)
      BY <1>1, <2>1, <2>3 DEF Replaced
    <3>2. vendor'[mod] \in Directories
      BY <2>3, <3>1, WithDirectory
    <3>3. vendor' = [vendor EXCEPT ![mod] = vendor'[mod]]
      BY <1>1, <2>1, <3>1 DEF Replaced
    <3> QED
      BY <1>1, <3>2, <3>3
  <2>5. CopiedBut(mod, d, left)
    BY <1>6, <1>9 DEF CopyFile
  <2>6. CopiedBut(mod, d, left \cup {f})'
    BY <2>1, <2>3, <2>4, <2>5, CopiedMore
  <2>7. cache' = cache /\ d = cache[mod][ver]
    BY <1>3, <1>9 DEF CopyFile
  <2>8. (left \ {f}) \cup {f} = left \cup {f}
    OBVIOUS
  <2>9. mod \in todo /\ ver = config[mod]
    BY <1>6, <1>9 DEF CopyFile
  <2> QED
    BY <1>2, <1>12, <1>13, <1>14, <2>2, <2>4, <2>6, <2>7, <2>8, <2>9 DEF VendorInv
<1>10. CASE FillCopy(p)
  <2>1. vendor' = [vendor EXCEPT ![mod] = Replaced(@, file, d[file])]
        /\ cache' = cache /\ d = cache[mod][ver] /\ op[p].at = "copyFile"
    BY <1>3, <1>10 DEF FillCopy
  <2>2. /\ file \in File /\ vendor[mod] \in Directories /\ mod \in Module /\ mod \in todo
        /\ d \in Directories /\ file \in DOMAIN d
    BY <1>1, <1>3, <1>4, <1>6, <2>1 DEF TypeInv, AtInv
  <2>3. vendor'[mod] # Absent /\ vendor' = [vendor EXCEPT ![mod] = vendor'[mod]]
    <3>1. vendor'[mod] = With(vendor[mod], file, d[file])
      BY <1>1, <2>1, <2>2 DEF Replaced
    <3>2. d[file] \in Version \cup {Torn}
      BY <2>2, InDirectory
    <3>3. vendor'[mod] \in Directories
      BY <2>2, <3>1, <3>2, WithDirectory
    <3>4. vendor' = [vendor EXCEPT ![mod] = vendor'[mod]]
      BY <1>1, <2>1, <3>1 DEF Replaced
    <3> QED
      BY <1>1, <3>3, <3>4
  <2>4. CopiedBut(mod, d, left \cup {file})
    BY <1>6, <2>1
  <2>5. CopiedBut(mod, d, (left \cup {file}) \ {file})'
    BY <2>1, <2>2, <2>3, <2>4, CopiedMore
  <2>6. CopiedBut(mod, d, left)'
    BY <2>1, <2>2, <2>3, <2>4, <2>5, CopiedMore DEF CopiedBut
  <2>7. CASE left = {}
    <3>0. PICK e : e = [FromCache(mod, ver) EXCEPT !.meaning = EmptyDir]
      OBVIOUS
    <3>1. /\ op'[p].at = "copyDir" /\ op'[p].todo = todo \ {mod}
          /\ op'[p].found = With(found, mod, e) /\ op'[p].cfg = op[p].cfg
      BY <1>1, <1>3, <1>10, <2>7, <3>0 DEF FillCopy, Command
    <3>2. e.content = d /\ e.version = ver
      BY <2>1, <3>0 DEF FromCache, Located
    <3>3. \A n \in DOMAIN op'[p].found :
            \/ n = mod /\ op'[p].found[n].content = d /\ op'[p].found[n].version = ver
            \/ n \in DOMAIN found /\ op'[p].found[n] = found[n]
      BY <3>1, <3>2 DEF With
    <3>4. \A n \in DOMAIN op'[p].found :
            n \notin op'[p].todo /\ CopiedBut(n, op[p].found[n].content, {})'
      BY <1>4, <1>5, <2>2, <2>3, <2>6, <2>7, <3>1, <3>3
    <3>5. ver = config[mod]
      BY <1>6, <2>1
    <3>6. \A n \in DOMAIN op'[p].found : /\ op'[p].found[n].version = config[n]
                                          /\ op'[p].found[n].content = cache[n][config[n]]
      BY <1>12, <2>1, <3>3, <3>5
    <3> QED
      BY <1>2, <1>12, <1>13, <3>1, <3>4, <3>6 DEF VendorInv
  <2>8. CASE left # {}
    <3>1. /\ op'[p].at = "copy" /\ op'[p].mod = mod /\ op'[p].ver = ver
          /\ op'[p].left = left /\ op'[p].todo = todo /\ op'[p].found = found
          /\ op'[p].cfg = op[p].cfg
      BY <1>1, <1>3, <1>10, <2>8 DEF FillCopy, Command
    <3>2. left \cup {} = left /\ ver = config[mod]
      BY <1>6, <2>1
    <3> QED
      BY <1>2, <1>12, <1>13, <1>14, <2>1, <2>2, <2>3, <2>6, <3>1, <3>2 DEF VendorInv
  <2> QED
    BY <2>7, <2>8
<1>11. CASE Vendored(p)
  <2>1. op'[p].at = "done" /\ op'[p].found = found /\ vendor' = vendor
    BY <1>3, <1>11, Returned DEF Vendored, tree
  <2>2. op'[p].todo = {}
    BY <1>1, <1>11 DEF Vendored, Succeed, NoCommand
  <2> QED
    BY <1>2, <1>4, <1>12, <1>13, <2>1, <2>2 DEF VendorInv, CopiedBut
<1> QED
  BY <1>2, <1>8, <1>9, <1>10, <1>11
     DEF Step, ResolveVersion, VersionNotFound, Fetch, Unpack, UnpackFile, Planned,
         Reload, Truncate, Fill, AddEntry, ListFiles, ParseFile, HashFile, EntryDone,
         Frozen, TruncateLock, FillLock, LoadModule, Loaded

\* A command that has just been started has found nothing, and a frozen install has
\* read deps.lock.
LEMMA StartUndisturbed ==
  ASSUME TypeInv, NEW p \in Proc, Call(p)
  PROVE  UndisturbedInv'
<1> USE DEF Cmd, At
<1>1. op \in [Proc -> Command] /\ NoCommand \in Command
  BY EmptyTypes DEF TypeInv, TypeOK
<1>2. ASSUME NEW c, Start(p, c)
      PROVE  /\ op'[p] = c /\ \A q \in Proc \ {p} : op'[q] = op[q]
             /\ UNCHANGED tree /\ alone' \subseteq {p}
             /\ alone' # {} => \A q \in Proc \ {p} : ~Busy(q)'
  BY <1>1, <1>2 DEF Start, Busy
<1>3. /\ UNCHANGED tree /\ alone' \subseteq {p}
      /\ alone' # {} => \A q \in Proc \ {p} : ~Busy(q)'
  BY <1>2 DEF Call, StartAdd, StartRemove, StartUpdate, StartInstall, StartVendor, StartBuild
<1>4. ASSUME op'[p].cmd \notin {"build", "frozen", "vendor"} PROVE CommandInv(p)'
  BY <1>4 DEF CommandInv, BuildInv, FrozenInv, VendorInv
<1>5. CommandInv(p)'
  <2>1. CASE StartAdd(p)
    <3>1. PICK m \in Module, want \in (SUBSET Version) \ {{}} :
            op'[p] = [NoCommand EXCEPT !.cmd = "add", !.at = "resolve",
                                       !.cfg = config, !.todo = {m}, !.want = want]
      BY <1>2, <2>1 DEF StartAdd
    <3> QED
      BY <1>4, <3>1 DEF NoCommand
  <2>2. CASE StartRemove(p)
    <3>1. PICK m \in Module, cfg \in Loads :
            op'[p] = [NoCommand EXCEPT !.cmd = "remove", !.mod = m,
                          !.at = IF cfg[m] = None THEN "done" ELSE "truncate",
                          !.cfg = [cfg EXCEPT ![m] = None]]
      BY <1>2, <2>2 DEF StartRemove
    <3> QED
      BY <1>4, <3>1 DEF NoCommand
  <2>3. CASE StartUpdate(p)
    <3>1. PICK ms : op'[p] = [NoCommand EXCEPT !.cmd = "update", !.at = "resolve",
                                               !.cfg = config, !.todo = ms]
      BY <1>2, <2>3 DEF StartUpdate
    <3> QED
      BY <1>4, <3>1 DEF NoCommand
  <2>4. CASE StartInstall(p)
    <3>1. PICK frozen \in BOOLEAN :
            op'[p] = [NoCommand EXCEPT
                          !.cmd = IF frozen THEN "frozen" ELSE "install",
                          !.held = IF frozen THEN LockText ELSE Absent,
                          !.at = IF config = Nothing THEN "done" ELSE "resolve",
                          !.cfg = config, !.todo = Declared(config)]
      BY <1>2, <2>4 DEF StartInstall
    <3>2. /\ op'[p].cmd = IF frozen THEN "frozen" ELSE "install"
          /\ frozen => op'[p].held = LockText
          /\ op'[p].at \in {"done", "resolve"}
      BY <3>1 DEF NoCommand
    <3>3. LockText' = LockText
      BY <1>3 DEF LockText, tree
    <3> QED
      BY <1>4, <3>2, <3>3 DEF CommandInv, BuildInv, FrozenInv, VendorInv
  <2>5. CASE StartVendor(p)
    <3>1. PICK ms : op'[p] = [NoCommand EXCEPT !.cmd = "vendor", !.at = "copyDir",
                                               !.cfg = config, !.todo = ms]
      BY <1>2, <2>5 DEF StartVendor
    <3>2. op'[p].cmd = "vendor" /\ op'[p].at = "copyDir" /\ op'[p].found = NoEntries
          /\ op'[p].cfg = config'
      BY <1>3, <3>1 DEF NoCommand, tree
    <3> QED
      BY <3>2 DEF CommandInv, BuildInv, FrozenInv, VendorInv, NoEntries
  <2>6. CASE StartBuild(p)
    <3>1. PICK offline \in BOOLEAN, cfg \in Loads :
            op'[p] = [NoCommand EXCEPT
                          !.cmd = IF offline THEN "offline" ELSE "build",
                          !.at = IF offline THEN "load" ELSE "lock",
                          !.cfg = cfg, !.todo = Declared(cfg)]
      BY <1>2, <2>6 DEF StartBuild
    <3>2. \/ op'[p].cmd = "offline"
          \/ /\ op'[p].cmd = "build" /\ op'[p].at = "lock" /\ op'[p].found = NoEntries
             /\ op'[p].todo = Declared(op'[p].cfg)
      BY <3>1 DEF NoCommand
    <3> QED
      BY <1>4, <3>2 DEF CommandInv, BuildInv, Passing, FrozenInv, VendorInv, Placed, NoEntries
  <2> QED
    BY <2>1, <2>2, <2>3, <2>4, <2>5, <2>6 DEF Call
<1> QED
  BY <1>3, <1>5 DEF UndisturbedInv

\* Nobody else takes a step while the command of an undisturbed process runs.
LEMMA UndisturbedStep == TypeInv /\ UndisturbedInv /\ [Next]_vars => UndisturbedInv'
<1> SUFFICES ASSUME TypeInv, UndisturbedInv, [Next]_vars PROVE UndisturbedInv'
  OBVIOUS
<1> USE DEF At, Cmd
<1>1. ASSUME NEW p \in Proc, Call(p) PROVE UndisturbedInv'
  BY <1>1, StartUndisturbed
<1>2. ASSUME NEW p \in Proc, Step(p) PROVE UndisturbedInv'
  <2>1. /\ op'[p].cmd = op[p].cmd /\ Busy(p)
        /\ \A q \in Proc \ {p} : op'[q] = op[q]
        /\ alone' = alone
    BY <1>2, StepKeeps DEF Busy
  <2>2. SUFFICES ASSUME p \in alone, alone = {p} PROVE CommandInv(p)'
    <3>1. alone \subseteq {p}
      BY <2>1 DEF UndisturbedInv, TypeInv, TypeOK
    <3> QED
      BY <2>1, <2>2, <3>1 DEF UndisturbedInv, Busy
  <2>3. BuildInv(p) /\ FrozenInv(p) /\ VendorInv(p)
    BY <2>2 DEF UndisturbedInv, CommandInv
  <2>4. BuildInv(p)'
    BY <1>2, <2>1, <2>3, BuildStep DEF BuildInv
  <2>5. FrozenInv(p)'
    BY <1>2, <2>1, <2>3, FrozenStep DEF FrozenInv
  <2>6. VendorInv(p)'
    BY <1>2, <2>1, <2>3, VendorStep DEF VendorInv
  <2> QED
    BY <2>4, <2>5, <2>6 DEF CommandInv
<1>3. ASSUME NEW p \in Proc, Die(p) PROVE UndisturbedInv'
  <2>1. /\ op'[p] = NoCommand /\ \A q \in Proc \ {p} : op'[q] = op[q]
        /\ alone' = alone
    BY <1>3 DEF Die, TypeInv, TypeOK
  <2>2. alone \subseteq {p}
    BY <1>3 DEF UndisturbedInv, Die, TypeInv, TypeOK
  <2>3. CommandInv(p)'
    BY <2>1 DEF CommandInv, BuildInv, FrozenInv, VendorInv, NoCommand
  <2> QED
    BY <2>1, <2>2, <2>3 DEF UndisturbedInv, Busy
<1>4. ASSUME UNCHANGED <<op, tree, alone>> PROVE UndisturbedInv'
  <2>1. \A n, v : LockEntry(n, v)' = LockEntry(n, v)
    BY <1>4 DEF tree, LockEntry, ResolveModule, FromVendor, FromCache, Cached
  <2>2. \A q \in Proc : BuildInv(q) => BuildInv(q)'
    BY <1>4, <2>1 DEF BuildInv, Passing, Placed, tree
  <2>3. \A q \in Proc : FrozenInv(q) => FrozenInv(q)'
    BY <1>4 DEF FrozenInv, LockText, tree
  <2>4. \A q \in Proc : VendorInv(q) => VendorInv(q)'
    BY <1>4 DEF VendorInv, CopiedBut, tree
  <2> QED
    BY <1>4, <2>2, <2>3, <2>4 DEF UndisturbedInv, Busy, CommandInv, TypeInv, TypeOK
<1>5. ASSUME NEW m \in Module, Publish(m) \/ Yank(m) PROVE UndisturbedInv'
  BY <1>4, <1>5 DEF Publish, Yank, history
<1>6. CASE UNCHANGED vars
  BY <1>4, <1>6 DEF vars, history
<1> QED
  BY <1>1, <1>2, <1>3, <1>5, <1>6 DEF Next

\* An undisturbed online build that succeeds has loaded, file for file, what it locked
\* (deps.rs:632, 650).
THEOREM BuildIsLocked == Spec => []BuildMatchesLock
<1>1. UndisturbedInv => BuildMatchesLock
  BY DEF UndisturbedInv, CommandInv, BuildInv, BuildMatchesLock, Result, Cmd, At
<1>2. Init => UndisturbedInv
  BY DEF Init, UndisturbedInv
<1> QED
  BY <1>1, <1>2, InitType, StepType, UndisturbedStep, PTL DEF Spec

\* An undisturbed install with --frozen leaves deps.lock as it was, whether it succeeds
\* or refuses (cli/deps.rs:546).
THEOREM FrozenKeeps == Spec => []FrozenKeepsLock
<1>1. UndisturbedInv => FrozenKeepsLock
  BY DEF UndisturbedInv, CommandInv, FrozenInv, FrozenKeepsLock, Result, Cmd, At
<1>2. Init => UndisturbedInv
  BY DEF Init, UndisturbedInv
<1> QED
  BY <1>1, <1>2, InitType, StepType, UndisturbedStep, PTL DEF Spec

\* After an undisturbed `deps vendor`, whatever was vendored before, each vendored
\* directory holds what the cache holds of the version that config.toml declares
\* (deps.rs:792): every file of that version, if the cached copy is whole.
THEOREM VendoredIsCurrent == Spec => []VendorIsCurrent
<1>1. ASSUME UndisturbedInv PROVE VendorIsCurrent
  <2> SUFFICES ASSUME NEW p \in Proc, Result(p, "vendor", "done"), NEW m \in DOMAIN op[p].found,
                      NEW v, v = op[p].found[m].version,
                      NEW copied, copied = op[p].found[m].content
               PROVE  /\ v = config[m] /\ copied = cache[m][v]
                      /\ vendor[m] # Absent
                      /\ \A f \in DOMAIN copied :
                          f \in DOMAIN vendor[m] /\ vendor[m][f] = copied[f]
                      /\ copied = Whole(v) =>
                          \A f \in Shipped[v] : f \in DOMAIN vendor[m] /\ vendor[m][f] = v
    BY DEF VendorIsCurrent
  <2>1. VendorInv(p) /\ Cmd(p, {"vendor"})
    BY <1>1 DEF UndisturbedInv, CommandInv, Result
  <2>2. v = config[m] /\ copied = cache[m][v] /\ CopiedBut(m, copied, {})
    BY <2>1 DEF VendorInv
  <2>3. /\ vendor[m] # Absent
        /\ \A f \in DOMAIN copied : f \in DOMAIN vendor[m] /\ vendor[m][f] = copied[f]
    BY <2>2 DEF CopiedBut
  <2>4. copied = Whole(v) => DOMAIN copied = Shipped[v] /\ \A f \in Shipped[v] : copied[f] = v
    BY DEF Whole
  <2> QED
    BY <2>2, <2>3, <2>4
<1>2. Init => UndisturbedInv
  BY DEF Init, UndisturbedInv
<1>3. UndisturbedInv => VendorIsCurrent
  BY <1>1
<1> QED
  BY <1>2, <1>3, InitType, StepType, UndisturbedStep, PTL DEF Spec

-----------------------------------------------------------------------------
(* What was locked of a whole cached module.                               *)

\* A cached file is one of the archive of its version, at that version or torn.
CacheInv ==
    \A m \in Module, v \in Version : cache[m][v] # Absent =>
        /\ DOMAIN cache[m][v] \subseteq Shipped[v]
        /\ \A f \in DOMAIN cache[m][v] : cache[m][v][f] \in {v, Torn}

\* So is a file that is being unpacked.
UnpackInv(p) ==
    /\ op[p].at \in {"unpack", "unpackFile"} => op[p].left \subseteq Shipped[op[p].ver]
    /\ At(p, "unpackFile") => op[p].file \in Shipped[op[p].ver]

\* An entry that was read from the cache lists files that are still there.
Based(m, e) == e.layer = "cache" =>
    /\ cache[m][e.version] # Absent
    /\ DOMAIN e.content \subseteq DOMAIN cache[m][e.version]

Passes    == {"list", "parse", "hash"}
Gathering == {"resolve", "fetch", "unpack", "unpackFile", "lock", "write"} \cup Passes

\* This holds of the entries of deps.lock, of those that will be written to it, and of
\* one that is being made.
BasedInv ==
    /\ lock \notin {Absent, Torn} => \A m \in DOMAIN lock : Based(m, lock[m])
    /\ \A p \in Proc :
           /\ op[p].at \in Gathering => \A m \in DOMAIN op[p].found : Based(m, op[p].found[m])
           /\ op[p].at \in Passes => Based(op[p].mod, op[p].entry)

LockedInv == CacheInv /\ (\A p \in Proc : UnpackInv(p)) /\ BasedInv

\* No file leaves the cache.
CacheGrown ==
    \A m \in Module, v \in Version : cache[m][v] # Absent =>
        cache'[m][v] # Absent /\ DOMAIN cache[m][v] \subseteq DOMAIN cache'[m][v]

\* What is based on the cache stays so while the cache grows.
LEMMA StaysBased ==
  ASSUME CacheGrown, NEW m \in Module, NEW e \in Entries, Based(m, e)
  PROVE  Based(m, e)'
<1>1. e.version \in Version
  BY DEF Entries
<1> QED
  BY <1>1 DEF CacheGrown, Based

\* A step of p that leaves the cache alone, or lets it grow, keeps the others' entries.
LEMMA OthersBased ==
  ASSUME TypeInv, LockedInv, NEW p \in Proc, CacheGrown, CacheInv',
         \A q \in Proc \ {p} : op'[q] = op[q],
         lock' = lock \/ lock' \in {Absent, Torn},
         UnpackInv(p)',
         op'[p].at \in Passes => Based(op[p].mod, op[p].entry)',
         op'[p].at \in Gathering =>
             \/ op[p].at \in Gathering /\ op'[p].found = op[p].found
             \/ op'[p].found = NoEntries
  PROVE  LockedInv'
<1>1. \A q \in Proc \ {p} : UnpackInv(q)'
  BY DEF LockedInv, UnpackInv, At
<1>2. \A l \in Locks : \A m \in DOMAIN l : m \in Module /\ l[m] \in Entries
  BY DEF Locks
<1>3. \A q \in Proc : op[q].found \in Locks
  BY DEF TypeInv, TypeOK, Command
<1>4. ASSUME lock' \notin {Absent, Torn}, NEW m \in DOMAIN lock'
      PROVE  Based(m, lock[m])'
  <2>1. lock \in Locks /\ m \in DOMAIN lock /\ Based(m, lock[m]) /\ lock' = lock
    BY <1>4 DEF TypeInv, TypeOK, LockedInv, BasedInv
  <2>2. PICK e : e = lock[m]
    OBVIOUS
  <2>3. Based(m, e)'
    BY <1>2, <2>1, <2>2, StaysBased
  <2> QED
    BY <2>1, <2>2, <2>3
<1>5. ASSUME NEW q \in Proc, NEW m \in DOMAIN op'[q].found,
             op'[q].at \in Gathering
      PROVE  Based(m, op[q].found[m])'
  <2>1. /\ op[q].at \in Gathering
        /\ op'[q].found = op[q].found
    <3>1. DOMAIN NoEntries = {}
      BY DEF NoEntries
    <3> QED
      BY <1>5, <3>1
  <2>2. PICK e : e = op[q].found[m]
    OBVIOUS
  <2>3. Based(m, e) /\ m \in Module /\ e \in Entries
    BY <1>2, <1>3, <2>1, <2>2, <1>5 DEF LockedInv, BasedInv
  <2>4. Based(m, e)'
    BY <2>3, StaysBased
  <2> QED
    BY <2>1, <2>2, <2>4
<1>6. ASSUME NEW q \in Proc \ {p}, op'[q].at \in Passes
      PROVE  Based(op[q].mod, op[q].entry)'
  <2>1. PICK m \in Module, e \in Entries : m = op[q].mod /\ e = op[q].entry
    BY <1>6 DEF TypeInv, AtInv, Passes
  <2>2. Based(m, e)
    BY <1>6, <2>1 DEF LockedInv, BasedInv
  <2>3. Based(m, e)'
    BY <2>2, StaysBased
  <2>4. op'[q].mod = m /\ op'[q].entry = e
    BY <2>1
  <2> QED
    BY <2>3, <2>4 DEF Based
<1> QED
  BY <1>1, <1>4, <1>5, <1>6 DEF LockedInv, BasedInv

\* A step that leaves the cache alone.
LEMMA CacheKept ==
  ASSUME CacheInv, cache' = cache
  PROVE  CacheGrown /\ CacheInv'
BY DEF CacheInv, CacheGrown

\* The cache after one directory of it is replaced by a larger one of the same version.
LEMMA CacheWritten ==
  ASSUME TypeInv, CacheInv, NEW m \in Module, NEW v \in Version, NEW d \in Directories,
         cache' = [cache EXCEPT ![m][v] = d],
         cache[m][v] # Absent => DOMAIN cache[m][v] \subseteq DOMAIN d,
         DOMAIN d \subseteq Shipped[v], \A f \in DOMAIN d : d[f] \in {v, Torn}
  PROVE  CacheGrown /\ CacheInv'
<1>1. cache \in [Module -> [Version -> {Absent} \cup Directories]]
      /\ Absent \notin Directories
  BY AbsentAssumption DEF TypeInv, TypeOK
<1>2. \A n \in Module, w \in Version :
        cache'[n][w] = IF n = m /\ w = v THEN d ELSE cache[n][w]
  BY <1>1
<1> QED
  BY <1>1, <1>2 DEF CacheInv, CacheGrown

\* Downloading: each file is written torn and then whole.
LEMMA DownloadBased ==
  ASSUME TypeInv, LockedInv, NEW p \in Proc, Fetch(p) \/ Unpack(p) \/ UnpackFile(p)
  PROVE  LockedInv'
<1> USE DEF At, Cmd
<1>1. op \in [Proc -> Command] /\ op[p] \in Command /\ lock' = lock
      /\ \A q \in Proc \ {p} : op'[q] = op[q]
  BY StepKeeps DEF TypeInv, TypeOK, Step, Fetch, Unpack, UnpackFile
<1>2. PICK m, v, file : m = op[p].mod /\ v = op[p].ver /\ file = op[p].file
  OBVIOUS
<1>3. m \in Module /\ v \in Version /\ CacheInv /\ UnpackInv(p)
  BY <1>2 DEF TypeInv, AtInv, Fetch, Unpack, UnpackFile, LockedInv
<1>4. CASE Fetch(p)
  <2>1. PICK d : d = TargetDir(m, v)
    OBVIOUS
  <2>2. /\ d \in Directories
        /\ cache[m][v] # Absent => DOMAIN cache[m][v] \subseteq DOMAIN d
        /\ DOMAIN d \subseteq Shipped[v] /\ \A f \in DOMAIN d : d[f] \in {v, Torn}
    <3>1. CASE cache[m][v] = Absent
      <4>1. d = EmptyDir /\ DOMAIN EmptyDir = {}
        BY <2>1, <3>1 DEF TargetDir, EmptyDir
      <4> QED
        BY <3>1, <4>1, EmptyTypes
    <3>2. CASE cache[m][v] # Absent
      BY <1>3, <2>1, <3>2 DEF TargetDir, CacheInv, TypeInv, TypeOK
    <3> QED
      BY <3>1, <3>2
  <2>3. CacheGrown /\ CacheInv'
    BY <1>2, <1>3, <1>4, <2>1, <2>2, CacheWritten DEF Fetch
  <2>4. /\ op'[p].at = "unpack" /\ op'[p].left = Shipped[op'[p].ver]
        /\ op'[p].found = op[p].found /\ op[p].at = "fetch"
    BY <1>1, <1>4 DEF Fetch, Command
  <2>5. UnpackInv(p)'
    BY <2>4 DEF UnpackInv
  <2> QED
    BY <1>1, <2>3, <2>4, <2>5, OthersBased DEF Gathering, Passes
<1>5. CASE Unpack(p)
  <2>1. PICK f \in op[p].left :
          /\ cache' = [cache EXCEPT ![m][v] = With(@, f, Torn)]
          /\ op' = [op EXCEPT ![p].at = "unpackFile", ![p].file = f, ![p].left = @ \ {f}]
    BY <1>2, <1>5 DEF Unpack
  <2>2. PICK d : d = With(cache[m][v], f, Torn)
    OBVIOUS
  <2>3. cache[m][v] \in Directories /\ f \in File /\ f \in Shipped[v] /\ Absent \notin Directories
    BY <1>1, <1>2, <1>3, <1>5, <2>1, AbsentAssumption
       DEF Unpack, TypeInv, AtInv, Command, UnpackInv
  <2>4. d \in Directories /\ DOMAIN cache[m][v] \subseteq DOMAIN d
    BY <2>2, <2>3, WithDirectory
  <2>5. DOMAIN d \subseteq Shipped[v] /\ \A g \in DOMAIN d : d[g] \in {v, Torn}
    BY <1>3, <2>2, <2>3 DEF With, CacheInv
  <2>6. CacheGrown /\ CacheInv'
    BY <1>3, <2>1, <2>2, <2>4, <2>5, CacheWritten
  <2>7. /\ op'[p].at = "unpackFile" /\ op'[p].left = op[p].left \ {f} /\ op'[p].file = f
        /\ op'[p].ver = v /\ op'[p].found = op[p].found /\ op[p].at = "unpack"
    BY <1>1, <1>2, <1>5, <2>1 DEF Unpack, Command
  <2>8. UnpackInv(p)'
    BY <1>2, <1>3, <2>3, <2>7 DEF UnpackInv
  <2> QED
    BY <1>1, <2>6, <2>7, <2>8, OthersBased DEF Gathering, Passes
<1>6. CASE UnpackFile(p)
  <2>1. cache' = [cache EXCEPT ![m][v] = With(@, file, v)]
    BY <1>2, <1>6 DEF UnpackFile
  <2>2. PICK d : d = With(cache[m][v], file, v)
    OBVIOUS
  <2>3. /\ cache[m][v] \in Directories /\ file \in File /\ file \in Shipped[v]
        /\ Absent \notin Directories
    BY <1>1, <1>2, <1>3, <1>6, AbsentAssumption DEF UnpackFile, TypeInv, AtInv, UnpackInv
  <2>4. d \in Directories /\ DOMAIN cache[m][v] \subseteq DOMAIN d
    BY <1>3, <2>2, <2>3, WithDirectory
  <2>5. DOMAIN d \subseteq Shipped[v] /\ \A g \in DOMAIN d : d[g] \in {v, Torn}
    BY <1>3, <2>2, <2>3 DEF With, CacheInv
  <2>6. CacheGrown /\ CacheInv'
    BY <1>3, <2>1, <2>2, <2>4, <2>5, CacheWritten
  <2>7. /\ op'[p].found = op[p].found /\ op[p].at = "unpackFile"
        /\ \/ op'[p].at \in {"reload", "resolve"}
           \/ op'[p].at = "unpack" /\ op'[p].left = op[p].left /\ op'[p].ver = v
    BY SMTT(60), <1>1, <1>2, <1>6 DEF UnpackFile, Obtained, Command
  <2>8. UnpackInv(p)'
    BY <1>2, <1>3, <2>7 DEF UnpackInv
  <2> QED
    BY <1>1, <2>6, <2>7, <2>8, OthersBased DEF Gathering, Passes
<1> QED
  BY <1>4, <1>5, <1>6

\* Making an entry: it lists the files that were there when the directory was listed.
LEMMA PassBased ==
  ASSUME TypeInv, LockedInv, NEW p \in Proc,
         AddEntry(p) \/ ListFiles(p) \/ ParseFile(p) \/ HashFile(p) \/ EntryDone(p)
  PROVE  LockedInv'
<1> USE DEF At
<1>1. /\ op \in [Proc -> Command] /\ op[p] \in Command /\ TypeInv'
      /\ UNCHANGED tree /\ lock' = lock /\ cache' = cache
      /\ \A q \in Proc \ {p} : op'[q] = op[q]
  <2>1. \A q \in Proc \ {p} : op'[q] = op[q]
    BY StepKeeps DEF Step
  <2>2. UNCHANGED tree
    BY PassKeeps
  <2> QED
    BY <2>1, <2>2, PassType DEF TypeInv, TypeOK, tree
<1>2. CacheInv /\ CacheGrown /\ CacheInv'
  BY <1>1, CacheKept DEF LockedInv
<1>3. \A m, e : Based(m, e)' = Based(m, e) /\ FilesOf(m, e)' = FilesOf(m, e)
  BY <1>1 DEF Based, FilesOf, tree
<1>4. ASSUME NotLocked(p) PROVE LockedInv'
  <2>1. op'[p].at \in {"done", "failed"}
    BY <1>4, Returned DEF NotLocked
  <2>2. UnpackInv(p)'
    BY <2>1 DEF UnpackInv
  <2> QED
    BY <1>1, <1>2, <2>1, <2>2, OthersBased DEF Gathering, Passes
<1>5. ASSUME ~EntryDone(p), ~NotLocked(p), NEW m, NEW e, m = op'[p].mod, e = op'[p].entry,
             op'[p].at \in Passes,
             e.layer = "cache" => DOMAIN e.content \subseteq DOMAIN cache[m][e.version]
      PROVE  LockedInv'
  <2>1. FilesOf(m, e) \in Directories /\ e \in Entries
    <3>1. AtInv(p)'
      BY <1>1 DEF TypeInv
    <3>2. FilesOf(op[p].mod, op[p].entry)' \in Directories /\ op'[p].entry \in Entries
      BY <1>5, <3>1 DEF AtInv, Passes
    <3>3. FilesOf(op[p].mod, op[p].entry)' = FilesOf(m, e)
      BY <1>1, <1>5 DEF FilesOf, tree
    <3> QED
      BY <1>5, <3>2, <3>3
  <2>2. Based(m, e)
    BY <1>5, <2>1, AbsentAssumption DEF Based, FilesOf
  <2>3. Based(op[p].mod, op[p].entry)'
    BY <1>1, <1>5, <2>2 DEF Based
  <2>4. op[p].at \in Gathering /\ op'[p].found = op[p].found
    BY <1>5, PassKeeps DEF AddEntry, ListFiles, ParseFile, HashFile, Gathering, Passes
  <2>5. UnpackInv(p)'
    BY <1>5 DEF UnpackInv, Passes
  <2> QED
    BY <1>1, <1>2, <2>3, <2>4, <2>5, OthersBased
<1>6. CASE AddEntry(p) /\ ~NotLocked(p)
  <2>1. PICK n, v, layer :
          op' = [op EXCEPT ![p].at = "list", ![p].mod = n,
                           ![p].entry = Located(v, layer, EmptyDir)]
    BY <1>6 DEF AddEntry
  <2>2. op'[p].at = "list" /\ op'[p].entry.content = EmptyDir
    BY <1>1, <2>1 DEF Command, Located
  <2>3. DOMAIN EmptyDir = {} /\ ~EntryDone(p)
    BY <1>6 DEF EmptyDir, AddEntry, EntryDone
  <2> QED
    BY <1>5, <1>6, <2>2, <2>3 DEF Passes
<1>7. ASSUME ~AddEntry(p)
      PROVE  /\ op[p].entry \in Entries /\ op[p].at \in Passes
             /\ op[p].entry.layer = "cache" =>
                    DOMAIN op[p].entry.content \subseteq
                        DOMAIN cache[op[p].mod][op[p].entry.version]
  BY <1>7 DEF TypeInv, AtInv, ListFiles, ParseFile, HashFile, EntryDone, LockedInv, BasedInv,
              Based, Passes
<1>8. CASE ListFiles(p)
  <2>1. op'[p].at \in Passes /\ op'[p].mod = op[p].mod /\ op'[p].entry = op[p].entry
    BY <1>1, <1>8 DEF ListFiles, Command, Passes
  <2>2. ~AddEntry(p) /\ ~EntryDone(p)
    BY <1>8 DEF ListFiles, AddEntry, EntryDone
  <2> QED
    BY <1>4, <1>5, <1>7, <2>1, <2>2
<1>9. CASE ParseFile(p) /\ ~NotLocked(p)
  <2>1. PICK f, text :
          op' = [op EXCEPT ![p].left = @ \ {f}, ![p].entry.meaning = With(@, f, text)]
    BY <1>9 DEF ParseFile
  <2>2. ~AddEntry(p) /\ ~EntryDone(p) /\ op[p].at = "parse"
    BY <1>9 DEF ParseFile, AddEntry, EntryDone
  <2>3. op[p].entry \in Entries
    BY <1>7, <2>2
  <2>4. /\ op'[p].at = "parse" /\ op'[p].mod = op[p].mod
        /\ op'[p].entry = [op[p].entry EXCEPT !.meaning = With(@, f, text)]
    BY <1>1, <2>1, <2>2 DEF Command
  <2>5. /\ op'[p].entry.content = op[p].entry.content
        /\ op'[p].entry.layer = op[p].entry.layer
        /\ op'[p].entry.version = op[p].entry.version
    BY <2>3, <2>4 DEF Entries
  <2> QED
    BY <1>5, <1>7, <1>9, <2>2, <2>4, <2>5 DEF Passes
<1>10. CASE HashFile(p)
  <2>0. PICK f \in op[p].left : \E text :
          op' = [op EXCEPT ![p].left = @ \ {f}, ![p].entry.content = With(@, f, text)]
    BY <1>10 DEF HashFile
  <2>1. PICK text :
          op' = [op EXCEPT ![p].left = @ \ {f}, ![p].entry.content = With(@, f, text)]
    BY <2>0
  <2>2. ~AddEntry(p) /\ op[p].at = "hash"
    BY <1>10 DEF HashFile, AddEntry
  <2>3. op[p].entry \in Entries
    BY <1>7, <2>2
  <2>4. /\ op'[p].at = "hash" /\ op'[p].mod = op[p].mod
        /\ op'[p].entry = [op[p].entry EXCEPT !.content = With(@, f, text)]
    BY <1>1, <2>1, <2>2 DEF Command
  <2>5. /\ op'[p].entry.content = With(op[p].entry.content, f, text)
        /\ op'[p].entry.layer = op[p].entry.layer
        /\ op'[p].entry.version = op[p].entry.version
    BY <2>3, <2>4 DEF Entries
  <2>6. f \in DOMAIN FilesOf(op[p].mod, op[p].entry)
    BY <2>1, <2>2 DEF TypeInv, AtInv
  <2>7. op'[p].entry.layer = "cache" =>
          DOMAIN op'[p].entry.content \subseteq DOMAIN cache[op'[p].mod][op'[p].entry.version]
    BY <1>7, <2>2, <2>4, <2>5, <2>6 DEF FilesOf, With
  <2>8. ~EntryDone(p)
    BY <1>1, <2>1 DEF EntryDone
  <2> QED
    BY <1>4, <1>5, <2>4, <2>7, <2>8 DEF Passes
<1>11. CASE EntryDone(p)
  <2>1. PICK m, e : m = op[p].mod /\ e = op[p].entry
    OBVIOUS
  <2>2. op'[p].at = "lock" /\ op'[p].found = With(op[p].found, m, e) /\ op[p].at = "hash"
    BY <1>1, <1>11, <2>1 DEF EntryDone, Command
  <2>3. Based(m, e) /\ \A n \in DOMAIN op[p].found : Based(n, op[p].found[n])
    BY <2>1, <2>2 DEF LockedInv, BasedInv, Passes, Gathering
  <2>4. \A n \in DOMAIN op'[p].found : Based(n, op'[p].found[n])
    BY <2>2, <2>3 DEF With
  <2>5. BasedInv'
    BY <1>1, <1>3, <2>2, <2>4 DEF LockedInv, BasedInv, Passes
  <2>6. \A q \in Proc : UnpackInv(q)'
    BY <1>1, <2>2 DEF LockedInv, UnpackInv
  <2> QED
    BY <1>2, <2>5, <2>6 DEF LockedInv
<1> QED
  BY <1>4, <1>6, <1>8, <1>9, <1>10, <1>11

\* Locking: what was found is what is written.
LEMMA LockBased ==
  ASSUME TypeInv, LockedInv, NEW p \in Proc, FillLock(p)
  PROVE  LockedInv'
<1> USE DEF At, Cmd
<1>1. op \in [Proc -> Command] /\ op[p] \in Command /\ cache' = cache
      /\ \A q \in Proc \ {p} : op'[q] = op[q]
  BY StepKeeps DEF TypeInv, TypeOK, Step, FillLock
<1>2. CacheInv /\ CacheGrown /\ CacheInv'
  BY <1>1, CacheKept DEF LockedInv
<1>3. \A m, e : Based(m, e)' = Based(m, e)
  BY <1>1 DEF Based
<1>4. op'[p].at \in {"load", "done"}
  BY <1>1, Returned DEF FillLock, Command
<1>5. lock' = op[p].found /\ \A m \in DOMAIN op[p].found : Based(m, op[p].found[m])
  BY DEF FillLock, LockedInv, BasedInv, Gathering
<1>6. BasedInv'
  BY <1>1, <1>3, <1>4, <1>5 DEF LockedInv, BasedInv, Gathering, Passes
<1>7. \A q \in Proc : UnpackInv(q)'
  BY <1>1, <1>4 DEF LockedInv, UnpackInv
<1> QED
  BY <1>2, <1>6, <1>7 DEF LockedInv

\* Every other step leaves the cache and what was found alone.
LEMMA StepBased ==
  ASSUME TypeInv, LockedInv, NEW p \in Proc, Step(p)
  PROVE  LockedInv'
<1> USE DEF At, Cmd
<1>1. op \in [Proc -> Command] /\ op[p] \in Command
      /\ \A q \in Proc \ {p} : op'[q] = op[q]
  BY StepKeeps DEF TypeInv, TypeOK
<1> DEFINE MakesEntry == AddEntry(p) \/ ListFiles(p) \/ ParseFile(p) \/ HashFile(p) \/ EntryDone(p)
<1>2. CASE Fetch(p) \/ Unpack(p) \/ UnpackFile(p) \/ FillLock(p) \/ MakesEntry
  BY <1>2, DownloadBased, LockBased, PassBased
<1>3. CASE ~(Fetch(p) \/ Unpack(p) \/ UnpackFile(p) \/ FillLock(p) \/ MakesEntry)
  <2>1. cache' = cache /\ (lock' = lock \/ lock' = Torn)
    BY <1>3 DEF Step, ResolveVersion, VersionNotFound, Planned, Reload, Truncate, Fill,
         Frozen, TruncateLock, LoadModule, Loaded, VendorDir, CopyFile, FillCopy, Vendored,
         tree
  <2>2. /\ op'[p].at \notin {"unpack", "unpackFile", "list", "parse", "hash"}
        /\ op'[p].at \in {"resolve", "fetch", "lock", "write"} =>
             /\ op[p].at \in {"resolve", "fetch", "lock", "write"}
             /\ op'[p].found = op[p].found
    <3>1. \A m : Obtained(p, m) =>
            op'[p].at \in {"reload", "resolve"} /\ op'[p].found = op[p].found
      BY <1>1 DEF Obtained, Command
    <3>2. ASSUME Fail(p) \/ \E found : Succeed(p, found) PROVE op'[p].at \in {"done", "failed"}
      BY <3>2, Returned
    <3>3. CASE ResolveVersion(p)
      BY <1>1, <3>1, <3>3 DEF ResolveVersion, Command
    <3>4. CASE VersionNotFound(p)
      BY <1>1, <3>2, <3>4 DEF VersionNotFound, Command
    <3>5. CASE Planned(p)
      <4>1. \A cfg : op' = [op EXCEPT ![p].at = "lock", ![p].any = FALSE,
                                      ![p].cfg = cfg, ![p].todo = Declared(cfg)]
                     => op'[p].at = "lock" /\ op'[p].found = op[p].found
        BY <1>1 DEF Command
      <4> QED
        BY <3>2, <3>5, <4>1 DEF Planned
    <3>6. CASE Reload(p)
      <4>1. PICK cfg : op' = [op EXCEPT ![p].at = "truncate", ![p].cfg = cfg]
        BY <3>6 DEF Reload
      <4> QED
        BY <1>1, <4>1 DEF Command
    <3>7. CASE Truncate(p)
      BY <1>1, <3>7 DEF Truncate, Command
    <3>8. CASE Fill(p) \/ Frozen(p) \/ Loaded(p) \/ Vendored(p)
      BY <3>2, <3>8 DEF Fill, Frozen, Loaded, Vendored
    <3>9. CASE TruncateLock(p)
      BY <1>1, <3>9 DEF TruncateLock, Command
    <3>10. CASE LoadModule(p)
      BY <1>1, <3>2, <3>10 DEF LoadModule, Command
    <3>11. CASE VendorDir(p)
      BY <1>1, <3>2, <3>11 DEF VendorDir, Command
    <3>12. CASE CopyFile(p)
      BY <1>1, <3>12 DEF CopyFile, Command
    <3>13. CASE FillCopy(p)
      BY <1>1, <3>13 DEF FillCopy, Command
    <3> QED
      BY <1>3, <3>3, <3>4, <3>5, <3>6, <3>7, <3>8, <3>9, <3>10, <3>11, <3>12, <3>13 DEF Step
  <2>3. CacheGrown /\ CacheInv'
    BY <2>1, CacheKept DEF LockedInv
  <2>4. UnpackInv(p)'
    BY <2>2 DEF UnpackInv
  <2> QED
    BY <1>1, <2>1, <2>2, <2>3, <2>4, OthersBased DEF Gathering, Passes
<1> QED
  BY <1>2, <1>3

\* A command that starts or dies has found nothing.
LEMMA AnewBased ==
  ASSUME TypeInv, LockedInv, NEW p \in Proc, Call(p) \/ Die(p)
  PROVE  LockedInv'
<1>1. op \in [Proc -> Command]
  BY DEF TypeInv, TypeOK
<1>2. ASSUME NEW c, op' = [op EXCEPT ![p] = c], UNCHANGED tree,
             c.at \notin {"unpack", "unpackFile"} \cup Passes, c.found = NoEntries
      PROVE  LockedInv'
  <2>1. op'[p] = c /\ \A q \in Proc \ {p} : op'[q] = op[q]
    BY <1>1, <1>2
  <2>2. CacheGrown /\ CacheInv' /\ lock' = lock
    BY <1>2, CacheKept DEF LockedInv, tree
  <2>3. UnpackInv(p)'
    BY <1>2, <2>1 DEF UnpackInv, At
  <2> QED
    BY <1>2, <2>1, <2>2, <2>3, OthersBased
<1>3. ASSUME NEW c, Start(p, c), c.at \in {"resolve", "done", "truncate", "copyDir", "load", "lock"},
             c.found = NoEntries
      PROVE  LockedInv'
  BY <1>2, <1>3 DEF Start, Passes
<1>4. CASE StartAdd(p)
  BY <1>3, <1>4 DEF StartAdd, NoCommand
<1>5. CASE StartRemove(p)
  BY <1>3, <1>5 DEF StartRemove, NoCommand
<1>6. CASE StartUpdate(p)
  BY <1>3, <1>6 DEF StartUpdate, NoCommand
<1>7. CASE StartInstall(p)
  BY <1>3, <1>7 DEF StartInstall, NoCommand
<1>8. CASE StartVendor(p)
  BY <1>3, <1>8 DEF StartVendor, NoCommand
<1>9. CASE StartBuild(p)
  BY <1>3, <1>9 DEF StartBuild, NoCommand
<1>10. CASE Die(p)
  <2>1. op' = [op EXCEPT ![p] = NoCommand] /\ UNCHANGED tree
    BY <1>10 DEF Die
  <2>2. NoCommand.at = "idle" /\ NoCommand.found = NoEntries
    BY DEF NoCommand
  <2> QED
    BY <1>2, <2>1, <2>2 DEF Passes
<1> QED
  BY <1>4, <1>5, <1>6, <1>7, <1>8, <1>9, <1>10 DEF Call

\* Every step keeps what was locked based on the cache.
LEMMA LockedStep == TypeInv /\ LockedInv /\ [Next]_vars => LockedInv'
<1> SUFFICES ASSUME TypeInv, LockedInv, [Next]_vars PROVE LockedInv'
  OBVIOUS
<1>1. ASSUME UNCHANGED <<op, tree>> PROVE LockedInv'
  BY <1>1 DEF LockedInv, CacheInv, UnpackInv, BasedInv, Based, At, tree
<1>2. ASSUME NEW m \in Module, Publish(m) \/ Yank(m) PROVE LockedInv'
  BY <1>1, <1>2 DEF Publish, Yank
<1>3. CASE UNCHANGED vars
  BY <1>1, <1>3 DEF vars
<1> QED
  BY <1>2, <1>3, StepBased, AnewBased DEF Next

\* What was locked as a whole cached module stays, however commands overlap, fail and
\* download again, and although the two hashes of an entry are taken one after the other:
\* the audit (deps.rs:518) reports it only while a file of it is torn.
THEOREM LockedStays == Spec => []WholeStaysLocked
<1>1. ASSUME TypeInv, LockedInv PROVE WholeStaysLocked
  <2> SUFFICES ASSUME lock \notin {Absent, Torn}, NEW m \in Failures,
                      lock[m].layer = "cache",
                      lock[m].content = Whole(lock[m].version),
                      Torn \notin Range(cache[m][lock[m].version])
               PROVE  FALSE
    BY DEF WholeStaysLocked
  <2> DEFINE v == lock[m].version
             d == cache[m][v]
  <2>1. lock \in Locks /\ m \in DOMAIN lock /\ Whole(v) # d
    BY <1>1 DEF TypeInv, TypeOK, Failures, FilesOf
  <2>2. m \in Module /\ lock[m] \in Entries
    BY <2>1 DEF Locks
  <2>3. v \in Version
    BY <2>2 DEF Entries
  <2>4. d # Absent /\ DOMAIN Whole(v) \subseteq DOMAIN d
    BY <1>1, <2>1 DEF LockedInv, BasedInv, Based
  <2>5. /\ DOMAIN d \subseteq Shipped[v] /\ d \in Directories
        /\ \A f \in DOMAIN d : d[f] \in {v, Torn}
    BY <1>1, <2>2, <2>3, <2>4 DEF LockedInv, CacheInv, TypeInv, TypeOK
  <2> HIDE DEF v, d
  <2>6. DOMAIN d = Shipped[v]
    BY <2>4, <2>5 DEF Whole
  <2>7. \A f \in DOMAIN d : d[f] = v
    BY <2>5 DEF Range, v, d
  <2>8. d = Whole(v)
    BY <2>5, <2>6, <2>7 DEF Directories, Whole
  <2> QED
    BY <2>1, <2>8
<1>2. ASSUME Init PROVE LockedInv
  <2>1. op = [p \in Proc |-> NoCommand] /\ NoCommand.at = "idle"
    BY <1>2 DEF Init, NoCommand
  <2> QED
    BY <1>2, <2>1 DEF Init, LockedInv, CacheInv, UnpackInv, BasedInv, Gathering,
                     Passes, At
<1>3. Init => TypeInv /\ LockedInv
  BY <1>2, InitType
<1>4. TypeInv /\ LockedInv => WholeStaysLocked
  BY <1>1
<1> QED
  BY <1>3, <1>4, StepType, LockedStep, PTL DEF Spec
=============================================================================
