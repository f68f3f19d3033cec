------------------------ MODULE IntentExecuteProofs ------------------------
(***************************************************************************)
(* The properties of IntentExecute, for any number of slugs, libraries,    *)
(* texts and specifications.  Two things tie a run to the files: the       *)
(* intent it loaded is still its own (Held), which is what keeps intents   *)
(* from being lost and makes the files agree with what is reported; and    *)
(* what it knows of the verification (Verdict), which is what makes the    *)
(* report true.                                                            *)
(***************************************************************************)
EXTENDS IntentExecute, SequenceTheorems, FiniteSetTheorems, WellFoundedInduction,
        TLAPS

TaskSet == [kind : {"CreateModule", "AddFunction", "ModifyMain"}, mod : Modules]
Steps == {"idle", "mark", "snapshot", "task", "mutate", "write", "fail", "verify", "repair",
          "writeRepair", "archive", "removeActive", "moveCompanion", "saveFailed"}
Runs == [at : Steps, slug : Slugs \cup {"none"}, gen : Nat, task : Nat,
         todo : SUBSET Modules, mod : Modules, passed : Nat, total : Nat,
         first : BOOLEAN, attempted : BOOLEAN, applied : BOOLEAN]

\* The run under way executes an intent that was created.
RunOK ==
    /\ run \in Runs
    /\ ~At("idle") => /\ run.slug \in Slugs /\ run.gen \in 1..Len(specs[run.slug])
                      /\ run.task \in 1..Len(Tasks)
                      /\ run.passed <= run.total

\* The intent files have their types, and so has the graph; main, unlike a
\* library, is always there.
IntentsOK ==
    /\ specs \in [Slugs -> Seq(SpecChoices)]
    /\ active \in [Slugs -> [status : Statuses, gen : 0..MaxGen]]
    /\ companion \in [Slugs -> {"none", "active", "history", "deleted"}]
    /\ archived \in [Slugs -> [state : {"none", "torn", "kept"}, gen : 0..MaxGen,
                               passed : Nat, total : Nat]]
    /\ deleted \in [Slugs -> SUBSET (1..MaxGen)]
    /\ cut \in [Slugs -> SUBSET (1..MaxGen)]
    /\ raced \subseteq Slugs

GraphOK ==
    /\ graph \in [Modules -> Texts \cup {LibText, Absent, Torn}]
    /\ graph[Main] \in Texts \cup {Torn}
    /\ snaps \in Seq(Texts \cup {Torn})
    /\ quiet \in BOOLEAN /\ proven \in BOOLEAN

\* Generations are given out in order, and the archive never holds a later
\* one than the active file.
Gens ==
    \A s \in Slugs :
        /\ Len(specs[s]) <= MaxGen
        /\ active[s] # NoFile => active[s].status # "none" /\ active[s].gen \in 1..Len(specs[s])
        /\ archived[s].gen <= Len(specs[s])
        /\ s \notin raced /\ active[s] # NoFile => archived[s].gen <= active[s].gen

Archiving == {"removeActive", "moveCompanion", "saveFailed"}

\* A run whose slug nobody has touched still has its intent: in the active
\* file until it removes that, and in the history once it has archived it.
Held ==
    ~At("idle") /\ (quiet \/ run.slug \notin raced) =>
        LET s == run.slug IN
        /\ run.at \notin {"moveCompanion", "saveFailed"} =>
               active[s] # NoFile /\ active[s].gen = run.gen
        /\ run.at \in {"moveCompanion", "saveFailed"} => active[s] = NoFile
        /\ run.at \in Archiving =>
               archived[s] = [state |-> "kept", gen |-> run.gen,
                              passed |-> run.passed, total |-> run.total]

\* What a run knows of the verification at each step.
Verdict ==
    /\ ~At("idle") => outcome = Unfinished
    /\ run.first => ~run.attempted
    /\ run.applied => run.attempted
    /\ run.at \in {"repair", "writeRepair"} =>
           run.passed < run.total /\ ~run.first /\ run.attempted
    /\ run.at \in Archiving \cup {"archive"} /\ run.passed = run.total =>
           /\ run.first \/ run.applied
           /\ quiet => proven
    /\ run.at = "saveFailed" => run.passed # run.total
    /\ run.at \notin Archiving \cup {"archive", "repair", "writeRepair"} =>
           ~run.first /\ ~run.attempted

IInv ==
    /\ RunOK /\ IntentsOK /\ GraphOK /\ Gens /\ Held /\ Verdict
    /\ IntentNeverLost /\ OneUndoRevertsMain /\ SuccessIsVerified /\ OutcomeMatchesDisk

-----------------------------------------------------------------------------
(* The modules that decompose modifies.  FoldLeft is a recursive function   *)
(* over sets of positions, which has to be shown to exist before anything   *)
(* can be said of its values.  Both are inductions over those sets, in the  *)
(* form that needs no operator parameter: the sets where the claim fails,   *)
(* if there are any, have a minimal member.                                 *)

\* What is kept of a sequence that ends with m.
KeepOne(kept, m) == IF m = Main THEN kept ELSE Append(kept, m)

\* g keeps, for every set of positions of the sequence q, what is no main.
Keeps(g, q, S) ==
    g = [s \in SUBSET S |->
            IF s = {} THEN <<>> ELSE KeepOne(g[s \ {Max(s)}], q[Max(s)])]

\* ModifiedLibs is such a g, at all positions.
LEMMA ModifiedIs ==
    ASSUME NEW s
    PROVE  ModifiedLibs(s) =
           (CHOOSE g : Keeps(g, s.modify, DOMAIN s.modify))[DOMAIN s.modify]
BY DEF ModifiedLibs, FoldLeft, MapThenFoldSet, Keeps, KeepOne

\* A nonempty set of positions has a last one.
LEMMA LastIn ==
    ASSUME NEW n \in Nat, NEW s \in SUBSET (1..n), s # {}
    PROVE  Max(s) \in s
<1> DEFINE back == {n - i : i \in s}
<1>1. back \in SUBSET Nat /\ back # {}
  <2>1. \A i \in s : n - i \in Nat
    OBVIOUS
  <2>2. PICK i \in s : TRUE
    OBVIOUS
  <2>3. n - i \in back
    OBVIOUS
  <2> QED
    BY <2>1, <2>3
<1>2. PICK d \in back : \A e \in back : <<e, d>> \notin OpToRel(<, Nat)
  <2> HIDE DEF back
  <2> QED
    BY <1>1, NatLessThanWellFounded, WFMin
<1>3. \A e \in back : ~(e < d)
  BY <1>1, <1>2 DEF OpToRel
<1>4. PICK i \in s : d = n - i
  OBVIOUS
<1>5. ASSUME NEW j \in s PROVE i >= j
  <2>1. n - j \in back
    OBVIOUS
  <2>2. ~(n - j < n - i)
    BY <2>1, <1>3, <1>4
  <2> QED
    BY <2>2
<1> QED
  BY <1>5 DEF Max

\* S is a finite set each of whose parts has a last element.
Positions(S) ==
    /\ IsFiniteSet(S)
    /\ \A s \in SUBSET S : s # {} => Max(s) \in s

\* The positions of a sequence are such a set.
LEMMA SequencePositions == ASSUME NEW n \in Nat PROVE Positions(1..n)
<1>1. IsFiniteSet(1..n)
  BY FS_Interval
<1> QED
  BY <1>1, LastIn DEF Positions

\* The last of some positions.
LEMMA LastOf ==
    ASSUME NEW S, Positions(S), NEW s \in SUBSET S, s # {}
    PROVE  Max(s) \in s
BY DEF Positions

\* A nonempty set of sets of positions has a minimal member.
LEMMA Minimal ==
    ASSUME NEW S, Positions(S), NEW T \in SUBSET SUBSET S, T # {}
    PROVE  \E s \in T : \A u \in T : u \subseteq s => u = s
<1>1. IsFiniteSet(S)
  BY DEF Positions
<1>2. IsWellFoundedOn(StrictSubsetOrdering(S), SUBSET S)
  BY <1>1, FS_StrictSubsetOrderingWellFounded, FS_FiniteSubsetsOfFinite
<1>3. PICK s \in T : \A u \in T : <<u, s>> \notin StrictSubsetOrdering(S)
  <2> HIDE DEF StrictSubsetOrdering
  <2> QED
    BY <1>2, WFMin
<1>4. ASSUME NEW u \in T, u \subseteq s PROVE u = s
  <2>1. <<u, s>> \notin StrictSubsetOrdering(S)
    BY <1>3
  <2> QED
    BY <2>1, <1>4 DEF StrictSubsetOrdering
<1> QED
  BY <1>4

\* Nothing is kept of no positions.
LEMMA KeepsEmpty ==
    ASSUME NEW q, NEW S, NEW g, Keeps(g, q, S)
    PROVE  g[{}] = <<>>
<1>1. g = [t \in SUBSET S |->
              IF t = {} THEN <<>> ELSE KeepOne(g[t \ {Max(t)}], q[Max(t)])]
  BY DEF Keeps
<1> QED
  BY <1>1

\* What is kept of some positions comes from all but the last.
LEMMA KeepsStep ==
    ASSUME NEW q, NEW S, NEW g, Keeps(g, q, S), NEW s \in SUBSET S, s # {}
    PROVE  g[s] = KeepOne(g[s \ {Max(s)}], q[Max(s)])
<1>1. g = [t \in SUBSET S |->
              IF t = {} THEN <<>> ELSE KeepOne(g[t \ {Max(t)}], q[Max(t)])]
  BY DEF Keeps
<1>2. g[s] = IF s = {} THEN <<>> ELSE KeepOne(g[s \ {Max(s)}], q[Max(s)])
  BY <1>1
<1> QED
  BY <1>2

\* Two of them agree wherever both are defined.
LEMMA KeepsAgree ==
    ASSUME NEW q, NEW S, Positions(S), NEW U \in SUBSET S, NEW V \in SUBSET S,
           NEW g, Keeps(g, q, U), NEW h, Keeps(h, q, V)
    PROVE  \A s \in SUBSET (U \cap V) : g[s] = h[s]
<1> DEFINE Differing == {s \in SUBSET (U \cap V) : g[s] # h[s]}
<1> SUFFICES ASSUME Differing # {} PROVE FALSE
  OBVIOUS
<1>1. PICK s \in Differing : \A u \in Differing : u \subseteq s => u = s
  <2>1. Differing \in SUBSET SUBSET S
    OBVIOUS
  <2> HIDE DEF Differing
  <2> QED
    BY <2>1, Minimal
<1>2. s \in SUBSET U /\ s \in SUBSET V /\ g[s] # h[s]
  OBVIOUS
<1> DEFINE r == s \ {Max(s)}
<1>3. s # {}
  <2>1. g[{}] = <<>> /\ h[{}] = <<>>
    BY KeepsEmpty
  <2> QED
    BY <1>2, <2>1
<1>4. g[s] = KeepOne(g[r], q[Max(s)])
  <2> HIDE DEF Differing
  <2>1. g[s] = KeepOne(g[s \ {Max(s)}], q[Max(s)])
    BY <1>2, <1>3, KeepsStep
  <2> QED
    BY <2>1
<1>5. h[s] = KeepOne(h[r], q[Max(s)])
  <2> HIDE DEF Differing
  <2>1. h[s] = KeepOne(h[s \ {Max(s)}], q[Max(s)])
    BY <1>2, <1>3, KeepsStep
  <2> QED
    BY <2>1
<1>6. r # s
  BY <1>2, <1>3, LastOf
<1>7. g[r] = h[r]
  <2>1. r \in SUBSET (U \cap V) /\ r \subseteq s
    OBVIOUS
  <2>2. r \notin Differing
    BY <1>1, <1>6, <2>1
  <2> QED
    BY <2>1, <2>2
<1> HIDE DEF r
<1> QED
  BY <1>2, <1>4, <1>5, <1>7

\* Any positions have one.
LEMMA KeepsExist ==
    ASSUME NEW q, NEW S, Positions(S)
    PROVE  \E g : Keeps(g, q, S)
<1> DEFINE Without == {s \in SUBSET S : ~ \E g : Keeps(g, q, s)}
<1> SUFFICES ASSUME Without # {} PROVE FALSE
  <2>1. S \notin Without
    OBVIOUS
  <2> QED
    BY <2>1
<1>1. PICK s \in Without : \A u \in Without : u \subseteq s => u = s
  <2>1. Without \in SUBSET SUBSET S
    OBVIOUS
  <2> HIDE DEF Without
  <2> QED
    BY <2>1, Minimal
<1> DEFINE G(u) == CHOOSE g : Keeps(g, q, u)
           whole(u) == G(u)[u]
           r(u) == u \ {Max(u)}
           all == [u \in SUBSET s |->
                      IF u = {} THEN <<>> ELSE KeepOne(whole(r(u)), q[Max(u)])]
<1>2. ASSUME NEW u \in SUBSET s, u # s PROVE Keeps(G(u), q, u)
  <2>1. u \notin Without
    BY <1>1, <1>2
  <2>2. \E g : Keeps(g, q, u)
    BY <2>1, <1>1
  <2> QED
    BY <2>2
<1>3. ASSUME NEW u \in SUBSET s, u # {} PROVE r(u) \in SUBSET s /\ r(u) # s
  <2>1. Max(u) \in u
    BY <1>3, LastOf
  <2> QED
    BY <2>1
<1>4. ASSUME NEW u \in SUBSET s, u # s PROVE all[u] = whole(u)
  <2>1. Keeps(G(u), q, u)
    BY <1>2, <1>4
  <2>2. all[u] = IF u = {} THEN <<>> ELSE KeepOne(whole(r(u)), q[Max(u)])
    OBVIOUS
  <2>3. CASE u = {}
    <3> DEFINE gu == G(u)
    <3>1. Keeps(gu, q, u)
      BY <2>1
    <3> HIDE DEF gu
    <3>2. gu[{}] = <<>>
      BY <3>1, KeepsEmpty
    <3>3. all[u] = <<>>
      BY <2>2, <2>3
    <3> HIDE DEF all, G
    <3> QED
      BY <2>3, <3>2, <3>3 DEF gu
  <2>4. CASE u # {}
    <3> DEFINE gu == G(u)
               v == r(u)
               gv == G(v)
    <3>1. v \in SUBSET s /\ v # s
      BY <1>3, <2>4
    <3>2. Keeps(gv, q, v)
      <4> HIDE DEF v
      <4> QED
        BY <3>1, <1>2
    <3>3. Keeps(gu, q, u) /\ v \in SUBSET (u \cap v)
          /\ u \in SUBSET S /\ v \in SUBSET S
      BY <2>1, <1>1
    <3> HIDE DEF r, G, gu, gv, v
    <3>4. gu[v] = gv[v]
      <4> HIDE DEF all, whole, Without
      <4> QED
        BY <3>2, <3>3, KeepsAgree
    <3>5. gu[u] = KeepOne(gu[v], q[Max(u)])
      <4>1. gu[u] = KeepOne(gu[u \ {Max(u)}], q[Max(u)])
        <5>1. u \in SUBSET u
          OBVIOUS
        <5> QED
          BY <2>4, <3>3, <5>1, KeepsStep
      <4> QED
        BY <4>1 DEF v, r
    <3>6. all[u] = KeepOne(gv[v], q[Max(u)])
      <4>1. all[u] = KeepOne(whole(v), q[Max(u)])
        <5> HIDE DEF all, whole
        <5> QED
          BY <2>2, <2>4 DEF v
      <4> QED
        BY <4>1 DEF gv
    <3>7. whole(u) = gu[u]
      BY DEF gu
    <3> HIDE DEF all, whole
    <3> QED
      BY <3>4, <3>5, <3>6, <3>7
  <2> QED
    BY <2>3, <2>4
<1>5. Keeps(all, q, s)
  <2>1. ASSUME NEW u \in SUBSET s, u # {} PROVE all[r(u)] = whole(r(u))
    <3>1. r(u) \in SUBSET s /\ r(u) # s
      BY <2>1, <1>3
    <3> HIDE DEF all, whole, r
    <3> QED
      BY <3>1, <1>4
  <2>2. \A u \in SUBSET s :
           (IF u = {} THEN <<>> ELSE KeepOne(whole(r(u)), q[Max(u)]))
           = (IF u = {} THEN <<>> ELSE KeepOne(all[r(u)], q[Max(u)]))
    <3> HIDE DEF all, whole, r
    <3> QED
      BY <2>1
  <2>3. all = [u \in SUBSET s |-> IF u = {} THEN <<>> ELSE KeepOne(whole(r(u)), q[Max(u)])]
    OBVIOUS
  <2>4. all = [u \in SUBSET s |-> IF u = {} THEN <<>> ELSE KeepOne(all[r(u)], q[Max(u)])]
    <3> HIDE DEF all, whole, r
    <3> QED
      BY <2>2, <2>3
  <2> HIDE DEF all
  <2> QED
    BY <2>4 DEF Keeps
<1> HIDE DEF all
<1>6. s \notin Without
  BY <1>5
<1> QED
  BY <1>1, <1>6

\* What is left of the modules that an intent modifies are libraries.
LEMMA ModifiedAreLibs ==
    ASSUME NEW s \in SpecChoices
    PROVE  ModifiedLibs(s) \in Seq(Libs)
<1> DEFINE q == s.modify
           n == Len(q)
           S == 1..n
<1>1. q \in Seq(Modules) /\ n \in Nat /\ DOMAIN q = S /\ \A i \in S : q[i] \in Modules
  BY SpecAssumption
<1> HIDE DEF q, n
<1>2. Positions(S)
  BY <1>1, SequencePositions
<1> HIDE DEF S
<1>3. PICK g : Keeps(g, q, S) /\ ModifiedLibs(s) = g[S]
  <2> DEFINE g0 == CHOOSE g : Keeps(g, q, S)
  <2>1. Keeps(g0, q, S)
    BY <1>2, KeepsExist
  <2>2. ModifiedLibs(s) = g0[S]
    BY <1>1, ModifiedIs DEF q
  <2> QED
    BY <2>1, <2>2
<1> DEFINE Odd == {t \in SUBSET S : g[t] \notin Seq(Libs)}
<1> SUFFICES ASSUME Odd # {} PROVE FALSE
  <2>1. S \notin Odd
    OBVIOUS
  <2> QED
    BY <2>1, <1>3
<1>4. PICK t \in Odd : \A u \in Odd : u \subseteq t => u = t
  <2>1. Odd \in SUBSET SUBSET S
    OBVIOUS
  <2> HIDE DEF Odd
  <2> QED
    BY <1>2, <2>1, Minimal
<1>5. t \in SUBSET S /\ g[t] \notin Seq(Libs)
  OBVIOUS
<1> DEFINE r == t \ {Max(t)}
<1>6. t # {}
  <2>1. g[{}] = <<>>
    BY <1>3, KeepsEmpty
  <2>2. <<>> \in Seq(Libs)
    OBVIOUS
  <2> QED
    BY <1>5, <2>1, <2>2
<1>7. g[t] = KeepOne(g[r], q[Max(t)])
  BY <1>3, <1>5, <1>6, KeepsStep
<1>8. Max(t) \in S /\ r # t
  BY <1>2, <1>5, <1>6, LastOf
<1>9. g[r] \in Seq(Libs)
  <2>1. r \in SUBSET S /\ r \subseteq t
    BY <1>5
  <2>2. r \notin Odd
    BY <1>4, <1>8, <2>1
  <2> QED
    BY <2>1, <2>2
<1>10. q[Max(t)] = Main \/ q[Max(t)] \in Libs
  BY <1>1, <1>8 DEF Modules
<1> HIDE DEF r
<1>11. KeepOne(g[r], q[Max(t)]) \in Seq(Libs)
  BY <1>9, <1>10 DEF KeepOne
<1> QED
  BY <1>5, <1>7, <1>11

-----------------------------------------------------------------------------
(* Runs and tasks *)

\* decompose gives at least one task, and each of them names a module.
LEMMA DecomposeIs ==
    ASSUME NEW s \in SpecChoices
    PROVE  Decompose(s) \in Seq(TaskSet) /\ Len(Decompose(s)) \in Nat \ {0}
<1> DEFINE a == [i \in 1..Len(s.create) |-> Create(s.create[i])]
           b == [i \in 1..Len(ModifiedLibs(s)) |-> AddFunction(ModifiedLibs(s)[i])]
<1>1. s.create \in Seq(Libs) /\ ModifiedLibs(s) \in Seq(Libs)
  BY SpecAssumption, ModifiedAreLibs
<1>2. a \in Seq(TaskSet)
  BY <1>1 DEF Create, TaskSet, Modules
<1>3. b \in Seq(TaskSet)
  BY <1>1 DEF AddFunction, TaskSet, Modules
<1>4. <<ModifyMain>> \in Seq(TaskSet) /\ Len(<<ModifyMain>>) = 1
  BY DEF ModifyMain, TaskSet, Modules
<1>5. Decompose(s) = a \o b \o <<ModifyMain>>
  BY DEF Decompose
<1> QED
  BY <1>2, <1>3, <1>4, <1>5

\* The tasks of a run are those of the intent it loaded.
LEMMA TasksAre ==
    ASSUME RunOK, IntentsOK, ~At("idle")
    PROVE  /\ specs[run.slug][run.gen] \in SpecChoices
           /\ Tasks \in Seq(TaskSet) /\ Len(Tasks) \in Nat \ {0}
           /\ Task \in TaskSet
<1>1. specs[run.slug][run.gen] \in SpecChoices
  BY DEF RunOK, IntentsOK
<1>2. Tasks \in Seq(TaskSet) /\ Len(Tasks) \in Nat \ {0}
  BY <1>1, DecomposeIs DEF Tasks
<1> QED
  BY <1>1, <1>2 DEF RunOK, Task

\* Nothing has been requested, run or reported.
LEMMA Initial == Init => IInv
<1> SUFFICES ASSUME Init PROVE IInv
  OBVIOUS
<1>1. RunOK
  BY DEF Init, RunOK, Runs, Steps, NoRun, At, Modules
<1>2. IntentsOK
  BY BoundAssumption DEF Init, IntentsOK, NoFile, NoRecord, Statuses
<1>3. GraphOK
  <2>1. graph \in [Modules -> Texts \cup {Absent}] /\ graph[Main] \in Texts
    BY DEF Init
  <2>2. snaps = <<>> /\ quiet = TRUE /\ proven = FALSE
    BY DEF Init
  <2>3. snaps \in Seq(Texts \cup {Torn})
    BY <2>2
  <2>4. graph \in [Modules -> Texts \cup {LibText, Absent, Torn}]
    BY <2>1
  <2> QED
    BY <2>1, <2>2, <2>3, <2>4 DEF GraphOK
<1>7. Gens
  BY BoundAssumption DEF Init, Gens, NoFile, NoRecord
<1>4. Held /\ Verdict
  BY DEF Init, Held, Verdict, NoRun, At, Archiving
<1>5. IntentNeverLost
  BY DEF Init, IntentNeverLost
<1>6. OneUndoRevertsMain /\ SuccessIsVerified /\ OutcomeMatchesDisk
  BY DEF Init, OneUndoRevertsMain, SuccessIsVerified, OutcomeMatchesDisk, Unfinished
<1> QED
  BY <1>1, <1>2, <1>3, <1>4, <1>5, <1>6, <1>7 DEF IInv


-----------------------------------------------------------------------------
(* Steps of the runner *)

\* A step that leaves the tasks of the run alone.
LEMMA TasksStay ==
    ASSUME specs' = specs, run'.slug = run.slug, run'.gen = run.gen PROVE Tasks' = Tasks
  BY DEF Tasks

\* What is true of a run under way, in the terms its steps use.
LEMMA UnderWay ==
    ASSUME IInv, ~At("idle")
    PROVE  /\ run \in Runs
           /\ run.slug \in Slugs /\ run.gen \in 1..Len(specs[run.slug])
           /\ run.gen \in 1..MaxGen
           /\ Tasks \in Seq(TaskSet) /\ Len(Tasks) \in Nat \ {0} /\ Task \in TaskSet
           /\ run.task \in 1..Len(Tasks) /\ run.passed <= run.total
           /\ outcome = Unfinished
<1>1. RunOK /\ IntentsOK /\ Gens /\ Verdict
  BY DEF IInv
<1>2. /\ run \in Runs
      /\ run.slug \in Slugs /\ run.gen \in 1..Len(specs[run.slug])
      /\ run.task \in 1..Len(Tasks) /\ run.passed <= run.total
  BY <1>1 DEF RunOK
<1>3. run.gen \in 1..MaxGen
  BY <1>1, <1>2, BoundAssumption DEF IntentsOK, Gens, Runs
<1>4. outcome = Unfinished
  BY <1>1 DEF Verdict
<1> QED
  BY <1>1, <1>2, <1>3, <1>4, TasksAre

\* A run that goes on has nothing to report.
LEMMA NothingReported ==
    ASSUME IInv, ~At("idle"), outcome' = outcome
    PROVE  SuccessIsVerified' /\ OutcomeMatchesDisk'
<1>1. outcome' = Unfinished
  BY UnderWay
<1> QED
  BY <1>1 DEF SuccessIsVerified, OutcomeMatchesDisk, Unfinished

\* A step that leaves the intent files alone.
LEMMA IntentsStay ==
    ASSUME IInv, UNCHANGED <<files, raced>>
    PROVE  IntentsOK' /\ Gens' /\ IntentNeverLost'
  BY DEF IInv, files, IntentsOK, Gens, IntentNeverLost, Intact, InHistory

\* A step that leaves the graph alone.
LEMMA GraphStays ==
    ASSUME IInv, UNCHANGED <<disk, quiet, proven, undoPoint>>
    PROVE  GraphOK' /\ OneUndoRevertsMain'
  BY DEF IInv, disk, GraphOK, OneUndoRevertsMain

\* A step that only moves the run on.
LEMMA GotoIs ==
    ASSUME run \in Runs, NEW step \in Steps, Goto(step)
    PROVE  /\ run' \in Runs /\ run'.at = step
           /\ run'.slug = run.slug /\ run'.gen = run.gen /\ run'.task = run.task
           /\ run'.todo = run.todo /\ run'.mod = run.mod
           /\ run'.passed = run.passed /\ run'.total = run.total
           /\ run'.first = run.first /\ run'.attempted = run.attempted
           /\ run'.applied = run.applied
  BY DEF Goto, Runs

\* A run that goes on with the intent it loaded.
LEMMA GoesOn ==
    ASSUME IInv, ~At("idle"), run' \in Runs, run'.at # "idle",
           run'.slug = run.slug, run'.gen = run.gen, run'.task \in 1..Len(Tasks),
           run'.passed <= run'.total, specs' = specs, outcome' = outcome
    PROVE  RunOK' /\ SuccessIsVerified' /\ OutcomeMatchesDisk'
<1>1. Tasks' = Tasks
  BY TasksStay
<1>2. RunOK'
  BY <1>1, UnderWay DEF RunOK, At
<1> QED
  BY <1>2, NothingReported

\* Before it archives, a run holds its intent as long as the files stay.
LEMMA HeldStays ==
    ASSUME IInv, ~At("idle"), UNCHANGED <<files, quiet, raced>>,
           run.at \notin Archiving, run'.at \notin Archiving,
           run'.slug = run.slug, run'.gen = run.gen
    PROVE  Held'
  BY DEF IInv, Held, At, files, Archiving

\* No run is under way.
LEMMA Ended ==
    ASSUME run' = NoRun PROVE RunOK' /\ Held' /\ Verdict'
<1>1. RunOK'
  BY DEF RunOK, Runs, NoRun, At, Steps, Modules
<1> QED
  BY <1>1 DEF Held, Verdict, NoRun, At, Archiving

\* An error ends the run, and reports what it knows.
LEMMA ErrorEnds ==
    ASSUME IInv, ~At("idle"), Return(Error(run))
    PROVE  RunOK' /\ Held' /\ Verdict' /\ SuccessIsVerified' /\ OutcomeMatchesDisk'
<1>1. run' = NoRun /\ outcome' = Error(run)
  BY DEF Return
<1>2. RunOK' /\ Held' /\ Verdict'
  BY <1>1, Ended
<1>3. /\ outcome'.success = FALSE /\ outcome'.terminal \in {"infrastructure_error", "error"}
      /\ outcome'.first => ~outcome'.attempted
      /\ outcome'.applied => outcome'.attempted
  <2>1. Verdict
    BY DEF IInv
  <2>2. CASE run.attempted
    BY <1>1, <2>1, <2>2 DEF Error, Finish, Verdict
  <2>3. CASE ~run.attempted
    BY <1>1, <2>3 DEF Error, Unfinished
  <2> QED
    BY <2>2, <2>3
<1> QED
  BY <1>2, <1>3 DEF SuccessIsVerified, OutcomeMatchesDisk

\* save_intent, whoever calls it, writes the intent that the run holds, and
\* loses it when it dies on the only copy.
LEMMA SaveIntentIs ==
    ASSUME IInv, NEW status \in Statuses \ {"none"}, SaveIntent(status),
           run.at \in {"mark", "fail", "saveFailed"},
           UNCHANGED <<specs, companion, archived, deleted, raced>>,
           cut' \in [Slugs -> SUBSET (1..MaxGen)],
           \A s \in Slugs : cut[s] \subseteq cut'[s],
           status = "torn" => run.gen \in cut'[run.slug] \/ InHistory(run.slug, run.gen)
    PROVE  /\ IntentsOK' /\ Gens' /\ IntentNeverLost'
           /\ active'[run.slug] = [status |-> status, gen |-> run.gen]
           /\ \A s \in Slugs \ {run.slug} : active'[s] = active[s]
<1>1. IntentsOK /\ Gens /\ Held /\ IntentNeverLost
  BY DEF IInv
<1>2. ~At("idle")
  BY DEF At
<1>3. run.slug \in Slugs /\ run.gen \in 1..Len(specs[run.slug]) /\ run.gen \in 1..MaxGen
  BY <1>2, UnderWay
<1>4. /\ active'[run.slug] = [status |-> status, gen |-> run.gen]
      /\ \A s \in Slugs \ {run.slug} : active'[s] = active[s]
  BY <1>1, <1>3 DEF SaveIntent, IntentsOK
<1>5. active' \in [Slugs -> [status : Statuses, gen : 0..MaxGen]]
  <2>1. [status |-> status, gen |-> run.gen] \in [status : Statuses, gen : 0..MaxGen]
    BY <1>3, BoundAssumption
  <2> QED
    BY <1>1, <2>1 DEF SaveIntent, IntentsOK
<1>6. IntentsOK'
  BY <1>1, <1>5 DEF IntentsOK
<1>7. active'[run.slug] # NoFile /\ active'[run.slug].status # "none"
      /\ active'[run.slug].gen = run.gen
  BY <1>4 DEF NoFile
<1>8. run.slug \notin raced =>
          /\ active[run.slug].gen = run.gen \/ archived[run.slug].gen = run.gen
          /\ active[run.slug] = NoFile => archived[run.slug].gen = run.gen
          /\ active[run.slug] # NoFile => active[run.slug].gen = run.gen
  BY <1>1, <1>2 DEF Held, Archiving
<1>9. Gens'
  <2>1. run.slug \notin raced => archived[run.slug].gen <= run.gen
    BY <1>1, <1>3, <1>8 DEF Gens, IntentsOK
  <2> QED
    BY <1>1, <1>3, <1>4, <1>7, <2>1 DEF Gens
<1>10. ASSUME NEW s \in Slugs \ raced, NEW g \in 1..Len(specs[s])
       PROVE  \/ Intact(s)' /\ active'[s].gen = g
              \/ g \in deleted[s]
              \/ InHistory(s, g) \/ archived[s].gen > g
              \/ g \in cut'[s]
  <2>1. \/ Intact(s) /\ active[s].gen = g
        \/ g \in deleted[s]
        \/ InHistory(s, g) \/ archived[s].gen > g
        \/ g \in cut'[s]
    BY <1>1 DEF IntentNeverLost
  <2>2. CASE s # run.slug
    BY <1>4, <2>1, <2>2 DEF Intact
  <2>3. CASE s = run.slug /\ Intact(s) /\ active[s].gen = g
    <3>1. active[s] # NoFile
      BY <2>3 DEF Intact, NoFile
    <3>2. g = run.gen
      BY <1>8, <2>3, <3>1
    <3>3. status # "torn" => Intact(s)' /\ active'[s].gen = g
      BY <1>4, <2>3, <3>2 DEF Intact
    <3> QED
      BY <2>3, <3>2, <3>3
  <2> QED
    BY <2>1, <2>2, <2>3
<1>11. IntentNeverLost'
  BY <1>10 DEF IntentNeverLost, InHistory
<1> QED
  BY <1>4, <1>6, <1>9, <1>11

\* A write, whole or torn, of one module.
LEMMA WriteGraphIs ==
    ASSUME GraphOK, NEW m, NEW text \in TextsOf(m) \cup {Torn}, WriteGraph(m, text)
    PROVE  /\ graph' \in [Modules -> Texts \cup {LibText, Absent, Torn}]
           /\ graph'[Main] \in Texts \cup {Torn}
           /\ proven' = FALSE
<1>1. Main \in Modules
  BY DEF Modules
<1>2. text \in Texts \cup {LibText, Absent, Torn} /\ (m = Main => text \in Texts \cup {Torn})
  BY DEF TextsOf
<1> QED
  BY <1>1, <1>2 DEF WriteGraph, GraphOK

\* The intent is marked InProgress.
LEMMA MarkInProgressKeeps == ASSUME IInv, MarkInProgress PROVE IInv'
<1>1. run.at = "mark" /\ ~At("idle")
  BY DEF MarkInProgress, At
<1>2. /\ run' \in Runs /\ run'.at = "snapshot"
      /\ run'.slug = run.slug /\ run'.gen = run.gen /\ run'.task = run.task
      /\ run'.passed = run.passed /\ run'.total = run.total
      /\ run'.first = run.first /\ run'.attempted = run.attempted
      /\ run'.applied = run.applied
  BY <1>1, UnderWay, GotoIs DEF MarkInProgress, Steps
<1>3. /\ specs' = specs /\ outcome' = outcome /\ quiet' = quiet /\ raced' = raced
      /\ archived' = archived /\ UNCHANGED <<disk, quiet, proven, undoPoint>>
  BY DEF MarkInProgress, ghost
<1>4. /\ IntentsOK' /\ Gens' /\ IntentNeverLost'
      /\ active'[run.slug] = [status |-> "InProgress", gen |-> run.gen]
  BY <1>1, SaveIntentIs DEF MarkInProgress, IInv, IntentsOK, Statuses, ghost
<1>5. GraphOK' /\ OneUndoRevertsMain'
  BY <1>3, GraphStays
<1>6. RunOK' /\ SuccessIsVerified' /\ OutcomeMatchesDisk'
  BY <1>1, <1>2, <1>3, UnderWay, GoesOn
<1>7. Held'
  BY <1>2, <1>4 DEF Held, Archiving, NoFile
<1>8. Verdict'
  BY <1>1, <1>2, <1>3 DEF IInv, Verdict, At, Archiving
<1> QED
  BY <1>4, <1>5, <1>6, <1>7, <1>8 DEF IInv

\* The text of main is saved, and is what one undo must bring back.
LEMMA SaveSnapshotKeeps == ASSUME IInv, SaveSnapshot PROVE IInv'
<1>1. run.at = "snapshot" /\ ~At("idle")
  BY DEF SaveSnapshot, At
<1>2. /\ run' \in Runs /\ run'.at = "task"
      /\ run'.slug = run.slug /\ run'.gen = run.gen /\ run'.task = run.task
      /\ run'.passed = run.passed /\ run'.total = run.total
      /\ run'.first = run.first /\ run'.attempted = run.attempted
      /\ run'.applied = run.applied
  BY <1>1, UnderWay, GotoIs DEF SaveSnapshot, Steps
<1>3. /\ UNCHANGED <<files, raced, quiet>> /\ specs' = specs /\ outcome' = outcome
      /\ graph' = graph /\ quiet' = quiet /\ proven' = proven
      /\ snaps' = Append(snaps, graph[Main]) /\ undoPoint' = graph[Main]
  BY DEF SaveSnapshot, files
<1>4. IntentsOK' /\ Gens' /\ IntentNeverLost'
  BY <1>3, IntentsStay
<1>5. GraphOK /\ snaps \in Seq(Texts \cup {Torn}) /\ graph[Main] \in Texts \cup {Torn}
  BY DEF IInv, GraphOK
<1>6. /\ snaps' \in Seq(Texts \cup {Torn}) /\ snaps' # <<>>
      /\ snaps'[Len(snaps')] = graph[Main]
  BY <1>3, <1>5
<1>7. GraphOK'
  BY <1>3, <1>5, <1>6 DEF GraphOK
<1>8. OneUndoRevertsMain'
  BY <1>3, <1>6 DEF OneUndoRevertsMain, Last
<1>9. RunOK' /\ SuccessIsVerified' /\ OutcomeMatchesDisk'
  BY <1>1, <1>2, <1>3, UnderWay, GoesOn
<1>10. Held'
  BY <1>1, <1>2, <1>3, HeldStays DEF Archiving
<1>11. Verdict'
  BY <1>1, <1>2, <1>3 DEF IInv, Verdict, At, Archiving
<1> QED
  BY <1>4, <1>7, <1>8, <1>9, <1>10, <1>11 DEF IInv

\* The source of a task is read, or found torn.
LEMMA ReadSourceKeeps == ASSUME IInv, ReadSource PROVE IInv'
<1>1. /\ run.at = "task" /\ ~At("idle")
      /\ UNCHANGED <<files, raced>> /\ UNCHANGED <<files, quiet, raced>>
      /\ UNCHANGED <<disk, quiet, proven, undoPoint>>
      /\ specs' = specs /\ quiet' = quiet /\ proven' = proven
  BY DEF ReadSource, At, files, ghost
<1>2. IntentsOK' /\ Gens' /\ IntentNeverLost' /\ GraphOK' /\ OneUndoRevertsMain'
  BY <1>1, IntentsStay, GraphStays
<1>3. CASE Return(Error(run))
  BY <1>1, <1>2, <1>3, ErrorEnds DEF IInv
<1>4. CASE /\ run' = [run EXCEPT !.at = "mutate", !.mod = TargetOf(Task)]
           /\ outcome' = outcome
  <2>1. TargetOf(Task) \in Modules
    BY <1>1, UnderWay DEF TargetOf, TaskSet, Modules
  <2>2. /\ run' \in Runs /\ run'.at = "mutate"
        /\ run'.slug = run.slug /\ run'.gen = run.gen /\ run'.task = run.task
        /\ run'.passed = run.passed /\ run'.total = run.total
        /\ run'.first = run.first /\ run'.attempted = run.attempted
        /\ run'.applied = run.applied
    BY <1>1, <1>4, <2>1, UnderWay DEF Runs, Steps
  <2>3. RunOK' /\ SuccessIsVerified' /\ OutcomeMatchesDisk'
    BY <1>1, <1>4, <2>2, UnderWay, GoesOn
  <2>4. Held'
    BY <1>1, <2>2, HeldStays DEF Archiving
  <2>5. Verdict'
    BY <1>1, <1>4, <2>2 DEF IInv, Verdict, At, Archiving
  <2> QED
    BY <1>2, <2>3, <2>4, <2>5 DEF IInv
<1> QED
  BY <1>3, <1>4 DEF ReadSource

\* The model replies.
LEMMA MutationReplyKeeps == ASSUME IInv, MutationReply PROVE IInv'
<1>1. /\ run.at = "mutate" /\ ~At("idle") /\ outcome' = outcome
      /\ UNCHANGED <<files, raced>> /\ UNCHANGED <<files, quiet, raced>>
      /\ UNCHANGED <<disk, quiet, proven, undoPoint>>
      /\ specs' = specs /\ quiet' = quiet /\ proven' = proven
  BY DEF MutationReply, At, files, ghost
<1>2. IntentsOK' /\ Gens' /\ IntentNeverLost' /\ GraphOK' /\ OneUndoRevertsMain'
  BY <1>1, IntentsStay, GraphStays
<1>3. ASSUME NEW step \in {"write", "fail"}, Goto(step) PROVE IInv'
  <2>1. /\ run' \in Runs /\ run'.at = step
        /\ run'.slug = run.slug /\ run'.gen = run.gen /\ run'.task = run.task
        /\ run'.passed = run.passed /\ run'.total = run.total
        /\ run'.first = run.first /\ run'.attempted = run.attempted
        /\ run'.applied = run.applied
    BY <1>1, <1>3, UnderWay, GotoIs DEF Steps
  <2>2. RunOK' /\ SuccessIsVerified' /\ OutcomeMatchesDisk'
    BY <1>1, <2>1, UnderWay, GoesOn
  <2>3. Held'
    BY <1>1, <2>1, HeldStays DEF Archiving
  <2>4. Verdict'
    BY <1>1, <2>1 DEF IInv, Verdict, At, Archiving
  <2> QED
    BY <1>2, <2>2, <2>3, <2>4 DEF IInv
<1> QED
  BY <1>3 DEF MutationReply

\* A module is written, and nothing is verified any more.
LEMMA WriteTaskKeeps == ASSUME IInv, WriteTask PROVE IInv'
<1>1. /\ run.at = "write" /\ ~At("idle") /\ outcome' = outcome
      /\ UNCHANGED <<files, raced>> /\ UNCHANGED <<files, quiet, raced>>
      /\ specs' = specs /\ quiet' = quiet /\ snaps' = snaps /\ undoPoint' = undoPoint
  BY DEF WriteTask, At, files
<1>2. IntentsOK' /\ Gens' /\ IntentNeverLost'
  BY <1>1, IntentsStay
<1>3. /\ graph' \in [Modules -> Texts \cup {LibText, Absent, Torn}]
      /\ graph'[Main] \in Texts \cup {Torn} /\ proven' = FALSE
  BY WriteGraphIs DEF WriteTask, IInv
<1>4. GraphOK' /\ OneUndoRevertsMain'
  BY <1>1, <1>3 DEF IInv, GraphOK, OneUndoRevertsMain
<1>5. /\ run' \in Runs /\ run'.at \in {"verify", "task"}
      /\ run'.slug = run.slug /\ run'.gen = run.gen /\ run'.task \in 1..Len(Tasks)
      /\ run'.passed = run.passed /\ run'.total = run.total
      /\ run'.first = run.first /\ run'.attempted = run.attempted
      /\ run'.applied = run.applied
  <2>1. run \in Runs /\ run.task \in 1..Len(Tasks) /\ Len(Tasks) \in Nat
    BY <1>1, UnderWay
  <2>2. CASE LastTask /\ run' = [run EXCEPT !.at = "verify"]
    BY <2>1, <2>2 DEF Runs, Steps
  <2>3. CASE ~LastTask /\ run' = [run EXCEPT !.at = "task", !.task = @ + 1]
    <3>1. run.task + 1 \in 1..Len(Tasks) /\ run.task + 1 \in Nat
      BY <2>1, <2>3 DEF LastTask
    <3> QED
      BY <2>1, <2>3, <3>1 DEF Runs, Steps
  <2> QED
    BY <2>2, <2>3 DEF WriteTask
<1>6. RunOK' /\ SuccessIsVerified' /\ OutcomeMatchesDisk'
  BY <1>1, <1>5, UnderWay, GoesOn
<1>7. Held'
  BY <1>1, <1>5, HeldStays DEF Archiving
<1>8. Verdict'
  BY <1>1, <1>5 DEF IInv, Verdict, At, Archiving
<1> QED
  BY <1>2, <1>4, <1>6, <1>7, <1>8 DEF IInv

\* Tests are run: the run goes on to archive, or to the repair cycle.
LEMMA VerifyKeeps == ASSUME IInv, Verify PROVE IInv'
<1>1. /\ run.at = "verify" /\ ~At("idle") /\ outcome' = outcome
      /\ UNCHANGED <<files, raced>> /\ UNCHANGED <<files, quiet, raced>>
      /\ specs' = specs /\ quiet' = quiet /\ snaps' = snaps /\ undoPoint' = undoPoint
      /\ graph' = graph
  BY DEF Verify, At, files, disk
<1>2. PICK p \in 0..run.total :
        /\ run' = IF p = run.total
                  THEN [run EXCEPT !.at = "archive", !.passed = p, !.first = TRUE]
                  ELSE [run EXCEPT !.at = "repair", !.passed = p, !.attempted = TRUE,
                                   !.todo = {m \in Modules : graph[m] # Absent}]
        /\ proven' = (p = run.total)
  BY DEF Verify
<1>3. run \in Runs /\ p \in Nat /\ p <= run.total
  BY <1>1, UnderWay DEF Runs
<1>4. IntentsOK' /\ Gens' /\ IntentNeverLost'
  BY <1>1, IntentsStay
<1>5. proven' \in BOOLEAN
  BY <1>2
<1>6. GraphOK' /\ OneUndoRevertsMain'
  BY <1>1, <1>5 DEF IInv, GraphOK, OneUndoRevertsMain
<1>7. ~run.first /\ ~run.attempted /\ (run.applied => run.attempted)
  BY <1>1 DEF IInv, Verdict, Archiving
<1>8. CASE p = run.total
  <2>1. /\ run' \in Runs /\ run'.at = "archive"
        /\ run'.slug = run.slug /\ run'.gen = run.gen /\ run'.task = run.task
        /\ run'.passed = p /\ run'.total = run.total
        /\ run'.first = TRUE /\ run'.attempted = run.attempted /\ run'.applied = run.applied
    BY <1>2, <1>3, <1>8 DEF Runs, Steps
  <2>2. proven' = TRUE
    BY <1>2, <1>8
  <2>3. RunOK' /\ SuccessIsVerified' /\ OutcomeMatchesDisk'
    BY <1>1, <1>3, <2>1, UnderWay, GoesOn
  <2>4. Held'
    BY <1>1, <2>1, HeldStays DEF Archiving
  <2>5. Verdict'
    BY <1>1, <1>7, <2>1, <2>2, UnderWay DEF Verdict, Archiving
  <2> QED
    BY <1>4, <1>6, <2>3, <2>4, <2>5 DEF IInv
<1>9. CASE p # run.total
  <2>1. /\ run' \in Runs /\ run'.at = "repair"
        /\ run'.slug = run.slug /\ run'.gen = run.gen /\ run'.task = run.task
        /\ run'.passed = p /\ run'.total = run.total
        /\ run'.first = run.first /\ run'.attempted = TRUE
    BY <1>2, <1>3, <1>9 DEF Runs, Steps
  <2>2. p < run.total
    BY <1>3, <1>9 DEF Runs
  <2>3. RunOK' /\ SuccessIsVerified' /\ OutcomeMatchesDisk'
    BY <1>1, <1>3, <2>1, UnderWay, GoesOn
  <2>4. Held'
    BY <1>1, <2>1, HeldStays DEF Archiving
  <2>5. Verdict'
    BY <1>1, <1>7, <2>1, <2>2, UnderWay DEF Verdict, Archiving
  <2> QED
    BY <1>4, <1>6, <2>3, <2>4, <2>5 DEF IInv
<1> QED
  BY <1>8, <1>9

\* The repair cycle looks at a module: it is torn, skipped, or written next.
LEMMA RepairModuleKeeps == ASSUME IInv, RepairModule PROVE IInv'
<1>1. /\ run.at = "repair" /\ ~At("idle")
      /\ UNCHANGED <<files, raced>> /\ UNCHANGED <<files, quiet, raced>>
      /\ UNCHANGED <<disk, quiet, proven, undoPoint>>
      /\ specs' = specs /\ quiet' = quiet /\ proven' = proven
  BY DEF RepairModule, At, files, ghost
<1>2. IntentsOK' /\ Gens' /\ IntentNeverLost' /\ GraphOK' /\ OneUndoRevertsMain'
  BY <1>1, IntentsStay, GraphStays
<1>3. run \in Runs /\ run.todo \subseteq Modules
  BY <1>1, UnderWay DEF Runs
<1>4. PICK m \in run.todo :
        \/ Return(Error(run))
        \/ SkipModule(m) /\ outcome' = outcome
        \/ /\ run' = [run EXCEPT !.at = "writeRepair", !.mod = m, !.todo = @ \ {m}]
           /\ outcome' = outcome
  BY DEF RepairModule
<1>5. CASE Return(Error(run))
  BY <1>1, <1>2, <1>5, ErrorEnds DEF IInv
<1>6. ASSUME run' \in Runs, run'.at \in {"repair", "writeRepair"},
             run'.slug = run.slug, run'.gen = run.gen, run'.task = run.task,
             run'.passed = run.passed, run'.total = run.total,
             run'.first = run.first, run'.attempted = run.attempted,
             run'.applied = run.applied, outcome' = outcome
      PROVE  IInv'
  <2>1. RunOK' /\ SuccessIsVerified' /\ OutcomeMatchesDisk'
    BY <1>1, <1>6, UnderWay, GoesOn
  <2>2. Held'
    BY <1>1, <1>6, HeldStays DEF Archiving
  <2>3. Verdict'
    BY <1>1, <1>6 DEF IInv, Verdict, At, Archiving
  <2> QED
    BY <1>2, <2>1, <2>2, <2>3 DEF IInv
<1>7. CASE SkipModule(m) /\ outcome' = outcome
  BY <1>1, <1>3, <1>6, <1>7 DEF SkipModule, Runs, Steps
<1>8. CASE /\ run' = [run EXCEPT !.at = "writeRepair", !.mod = m, !.todo = @ \ {m}]
           /\ outcome' = outcome
  BY <1>1, <1>3, <1>6, <1>8 DEF Runs, Steps
<1> QED
  BY <1>4, <1>5, <1>7, <1>8

\* A repaired module is written.
LEMMA WriteRepairKeeps == ASSUME IInv, WriteRepair PROVE IInv'
<1>1. /\ run.at = "writeRepair" /\ ~At("idle") /\ outcome' = outcome
      /\ UNCHANGED <<files, raced>> /\ UNCHANGED <<files, quiet, raced>>
      /\ specs' = specs /\ quiet' = quiet /\ snaps' = snaps /\ undoPoint' = undoPoint
  BY DEF WriteRepair, At, files
<1>2. IntentsOK' /\ Gens' /\ IntentNeverLost'
  BY <1>1, IntentsStay
<1>3. /\ graph' \in [Modules -> Texts \cup {LibText, Absent, Torn}]
      /\ graph'[Main] \in Texts \cup {Torn} /\ proven' = FALSE
  BY WriteGraphIs DEF WriteRepair, IInv
<1>4. GraphOK' /\ OneUndoRevertsMain'
  BY <1>1, <1>3 DEF IInv, GraphOK, OneUndoRevertsMain
<1>5. /\ run' \in Runs /\ run'.at = "repair"
      /\ run'.slug = run.slug /\ run'.gen = run.gen /\ run'.task = run.task
      /\ run'.passed = run.passed /\ run'.total = run.total
      /\ run'.first = run.first /\ run'.attempted = run.attempted
  BY <1>1, UnderWay DEF WriteRepair, Runs, Steps
<1>6. run.attempted
  BY <1>1 DEF IInv, Verdict
<1>7. RunOK' /\ SuccessIsVerified' /\ OutcomeMatchesDisk'
  BY <1>1, <1>5, UnderWay, GoesOn
<1>8. Held'
  BY <1>1, <1>5, HeldStays DEF Archiving
<1>9. Verdict'
  BY <1>1, <1>5, <1>6 DEF IInv, Verdict, At, Archiving
<1> QED
  BY <1>2, <1>4, <1>7, <1>8, <1>9 DEF IInv

\* The repair cycle ends, with a new verification if a repair was written.
LEMMA EndRepairKeeps == ASSUME IInv, EndRepair PROVE IInv'
<1>1. /\ run.at = "repair" /\ ~At("idle") /\ outcome' = outcome
      /\ UNCHANGED <<files, raced>> /\ UNCHANGED <<files, quiet, raced>>
      /\ specs' = specs /\ quiet' = quiet /\ snaps' = snaps /\ undoPoint' = undoPoint
      /\ graph' = graph
  BY DEF EndRepair, At, files, disk
<1>2. IntentsOK' /\ Gens' /\ IntentNeverLost'
  BY <1>1, IntentsStay
<1>3. /\ run.passed < run.total /\ ~run.first /\ run.attempted
      /\ run \in Runs
  BY <1>1, UnderWay DEF IInv, Verdict
<1>4. CASE run.applied /\ Reverify
  <2>1. PICK p \in 0..run.total :
           /\ run' = [run EXCEPT !.at = "archive", !.passed = p]
           /\ proven' = (p = run.total)
    BY <1>4 DEF Reverify
  <2>2. p \in Nat /\ p <= run.total
    BY <1>3 DEF Runs
  <2>3. /\ run' \in Runs /\ run'.at = "archive"
        /\ run'.slug = run.slug /\ run'.gen = run.gen /\ run'.task = run.task
        /\ run'.passed = p /\ run'.total = run.total
        /\ run'.first = run.first /\ run'.attempted = run.attempted
        /\ run'.applied = run.applied
    BY <1>3, <2>1, <2>2 DEF Runs, Steps
  <2>4. proven' \in BOOLEAN /\ (p = run.total => proven')
    BY <2>1
  <2>5. GraphOK' /\ OneUndoRevertsMain'
    BY <1>1, <2>4 DEF IInv, GraphOK, OneUndoRevertsMain
  <2>6. RunOK' /\ SuccessIsVerified' /\ OutcomeMatchesDisk'
    BY <1>1, <2>2, <2>3, UnderWay, GoesOn
  <2>7. Held'
    BY <1>1, <2>3, HeldStays DEF Archiving
  <2>8. Verdict'
    BY <1>1, <1>3, <1>4, <2>3, <2>4, UnderWay DEF Verdict, Archiving
  <2> QED
    BY <1>2, <2>5, <2>6, <2>7, <2>8 DEF IInv
<1>5. CASE Goto("archive") /\ proven' = proven
  <2>1. /\ run' \in Runs /\ run'.at = "archive"
        /\ run'.slug = run.slug /\ run'.gen = run.gen /\ run'.task = run.task
        /\ run'.passed = run.passed /\ run'.total = run.total
        /\ run'.first = run.first /\ run'.attempted = run.attempted
        /\ run'.applied = run.applied
    BY <1>3, <1>5, GotoIs DEF Steps
  <2>2. GraphOK' /\ OneUndoRevertsMain'
    BY <1>1, <1>5 DEF IInv, GraphOK, OneUndoRevertsMain
  <2>3. RunOK' /\ SuccessIsVerified' /\ OutcomeMatchesDisk'
    BY <1>1, <2>1, UnderWay, GoesOn
  <2>4. Held'
    BY <1>1, <2>1, HeldStays DEF Archiving
  <2>5. run.passed # run.total
    BY <1>3 DEF Runs
  <2>6. Verdict'
    BY <1>1, <1>3, <2>1, <2>5, UnderWay DEF IInv, Verdict, Archiving
  <2> QED
    BY <1>2, <2>2, <2>3, <2>4, <2>6 DEF IInv
<1> QED
  BY <1>4, <1>5 DEF EndRepair

-----------------------------------------------------------------------------
(* The archive *)

\* The archived copy, whole or torn, is of the intent in the active file, which
\* is still there.
LEMMA ArchivedIs ==
    ASSUME IInv, NEW s \in Slugs, Intact(s),
           NEW r \in [state : {"torn", "kept"}, gen : 0..MaxGen, passed : Nat, total : Nat],
           r.gen = active[s].gen, archived' = [archived EXCEPT ![s] = r],
           UNCHANGED <<specs, active, companion, deleted, cut, raced>>
    PROVE  /\ IntentsOK' /\ Gens' /\ IntentNeverLost'
           /\ archived'[s] = r
<1>1. IntentsOK /\ Gens /\ IntentNeverLost
  BY DEF IInv
<1>2. archived'[s] = r /\ \A t \in Slugs \ {s} : archived'[t] = archived[t]
  BY <1>1 DEF IntentsOK
<1>3. IntentsOK'
  BY <1>1 DEF IntentsOK
<1>4. active[s] # NoFile /\ r.gen \in 1..Len(specs[s])
  <2>1. active[s] # NoFile
    BY DEF Intact, NoFile
  <2> QED
    BY <1>1, <2>1 DEF Gens
<1>5. Gens'
  BY <1>1, <1>2, <1>4 DEF Gens, IntentsOK
<1>6. ASSUME NEW t \in Slugs \ raced, NEW g \in 1..Len(specs[t])
      PROVE  \/ Intact(t) /\ active[t].gen = g
             \/ g \in deleted[t]
             \/ InHistory(t, g)' \/ archived'[t].gen > g
             \/ g \in cut[t]
  <2>1. \/ Intact(t) /\ active[t].gen = g
        \/ g \in deleted[t]
        \/ InHistory(t, g) \/ archived[t].gen > g
        \/ g \in cut[t]
    BY <1>1 DEF IntentNeverLost
  <2>2. CASE t # s
    BY <1>2, <2>1, <2>2 DEF InHistory
  <2>3. CASE t = s /\ (InHistory(t, g) \/ archived[t].gen > g)
    <3>1. archived[t].gen \in Nat /\ r.gen \in Nat /\ archived[t].gen <= r.gen
      BY <1>1, <1>4, <2>3, BoundAssumption DEF IntentsOK, Gens
    <3>2. archived[t].gen >= g
      BY <2>3, <3>1 DEF InHistory
    <3>3. r.gen = g \/ r.gen > g
      BY <3>1, <3>2
    <3> QED
      BY <1>2, <2>3, <3>3
  <2> QED
    BY <2>1, <2>2, <2>3
<1>7. IntentNeverLost'
  BY <1>6 DEF IntentNeverLost, Intact
<1> QED
  BY <1>2, <1>3, <1>5, <1>7

\* The intent is archived with the counts of the run, or is not there any more.
LEMMA ArchiveKeeps == ASSUME IInv, Archive PROVE IInv'
<1>1. /\ run.at = "archive" /\ ~At("idle")
      /\ UNCHANGED <<specs, companion, deleted, cut, raced>>
      /\ UNCHANGED <<disk, quiet, proven, undoPoint>>
      /\ specs' = specs /\ quiet' = quiet /\ proven' = proven /\ raced' = raced
  BY DEF Archive, At, ghost
<1>2. GraphOK' /\ OneUndoRevertsMain'
  BY <1>1, GraphStays
<1>3. CASE Return(Error(run)) /\ UNCHANGED <<active, archived>>
  <2>1. IntentsOK' /\ Gens' /\ IntentNeverLost'
    BY <1>1, <1>3, IntentsStay DEF files
  <2> QED
    BY <1>1, <1>2, <1>3, <2>1, ErrorEnds DEF IInv
<1>4. CASE Intact(run.slug) /\ WriteArchive(run.slug) /\ Goto("removeActive") /\ outcome' = outcome
  <2> DEFINE r == [state |-> "kept", gen |-> active[run.slug].gen,
                   passed |-> run.passed, total |-> run.total]
  <2>1. /\ run' \in Runs /\ run'.at = "removeActive"
        /\ run'.slug = run.slug /\ run'.gen = run.gen /\ run'.task = run.task
        /\ run'.passed = run.passed /\ run'.total = run.total
        /\ run'.first = run.first /\ run'.attempted = run.attempted
        /\ run'.applied = run.applied
    BY <1>1, <1>4, UnderWay, GotoIs DEF Steps
  <2>2. Intact(run.slug) /\ run.slug \in Slugs /\ run.passed \in Nat /\ run.total \in Nat
    BY <1>1, <1>4, UnderWay DEF Runs
  <2>3. r \in [state : {"torn", "kept"}, gen : 0..MaxGen, passed : Nat, total : Nat]
    BY <2>2 DEF IInv, IntentsOK
  <2>4. IntentsOK' /\ Gens' /\ IntentNeverLost' /\ archived'[run.slug] = r
    BY <1>1, <1>4, <2>2, <2>3, ArchivedIs DEF WriteArchive
  <2>5. RunOK' /\ SuccessIsVerified' /\ OutcomeMatchesDisk'
    BY <1>1, <1>4, <2>1, UnderWay, GoesOn
  <2>6. active' = active
    BY <1>4 DEF WriteArchive
  <2>7. Held'
    BY <1>1, <2>1, <2>4, <2>6 DEF IInv, Held, At, Archiving
  <2>8. Verdict'
    BY <1>1, <1>4, <2>1 DEF IInv, Verdict, At, Archiving
  <2> QED
    BY <1>2, <2>4, <2>5, <2>7, <2>8 DEF IInv
<1> QED
  BY <1>3, <1>4 DEF Archive

\* The active file goes once its copy is in the history.
LEMMA RemoveActiveKeeps == ASSUME IInv, RemoveActive PROVE IInv'
<1>1. /\ run.at = "removeActive" /\ ~At("idle") /\ outcome' = outcome
      /\ UNCHANGED <<disk, quiet, proven, undoPoint>>
      /\ specs' = specs /\ companion' = companion /\ archived' = archived
      /\ deleted' = deleted /\ cut' = cut /\ quiet' = quiet /\ proven' = proven /\ raced' = raced
      /\ active' = [active EXCEPT ![run.slug] = NoFile]
  BY DEF RemoveActive, At, ghost
<1>2. GraphOK' /\ OneUndoRevertsMain'
  BY <1>1, GraphStays
<1>3. /\ run' \in Runs /\ run'.at = "moveCompanion"
      /\ run'.slug = run.slug /\ run'.gen = run.gen /\ run'.task = run.task
      /\ run'.passed = run.passed /\ run'.total = run.total
      /\ run'.first = run.first /\ run'.attempted = run.attempted
      /\ run'.applied = run.applied
  BY <1>1, UnderWay, GotoIs DEF RemoveActive, Steps
<1>4. IntentsOK /\ Gens /\ Held /\ IntentNeverLost /\ run.slug \in Slugs
  BY <1>1, UnderWay DEF IInv
<1>5. active'[run.slug] = NoFile /\ \A s \in Slugs \ {run.slug} : active'[s] = active[s]
  BY <1>1, <1>4 DEF IntentsOK
<1>6. IntentsOK'
  BY <1>1, <1>4, BoundAssumption DEF IntentsOK, NoFile, Statuses
<1>7. Gens'
  BY <1>1, <1>4, <1>5 DEF Gens
<1>8. run.slug \notin raced =>
          /\ active[run.slug].gen = run.gen
          /\ archived[run.slug].state = "kept" /\ archived[run.slug].gen = run.gen
  BY <1>1, <1>4 DEF Held, Archiving
<1>9. IntentNeverLost'
  BY <1>1, <1>4, <1>5, <1>8 DEF IntentNeverLost, Intact, InHistory
<1>10. RunOK' /\ SuccessIsVerified' /\ OutcomeMatchesDisk'
  BY <1>1, <1>3, UnderWay, GoesOn
<1>11. Held'
  BY <1>1, <1>3, <1>4, <1>5 DEF Held, Archiving
<1>12. Verdict'
  BY <1>1, <1>3 DEF IInv, Verdict, At, Archiving
<1> QED
  BY <1>2, <1>6, <1>7, <1>9, <1>10, <1>11, <1>12 DEF IInv

-----------------------------------------------------------------------------
(* The end of a run *)

\* The companion directory follows, and a run that passed reports success.
LEMMA MoveCompanionKeeps == ASSUME IInv, MoveCompanion PROVE IInv'
<1>1. /\ run.at = "moveCompanion" /\ ~At("idle")
      /\ UNCHANGED <<disk, quiet, proven, undoPoint>>
      /\ specs' = specs /\ active' = active /\ archived' = archived
      /\ deleted' = deleted /\ cut' = cut /\ quiet' = quiet /\ proven' = proven /\ raced' = raced
      /\ companion' = [companion EXCEPT ![run.slug] = IF @ = "active" THEN "history" ELSE @]
  BY DEF MoveCompanion, At, ghost
<1>2. IntentsOK /\ Gens /\ Held /\ Verdict /\ IntentNeverLost /\ run.slug \in Slugs
  BY <1>1, UnderWay DEF IInv
<1>3. GraphOK' /\ OneUndoRevertsMain'
  BY <1>1, GraphStays
<1>4. /\ companion' \in [Slugs -> {"none", "active", "history", "deleted"}]
      /\ companion'[run.slug] # "active"
  BY <1>1, <1>2 DEF IntentsOK
<1>5. IntentsOK'
  BY <1>1, <1>2, <1>4 DEF IntentsOK
<1>6. Gens' /\ IntentNeverLost'
  BY <1>1, <1>2 DEF Gens, IntentNeverLost, Intact, InHistory
<1>7. CASE run.passed # run.total /\ Goto("saveFailed") /\ outcome' = outcome
  <2>1. /\ run' \in Runs /\ run'.at = "saveFailed"
        /\ run'.slug = run.slug /\ run'.gen = run.gen /\ run'.task = run.task
        /\ run'.passed = run.passed /\ run'.total = run.total
        /\ run'.first = run.first /\ run'.attempted = run.attempted
        /\ run'.applied = run.applied
    BY <1>1, <1>7, UnderWay, GotoIs DEF Steps
  <2>2. RunOK' /\ SuccessIsVerified' /\ OutcomeMatchesDisk'
    BY <1>1, <1>7, <2>1, UnderWay, GoesOn
  <2>3. Held'
    BY <1>1, <1>2, <2>1 DEF Held, Archiving
  <2>4. Verdict'
    BY <1>1, <1>2, <1>7, <2>1 DEF Verdict, At, Archiving
  <2> QED
    BY <1>3, <1>5, <1>6, <2>2, <2>3, <2>4 DEF IInv
<1>8. CASE run.passed = run.total /\ run' = NoRun /\ outcome' = Finish(run, TRUE, "completed")
  <2>1. /\ outcome'.slug = run.slug /\ outcome'.gen = run.gen
        /\ outcome'.success = TRUE /\ outcome'.terminal = "completed"
        /\ outcome'.first = run.first /\ outcome'.attempted = run.attempted
        /\ outcome'.applied = run.applied
        /\ outcome'.passed = run.passed /\ outcome'.total = run.total
        /\ outcome'.repaired = IF run.attempted THEN "yes" ELSE "none"
    BY <1>1, <1>8 DEF Finish
  <2>2. /\ quiet => proven
        /\ run.first \/ run.applied
        /\ run.first => ~run.attempted
        /\ run.applied => run.attempted
    BY <1>1, <1>2, <1>8 DEF Verdict, Archiving
  <2>3. SuccessIsVerified'
    <3>1. quiet' => proven'
      BY <1>1, <2>2
    <3>2. outcome'.passed = outcome'.total
      BY <1>8, <2>1
    <3> QED
      BY <3>1, <3>2 DEF SuccessIsVerified
  <2>4. quiet => /\ active[run.slug] = NoFile
                 /\ archived[run.slug] = [state |-> "kept", gen |-> run.gen,
                                          passed |-> run.passed, total |-> run.total]
    BY <1>1, <1>2 DEF Held, Archiving
  <2>5. OutcomeMatchesDisk'
    <3>1. quiet' =>
              /\ active'[outcome'.slug] = NoFile /\ companion'[outcome'.slug] # "active"
              /\ archived'[outcome'.slug] = [state |-> "kept", gen |-> outcome'.gen,
                                             passed |-> outcome'.total,
                                             total |-> outcome'.total]
      <4>1. quiet' => quiet
        BY <1>1
      <4>2. outcome'.slug = run.slug /\ outcome'.gen = run.gen
            /\ run.passed = outcome'.total /\ run.total = outcome'.total
        BY <1>8, <2>1
      <4> QED
        BY <1>1, <1>4, <2>4, <4>1, <4>2
    <3>2. /\ outcome'.first => ~outcome'.attempted
          /\ outcome'.applied => outcome'.attempted
          /\ outcome'.first \/ outcome'.applied
          /\ outcome'.repaired = IF outcome'.attempted THEN "yes" ELSE "none"
      BY <2>1, <2>2
    <3> QED
      BY <2>1, <3>1, <3>2 DEF OutcomeMatchesDisk
  <2> QED
    BY <1>3, <1>5, <1>6, <1>8, <2>3, <2>5, Ended DEF IInv
<1> QED
  BY <1>7, <1>8 DEF MoveCompanion, Failing, Return

\* A reported failure leaves the intent Failed.
LEMMA FailedIs ==
    ASSUME IInv, run.at \in {"fail", "saveFailed"}, SaveIntent("Failed"),
           NEW terminal \in {"clarification_needed", "mutation_failed", "verifier_failed"},
           terminal = "verifier_failed" => run.at = "saveFailed",
           Return(Finish(run, FALSE, terminal)),
           UNCHANGED <<specs, companion, archived, deleted, cut, disk, ghost>>
    PROVE  IInv'
<1>1. ~At("idle")
  BY DEF At
<1>2. /\ UNCHANGED <<disk, quiet, proven, undoPoint>>
      /\ UNCHANGED <<specs, companion, archived, deleted, cut, raced>>
  BY DEF ghost
<1>3. run' = NoRun /\ outcome' = Finish(run, FALSE, terminal)
  BY DEF Return
<1>4. /\ IntentsOK' /\ Gens' /\ IntentNeverLost'
      /\ active'[run.slug] = [status |-> "Failed", gen |-> run.gen]
  BY <1>2, SaveIntentIs DEF IInv, IntentsOK, Statuses
<1>5. GraphOK' /\ OneUndoRevertsMain'
  BY <1>2, GraphStays
<1>6. RunOK' /\ Held' /\ Verdict'
  BY <1>3, Ended
<1>7. /\ outcome'.slug = run.slug /\ outcome'.gen = run.gen
      /\ outcome'.success = FALSE /\ outcome'.terminal = terminal
      /\ outcome'.first = run.first /\ outcome'.attempted = run.attempted
      /\ outcome'.applied = run.applied
      /\ outcome'.passed = run.passed /\ outcome'.total = run.total
  BY <1>3 DEF Finish
<1>8. /\ run.first => ~run.attempted
      /\ run.applied => run.attempted
      /\ run.at = "saveFailed" => run.passed # run.total
  BY DEF IInv, Verdict
<1>9. run.at = "saveFailed" => run.passed < run.total
  BY <1>1, <1>8, UnderWay DEF Runs
<1>10. SuccessIsVerified'
  BY <1>7 DEF SuccessIsVerified
<1>11. OutcomeMatchesDisk'
  BY <1>4, <1>7, <1>8, <1>9 DEF OutcomeMatchesDisk
<1> QED
  BY <1>4, <1>5, <1>6, <1>10, <1>11 DEF IInv

\* A task that failed, and an intent that failed its tests.
LEMMA FailKeeps == ASSUME IInv, FailTask \/ SaveFailed PROVE IInv'
  BY FailedIs DEF FailTask, SaveFailed, At

\* A death, or an I/O error, that leaves no file torn.
LEMMA DieKeeps == ASSUME IInv, Die PROVE IInv'
<1>1. /\ ~At("idle") /\ Return(Error(run)) /\ UNCHANGED <<files, raced>>
      /\ UNCHANGED <<disk, quiet, proven, undoPoint>>
  BY DEF Die, ghost
<1> QED
  BY <1>1, ErrorEnds, IntentsStay, GraphStays DEF IInv

\* A death in the write of the intent.
LEMMA DieWritingIntentKeeps == ASSUME IInv, DieWritingIntent PROVE IInv'
<1>1. /\ run.at \in {"mark", "fail", "saveFailed"} /\ ~At("idle") /\ Return(Error(run))
      /\ SaveIntent("torn")
      /\ UNCHANGED <<specs, companion, archived, deleted, raced>>
      /\ UNCHANGED <<disk, quiet, proven, undoPoint>>
  BY DEF DieWritingIntent, TearsIntent, At, ghost
<1>2. IntentsOK /\ run.slug \in Slugs /\ run.gen \in 1..MaxGen
  BY <1>1, UnderWay DEF IInv
<1>3. /\ cut' \in [Slugs -> SUBSET (1..MaxGen)]
      /\ \A s \in Slugs : cut[s] \subseteq cut'[s]
      /\ run.gen \in cut'[run.slug] \/ InHistory(run.slug, run.gen)
  BY <1>2 DEF DieWritingIntent, IntentsOK
<1>4. IntentsOK' /\ Gens' /\ IntentNeverLost'
  BY <1>1, <1>3, SaveIntentIs DEF Statuses
<1> QED
  BY <1>1, <1>4, ErrorEnds, GraphStays DEF IInv

\* A death in the write of the snapshot: the newest is torn.
LEMMA DieWritingSnapshotKeeps == ASSUME IInv, DieWritingSnapshot PROVE IInv'
<1>1. /\ ~At("idle") /\ Return(Error(run)) /\ UNCHANGED <<files, raced>>
      /\ graph' = graph /\ quiet' = quiet /\ proven' = proven
      /\ snaps' = Append(snaps, Torn) /\ undoPoint' = Absent
  BY DEF DieWritingSnapshot, At, files
<1>2. GraphOK
  BY DEF IInv
<1>3. snaps' \in Seq(Texts \cup {Torn})
  BY <1>1, <1>2 DEF GraphOK
<1>4. GraphOK' /\ OneUndoRevertsMain'
  BY <1>1, <1>2, <1>3 DEF GraphOK, OneUndoRevertsMain
<1> QED
  BY <1>1, <1>4, ErrorEnds, IntentsStay DEF IInv

\* A death in the write of a module.
LEMMA DieWritingGraphKeeps == ASSUME IInv, DieWritingGraph PROVE IInv'
<1>1. /\ ~At("idle") /\ Return(Error(run)) /\ UNCHANGED <<files, raced>>
      /\ quiet' = quiet /\ snaps' = snaps /\ undoPoint' = undoPoint
  BY DEF DieWritingGraph, TearsGraph, At, files
<1>2. /\ graph' \in [Modules -> Texts \cup {LibText, Absent, Torn}]
      /\ graph'[Main] \in Texts \cup {Torn} /\ proven' = FALSE
  BY WriteGraphIs DEF DieWritingGraph, IInv
<1>3. GraphOK' /\ OneUndoRevertsMain'
  BY <1>1, <1>2 DEF IInv, GraphOK, OneUndoRevertsMain
<1> QED
  BY <1>1, <1>3, ErrorEnds, IntentsStay DEF IInv

\* A death in the write of the archived copy: the active file is still there.
LEMMA DieWritingArchiveKeeps == ASSUME IInv, DieWritingArchive PROVE IInv'
<1> DEFINE r == [NoRecord EXCEPT !.state = "torn", !.gen = active[run.slug].gen]
<1>1. /\ run.at = "archive" /\ ~At("idle") /\ Return(Error(run))
      /\ Intact(run.slug)
      /\ archived' = [archived EXCEPT ![run.slug] = r]
      /\ UNCHANGED <<specs, active, companion, deleted, cut, raced>>
      /\ UNCHANGED <<disk, quiet, proven, undoPoint>>
  BY DEF DieWritingArchive, At, ghost
<1>2. run.slug \in Slugs
  BY <1>1, UnderWay
<1>3. active[run.slug].gen \in 0..MaxGen
  BY <1>2 DEF IInv, IntentsOK
<1>4. NoRecord \in [state : {"none"}, gen : {0}, passed : Nat, total : Nat]
  BY DEF NoRecord
<1>5. /\ r \in [state : {"torn", "kept"}, gen : 0..MaxGen, passed : Nat, total : Nat]
      /\ r.gen = active[run.slug].gen
  BY <1>3, <1>4
<1> HIDE DEF r
<1>6. IntentsOK' /\ Gens' /\ IntentNeverLost'
  BY <1>1, <1>2, <1>5, ArchivedIs
<1> QED
  BY <1>1, <1>6, ErrorEnds, GraphStays DEF IInv

-----------------------------------------------------------------------------
(* A run begins, and other processes *)

\* An intent is loaded, whatever its status; preflight may block it.
LEMMA ExecuteKeeps == ASSUME IInv, NEW s \in Slugs, Execute(s) PROVE IInv'
<1>1. /\ At("idle") /\ Intact(s)
      /\ UNCHANGED <<files, raced>>
      /\ UNCHANGED <<disk, proven, undoPoint>> /\ quiet' = TRUE
      /\ active' = active /\ specs' = specs /\ archived' = archived /\ raced' = raced
  BY DEF Execute, files
<1>2. /\ RunOK /\ IntentsOK /\ GraphOK /\ Gens /\ Verdict /\ OneUndoRevertsMain
  BY DEF IInv
<1>3. IntentsOK' /\ Gens' /\ IntentNeverLost'
  BY <1>1, IntentsStay
<1>4. GraphOK' /\ OneUndoRevertsMain'
  BY <1>1, <1>2 DEF disk, GraphOK, OneUndoRevertsMain
<1>5. /\ active[s] # NoFile /\ active[s].gen \in 1..Len(specs[s]) /\ active[s].gen \in Nat
      /\ specs[s][active[s].gen] \in SpecChoices
  <2>1. active[s] # NoFile
    BY <1>1 DEF Intact, NoFile
  <2> QED
    BY <1>2, <2>1 DEF Gens, IntentsOK
<1>6. specs[s][active[s].gen].tests \in Nat
  BY <1>5, SpecAssumption
<1>7. /\ Start(s) \in Runs /\ Start(s).at = "mark" /\ Start(s).slug = s
      /\ Start(s).gen = active[s].gen /\ Start(s).task = 1
      /\ Start(s).passed = 0 /\ Start(s).total \in Nat
      /\ Start(s).first = FALSE /\ Start(s).attempted = FALSE /\ Start(s).applied = FALSE
  BY <1>5, <1>6 DEF Start, Runs, Steps, Modules
<1>8. CASE run' = Start(s) /\ outcome' = Unfinished
  <2>1. Tasks' = Decompose(specs[s][active[s].gen])
    BY <1>1, <1>7, <1>8 DEF Tasks
  <2>2. 1 \in 1..Len(Tasks')
    BY <1>5, <2>1, DecomposeIs
  <2>3. RunOK'
    BY <1>1, <1>5, <1>7, <1>8, <2>2 DEF RunOK, At
  <2>4. Held'
    BY <1>1, <1>5, <1>7, <1>8 DEF Held, At, Archiving
  <2>5. Verdict'
    BY <1>7, <1>8 DEF Verdict, At, Archiving
  <2>6. SuccessIsVerified' /\ OutcomeMatchesDisk'
    BY <1>8 DEF SuccessIsVerified, OutcomeMatchesDisk, Unfinished
  <2> QED
    BY <1>3, <1>4, <2>3, <2>4, <2>5, <2>6 DEF IInv
<1>9. CASE run' = run /\ outcome' = Finish(Start(s), FALSE, "preflight_blocked")
  <2>1. RunOK'
    BY <1>1, <1>2, <1>9 DEF RunOK, At
  <2>2. Held'
    BY <1>1, <1>9 DEF Held, At
  <2>3. Verdict'
    BY <1>1, <1>2, <1>9 DEF Verdict, At, Archiving
  <2>4. /\ outcome'.success = FALSE /\ outcome'.terminal = "preflight_blocked"
        /\ outcome'.first = FALSE /\ outcome'.applied = FALSE
    BY <1>7, <1>9 DEF Finish
  <2>5. SuccessIsVerified' /\ OutcomeMatchesDisk'
    BY <2>4 DEF SuccessIsVerified, OutcomeMatchesDisk
  <2> QED
    BY <1>3, <1>4, <2>1, <2>2, <2>3, <2>5 DEF IInv
<1> QED
  BY <1>8, <1>9 DEF Execute

\* What a run reports is about a graph and files nobody has touched since.
LEMMA Disturbed ==
    ASSUME IInv, quiet' = FALSE, run' = run, outcome' = outcome
    PROVE  Verdict' /\ SuccessIsVerified' /\ OutcomeMatchesDisk'
<1>1. Verdict /\ OutcomeMatchesDisk
  BY DEF IInv
<1>2. Verdict'
  BY <1>1 DEF Verdict, At
<1>3. /\ outcome'.first => ~outcome'.attempted
      /\ outcome'.applied => outcome'.attempted
      /\ outcome'.success => outcome'.first \/ outcome'.applied
      /\ outcome'.success =>
             outcome'.repaired = (IF outcome'.attempted THEN "yes" ELSE "none")
  BY <1>1 DEF OutcomeMatchesDisk
<1> QED
  BY <1>2, <1>3 DEF SuccessIsVerified, OutcomeMatchesDisk

\* A new intent takes a slug that is free; the earlier ones of the slug are not
\* in its active file.
LEMMA CreateIntentKeeps == ASSUME IInv, NEW s \in Slugs, CreateIntent(s) PROVE IInv'
<1>1. /\ RunOK /\ IntentsOK /\ GraphOK /\ Gens /\ Held /\ IntentNeverLost /\ OneUndoRevertsMain
  BY DEF IInv
<1>2. PICK c \in SpecChoices : specs' = [specs EXCEPT ![s] = Append(@, c)]
  BY DEF CreateIntent
<1>3. /\ Len(specs[s]) < MaxGen /\ active[s] = NoFile
      /\ active' = [active EXCEPT ![s] = [status |-> "Pending", gen |-> Len(specs[s]) + 1]]
      /\ companion' = [companion EXCEPT ![s] = "active"]
      /\ archived' = archived /\ deleted' = deleted /\ cut' = cut
      /\ disk' = disk /\ run' = run
      /\ outcome' = outcome /\ proven' = proven /\ undoPoint' = undoPoint
      /\ quiet' = FALSE
      /\ raced' = IF run.slug = s THEN raced \cup {s} ELSE raced
  BY DEF CreateIntent, Interfere
<1>4. Verdict' /\ SuccessIsVerified' /\ OutcomeMatchesDisk'
  BY <1>3, Disturbed
<1>5. GraphOK' /\ OneUndoRevertsMain'
  BY <1>1, <1>3 DEF GraphOK, OneUndoRevertsMain, disk
<1>6. /\ specs[s] \in Seq(SpecChoices) /\ Len(specs[s]) \in Nat
      /\ specs'[s] = Append(specs[s], c) /\ Len(specs'[s]) = Len(specs[s]) + 1
      /\ \A t \in Slugs \ {s} : specs'[t] = specs[t]
      /\ specs' \in [Slugs -> Seq(SpecChoices)]
      /\ \A t \in Slugs : \A g \in 1..Len(specs[t]) : g \in 1..Len(specs'[t]) /\ specs'[t][g] = specs[t][g]
  BY <1>1, <1>2 DEF IntentsOK
<1>7. /\ active'[s] = [status |-> "Pending", gen |-> Len(specs'[s])]
      /\ \A t \in Slugs \ {s} : active'[t] = active[t]
      /\ active' \in [Slugs -> [status : Statuses, gen : 0..MaxGen]]
  <2>1. [status |-> "Pending", gen |-> Len(specs[s]) + 1] \in [status : Statuses, gen : 0..MaxGen]
    BY <1>3, <1>6, BoundAssumption DEF Statuses
  <2> QED
    BY <1>1, <1>3, <1>6, <2>1 DEF IntentsOK
<1>8. IntentsOK'
  BY <1>1, <1>3, <1>6, <1>7 DEF IntentsOK
<1>9. RunOK'
  <2>1. CASE At("idle")
    BY <1>1, <1>3, <2>1 DEF RunOK, At
  <2>2. CASE ~At("idle")
    <3>1. run.slug \in Slugs /\ run.gen \in 1..Len(specs[run.slug])
      BY <1>1, <2>2 DEF RunOK
    <3>2. run.gen \in 1..Len(specs'[run.slug]) /\ Tasks' = Tasks
      BY <1>3, <1>6, <3>1 DEF Tasks
    <3> QED
      BY <1>1, <1>3, <3>1, <3>2 DEF RunOK, At
  <2> QED
    BY <2>1, <2>2
<1>10. Gens'
  <2>1. ASSUME NEW t \in Slugs
        PROVE  /\ Len(specs'[t]) <= MaxGen
               /\ active'[t] # NoFile =>
                      active'[t].status # "none" /\ active'[t].gen \in 1..Len(specs'[t])
               /\ archived[t].gen <= Len(specs'[t])
               /\ t \notin raced' /\ active'[t] # NoFile => archived[t].gen <= active'[t].gen
    <3>1. CASE t = s
      <4>1. archived[t].gen \in Nat /\ archived[t].gen <= Len(specs[t])
        BY <1>1, BoundAssumption DEF Gens, IntentsOK
      <4> QED
        BY <1>3, <1>6, <1>7, <3>1, <4>1, BoundAssumption
    <3>2. CASE t # s
      BY <1>1, <1>3, <1>6, <1>7, <3>2 DEF Gens
    <3> QED
      BY <3>1, <3>2
  <2> QED
    BY <1>3, <2>1 DEF Gens
<1>11. Held'
  BY <1>1, <1>3, <1>7 DEF Held, At
<1>12. ASSUME NEW t \in Slugs \ raced', NEW g \in 1..Len(specs'[t])
       PROVE  \/ Intact(t)' /\ active'[t].gen = g
              \/ g \in deleted[t]
              \/ InHistory(t, g) \/ archived[t].gen > g
              \/ g \in cut[t]
  <2>1. t \notin raced
    BY <1>3
  <2>2. CASE t # s
    BY <1>1, <1>6, <1>7, <2>1, <2>2 DEF IntentNeverLost, Intact
  <2>3. CASE t = s /\ g \in 1..Len(specs[s])
    BY <1>1, <1>3, <2>1, <2>3 DEF IntentNeverLost, Intact, NoFile
  <2>4. CASE t = s /\ g = Len(specs[s]) + 1
    BY <1>6, <1>7, <2>4 DEF Intact
  <2> QED
    BY <1>6, <2>2, <2>3, <2>4
<1>13. IntentNeverLost'
  BY <1>3, <1>12 DEF IntentNeverLost, InHistory
<1> QED
  BY <1>4, <1>5, <1>8, <1>9, <1>10, <1>11, <1>13 DEF IInv

\* An intent that is deleted is kept in the deleted directory.
LEMMA DeleteIntentKeeps == ASSUME IInv, NEW s \in Slugs, DeleteIntent(s) PROVE IInv'
<1>1. /\ RunOK /\ IntentsOK /\ GraphOK /\ Gens /\ Held /\ IntentNeverLost /\ OneUndoRevertsMain
  BY DEF IInv
<1>2. /\ active[s] # NoFile /\ active' = [active EXCEPT ![s] = NoFile]
      /\ deleted' = [deleted EXCEPT ![s] = IF Intact(s) THEN @ \cup {active[s].gen} ELSE @]
      /\ specs' = specs /\ archived' = archived /\ cut' = cut /\ disk' = disk /\ run' = run
      /\ outcome' = outcome /\ proven' = proven /\ undoPoint' = undoPoint
      /\ quiet' = FALSE
      /\ raced' = IF run.slug = s THEN raced \cup {s} ELSE raced
  BY DEF DeleteIntent, Interfere
<1>3. Verdict' /\ SuccessIsVerified' /\ OutcomeMatchesDisk'
  BY <1>2, Disturbed
<1>4. GraphOK' /\ OneUndoRevertsMain'
  BY <1>1, <1>2 DEF GraphOK, OneUndoRevertsMain, disk
<1>5. companion' \in [Slugs -> {"none", "active", "history", "deleted"}]
  BY <1>1 DEF DeleteIntent, IntentsOK
<1>6. active[s].gen \in 1..MaxGen
  BY <1>1, <1>2, BoundAssumption DEF IntentsOK, Gens
<1>7. /\ active'[s] = NoFile /\ deleted[s] \subseteq deleted'[s]
      /\ Intact(s) => active[s].gen \in deleted'[s]
      /\ \A t \in Slugs \ {s} : active'[t] = active[t] /\ deleted'[t] = deleted[t]
  BY <1>1, <1>2 DEF IntentsOK
<1>8. IntentsOK'
  <2>1. active' \in [Slugs -> [status : Statuses, gen : 0..MaxGen]]
    BY <1>1, <1>2, BoundAssumption DEF IntentsOK, NoFile, Statuses
  <2>2. deleted' \in [Slugs -> SUBSET (1..MaxGen)]
    BY <1>1, <1>2, <1>6 DEF IntentsOK
  <2> QED
    BY <1>1, <1>2, <1>5, <2>1, <2>2 DEF IntentsOK
<1>9. RunOK'
  BY <1>1, <1>2 DEF RunOK, At, Tasks
<1>10. Gens'
  BY <1>1, <1>2, <1>7 DEF Gens
<1>11. Held'
  BY <1>1, <1>2, <1>7 DEF Held, At
<1>12. IntentNeverLost'
  BY <1>1, <1>2, <1>7 DEF IntentNeverLost, Intact, InHistory
<1> QED
  BY <1>3, <1>4, <1>8, <1>9, <1>10, <1>11, <1>12 DEF IInv

\* Another process changes the graph or the history, and no intent.
LEMMA GraphChanges ==
    ASSUME IInv, UNCHANGED <<files, run, outcome, raced>>, quiet' = FALSE,
           GraphOK', OneUndoRevertsMain'
    PROVE  IInv'
<1>1. RunOK /\ Held
  BY DEF IInv
<1>2. specs' = specs /\ active' = active /\ archived' = archived
  BY DEF files
<1>3. RunOK'
  BY <1>1, <1>2 DEF RunOK, At, Tasks
<1>4. Held'
  BY <1>1, <1>2 DEF Held, At
<1>5. IntentsOK' /\ Gens' /\ IntentNeverLost'
  BY IntentsStay
<1> QED
  BY <1>3, <1>4, <1>5, Disturbed DEF IInv

\* Undo brings back the newest snapshot, torn or not, and drops it.
LEMMA UndoKeeps == ASSUME IInv, Undo PROVE IInv'
<1>1. GraphOK
  BY DEF IInv
<1>2. Last(snaps) \in Texts \cup {Torn} /\ Front(snaps) \in Seq(Texts \cup {Torn})
  <2>1. snaps \in Seq(Texts \cup {Torn}) /\ snaps # <<>> /\ Len(snaps) \in Nat \ {0}
    BY <1>1 DEF Undo, GraphOK
  <2> QED
    BY <2>1 DEF Last, Front
<1>3. /\ graph' \in [Modules -> Texts \cup {LibText, Absent, Torn}]
      /\ graph'[Main] \in Texts \cup {Torn} /\ proven' = FALSE
  BY <1>1, <1>2, WriteGraphIs DEF Undo, TextsOf
<1>4. GraphOK' /\ OneUndoRevertsMain'
  BY <1>2, <1>3 DEF Undo, GraphOK, OneUndoRevertsMain
<1> QED
  BY <1>4, GraphChanges DEF Undo

\* An edit with a snapshot.
LEMMA AddRequestKeeps == ASSUME IInv, AddRequest PROVE IInv'
<1>1. GraphOK
  BY DEF IInv
<1>2. Append(snaps, graph[Main]) \in Seq(Texts \cup {Torn})
  BY <1>1 DEF GraphOK
<1>3. /\ graph' \in [Modules -> Texts \cup {LibText, Absent, Torn}]
      /\ graph'[Main] \in Texts \cup {Torn} /\ proven' = FALSE
  BY <1>1, WriteGraphIs DEF AddRequest, TextsOf
<1>4. GraphOK' /\ OneUndoRevertsMain'
  BY <1>2, <1>3 DEF AddRequest, GraphOK, OneUndoRevertsMain
<1> QED
  BY <1>4, GraphChanges DEF AddRequest

\* An edit without one.
LEMMA EditModuleKeeps == ASSUME IInv, NEW m \in Modules, EditModule(m) PROVE IInv'
<1>1. GraphOK /\ OneUndoRevertsMain
  BY DEF IInv
<1>2. /\ graph' \in [Modules -> Texts \cup {LibText, Absent, Torn}]
      /\ graph'[Main] \in Texts \cup {Torn} /\ proven' = FALSE
  BY <1>1, WriteGraphIs DEF EditModule
<1>3. GraphOK' /\ OneUndoRevertsMain'
  BY <1>1, <1>2 DEF EditModule, GraphOK, OneUndoRevertsMain
<1> QED
  BY <1>3, GraphChanges DEF EditModule

\* A step that changes nothing.
LEMMA StutterKeeps == ASSUME IInv, UNCHANGED vars PROVE IInv'
<1>1. /\ UNCHANGED <<files, raced>> /\ UNCHANGED <<disk, quiet, proven, undoPoint>>
      /\ specs' = specs /\ active' = active /\ archived' = archived /\ companion' = companion
      /\ run' = run /\ outcome' = outcome /\ quiet' = quiet /\ proven' = proven
      /\ raced' = raced
  BY DEF vars, files, ghost
<1>2. RunOK'
  BY <1>1 DEF IInv, RunOK, At, Tasks
<1>3. Held' /\ Verdict' /\ SuccessIsVerified' /\ OutcomeMatchesDisk'
  BY <1>1 DEF IInv, Held, Verdict, At, SuccessIsVerified, OutcomeMatchesDisk
<1> QED
  BY <1>1, <1>2, <1>3, IntentsStay, GraphStays DEF IInv

\* Every reachable state satisfies the invariant.
LEMMA Invariant == Spec => []IInv
<1>1. ASSUME IInv, [Next]_vars PROVE IInv'
  <2>1. ASSUME NEW s \in Slugs, Execute(s) \/ CreateIntent(s) \/ DeleteIntent(s) PROVE IInv'
    BY <1>1, <2>1, ExecuteKeeps, CreateIntentKeeps, DeleteIntentKeeps
  <2>2. CASE MarkInProgress \/ SaveSnapshot \/ ReadSource \/ MutationReply \/ WriteTask
    BY <1>1, <2>2, MarkInProgressKeeps, SaveSnapshotKeeps, ReadSourceKeeps,
       MutationReplyKeeps, WriteTaskKeeps
  <2>3. CASE Verify \/ RepairModule \/ WriteRepair \/ EndRepair
    BY <1>1, <2>3, VerifyKeeps, RepairModuleKeeps, WriteRepairKeeps, EndRepairKeeps
  <2>4. CASE FailTask \/ SaveFailed \/ Archive \/ RemoveActive \/ MoveCompanion
    BY <1>1, <2>4, FailKeeps, ArchiveKeeps, RemoveActiveKeeps, MoveCompanionKeeps
  <2>5. CASE \/ Die \/ DieWritingIntent \/ DieWritingSnapshot \/ DieWritingGraph
             \/ DieWritingArchive
    BY <1>1, <2>5, DieKeeps, DieWritingIntentKeeps, DieWritingSnapshotKeeps,
       DieWritingGraphKeeps, DieWritingArchiveKeeps
  <2>6. CASE Undo \/ AddRequest \/ \E m \in Modules : EditModule(m)
    BY <1>1, <2>6, UndoKeeps, AddRequestKeeps, EditModuleKeeps
  <2>7. CASE UNCHANGED vars
    BY <1>1, <2>7, StutterKeeps
  <2> QED
    BY <1>1, <2>1, <2>2, <2>3, <2>4, <2>5, <2>6, <2>7 DEF Next, Runner
<1> QED
  BY <1>1, Initial, PTL DEF Spec

-----------------------------------------------------------------------------
(* The properties *)

\* The files, the run and the history have their types, and a run is always at
\* one of the tasks that decompose gave its intent.
THEOREM TypeCorrect == Spec => []TypeOK
<1>1. IInv => TypeOK
  BY DEF IInv, RunOK, IntentsOK, GraphOK, TypeOK, At
<1> QED
  BY <1>1, Invariant, PTL

\* Whoever creates and deletes intents meanwhile, an intent whose slug was not
\* taken from under a run of execute.rs can be read in its file, in the history
\* or among the deleted, wherever that run dies: except inside save_intent, and
\* then only when the file it was writing was the only copy.
THEOREM NeverLost == Spec => []IntentNeverLost
<1>1. IInv => IntentNeverLost
  BY DEF IInv
<1> QED
  BY <1>1, Invariant, PTL

\* One undo reverts main to what it was before the intent.
THEOREM OneUndo == Spec => []OneUndoRevertsMain
<1>1. IInv => OneUndoRevertsMain
  BY DEF IInv
<1> QED
  BY <1>1, Invariant, PTL

\* A run that reports success has verified the graph that is on disk.
THEOREM Verified == Spec => []SuccessIsVerified
<1>1. IInv => SuccessIsVerified
  BY DEF IInv
<1> QED
  BY <1>1, Invariant, PTL

\* The outcome a run returns agrees with the files it leaves.
THEOREM OutcomeTrue == Spec => []OutcomeMatchesDisk
<1>1. IInv => OutcomeMatchesDisk
  BY DEF IInv
<1> QED
  BY <1>1, Invariant, PTL
=============================================================================
