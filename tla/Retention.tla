------------------------------ MODULE Retention ------------------------------
(***************************************************************************)
(* The evidence budget of a benchmark run (intent/attempt.rs): attempts    *)
(* execute in parallel, each in a workspace of its own, and share one      *)
(* RunRetentionState under a mutex.  An attempt asks it twice: before it   *)
(* executes, and when it persists its evidence, where it writes its files, *)
(* or a stub when they do not fit, or nothing once the stub pool is used   *)
(* up.                                                                     *)
(*                                                                         *)
(* Files are abstracted to how many bytes of the attempt's evidence are    *)
(* still to be written: a write takes any part of them.  A write may fail  *)
(* and leave a part of its bytes on disk.                                  *)
(***************************************************************************)
EXTENDS Naturals, FiniteSets, Functions

CONSTANTS
    Attempts,       \* attempts of one run
    ContentCap,     \* CONTENT_CAP_BYTES
    StubPool,       \* STUB_POOL_BYTES
    StubMax,        \* STUB_MAX_BYTES, the length a stub is cut to
    AttemptCap      \* what apply_per_attempt_caps leaves of one attempt's files

ASSUME CapAssumption ==
    /\ ContentCap \in Nat /\ StubPool \in Nat
    /\ StubMax \in Nat \ {0} /\ AttemptCap \in Nat

\* A run is a list of tasks, providers and attempt numbers.
ASSUME AttemptsAssumption == IsFiniteSet(Attempts)

Free   == "free"        \* nobody holds the mutex
RunCap == ContentCap + StubPool

ASSUME FreeAssumption == Free \notin Attempts

VARIABLES
    at,             \* attempt -> its next step
    lock,           \* the attempt holding the mutex while it writes, or Free
    todo,           \* attempt -> bytes of evidence it has still to write
    content,        \* RunRetentionState.content_bytes
    stub,           \* RunRetentionState.stub_bytes
    stop,           \* RunRetentionState.stop_artifact_attempts
    files,          \* attempt -> bytes of its evidence files on disk
    stubs,          \* attempt -> bytes of its stub on disk
    result,         \* attempt -> the persistence status it reports
    ioError         \* some write of this run failed

counters == <<content, stub, stop>>
tree     == <<files, stubs>>
vars     == <<at, lock, todo, counters, tree, result, ioError>>

Steps   == {"new", "executing", "persist", "write", "writeStub", "done"}
Results == {"none", "unexecuted", "complete", "partial", "failed", "stubTooBig",
            "jsonOnly", "poolExhausted"}

TypeOK ==
    /\ at \in [Attempts -> Steps]
    /\ lock \in Attempts \cup {Free}
    /\ todo \in [Attempts -> 0..AttemptCap \cup 0..StubMax]
    /\ content \in Nat /\ stub \in Nat /\ stop \in BOOLEAN
    /\ files \in [Attempts -> Nat] /\ stubs \in [Attempts -> Nat]
    /\ result \in [Attempts -> Results]
    /\ ioError \in BOOLEAN

Init ==
    /\ at = [a \in Attempts |-> "new"]
    /\ lock = Free
    /\ todo = [a \in Attempts |-> 0]
    /\ content = 0 /\ stub = 0 /\ stop = FALSE
    /\ files = [a \in Attempts |-> 0]
    /\ stubs = [a \in Attempts |-> 0]
    /\ result = [a \in Attempts |-> "none"]
    /\ ioError = FALSE

RemainingContent == IF content > ContentCap THEN 0 ELSE ContentCap - content
RemainingStub    == IF stub > StubPool THEN 0 ELSE StubPool - stub

\* The attempt reports r and gives the mutex back.
Done(a, r) ==
    /\ at' = [at EXCEPT ![a] = "done"]
    /\ result' = [result EXCEPT ![a] = r]
    /\ lock' = Free

-----------------------------------------------------------------------------
(* run_isolated_attempt *)

\* Not executed once artifact attempts are stopped, or when the request says
\* so.
Refuse(a) ==
    /\ at[a] = "new" /\ lock = Free
    /\ Done(a, "unexecuted")
    /\ UNCHANGED <<todo, counters, tree, ioError>>

Begin(a) ==
    /\ at[a] = "new" /\ lock = Free
    /\ ~stop
    /\ at' = [at EXCEPT ![a] = "executing"]
    /\ UNCHANGED <<lock, todo, counters, tree, result, ioError>>

\* The temporary directory could not be created: a report without files.
NoWorkspace(a) ==
    /\ at[a] = "executing"
    /\ at' = [at EXCEPT ![a] = "done"]
    /\ result' = [result EXCEPT ![a] = "jsonOnly"]
    /\ UNCHANGED <<lock, todo, counters, tree, ioError>>

\* Mutant: the caps of one attempt are not applied.
UncappedPlan == 0..(AttemptCap + StubMax + 1)

\* How many bytes of evidence an attempt may plan to keep.
Planned == 0..AttemptCap

\* Outside the mutex: the intent runs and its evidence is assembled; 0 bytes
\* when it succeeded and nothing was asked for.
Execute(a) ==
    /\ at[a] = "executing"
    /\ \E n \in Planned : todo' = [todo EXCEPT ![a] = n]
    /\ at' = [at EXCEPT ![a] = "persist"]
    /\ UNCHANGED <<lock, counters, tree, result, ioError>>

-----------------------------------------------------------------------------
(* persist_according_to_policy, under the mutex *)

\* Mutant: the evidence may use the stub pool as well.
FitsRun(a) == todo[a] <= RunCap - content

Fits(a) == todo[a] <= RemainingContent

\* Mutant: a stopped run is waited for.
WaitWhenStopped(a) == at[a] = "persist" /\ lock = Free /\ FALSE /\ UNCHANGED vars

Stopped(a) ==
    /\ at[a] = "persist" /\ lock = Free
    /\ stop
    /\ Done(a, "poolExhausted")
    /\ UNCHANGED <<todo, counters, tree, ioError>>

Lock(a) == at[a] = "persist" /\ lock = Free /\ ~stop

NothingToWrite(a) ==
    /\ Lock(a)
    /\ todo[a] = 0
    /\ Done(a, "jsonOnly")
    /\ UNCHANGED <<todo, counters, tree, ioError>>

PoolExhausted(a) ==
    /\ Lock(a)
    /\ ~Fits(a)
    /\ RemainingStub = 0
    /\ stop' = TRUE
    /\ Done(a, "poolExhausted")
    /\ UNCHANGED <<todo, content, stub, tree, ioError>>

\* The files do not fit: a stub is written, if it fits.
StartStub(a) ==
    /\ Lock(a)
    /\ ~Fits(a)
    /\ RemainingStub # 0
    /\ \E n \in 1..StubMax :
        \/ /\ n > RemainingStub
           /\ Done(a, "stubTooBig")
           /\ UNCHANGED todo
        \/ /\ n <= RemainingStub
           /\ todo' = [todo EXCEPT ![a] = n]
           /\ at' = [at EXCEPT ![a] = "writeStub"]
           /\ lock' = a
           /\ UNCHANGED result
    /\ UNCHANGED <<counters, tree, ioError>>

StartFiles(a) ==
    /\ Lock(a)
    /\ todo[a] # 0
    /\ Fits(a)
    /\ at' = [at EXCEPT ![a] = "write"]
    /\ lock' = a
    /\ UNCHANGED <<todo, counters, tree, result, ioError>>

\* Mutant: the mutex is given back between two files.
UnlockBetweenFiles(a) ==
    /\ at[a] = "write"
    /\ \E n \in 1..todo[a] :
        /\ files' = [files EXCEPT ![a] = @ + n]
        /\ content' = content + n
        /\ todo' = [todo EXCEPT ![a] = @ - n]
        /\ IF n = todo[a] THEN Done(a, "complete")
           ELSE lock' = Free /\ UNCHANGED <<at, result>>
    /\ UNCHANGED <<stub, stop, stubs, ioError>>

\* write_content_files: one file, counted as soon as it is written; the last
\* one ends the attempt.
WriteFile(a) ==
    /\ at[a] = "write"
    /\ \E n \in 1..todo[a] :
        /\ files' = [files EXCEPT ![a] = @ + n]
        /\ content' = content + n
        /\ todo' = [todo EXCEPT ![a] = @ - n]
        /\ IF n = todo[a] THEN Done(a, "complete")
           ELSE UNCHANGED <<at, lock, result>>
    /\ UNCHANGED <<stub, stop, stubs, ioError>>

\* Mutant: the stub is charged to the content budget.
ChargeContent(n) == content' = content + n /\ UNCHANGED stub

ChargeStub(n) == stub' = stub + n /\ UNCHANGED content

WriteStub(a) ==
    /\ at[a] = "writeStub"
    /\ stubs' = [stubs EXCEPT ![a] = todo[a]]
    /\ ChargeStub(todo[a])
    /\ Done(a, "partial")
    /\ UNCHANGED <<todo, stop, files, ioError>>

\* Mutant: the error is dropped.
ReportComplete(a) ==
    /\ at[a] = "write"
    /\ \E n \in 0..todo[a] : files' = [files EXCEPT ![a] = @ + n]
    /\ ioError' = TRUE
    /\ Done(a, "complete")
    /\ UNCHANGED <<todo, counters, stubs>>

\* A directory or a file cannot be created or written: what reached the disk
\* stays there, uncounted, and the attempt reports a failure.
WriteFails(a) ==
    /\ at[a] = "write"
    /\ \E n \in 0..todo[a] : files' = [files EXCEPT ![a] = @ + n]
    /\ ioError' = TRUE
    /\ Done(a, "failed")
    /\ UNCHANGED <<todo, counters, stubs>>

StubFails(a) ==
    /\ at[a] = "writeStub"
    /\ \E n \in 0..todo[a] : stubs' = [stubs EXCEPT ![a] = n]
    /\ ioError' = TRUE
    /\ Done(a, "failed")
    /\ UNCHANGED <<todo, counters, files>>

Persisting(a) ==
    \/ Stopped(a) \/ NothingToWrite(a) \/ PoolExhausted(a)
    \/ StartStub(a) \/ StartFiles(a) \/ WriteFile(a) \/ WriteStub(a)
    \/ WriteFails(a) \/ StubFails(a)

Next == \E a \in Attempts :
            Refuse(a) \/ Begin(a) \/ NoWorkspace(a) \/ Execute(a) \/ Persisting(a)

\* Persisting never waits but for the mutex.  How long an attempt executes is
\* not limited here.
Spec == Init /\ [][Next]_vars /\ \A a \in Attempts : WF_vars(Persisting(a))

-----------------------------------------------------------------------------
(* Properties *)

\* RunRetentionState::within_caps, at every point of the run and whatever
\* order the attempts reach the mutex in.
WithinCaps ==
    /\ content <= ContentCap
    /\ stub <= StubPool
    /\ content + stub <= RunCap

\* The counters are what measuring the run tree would give, except for what
\* failed writes left behind: no byte is counted twice, by two attempts, or
\* in the wrong budget.
MeasuredTree ==
    ~ioError => content = SumFunction(files) /\ stub = SumFunction(stubs)

\* What an attempt reports is what the run tree holds of it: all its files, a
\* stub and no file, or nothing at all.
EvidenceMatchesTree ==
    \A a \in Attempts :
        /\ result[a] = "complete" => todo[a] = 0 /\ files[a] > 0 /\ stubs[a] = 0
        /\ result[a] = "partial" => files[a] = 0 /\ stubs[a] \in 1..StubMax
        /\ result[a] \in {"unexecuted", "jsonOnly", "poolExhausted", "stubTooBig"} =>
               files[a] = 0 /\ stubs[a] = 0

\* Once the stub pool is exhausted nothing more is written, not even by an
\* attempt that started before: "no new run-tree files".
NothingAfterStop == [][stop => UNCHANGED tree]_vars

\* What is spent but for the files of an attempt that is still writing.
Settled == IF lock # Free /\ at[lock] = "write" THEN content - files[lock] ELSE content

Budget == INSTANCE EvidenceBudget
            WITH spent <- Settled, stubbed <- stub, stopped <- stop, verdict <- result

\* An attempt writes its files one by one, any of them may fail, and others ask
\* for the budget meanwhile: still each attempt is settled at once, by what was
\* spent before it, and the limits are those of the abstract budget.
SettledAtOnce == Budget!Spec

\* An attempt that reaches the mutex to persist its evidence reports it: no
\* path keeps the mutex.
PersistEnds == \A a \in Attempts : at[a] = "persist" ~> at[a] = "done"
=============================================================================
