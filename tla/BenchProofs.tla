----------------------------- MODULE BenchProofs -----------------------------
(***************************************************************************)
(* Proofs about a benchmark run: the evidence that its attempts keep       *)
(* (Retention) and the child processes that it starts (ProcessRun), which  *)
(* share no state.                                                         *)
(***************************************************************************)
EXTENDS Retention, ProcessRun, FiniteSetTheorems, WellFoundedInduction, TLAPS

-----------------------------------------------------------------------------
(* The evidence budget holds for every set of attempts and every size of    *)
(* the budgets.  The inductive invariant says what a writer has reserved:   *)
(* the mutex is its, and what it has still to write fits the budget it is   *)
(* charged to, although the decision was taken steps ago.                   *)

\* A writer holds the mutex, and only a writer does.
LockInv ==
    /\ \A a \in Attempts : at[a] \in {"write", "writeStub"} => lock = a
    /\ lock # Free => at[lock] \in {"write", "writeStub"}
    /\ stop => lock = Free

\* What the writer has still to write fits.
ReserveInv ==
    \A a \in Attempts :
        /\ at[a] = "write" => todo[a] > 0 /\ content + todo[a] <= ContentCap
        /\ at[a] = "writeStub" => todo[a] \in 1..StubMax /\ stub + todo[a] <= StubPool

\* What is on disk of an attempt that has not reported yet.
ProgressInv ==
    \A a \in Attempts :
        /\ at[a] # "done" => result[a] = "none"
        /\ at[a] # "done" => stubs[a] = 0
        /\ at[a] \notin {"done", "write"} => files[a] = 0

BudgetInv == content <= ContentCap /\ stub <= StubPool

IInv == TypeOK /\ LockInv /\ ReserveInv /\ ProgressInv /\ BudgetInv /\ EvidenceMatchesTree

\* The invariant holds of a run that has not persisted anything.
LEMMA InitInv == Init => IInv
<1> SUFFICES ASSUME Init PROVE IInv
  OBVIOUS
<1> USE CapAssumption, FreeAssumption DEF Init
<1>1. TypeOK
  <2>1. 0 \in 0..AttemptCap \cup 0..StubMax
    OBVIOUS
  <2>2. todo \in [Attempts -> 0..AttemptCap \cup 0..StubMax]
    BY <2>1
  <2>3. at \in [Attempts -> Steps] /\ result \in [Attempts -> Results]
    BY DEF Steps, Results
  <2> QED
    BY <2>2, <2>3 DEF TypeOK
<1>2. LockInv /\ ReserveInv /\ ProgressInv
  BY DEF LockInv, ReserveInv, ProgressInv
<1>3. BudgetInv /\ EvidenceMatchesTree
  BY DEF BudgetInv, EvidenceMatchesTree
<1> QED
  BY <1>1, <1>2, <1>3 DEF IInv

\* Every step of every attempt preserves the inductive invariant.
LEMMA NextInv == IInv /\ [Next]_vars => IInv'
<1> USE CapAssumption, FreeAssumption
<1> SUFFICES ASSUME IInv, [Next]_vars PROVE IInv'
  OBVIOUS
<1> USE DEF IInv, TypeOK, LockInv, ReserveInv, ProgressInv, BudgetInv,
            EvidenceMatchesTree, Steps, Results
<1>1. CASE UNCHANGED vars
  BY <1>1 DEF vars, counters, tree
<1>2. ASSUME NEW a \in Attempts, Refuse(a) PROVE IInv'
  BY <1>2 DEF Refuse, Done, counters, tree
<1>3. ASSUME NEW a \in Attempts, Begin(a) PROVE IInv'
  BY <1>3 DEF Begin, counters, tree
<1>4. ASSUME NEW a \in Attempts, NoWorkspace(a) PROVE IInv'
  BY <1>4 DEF NoWorkspace, counters, tree
<1>5. ASSUME NEW a \in Attempts, Execute(a) PROVE IInv'
  BY <1>5 DEF Execute, Planned, counters, tree
<1>6. ASSUME NEW a \in Attempts, Stopped(a) PROVE IInv'
  BY <1>6 DEF Stopped, Done, counters, tree
<1>7. ASSUME NEW a \in Attempts, NothingToWrite(a) PROVE IInv'
  BY <1>7 DEF NothingToWrite, Lock, Done, counters, tree
<1>8. ASSUME NEW a \in Attempts, PoolExhausted(a) PROVE IInv'
  BY <1>8 DEF PoolExhausted, Lock, Done, counters, tree
<1>9. ASSUME NEW a \in Attempts, StartStub(a) PROVE IInv'
  BY <1>9 DEF StartStub, Lock, Done, RemainingStub, counters, tree
<1>10. ASSUME NEW a \in Attempts, StartFiles(a) PROVE IInv'
  BY <1>10 DEF StartFiles, Lock, Fits, RemainingContent, counters, tree
<1>11. ASSUME NEW a \in Attempts, WriteFile(a) PROVE IInv'
  <2> PICK n \in 1..todo[a] :
        /\ files' = [files EXCEPT ![a] = @ + n]
        /\ content' = content + n
        /\ todo' = [todo EXCEPT ![a] = @ - n]
        /\ IF n = todo[a] THEN Done(a, "complete")
           ELSE UNCHANGED <<at, lock, result>>
    BY <1>11 DEF WriteFile
  <2>1. /\ at[a] = "write" /\ lock = a /\ stop = FALSE
        /\ UNCHANGED <<stub, stop, stubs, ioError>>
    BY <1>11 DEF WriteFile
  <2>2. n \in Nat /\ n > 0 /\ todo[a] \in Nat /\ todo[a] - n \in 0..todo[a]
    OBVIOUS
  <2>3. todo[a] - n \in 0..AttemptCap \cup 0..StubMax /\ content + n <= ContentCap
    BY <2>1, <2>2
  <2>4. TypeOK'
    <3>1. /\ at' \in [Attempts -> Steps] /\ result' \in [Attempts -> Results]
          /\ lock' \in Attempts \cup {Free}
      BY <2>1 DEF Done
    <3>2. files[a] + n \in Nat /\ content + n \in Nat
      BY <2>2
    <3>3. /\ todo' \in [Attempts -> 0..AttemptCap \cup 0..StubMax]
          /\ files' \in [Attempts -> Nat] /\ content' \in Nat
      BY <2>3, <3>2
    <3> QED
      BY <2>1, <3>1, <3>3
  <2>5. CASE n = todo[a]
    <3>1. todo'[a] = 0 /\ files'[a] > 0
      BY <2>2, <2>5
    <3>2. LockInv' /\ ReserveInv' /\ ProgressInv' /\ BudgetInv'
      BY <2>1, <2>3, <2>5 DEF Done
    <3>3. EvidenceMatchesTree'
      BY <2>1, <2>5, <3>1 DEF Done
    <3> QED
      BY <2>4, <3>2, <3>3
  <2>6. CASE n # todo[a]
    <3>1. todo'[a] = todo[a] - n /\ todo'[a] > 0
      BY <2>2, <2>6
    <3>2. content' + todo'[a] = content + todo[a]
      BY <2>2, <3>1
    <3>3. at' = at /\ lock' = lock /\ result' = result
      BY <2>6
    <3>4. LockInv' /\ ProgressInv' /\ BudgetInv'
      BY <2>1, <2>3, <3>3
    <3>5. ReserveInv'
      BY <2>1, <3>1, <3>2, <3>3
    <3>6. EvidenceMatchesTree'
      BY <2>1, <3>3
    <3> QED
      BY <2>4, <3>4, <3>5, <3>6
  <2> QED
    BY <2>5, <2>6
<1>12. ASSUME NEW a \in Attempts, WriteStub(a) PROVE IInv'
  BY <1>12 DEF WriteStub, ChargeStub, Done
<1>13. ASSUME NEW a \in Attempts, WriteFails(a) PROVE IInv'
  BY <1>13 DEF WriteFails, Done, counters
<1>14. ASSUME NEW a \in Attempts, StubFails(a) PROVE IInv'
  BY <1>14 DEF StubFails, Done, counters
<1>15. QED
  BY <1>1, <1>2, <1>3, <1>4, <1>5, <1>6, <1>7, <1>8, <1>9, <1>10, <1>11,
     <1>12, <1>13, <1>14 DEF Next, Persisting

\* The inductive invariant holds throughout.
LEMMA Invariance == Spec => []IInv
  BY InitInv, NextInv, PTL DEF Spec

\* The types, and that no attempt plans more than its own cap.
THEOREM TypeCorrect == Spec => []TypeOK
  BY Invariance, PTL DEF IInv

\* within_caps: whatever the attempts write, and in whatever order they get
\* the mutex, the counters stay inside both budgets and the run's total.
THEOREM BudgetRespected == Spec => []WithinCaps
<1>1. IInv => WithinCaps
  BY CapAssumption DEF IInv, TypeOK, BudgetInv, WithinCaps, RunCap
<1> QED
  BY Invariance, <1>1, PTL

\* The report of an attempt agrees with what is on disk of it.
THEOREM ReportsHonest == Spec => []EvidenceMatchesTree
  BY Invariance, PTL DEF IInv

\* After the pool is exhausted the run tree is never written again: nobody
\* holds the mutex from then on.
THEOREM StopIsFinal == Spec => NothingAfterStop
<1>1. IInv /\ [Next]_vars => [stop => UNCHANGED tree]_vars
  <2> SUFFICES ASSUME IInv, Next, stop PROVE UNCHANGED tree
    BY DEF vars
  <2>1. lock = Free /\ \A a \in Attempts : at[a] \notin {"write", "writeStub"}
    BY FreeAssumption DEF IInv, LockInv
  <2> QED
    BY <2>1 DEF Next, Persisting, Refuse, Begin, NoWorkspace, Execute, Stopped,
       NothingToWrite, PoolExhausted, StartStub, StartFiles, WriteFile, WriteStub,
       WriteFails, StubFails, Lock, tree
<1> QED
  BY Invariance, <1>1, PTL DEF Spec, NothingAfterStop

\* What the refinement needs of the attempts under way: what a writer has counted,
\* and why a stub is written.
UnderWayInv ==
    \A a \in Attempts :
        /\ at[a] = "write" => files[a] <= content
        /\ at[a] = "writeStub" => content + AttemptCap > ContentCap
        /\ at[a] = "persist" => todo[a] <= AttemptCap

\* Evidence that does not fit is that of an attempt within its own cap.
LEMMA Crowds ==
    ASSUME IInv, UnderWayInv, NEW a \in Attempts, Lock(a), ~Fits(a)
    PROVE  content + AttemptCap > ContentCap
<1>1. content \in Nat /\ content <= ContentCap /\ todo[a] <= AttemptCap /\ todo[a] \in Nat
  BY CapAssumption DEF IInv, TypeOK, BudgetInv, UnderWayInv, Lock
<1> QED
  BY <1>1, CapAssumption DEF Fits, RemainingContent

\* Every step preserves it.
LEMMA NextUnderWay == IInv /\ UnderWayInv /\ [Next]_vars => UnderWayInv'
<1> USE CapAssumption, FreeAssumption
<1> SUFFICES ASSUME IInv, UnderWayInv, [Next]_vars PROVE UnderWayInv'
  OBVIOUS
<1> USE DEF UnderWayInv, IInv, TypeOK, LockInv, ProgressInv
<1>1. CASE UNCHANGED vars
  BY <1>1 DEF vars, counters, tree
<1>2. ASSUME NEW a \in Attempts, Refuse(a) PROVE UnderWayInv'
  BY <1>2 DEF Refuse, Done, counters, tree
<1>3. ASSUME NEW a \in Attempts, Begin(a) PROVE UnderWayInv'
  BY <1>3 DEF Begin, counters, tree
<1>4. ASSUME NEW a \in Attempts, NoWorkspace(a) PROVE UnderWayInv'
  BY <1>4 DEF NoWorkspace, counters, tree
<1>5. ASSUME NEW a \in Attempts, Execute(a) PROVE UnderWayInv'
  BY <1>5 DEF Execute, Planned, counters, tree
<1>6. ASSUME NEW a \in Attempts, Stopped(a) PROVE UnderWayInv'
  BY <1>6 DEF Stopped, Done, counters, tree
<1>7. ASSUME NEW a \in Attempts, NothingToWrite(a) PROVE UnderWayInv'
  BY <1>7 DEF NothingToWrite, Lock, Done, counters, tree
<1>8. ASSUME NEW a \in Attempts, PoolExhausted(a) PROVE UnderWayInv'
  BY <1>8 DEF PoolExhausted, Lock, Done, counters, tree
<1>9. ASSUME NEW a \in Attempts, StartStub(a) PROVE UnderWayInv'
  BY <1>9, Crowds DEF StartStub, Lock, Done, counters, tree
<1>10. ASSUME NEW a \in Attempts, StartFiles(a) PROVE UnderWayInv'
  BY <1>10 DEF StartFiles, Lock, counters, tree
<1>11. ASSUME NEW a \in Attempts, WriteFile(a) PROVE UnderWayInv'
  <2>1. PICK n \in 1..todo[a] :
          /\ files' = [files EXCEPT ![a] = @ + n]
          /\ content' = content + n
          /\ todo' = [todo EXCEPT ![a] = @ - n]
          /\ at' = at \/ at' = [at EXCEPT ![a] = "done"]
    BY <1>11 DEF WriteFile, Done
  <2>2. at[a] = "write" /\ lock = a
    BY <1>11 DEF WriteFile
  <2>3. n \in Nat /\ files[a] \in Nat /\ content \in Nat /\ files[a] <= content
    BY <2>2
  <2>4. files'[a] = files[a] + n /\ files'[a] <= content'
    BY <2>1, <2>3
  <2>5. \A b \in Attempts \ {a} : at[b] \notin {"write", "writeStub"}
    BY <2>2
  <2> QED
    BY <2>1, <2>2, <2>4, <2>5
<1>12. ASSUME NEW a \in Attempts, WriteStub(a) PROVE UnderWayInv'
  BY <1>12 DEF WriteStub, ChargeStub, Done
<1>13. ASSUME NEW a \in Attempts, WriteFails(a) PROVE UnderWayInv'
  BY <1>13 DEF WriteFails, Done, counters
<1>14. ASSUME NEW a \in Attempts, StubFails(a) PROVE UnderWayInv'
  BY <1>14 DEF StubFails, Done, counters
<1>15. QED
  BY <1>1, <1>2, <1>3, <1>4, <1>5, <1>6, <1>7, <1>8, <1>9, <1>10, <1>11,
     <1>12, <1>13, <1>14 DEF Next, Persisting

\* Both invariants hold throughout.
LEMMA UnderWay == Spec => [](IInv /\ UnderWayInv)
<1>1. Init => UnderWayInv
  BY DEF Init, UnderWayInv
<1> QED
  BY <1>1, InitInv, NextInv, NextUnderWay, PTL DEF Spec

\* What is settled when a writer is under way, and when none is.
LEMMA SettledIs ==
    ASSUME IInv, UnderWayInv
    PROVE  /\ Settled \in Nat /\ Settled <= ContentCap
           /\ \A a \in Attempts : at[a] = "write" => Settled = content - files[a]
           /\ (\A a \in Attempts : at[a] # "write") => Settled = content
           /\ lock = Free => Settled = content
<1> USE CapAssumption, FreeAssumption
<1>1. content \in Nat /\ content <= ContentCap
  BY DEF IInv, TypeOK, BudgetInv
<1>2. CASE lock # Free /\ at[lock] = "write"
  <2>1. lock \in Attempts /\ files[lock] \in Nat /\ files[lock] <= content
    BY <1>2 DEF IInv, TypeOK, UnderWayInv
  <2>2. Settled = content - files[lock]
    BY <1>2 DEF Settled
  <2>3. \A a \in Attempts : at[a] = "write" => a = lock
    BY DEF IInv, LockInv
  <2> QED
    BY <1>1, <1>2, <2>1, <2>2, <2>3
<1>3. CASE ~(lock # Free /\ at[lock] = "write")
  <2>1. \A a \in Attempts : at[a] # "write"
    BY <1>3 DEF IInv, LockInv
  <2> QED
    BY <1>1, <1>3, <2>1 DEF Settled
<1> QED
  BY <1>2, <1>3

\* Every step settles one attempt or none.
LEMMA StepSettles ==
    ASSUME IInv, UnderWayInv, [Next]_vars
    PROVE  [Budget!Next]_(Budget!vars)
<1> USE CapAssumption, FreeAssumption
<1> DEFINE Stutter == UNCHANGED <<Settled, stub, stop, result>>
<1>s. Stutter => [Budget!Next]_(Budget!vars)
  BY DEF Budget!vars
<1>i. /\ Settled \in Nat /\ Settled <= ContentCap /\ content \in Nat /\ content <= ContentCap
      /\ lock = Free => Settled = content
      /\ \A a \in Attempts : at[a] = "write" => Settled = content - files[a] /\ lock = a
      /\ \A a \in Attempts : at[a] = "writeStub" => Settled = content /\ lock = a
      /\ \A a \in Attempts : at[a] # "done" => result[a] = "none"
      /\ stub \in Nat /\ stub <= StubPool
  <2>1. \A a \in Attempts : at[a] = "writeStub" => \A b \in Attempts : at[b] # "write"
    BY DEF IInv, LockInv
  <2> QED
    BY <2>1, SettledIs DEF IInv, TypeOK, LockInv, ProgressInv, BudgetInv
<1> HIDE DEF Stutter
<1>1. CASE UNCHANGED vars
  BY <1>1, <1>s DEF vars, counters, tree, Settled, Stutter
<1>2. ASSUME NEW a \in Attempts, Refuse(a) PROVE Budget!Next
  <2>1. Settled' = Settled /\ UNCHANGED <<stub, stop>>
    BY <1>2, <1>i DEF Refuse, Done, counters, Settled
  <2>2. Budget!Settle(a, "unexecuted")
    BY <1>2, <1>i DEF Refuse, Done, Budget!Settle
  <2> QED
    BY <2>1, <2>2 DEF Budget!Next, Budget!Nothing
<1>3. ASSUME NEW a \in Attempts, Begin(a) PROVE Stutter
  BY <1>3, <1>i DEF Begin, counters, Settled, Stutter
<1>4. ASSUME NEW a \in Attempts, NoWorkspace(a) PROVE Budget!Next
  <2>1. /\ at[a] = "executing" /\ at' = [at EXCEPT ![a] = "done"]
        /\ UNCHANGED <<lock, content, stub, stop, files>>
    BY <1>4 DEF NoWorkspace, counters, tree
  <2>2. lock # Free => (at'[lock] = "write" <=> at[lock] = "write")
    BY <2>1 DEF IInv, TypeOK
  <2>3. Settled' = Settled
    BY <2>1, <2>2 DEF Settled
  <2>4. Budget!Settle(a, "jsonOnly")
    BY <1>4, <1>i DEF NoWorkspace, Budget!Settle
  <2> QED
    BY <2>1, <2>3, <2>4 DEF Budget!Next, Budget!Nothing
<1>5. ASSUME NEW a \in Attempts, Execute(a) PROVE Stutter
  <2>1. /\ at[a] = "executing" /\ at' = [at EXCEPT ![a] = "persist"]
        /\ UNCHANGED <<lock, content, stub, stop, files, result>>
    BY <1>5 DEF Execute, counters, tree
  <2>2. lock # Free => (at'[lock] = "write" <=> at[lock] = "write")
    BY <2>1 DEF IInv, TypeOK
  <2> QED
    BY <2>1, <2>2 DEF Settled, Stutter
<1>6. ASSUME NEW a \in Attempts, Stopped(a) PROVE Budget!Next
  <2>1. Settled' = Settled /\ stop /\ UNCHANGED <<stub, stop>>
    BY <1>6, <1>i DEF Stopped, Done, counters, Settled
  <2>2. Budget!Settle(a, "poolExhausted")
    BY <1>6, <1>i DEF Stopped, Done, Budget!Settle
  <2> QED
    BY <2>1, <2>2 DEF Budget!Next, Budget!Nothing
<1>7. ASSUME NEW a \in Attempts, NothingToWrite(a) PROVE Budget!Next
  <2>1. Settled' = Settled /\ UNCHANGED <<stub, stop>>
    BY <1>7, <1>i DEF NothingToWrite, Lock, Done, counters, Settled
  <2>2. Budget!Settle(a, "jsonOnly")
    BY <1>7, <1>i DEF NothingToWrite, Lock, Done, Budget!Settle
  <2> QED
    BY <2>1, <2>2 DEF Budget!Next, Budget!Nothing
<1>8. ASSUME NEW a \in Attempts, PoolExhausted(a) PROVE Budget!Next
  <2>1. content + AttemptCap > ContentCap /\ lock = Free
    BY <1>8, Crowds DEF PoolExhausted, Lock
  <2>2. Settled' = Settled /\ Settled = content /\ ~stop /\ stop' = TRUE /\ stub' = stub
    BY <1>8, <2>1, <1>i DEF PoolExhausted, Lock, Done, Settled
  <2>3. stub = StubPool
    BY <1>8, <1>i DEF PoolExhausted, RemainingStub
  <2>4. Budget!Settle(a, "poolExhausted")
    BY <1>8, <1>i DEF PoolExhausted, Lock, Done, Budget!Settle
  <2> QED
    BY <2>1, <2>2, <2>3, <2>4 DEF Budget!Next, Budget!Exhaust, Budget!Crowded
<1>9. ASSUME NEW a \in Attempts, StartStub(a) PROVE [Budget!Next]_(Budget!vars)
  <2>1. content + AttemptCap > ContentCap /\ lock = Free
    BY <1>9, Crowds DEF StartStub, Lock
  <2>2. /\ Settled = content /\ content' = content
        /\ UNCHANGED <<stub, stop, files>> /\ ~stop
    BY <1>9, <2>1, <1>i DEF StartStub, Lock, counters, tree
  <2>3. PICK n \in 1..StubMax :
          \/ n > RemainingStub /\ Done(a, "stubTooBig")
          \/ /\ at' = [at EXCEPT ![a] = "writeStub"] /\ lock' = a
             /\ result' = result
    BY <1>9 DEF StartStub
  <2>4. CASE n > RemainingStub /\ Done(a, "stubTooBig")
    <3>1. stub < StubPool /\ stub + StubMax > StubPool
      BY <1>9, <1>i, <2>4 DEF StartStub, RemainingStub
    <3>2. Settled' = Settled
      BY <2>2, <2>4 DEF Done, Settled
    <3>3. Budget!Settle(a, "stubTooBig")
      BY <1>9, <1>i, <2>4 DEF StartStub, Lock, Done, Budget!Settle
    <3> QED
      BY <2>1, <2>2, <3>1, <3>2, <3>3 DEF Budget!Next, Budget!TooBig, Budget!Crowded
  <2>5. CASE /\ at' = [at EXCEPT ![a] = "writeStub"] /\ lock' = a
             /\ result' = result
    <3>1. at'[lock'] = "writeStub"
      BY <2>5 DEF IInv, TypeOK
    <3> QED
      BY <2>2, <2>5, <3>1, <1>s DEF Settled, Stutter
  <2> QED
    BY <2>3, <2>4, <2>5
<1>10. ASSUME NEW a \in Attempts, StartFiles(a) PROVE Stutter
  <2>1. /\ at[a] = "persist" /\ at' = [at EXCEPT ![a] = "write"] /\ lock = Free /\ lock' = a
        /\ UNCHANGED <<content, stub, stop, files, result>>
    BY <1>10 DEF StartFiles, Lock, counters, tree
  <2>2. files'[a] = 0 /\ at'[lock'] = "write"
    BY <2>1 DEF IInv, TypeOK, ProgressInv
  <2> QED
    BY <2>1, <2>2, <1>i DEF Settled, Stutter
<1>11. ASSUME NEW a \in Attempts, WriteFile(a) PROVE [Budget!Next]_(Budget!vars)
  <2>1. PICK n \in 1..todo[a] :
          /\ files' = [files EXCEPT ![a] = @ + n]
          /\ content' = content + n
          /\ IF n = todo[a] THEN Done(a, "complete")
             ELSE UNCHANGED <<at, lock, result>>
    BY <1>11 DEF WriteFile
  <2>2. /\ at[a] = "write" /\ lock = a /\ ~stop /\ UNCHANGED <<stub, stop>>
        /\ Settled = content - files[a] /\ files[a] \in Nat /\ todo[a] \in Nat
        /\ content + todo[a] <= ContentCap
    BY <1>11, <1>i DEF WriteFile, IInv, TypeOK, LockInv, ReserveInv
  <2>3. CASE n = todo[a]
    <3>1. Done(a, "complete") /\ Settled' = content'
      BY <2>1, <2>3 DEF Done, Settled
    <3>2. files[a] + n \in 1..(ContentCap - Settled) /\ Settled' = Settled + (files[a] + n)
      BY <2>1, <2>2, <3>1, <1>i
    <3>3. Budget!Settle(a, "complete")
      BY <2>2, <3>1, <1>i DEF Done, Budget!Settle
    <3> QED
      BY <2>2, <3>2, <3>3 DEF Budget!Next, Budget!Keep
  <2>4. CASE n # todo[a]
    <3>1. UNCHANGED <<at, lock, result>> /\ files'[a] = files[a] + n
      BY <2>1, <2>4 DEF IInv, TypeOK
    <3>2. Settled' = content' - files'[a]
      BY <2>2, <3>1 DEF Settled
    <3>3. Settled' = Settled
      BY <2>1, <2>2, <3>1, <3>2, <1>i
    <3> QED
      BY <2>2, <3>1, <3>3, <1>s DEF Stutter
  <2> QED
    BY <2>3, <2>4
<1>12. ASSUME NEW a \in Attempts, WriteStub(a) PROVE Budget!Next
  <2>1. /\ at[a] = "writeStub" /\ lock = a /\ ~stop /\ Settled = content
        /\ todo[a] \in 1..StubMax /\ stub + todo[a] <= StubPool
        /\ content + AttemptCap > ContentCap
    BY <1>12, <1>i DEF WriteStub, IInv, LockInv, ReserveInv, UnderWayInv
  <2>2. /\ stub' = stub + todo[a] /\ content' = content /\ stop' = stop
        /\ Done(a, "partial")
    BY <1>12 DEF WriteStub, ChargeStub
  <2>3. Settled' = Settled
    BY <2>1, <2>2 DEF Done, Settled
  <2>4. todo[a] <= StubPool - stub
    BY <2>1, <1>i
  <2>5. Budget!Settle(a, "partial")
    BY <2>1, <2>2, <1>i DEF Done, Budget!Settle
  <2> QED
    BY <2>1, <2>2, <2>3, <2>4, <2>5 DEF Budget!Next, Budget!KeepStub, Budget!Crowded
<1>13. ASSUME NEW a \in Attempts, WriteFails(a) PROVE Budget!Next
  <2>1. /\ at[a] = "write" /\ lock = a /\ ~stop /\ Settled = content - files[a]
        /\ files[a] \in Nat /\ UNCHANGED <<content, stub, stop>> /\ Done(a, "failed")
    BY <1>13, <1>i DEF WriteFails, IInv, TypeOK, LockInv, counters
  <2>2. Settled' = content
    BY <2>1 DEF Done, Settled
  <2>3. files[a] \in 0..(ContentCap - Settled) /\ Settled' = Settled + files[a]
    BY <2>1, <2>2, <1>i
  <2>4. Budget!Settle(a, "failed")
    BY <2>1, <1>i DEF Done, Budget!Settle
  <2> QED
    BY <2>1, <2>3, <2>4 DEF Budget!Next, Budget!Fail
<1>14. ASSUME NEW a \in Attempts, StubFails(a) PROVE Budget!Next
  <2>1. /\ at[a] = "writeStub" /\ lock = a /\ ~stop /\ Settled = content
        /\ UNCHANGED <<content, stub, stop>> /\ Done(a, "failed")
    BY <1>14, <1>i DEF StubFails, IInv, LockInv, counters
  <2>2. Settled' = content
    BY <2>1 DEF Done, Settled
  <2>3. 0 \in 0..(ContentCap - Settled) /\ Settled' = Settled + 0
    BY <2>1, <2>2, <1>i
  <2>4. Budget!Settle(a, "failed")
    BY <2>1, <1>i DEF Done, Budget!Settle
  <2> QED
    BY <2>1, <2>3, <2>4 DEF Budget!Next, Budget!Fail
<1>15. QED
  BY <1>1, <1>2, <1>3, <1>4, <1>5, <1>6, <1>7, <1>8, <1>9, <1>10, <1>11,
     <1>12, <1>13, <1>14, <1>s DEF Next, Persisting

\* The writes of an attempt refine one step of the abstract budget, for every
\* number of attempts and every cap: persist_according_to_policy is atomic.
THEOREM SettlesAtOnce == Spec => SettledAtOnce
<1>1. Init => Budget!Init
  BY FreeAssumption DEF Init, Budget!Init, Settled
<1>2. IInv /\ UnderWayInv /\ [Next]_vars => [Budget!Next]_(Budget!vars)
  BY StepSettles
<1> QED
  BY UnderWay, <1>1, <1>2, PTL DEF Spec, SettledAtOnce, Budget!Spec

-----------------------------------------------------------------------------
(* The counters are what measuring the run tree gives.  SumFunction is a    *)
(* recursive function over the subsets of the attempts, which has to be     *)
(* shown to exist before anything can be said of its values.  Each fact     *)
(* about it is an induction over those subsets, in the form that needs no   *)
(* operator parameter: the subsets where it fails, if there are any, have a *)
(* minimal member (FS_StrictSubsetOrderingWellFounded and WFMin), and the   *)
(* subset without its first element is no longer one of them.               *)

\* The element that a sum takes first from the set s.
First(s) == CHOOSE y \in s : TRUE

\* g is the sum of f over every subset of S.
Sums(g, f, S) ==
    g = [s \in SUBSET S |->
            IF s = {} THEN 0 ELSE f[First(s)] + g[s \ {First(s)}]]

\* SumFunction is such a g, at the whole domain.
LEMMA SumDef ==
    ASSUME NEW f, NEW S
    PROVE  SumFunctionOnSet(f, S) = (CHOOSE g : Sums(g, f, S))[S]
BY DEF SumFunctionOnSet, FoldFunctionOnSet, MapThenFoldSet, Sums, First

LEMMA FirstIn == ASSUME NEW s, s # {} PROVE First(s) \in s
BY DEF First

\* A nonempty set of subsets of a finite set has a minimal member.
LEMMA Minimal ==
    ASSUME NEW S, IsFiniteSet(S), NEW T \in SUBSET SUBSET S, T # {}
    PROVE  \E s \in T : \A u \in T : u \subseteq s => u = s
<1>1. IsWellFoundedOn(StrictSubsetOrdering(S), SUBSET S)
  BY FS_StrictSubsetOrderingWellFounded, FS_FiniteSubsetsOfFinite
<1>2. PICK s \in T : \A u \in T : <<u, s>> \notin StrictSubsetOrdering(S)
  <2> HIDE DEF StrictSubsetOrdering
  <2> QED
    BY <1>1, WFMin
<1>3. ASSUME NEW u \in T, u \subseteq s PROVE u = s
  <2>1. <<u, s>> \notin StrictSubsetOrdering(S)
    BY <1>2
  <2> QED
    BY <2>1, <1>3 DEF StrictSubsetOrdering
<1> QED
  BY <1>3

\* What Sums says of one subset.
LEMMA SumsAt ==
    ASSUME NEW f, NEW S, NEW g, Sums(g, f, S), NEW s \in SUBSET S
    PROVE  g[s] = IF s = {} THEN 0 ELSE f[First(s)] + g[s \ {First(s)}]
<1>1. g = [t \in SUBSET S |->
              IF t = {} THEN 0 ELSE f[First(t)] + g[t \ {First(t)}]]
  BY DEF Sums
<1> QED
  BY <1>1

\* The sum of nothing.
LEMMA SumsEmpty ==
    ASSUME NEW f, NEW S, NEW g, Sums(g, f, S)
    PROVE  g[{}] = 0
<1>1. {} \in SUBSET S
  OBVIOUS
<1> QED
  BY <1>1, SumsAt

\* The sum over a nonempty subset comes from that over a smaller one.
LEMMA SumsStep ==
    ASSUME NEW f, NEW S, NEW g, Sums(g, f, S), NEW s \in SUBSET S, s # {}
    PROVE  /\ First(s) \in s
           /\ s \ {First(s)} \in SUBSET S
           /\ g[s] = f[First(s)] + g[s \ {First(s)}]
<1>1. g[s] = IF s = {} THEN 0 ELSE f[First(s)] + g[s \ {First(s)}]
  BY SumsAt
<1> QED
  BY <1>1, FirstIn

\* Two sums agree wherever both are defined.
LEMMA SumsAgree ==
    ASSUME NEW f, NEW S, IsFiniteSet(S), NEW U \in SUBSET S, NEW V \in SUBSET S,
           NEW g, Sums(g, f, U), NEW h, Sums(h, f, V)
    PROVE  \A s \in SUBSET (U \cap V) : g[s] = h[s]
<1> DEFINE Differ == {s \in SUBSET (U \cap V) : g[s] # h[s]}
<1> SUFFICES ASSUME Differ # {} PROVE FALSE
  OBVIOUS
<1>1. PICK s \in Differ : \A u \in Differ : u \subseteq s => u = s
  <2>1. Differ \in SUBSET SUBSET S
    OBVIOUS
  <2> HIDE DEF Differ
  <2> QED
    BY <2>1, Minimal
<1>2. s \in SUBSET U /\ s \in SUBSET V /\ g[s] # h[s]
  OBVIOUS
<1>3. CASE s = {}
  <2>1. g[{}] = 0 /\ h[{}] = 0
    BY SumsEmpty
  <2> QED
    BY <1>2, <1>3, <2>1
<1>4. CASE s # {}
  <2> DEFINE r == s \ {First(s)}
  <2>1. /\ First(s) \in s
        /\ g[s] = f[First(s)] + g[r]
        /\ h[s] = f[First(s)] + h[r]
    BY <1>2, <1>4, SumsStep
  <2>2. r \notin Differ
    BY <1>1, <2>1
  <2>3. r \in SUBSET (U \cap V)
    OBVIOUS
  <2>4. g[r] = h[r]
    BY <2>2, <2>3
  <2> HIDE DEF r, Differ
  <2> QED
    BY <1>2, <2>1, <2>4
<1> QED
  BY <1>3, <1>4

\* A finite set has its sums.
LEMMA SumsExist ==
    ASSUME NEW f, NEW S, IsFiniteSet(S)
    PROVE  \E g : Sums(g, f, S)
<1> DEFINE Without == {s \in SUBSET S : ~ \E g : Sums(g, f, s)}
<1> SUFFICES ASSUME Without # {} PROVE FALSE
  OBVIOUS
<1>1. PICK s \in Without : \A u \in Without : u \subseteq s => u = s
  <2>1. Without \in SUBSET SUBSET S
    OBVIOUS
  <2> HIDE DEF Without
  <2> QED
    BY <2>1, Minimal
<1> DEFINE G(u) == CHOOSE g : Sums(g, f, u)
           whole(u) == G(u)[u]
           r(u) == u \ {First(u)}
           all == [u \in SUBSET s |->
                      IF u = {} THEN 0 ELSE f[First(u)] + whole(r(u))]
<1>2. ASSUME NEW u \in SUBSET s, u # s PROVE Sums(G(u), f, u)
  <2>1. u \notin Without
    BY <1>1, <1>2
  <2>2. \E g : Sums(g, f, u)
    BY <2>1, <1>1
  <2> QED
    BY <2>2
<1>3. ASSUME NEW u \in SUBSET s, u # s PROVE all[u] = whole(u)
  <2>1. Sums(G(u), f, u)
    BY <1>2, <1>3
  <2>2. all[u] = IF u = {} THEN 0 ELSE f[First(u)] + whole(r(u))
    OBVIOUS
  <2> HIDE DEF all, G
  <2>3. CASE u = {}
    BY <2>1, <2>2, <2>3, SumsEmpty
  <2>4. CASE u # {}
    <3>1. First(u) \in u /\ r(u) \in SUBSET u /\ G(u)[u] = f[First(u)] + G(u)[r(u)]
      <4> DEFINE gu == G(u)
      <4>1. Sums(gu, f, u) /\ u \in SUBSET u
        BY <2>1
      <4> HIDE DEF gu
      <4>2. First(u) \in u /\ gu[u] = f[First(u)] + gu[u \ {First(u)}]
        BY <4>1, <2>4, SumsStep
      <4> QED
        BY <4>2 DEF gu
    <3>2. Sums(G(r(u)), f, r(u))
      <4>1. r(u) \in SUBSET s /\ r(u) # s
        BY <3>1
      <4> HIDE DEF r
      <4> QED
        BY <4>1, <1>2
    <3>3. G(r(u))[r(u)] = G(u)[r(u)]
      <4>1. u \in SUBSET S /\ r(u) \in SUBSET S
        BY <1>1
      <4>2. r(u) \in SUBSET (u \cap r(u))
        BY <3>1
      <4> DEFINE gu == G(u)
                 gr == G(r(u))
                 v == r(u)
      <4>3. Sums(gu, f, u) /\ Sums(gr, f, v) /\ v \in SUBSET (u \cap v)
            /\ u \in SUBSET S /\ v \in SUBSET S
        BY <4>1, <4>2, <2>1, <3>2
      <4> HIDE DEF r, G, gu, gr, v
      <4>4. gu[v] = gr[v]
        BY <4>3, SumsAgree
      <4> QED
        BY <4>4 DEF gu, gr, v
    <3> QED
      BY <3>1, <3>3, <2>2, <2>4
  <2> QED
    BY <2>3, <2>4
<1>4. Sums(all, f, s)
  <2>1. ASSUME NEW u \in SUBSET s, u # {} PROVE all[r(u)] = whole(r(u))
    <3>1. First(u) \in u
      BY <2>1, FirstIn
    <3>2. r(u) \in SUBSET s /\ r(u) # s
      BY <3>1
    <3> HIDE DEF all, whole, r
    <3> QED
      BY <3>2, <1>3
  <2>2. all = [u \in SUBSET s |-> IF u = {} THEN 0 ELSE f[First(u)] + all[r(u)]]
    <3>1. \A u \in SUBSET s :
             (IF u = {} THEN 0 ELSE f[First(u)] + whole(r(u)))
             = (IF u = {} THEN 0 ELSE f[First(u)] + all[r(u)])
      <4> HIDE DEF all, whole, r
      <4> QED
        BY <2>1
    <3>2. all = [u \in SUBSET s |-> IF u = {} THEN 0 ELSE f[First(u)] + whole(r(u))]
      OBVIOUS
    <3> HIDE DEF all, whole, r
    <3> QED
      BY <3>1, <3>2
  <2> HIDE DEF all
  <2> QED
    BY <2>2 DEF Sums
<1> HIDE DEF all
<1>5. s \notin Without
  BY <1>4
<1> QED
  BY <1>1, <1>5

\* The sum over a finite set, and the sums over its subsets.
LEMMA SumOf ==
    ASSUME NEW S, IsFiniteSet(S), NEW f
    PROVE  \E g : Sums(g, f, S) /\ SumFunctionOnSet(f, S) = g[S]
<1>1. Sums(CHOOSE g : Sums(g, f, S), f, S)
  BY SumsExist
<1> QED
  BY <1>1, SumDef

\* A sum of natural numbers is one.
LEMMA SumNat ==
    ASSUME NEW S, IsFiniteSet(S), NEW f \in [S -> Nat]
    PROVE  SumFunction(f) \in Nat
<1>1. PICK g : Sums(g, f, S) /\ SumFunctionOnSet(f, S) = g[S]
  BY SumOf
<1> DEFINE Odd == {s \in SUBSET S : g[s] \notin Nat}
<1> SUFFICES ASSUME Odd # {} PROVE FALSE
  BY <1>1 DEF SumFunction
<1>2. PICK s \in Odd : \A u \in Odd : u \subseteq s => u = s
  <2>1. Odd \in SUBSET SUBSET S
    OBVIOUS
  <2> HIDE DEF Odd
  <2> QED
    BY <2>1, Minimal
<1>3. s \in SUBSET S /\ g[s] \notin Nat
  OBVIOUS
<1>4. First(s) \in s /\ s \ {First(s)} \in SUBSET S
      /\ g[s] = f[First(s)] + g[s \ {First(s)}]
  <2>1. s # {}
    BY <1>1, <1>3, SumsEmpty
  <2> QED
    BY <1>1, <1>3, <2>1, SumsStep
<1>5. s \ {First(s)} \notin Odd
  BY <1>2, <1>4
<1>6. g[s \ {First(s)}] \in Nat /\ f[First(s)] \in Nat
  BY <1>3, <1>4, <1>5
<1> QED
  BY <1>3, <1>4, <1>6

\* A sum of zeros is 0.
LEMMA SumZero ==
    ASSUME NEW S, IsFiniteSet(S)
    PROVE  SumFunction([a \in S |-> 0]) = 0
<1> DEFINE f == [a \in S |-> 0]
<1>1. PICK g : Sums(g, f, S) /\ SumFunctionOnSet(f, S) = g[S]
  <2> HIDE DEF f
  <2> QED
    BY SumOf
<1> DEFINE Odd == {s \in SUBSET S : g[s] # 0}
<1> SUFFICES ASSUME Odd # {} PROVE FALSE
  BY <1>1 DEF SumFunction
<1>2. PICK s \in Odd : \A u \in Odd : u \subseteq s => u = s
  <2>1. Odd \in SUBSET SUBSET S
    OBVIOUS
  <2> HIDE DEF Odd
  <2> QED
    BY <2>1, Minimal
<1>3. s \in SUBSET S /\ g[s] # 0
  OBVIOUS
<1>4. First(s) \in s /\ s \ {First(s)} \in SUBSET S
      /\ g[s] = f[First(s)] + g[s \ {First(s)}]
  <2> HIDE DEF f
  <2>1. s # {}
    BY <1>1, <1>3, SumsEmpty
  <2> QED
    BY <1>1, <1>3, <2>1, SumsStep
<1>5. s \ {First(s)} \notin Odd
  BY <1>2, <1>4
<1>6. g[s \ {First(s)}] = 0 /\ f[First(s)] = 0
  BY <1>3, <1>4, <1>5
<1> QED
  BY <1>3, <1>4, <1>6

\* Adding n to one entry adds n to the sum.
LEMMA SumAdd ==
    ASSUME NEW S, IsFiniteSet(S), NEW f \in [S -> Nat], NEW a \in S, NEW n \in Nat
    PROVE  SumFunction([f EXCEPT ![a] = @ + n]) = SumFunction(f) + n
<1> DEFINE fn == [f EXCEPT ![a] = @ + n]
<1>1. PICK g : Sums(g, f, S) /\ SumFunctionOnSet(f, S) = g[S]
  BY SumOf
<1>2. PICK h : Sums(h, fn, S) /\ SumFunctionOnSet(fn, S) = h[S]
  <2> HIDE DEF fn
  <2> QED
    BY SumOf
<1> DEFINE Grown(s) == g[s] \in Nat /\ h[s] = IF a \in s THEN g[s] + n ELSE g[s]
           Odd == {s \in SUBSET S : ~Grown(s)}
<1>3. Odd = {}
  <2> SUFFICES ASSUME Odd # {} PROVE FALSE
    OBVIOUS
  <2>1. PICK s \in Odd : \A u \in Odd : u \subseteq s => u = s
    <3>1. Odd \in SUBSET SUBSET S
      OBVIOUS
    <3> HIDE DEF Odd
    <3> QED
      BY <3>1, Minimal
  <2>2. s \in SUBSET S /\ ~Grown(s)
    OBVIOUS
  <2>3. CASE s = {}
    <3>1. g[{}] = 0
      BY <1>1, SumsEmpty
    <3>2. h[{}] = 0
      <4> HIDE DEF fn
      <4> QED
        BY <1>2, SumsEmpty
    <3> QED
      BY <3>1, <3>2, <2>2, <2>3
  <2>4. CASE s # {}
    <3> DEFINE x == First(s)
               r == s \ {x}
    <3>1. x \in s /\ r \in SUBSET S /\ g[s] = f[x] + g[r]
      BY <1>1, <2>2, <2>4, SumsStep
    <3>2. h[s] = fn[x] + h[r]
      <4> HIDE DEF fn
      <4> QED
        BY <1>2, <2>2, <2>4, SumsStep
    <3>3. Grown(r)
      <4>1. r \notin Odd
        BY <2>1, <3>1
      <4> QED
        BY <4>1, <3>1
    <3>4. x \in S /\ fn[x] = IF x = a THEN f[x] + n ELSE f[x]
      BY <2>2, <3>1
    <3>5. a \in s <=> x = a \/ a \in r
      BY <3>1
    <3>6. x = a => a \notin r
      OBVIOUS
    <3>7. f[x] \in Nat
      BY <3>4
    <3> HIDE DEF fn, x, r
    <3> QED
      BY <2>2, <3>1, <3>2, <3>3, <3>4, <3>5, <3>6, <3>7
  <2> QED
    BY <2>3, <2>4
<1>4. h[S] = g[S] + n
  BY <1>3
<1>5. SumFunction(f) = g[S]
  BY <1>1 DEF SumFunction
<1>6. SumFunction(fn) = h[S]
  BY <1>2 DEF SumFunction
<1> QED
  BY <1>4, <1>5, <1>6

\* The counters agree with the tree while nothing has been written.
LEMMA InitMeasured == Init => MeasuredTree
<1> SUFFICES ASSUME Init PROVE MeasuredTree
  OBVIOUS
<1>1. SumFunction([a \in Attempts |-> 0]) = 0
  BY AttemptsAssumption, SumZero
<1> QED
  BY <1>1 DEF Init, MeasuredTree

\* A step that leaves counters and tree alone, or reports an error, keeps them.
LEMMA MeasuredKeeps ==
    ASSUME MeasuredTree,
           UNCHANGED <<content, stub, files, stubs, ioError>> \/ ioError' = TRUE
    PROVE  MeasuredTree'
BY DEF MeasuredTree

\* Every step of every attempt keeps the counters what the tree measures: a
\* file is counted with the step that completes it, a stub replaces nothing.
LEMMA NextMeasured == IInv /\ MeasuredTree /\ [Next]_vars => MeasuredTree'
<1> SUFFICES ASSUME IInv, MeasuredTree, [Next]_vars PROVE MeasuredTree'
  OBVIOUS
<1> USE AttemptsAssumption
<1>1. CASE UNCHANGED vars
  BY <1>1, MeasuredKeeps DEF vars, counters, tree
<1>2. ASSUME NEW a \in Attempts,
             Refuse(a) \/ Begin(a) \/ NoWorkspace(a) \/ Execute(a) \/ Stopped(a)
      PROVE  MeasuredTree'
  BY <1>2, MeasuredKeeps
     DEF Refuse, Begin, NoWorkspace, Execute, Stopped, counters, tree
<1>3. ASSUME NEW a \in Attempts,
             NothingToWrite(a) \/ PoolExhausted(a) \/ StartStub(a) \/ StartFiles(a)
      PROVE  MeasuredTree'
  BY <1>3, MeasuredKeeps
     DEF NothingToWrite, PoolExhausted, StartStub, StartFiles, counters, tree
<1>4. ASSUME NEW a \in Attempts, WriteFails(a) \/ StubFails(a) PROVE MeasuredTree'
  BY <1>4, MeasuredKeeps DEF WriteFails, StubFails
<1>5. ASSUME NEW a \in Attempts, WriteFile(a) PROVE MeasuredTree'
  <2>1. PICK n \in 1..todo[a] :
            /\ files' = [files EXCEPT ![a] = @ + n]
            /\ content' = content + n
    BY <1>5 DEF WriteFile
  <2>2. UNCHANGED <<stub, stubs, ioError>>
    BY <1>5 DEF WriteFile
  <2>3. n \in Nat /\ files \in [Attempts -> Nat]
    BY DEF IInv, TypeOK
  <2>4. SumFunction(files') = SumFunction(files) + n
    BY <2>1, <2>3, SumAdd
  <2> QED
    BY <2>1, <2>2, <2>4 DEF MeasuredTree
<1>6. ASSUME NEW a \in Attempts, WriteStub(a) PROVE MeasuredTree'
  <2> DEFINE n == todo[a]
  <2>1. /\ stubs' = [stubs EXCEPT ![a] = n]
        /\ stub' = stub + n
        /\ UNCHANGED <<content, files, ioError>>
    BY <1>6 DEF WriteStub, ChargeStub
  <2>2. n \in Nat /\ stubs \in [Attempts -> Nat] /\ stubs[a] = 0
    BY <1>6 DEF WriteStub, IInv, TypeOK, ReserveInv, ProgressInv
  <2>3. stubs' = [stubs EXCEPT ![a] = @ + n]
    <3>1. stubs[a] + n = n
      BY <2>2
    <3> HIDE DEF n
    <3> QED
      BY <2>1, <3>1
  <2>4. SumFunction(stubs') = SumFunction(stubs) + n
    <3> HIDE DEF n
    <3> QED
      BY <2>2, <2>3, SumAdd
  <2> QED
    BY <2>1, <2>4 DEF MeasuredTree
<1> QED
  BY <1>1, <1>2, <1>3, <1>4, <1>5, <1>6 DEF Next, Persisting

\* As long as no write has failed, the counters are the bytes on disk, for any
\* number of attempts writing in any order.
THEOREM CountersMeasureTree == Spec => []MeasuredTree
<1> QED
  BY Invariance, InitMeasured, NextMeasured, PTL DEF Spec

-----------------------------------------------------------------------------
(* HonestResult for pipes, inputs and outputs of any size.  What a run      *)
(* reports it has put together earlier, step by step, while the child, the  *)
(* readers and the writer went on; the invariant says of each step of the   *)
(* caller what they can no longer change.                                   *)

Before == {"wait", "kill"}
Waited == {"killTree", "join", "joinStderr", "joinWriter"}

StreamState == [written : 0..OutputMax, ends : SUBSET (1..OutputMax), pipe : 0..PipeSize,
                kept : 0..OutputMax, cut : BOOLEAN, reader : {"reading", "done", "aborted"}]
OutcomeState == [kind : {"none", "ok", "error"}, output : [Streams -> 0..OutputMax],
                 lost : SUBSET Streams]

\* What the caller knows of the processes when it is at a step.
CallerInv ==
    /\ call.late => call.mode # "wait"
    /\ call.at = "kill" => call.late
    /\ call.at = "reap" /\ call.mode # "wait" => ~Alive /\ call.late
    /\ call.at = "reap" /\ call.mode = "wait" => \A s \in Streams : Ended(s)
    /\ call.at = "killTree" => call.mode = "managed"
    /\ call.at = "join" => call.mode # "wait" /\ ~Alive
    /\ call.at = "joinStderr" => call.mode = "managed" /\ ~Alive
    /\ call.at \in Waited => procs.child = "reaped"
    /\ call.at = "joinWriter" => call.mode # "managed" /\ \A s \in Streams : Ended(s)
    /\ call.at = "returned" <=> outcome.kind # "none"

\* A helper and a reaped child, a kill and a timeout.
TreeInv ==
    /\ call.mode # "managed" => procs.helper = "none"
    /\ procs.child = "reaped" => call.at \in Waited \cup {"returned"}
    /\ procs.killed => call.at \notin Before /\ call.mode # "wait"
    /\ procs.killed /\ call.at \in Waited => call.timedOut
    /\ call.timedOut => call.late /\ call.at \notin Before \cup {"reap"}

\* A byte that was written is in the pipe or was read, and what was read was
\* kept, up to the limit of a managed run, which remembers that there was more.
\* A stream that ended was then cut back to its complete lines.
Streamed(s) ==
    /\ call.mode # "managed" => out[s].kept + out[s].pipe = out[s].written /\ ~out[s].cut
    /\ call.mode = "managed" /\ out[s].reader = "reading" =>
          /\ out[s].kept <= LogLimit
          /\ ~out[s].cut => out[s].kept + out[s].pipe = out[s].written
          /\ out[s].cut => /\ out[s].kept = LogLimit
                           /\ out[s].kept + out[s].pipe < out[s].written
    /\ Ended(s) => out[s].pipe = 0 /\ ~Alive /\ WholeOrLines(s, out[s].kept)

StreamInv == \A s \in Streams : Streamed(s)

\* What a managed run has collected.
CollectInv ==
    /\ call.at \notin {"joinStderr", "returned"} => outcome.lost = {} /\ outcome.output = NoOutput
    /\ call.at = "joinStderr" =>
          /\ outcome.lost \subseteq {"stdout"} /\ outcome.output["stderr"] = 0
          /\ IF "stdout" \in outcome.lost THEN outcome.output["stdout"] = 0
             ELSE WholeOrLines("stdout", outcome.output["stdout"])

InputInv ==
    /\ stdin.sent <= stdin.length
    /\ stdin.writer \in {"none", "done"} => stdin.sent = stdin.length
    /\ call.mode = "managed" => stdin.length = 0

Inv == RunTypeOK /\ CallerInv /\ TreeInv /\ StreamInv /\ CollectInv /\ InputInv /\ HonestResult

\* The invariant holds when the child has been spawned.
LEMMA Initial == RunInit => Inv
<1> SUFFICES ASSUME RunInit PROVE Inv
  OBVIOUS
<1> USE SizeAssumption, LimitAssumption DEF RunInit
<1>1. RunTypeOK
  <2>1. out \in [Streams -> StreamState]
    BY DEF StreamState
  <2>2. outcome \in OutcomeState
    BY DEF NoOutput, OutcomeState
  <2>3. stdin \in [length : 0..InputMax, sent : 0..InputMax, pipe : 0..PipeSize,
                   writer : {"none", "writing", "done", "failed"}]
    OBVIOUS
  <2> QED
    BY <2>1, <2>2, <2>3 DEF RunTypeOK, StreamState, OutcomeState
<1>2. CallerInv /\ TreeInv
  BY DEF CallerInv, TreeInv, Before, Waited, Modes
<1>3. StreamInv /\ CollectInv
  BY DEF StreamInv, Streamed, CollectInv, Ended
<1>4. InputInv /\ HonestResult
  BY DEF InputInv, HonestResult, Modes
<1> QED
  BY <1>1, <1>2, <1>3, <1>4 DEF Inv

\* One stream changes, and nothing is written to it unless somebody is left
\* to write.
LEMMA OneStreamKeeps ==
  ASSUME Inv, NEW s \in Streams, NEW o \in StreamState,
         UNCHANGED <<call, procs, stdin, outcome>>, out' = [out EXCEPT ![s] = o],
         ~Alive => o.written = out[s].written /\ o.ends = out[s].ends,
         Ended(s) => o.reader = "done", Streamed(s)'
  PROVE  Inv'
<1>1. out \in [Streams -> StreamState]
  BY DEF Inv, RunTypeOK, StreamState
<1>2. /\ out' \in [Streams -> StreamState] /\ out'[s] = o
      /\ \A r \in Streams \ {s} : out'[r] = out[r]
  BY <1>1
<1>3. /\ Alive' = Alive
      /\ \A r \in Streams : Ended(r) => Ended(r)'
      /\ ~Alive => \A r \in Streams : \A n : WholeOrLines(r, n) => WholeOrLines(r, n)'
  BY <1>2 DEF Alive, Ended, WholeOrLines, LinesEnd
<1> HIDE DEF Alive
<1>4. RunTypeOK' /\ InputInv'
  BY <1>2 DEF Inv, RunTypeOK, InputInv, StreamState
<1>5. CallerInv' /\ TreeInv'
  BY <1>3 DEF Inv, CallerInv, TreeInv
<1>6. StreamInv'
  <2>1. ASSUME NEW r \in Streams \ {s} PROVE Streamed(r)'
    <3>1. Streamed(r) /\ out'[r] = out[r]
      BY <1>2 DEF Inv, StreamInv
    <3> QED
      BY <1>3, <3>1 DEF Streamed, Ended, WholeOrLines, LinesEnd
  <2> QED
    BY <2>1 DEF StreamInv
<1>7. CollectInv'
  BY <1>3 DEF Inv, CollectInv, CallerInv, Streams
<1>8. HonestResult'
  BY <1>3 DEF Inv, HonestResult
<1> QED
  BY <1>4, <1>5, <1>6, <1>7, <1>8 DEF Inv

\* What the child and its helper do cannot make a step of the caller wrong.
LEMMA ProgramKeeps == ASSUME Inv, Program PROVE Inv'
<1> USE SizeAssumption, LimitAssumption
<1>1. ASSUME NEW s \in Streams, Write(s) PROVE Inv'
  <2>1. PICK newline \in SUBSET {out[s].written + 1} :
           out' = [out EXCEPT ![s].written = @ + 1, ![s].pipe = @ + 1, ![s].ends = @ \cup newline]
    BY <1>1 DEF Write
  <2> DEFINE o == [out[s] EXCEPT !.written = @ + 1, !.pipe = @ + 1, !.ends = @ \cup newline]
  <2>2. /\ Alive /\ out[s].written + 1 \in 1..OutputMax /\ out[s].pipe + 1 \in 0..PipeSize
        /\ out[s] \in StreamState /\ UNCHANGED <<call, procs, stdin, outcome>>
    BY <1>1 DEF Write, Inv, RunTypeOK, StreamState
  <2>3. out' = [out EXCEPT ![s] = o]
    BY <2>1 DEF Inv, RunTypeOK
  <2>4. o \in StreamState
    <3> DEFINE more == out[s].ends \cup newline
    <3>1. more \in SUBSET (1..OutputMax)
      BY <2>2 DEF StreamState
    <3>2. out[s].written + 1 \in 0..OutputMax
      BY <2>2
    <3>3. o = [out[s] EXCEPT !.written = out[s].written + 1, !.pipe = out[s].pipe + 1, !.ends = more]
      BY <2>2 DEF StreamState
    <3> HIDE DEF more, o
    <3> QED
      BY <2>2, <3>1, <3>2, <3>3 DEF StreamState
  <2>5. /\ out'[s] = o /\ o.written = out[s].written + 1 /\ o.pipe = out[s].pipe + 1
        /\ o.kept = out[s].kept /\ o.cut = out[s].cut /\ o.reader = out[s].reader
    BY <2>2, <2>3 DEF Inv, RunTypeOK, StreamState
  <2>6. ~Ended(s) /\ Streamed(s)
    BY <2>2 DEF Inv, StreamInv, Streamed
  <2>7. /\ out[s].written \in Nat /\ out[s].pipe \in Nat /\ out[s].kept \in Nat /\ LogLimit \in Nat
    BY <2>2 DEF StreamState
  <2> HIDE DEF o
  <2>8. Streamed(s)'
    BY <2>2, <2>5, <2>6, <2>7 DEF Streamed, Ended
  <2> QED
    BY <2>2, <2>3, <2>4, <2>6, <2>8, OneStreamKeeps
<1>2. ASSUME TakeInput PROVE Inv'
  <2>1. RunTypeOK'
    BY <1>2 DEF TakeInput, Inv, RunTypeOK
  <2>2. CallerInv' /\ TreeInv'
    BY <1>2 DEF TakeInput, Alive, Ended, Waited, Inv, RunTypeOK, CallerInv, TreeInv, HonestResult
  <2>3. StreamInv' /\ InputInv'
    BY <1>2 DEF TakeInput, Alive, Ended, Inv, RunTypeOK, StreamInv, InputInv, CallerInv, Streamed, WholeOrLines, LinesEnd
  <2>4. HonestResult'
    BY <1>2 DEF TakeInput, Alive, Inv, RunTypeOK, HonestResult, WholeOrLines, LinesEnd
  <2>5. CollectInv'
    BY <1>2 DEF TakeInput, Alive, Inv, RunTypeOK, CollectInv, CallerInv, WholeOrLines, LinesEnd
  <2> QED
    BY <2>1, <2>2, <2>3, <2>4, <2>5 DEF Inv
<1>3. ASSUME StartHelper PROVE Inv'
  <2>1. RunTypeOK'
    BY <1>3 DEF StartHelper, Inv, RunTypeOK
  <2>2. CallerInv' /\ TreeInv'
    BY <1>3 DEF StartHelper, Alive, Ended, Waited, Inv, RunTypeOK, CallerInv, TreeInv, HonestResult
  <2>3. StreamInv' /\ InputInv'
    BY <1>3 DEF StartHelper, Alive, Ended, Inv, RunTypeOK, StreamInv, InputInv, CallerInv, Streamed, WholeOrLines, LinesEnd
  <2>4. HonestResult'
    BY <1>3 DEF StartHelper, Alive, Inv, RunTypeOK, HonestResult, WholeOrLines, LinesEnd
  <2>5. CollectInv'
    BY <1>3 DEF StartHelper, Alive, Inv, RunTypeOK, CollectInv, CallerInv, WholeOrLines, LinesEnd
  <2> QED
    BY <2>1, <2>2, <2>3, <2>4, <2>5 DEF Inv
<1>4. ASSUME HelperEnds PROVE Inv'
  <2>1. RunTypeOK'
    BY <1>4 DEF HelperEnds, Inv, RunTypeOK
  <2>2. CallerInv' /\ TreeInv'
    BY <1>4 DEF HelperEnds, Alive, Ended, Waited, Inv, RunTypeOK, CallerInv, TreeInv, HonestResult
  <2>3. StreamInv' /\ InputInv'
    BY <1>4 DEF HelperEnds, Alive, Ended, Inv, RunTypeOK, StreamInv, InputInv, CallerInv, Streamed, WholeOrLines, LinesEnd
  <2>4. HonestResult'
    BY <1>4 DEF HelperEnds, Alive, Inv, RunTypeOK, HonestResult, WholeOrLines, LinesEnd
  <2>5. CollectInv'
    BY <1>4 DEF HelperEnds, Alive, Inv, RunTypeOK, CollectInv, CallerInv, WholeOrLines, LinesEnd
  <2> QED
    BY <2>1, <2>2, <2>3, <2>4, <2>5 DEF Inv
<1>5. ASSUME ChildExits PROVE Inv'
  <2>1. RunTypeOK'
    BY <1>5 DEF ChildExits, Inv, RunTypeOK
  <2>2. CallerInv' /\ TreeInv'
    BY <1>5 DEF ChildExits, Alive, Ended, Waited, Before, Inv, RunTypeOK, CallerInv, TreeInv, HonestResult
  <2>3. StreamInv' /\ InputInv'
    BY <1>5 DEF ChildExits, Alive, Ended, Inv, RunTypeOK, StreamInv, InputInv, CallerInv, Streamed, WholeOrLines, LinesEnd
  <2>4. HonestResult'
    BY <1>5 DEF ChildExits, Alive, Inv, RunTypeOK, HonestResult, WholeOrLines, LinesEnd
  <2>5. CollectInv'
    BY <1>5 DEF ChildExits, Alive, Inv, RunTypeOK, CollectInv, CallerInv, WholeOrLines, LinesEnd
  <2> QED
    BY <2>1, <2>2, <2>3, <2>4, <2>5 DEF Inv
<1> QED
  BY <1>1, <1>2, <1>3, <1>4, <1>5 DEF Program

\* Nor can the threads that empty and fill the pipes, nor the clock.
LEMMA ThreadsKeep ==
    ASSUME Inv, (\E s \in Streams : Reader(s)) \/ Writer \/ DeadlinePasses PROVE Inv'
<1> USE SizeAssumption, LimitAssumption
<1>1. ASSUME NEW s \in Streams, Read(s) PROVE Inv'
  <2> DEFINE k == IF Keeps(s) THEN out[s].kept + 1 ELSE out[s].kept
             c == out[s].cut \/ ~Keeps(s)
             o == [out[s] EXCEPT !.pipe = @ - 1, !.kept = k, !.cut = c]
  <2>1. /\ out[s].reader = "reading" /\ out[s].pipe > 0 /\ out[s] \in StreamState
        /\ UNCHANGED <<call, procs, stdin, outcome>> /\ Streamed(s) /\ ~Ended(s)
    BY <1>1 DEF Read, Inv, RunTypeOK, StreamState, StreamInv, Ended
  <2>2. /\ out[s].written \in 0..OutputMax /\ out[s].pipe \in 1..PipeSize
        /\ out[s].kept \in 0..OutputMax /\ out[s].cut \in BOOLEAN /\ LogLimit \in Nat
    BY <2>1 DEF StreamState
  <2>3. /\ Keeps(s) => k = out[s].kept + 1 /\ c = out[s].cut
        /\ ~Keeps(s) => k = out[s].kept /\ c = TRUE
        /\ Keeps(s) <=> call.mode # "managed" \/ out[s].kept < LogLimit
    BY <2>2 DEF Keeps
  <2>4. out' = [out EXCEPT ![s] = o]
    BY <1>1 DEF Read, Inv, RunTypeOK
  <2>5. /\ o.pipe = out[s].pipe - 1 /\ o.kept = k /\ o.cut = c /\ o.written = out[s].written
        /\ o.ends = out[s].ends /\ o.reader = out[s].reader
        /\ k \in 0..OutputMax => o \in StreamState
        /\ out'[s] = o
    <3>1. out[s].pipe - 1 \in 0..PipeSize /\ c \in BOOLEAN
      BY <2>2
    <3> HIDE DEF k, c
    <3> QED
      BY <2>1, <2>4, <3>1 DEF StreamState, Inv, RunTypeOK
  <2> HIDE DEF k, c, o
  <2>6. k \in 0..OutputMax
    BY <2>1, <2>2, <2>3 DEF Streamed
  <2>7. Streamed(s)'
    <3>1. /\ call.mode # "managed" => k + o.pipe = o.written /\ ~c
          /\ call.mode = "managed" => /\ k <= LogLimit
                                      /\ ~c => k + o.pipe = o.written
                                      /\ c => k = LogLimit /\ k + o.pipe < o.written
      BY <2>1, <2>2, <2>3, <2>5 DEF Streamed
    <3> QED
      BY <2>1, <2>5, <3>1 DEF Streamed, Ended
  <2> QED
    BY <2>1, <2>4, <2>5, <2>6, <2>7, OneStreamKeeps
<1>2. ASSUME NEW s \in Streams, ReadEnd(s) PROVE Inv'
  <2>1. PICK n \in 0..OutputMax :
           /\ IF out[s].cut THEN LinesEnd(s, out[s].kept, n) ELSE n = out[s].kept
           /\ out' = [out EXCEPT ![s].reader = "done", ![s].kept = n]
    BY <1>2 DEF ReadEnd
  <2> DEFINE o == [out[s] EXCEPT !.reader = "done", !.kept = n]
  <2>2. /\ out[s].reader = "reading" /\ out[s].pipe = 0 /\ ~Alive /\ out[s] \in StreamState
        /\ UNCHANGED <<call, procs, stdin, outcome>> /\ Streamed(s)
    BY <1>2 DEF ReadEnd, Inv, RunTypeOK, StreamState, StreamInv
  <2>3. out' = [out EXCEPT ![s] = o]
    BY <2>1 DEF Inv, RunTypeOK
  <2>4. /\ o \in StreamState /\ out'[s] = o /\ o.reader = "done" /\ o.kept = n
        /\ o.written = out[s].written /\ o.ends = out[s].ends
        /\ o.pipe = 0 /\ o.cut = out[s].cut
    BY <2>2, <2>3 DEF StreamState, Inv, RunTypeOK
  <2>5. /\ out[s].written \in Nat /\ out[s].kept \in Nat /\ LogLimit \in Nat
        /\ out[s].cut \in BOOLEAN /\ out[s].pipe = 0 /\ n \in Nat
    BY <2>2 DEF StreamState
  <2> HIDE DEF o
  <2>6. WholeOrLines(s, n)
    <3>1. CASE call.mode = "managed" /\ out[s].cut
      <4>1. out[s].kept = LogLimit /\ out[s].written > LogLimit
        BY <2>2, <2>5, <3>1 DEF Streamed
      <4> QED
        BY <2>1, <3>1, <4>1 DEF WholeOrLines
    <3>2. CASE call.mode = "managed" /\ ~out[s].cut
      <4>1. n = out[s].kept /\ out[s].kept <= LogLimit /\ out[s].kept = out[s].written
        BY <2>1, <2>2, <2>5, <3>2 DEF Streamed
      <4> QED
        BY <2>5, <4>1 DEF WholeOrLines
    <3>3. CASE call.mode # "managed"
      <4>1. n = out[s].kept /\ out[s].kept = out[s].written
        BY <2>1, <2>2, <2>5, <3>3 DEF Streamed
      <4> QED
        BY <3>3, <4>1 DEF WholeOrLines
    <3> QED
      BY <3>1, <3>2, <3>3
  <2>7. WholeOrLines(s, n)'
    BY <2>2, <2>4, <2>6 DEF WholeOrLines, LinesEnd
  <2>8. ~Alive' /\ (call'.mode # "managed" => n + 0 = out[s].written /\ ~out[s].cut)
    BY <2>2, <2>5, <2>6 DEF Alive, Streamed, WholeOrLines
  <2>9. Streamed(s)'
    BY <2>4, <2>7, <2>8 DEF Streamed, Ended
  <2> QED
    BY <2>2, <2>3, <2>4, <2>9, OneStreamKeeps
<1>3. ASSUME Send PROVE Inv'
  <2>0. /\ UNCHANGED <<call, procs, out, outcome>>
        /\ stdin' \in [length : 0..InputMax, sent : 0..InputMax, pipe : 0..PipeSize,
                       writer : {"none", "writing", "done", "failed"}]
        /\ stdin'.length = stdin.length /\ stdin'.sent <= stdin'.length
        /\ stdin'.writer \in {"writing", "failed"}
    <3>1. stdin.sent + 1 \in 0..InputMax /\ stdin.sent + 1 <= stdin.length
      BY <1>3 DEF Send, Inv, RunTypeOK
    <3>2. CASE /\ procs.child = "running" /\ stdin.pipe < PipeSize
               /\ stdin' = [stdin EXCEPT !.sent = @ + 1, !.pipe = @ + 1]
      <4>1. stdin.pipe + 1 \in 0..PipeSize
        BY <3>2 DEF Inv, RunTypeOK
      <4> QED
        BY <1>3, <3>1, <3>2, <4>1 DEF Send, Inv, RunTypeOK
    <3>3. CASE stdin' = [stdin EXCEPT !.writer = "failed"]
      BY <1>3, <3>3 DEF Send, Inv, RunTypeOK, InputInv
    <3> QED
      BY <1>3, <3>2, <3>3 DEF Send
  <2>1. RunTypeOK'
    BY <2>0 DEF Inv, RunTypeOK
  <2>2. CallerInv' /\ TreeInv'
    BY <1>3 DEF Send, Alive, Ended, Waited, Before, Inv, RunTypeOK, CallerInv, TreeInv, HonestResult
  <2>3. StreamInv' /\ InputInv'
    BY <2>0 DEF Alive, Ended, Inv, RunTypeOK, StreamInv, InputInv, Streamed, WholeOrLines, LinesEnd
  <2>4. HonestResult'
    BY <1>3 DEF Send, Alive, Inv, RunTypeOK, HonestResult, WholeOrLines, LinesEnd
  <2>5. CollectInv'
    BY <2>0 DEF Inv, CollectInv, WholeOrLines, LinesEnd
  <2> QED
    BY <2>1, <2>2, <2>3, <2>4, <2>5 DEF Inv
<1>4. ASSUME SendEnd PROVE Inv'
  <2>1. RunTypeOK'
    BY <1>4 DEF SendEnd, Inv, RunTypeOK
  <2>2. CallerInv' /\ TreeInv'
    BY <1>4 DEF SendEnd, Alive, Ended, Waited, Before, Inv, RunTypeOK, CallerInv, TreeInv, HonestResult
  <2>3. StreamInv' /\ InputInv'
    BY <1>4 DEF SendEnd, Alive, Ended, Inv, RunTypeOK, StreamInv, InputInv, CallerInv, Streamed, WholeOrLines, LinesEnd
  <2>4. HonestResult'
    BY <1>4 DEF SendEnd, Alive, Inv, RunTypeOK, HonestResult, WholeOrLines, LinesEnd
  <2>5. CollectInv'
    BY <1>4 DEF SendEnd, Alive, Inv, RunTypeOK, CollectInv, CallerInv, WholeOrLines, LinesEnd
  <2> QED
    BY <2>1, <2>2, <2>3, <2>4, <2>5 DEF Inv
<1>5. ASSUME DeadlinePasses PROVE Inv'
  <2>1. RunTypeOK'
    BY <1>5 DEF DeadlinePasses, Inv, RunTypeOK
  <2>2. CallerInv' /\ TreeInv'
    BY <1>5 DEF DeadlinePasses, Alive, Ended, Waited, Before, Inv, RunTypeOK, CallerInv, TreeInv, HonestResult
  <2>3. StreamInv' /\ InputInv'
    BY <1>5 DEF DeadlinePasses, Alive, Ended, Inv, RunTypeOK, StreamInv, InputInv, CallerInv, Streamed, WholeOrLines, LinesEnd
  <2>4. HonestResult'
    BY <1>5 DEF DeadlinePasses, Alive, Inv, RunTypeOK, HonestResult, WholeOrLines, LinesEnd
  <2>5. CollectInv'
    BY <1>5 DEF DeadlinePasses, Alive, Inv, RunTypeOK, CollectInv, CallerInv, WholeOrLines, LinesEnd
  <2> QED
    BY <2>1, <2>2, <2>3, <2>4, <2>5 DEF Inv
<1> QED
  BY <1>1, <1>2, <1>3, <1>4, <1>5 DEF Reader, Writer

\* The result of a run is what its readers have kept.
LEMMA ReturnIs ==
    ASSUME Inv, NEW kind \in {"ok", "error"}, NEW lost \in SUBSET Streams, Return(kind, lost)
    PROVE  /\ outcome' \in OutcomeState
           /\ outcome'.kind = kind /\ outcome'.lost = lost
           /\ \A s \in Streams : outcome'.output[s] = IF s \in lost THEN 0 ELSE out[s].kept
           /\ call' = [call EXCEPT !.at = "returned"]
<1> DEFINE output == [s \in Streams |-> IF s \in lost THEN 0 ELSE out[s].kept]
<1>1. output \in [Streams -> 0..OutputMax]
  BY LimitAssumption DEF Inv, RunTypeOK
<1>2. /\ outcome' = [kind |-> kind, lost |-> lost, output |-> output]
      /\ call' = [call EXCEPT !.at = "returned"]
  BY DEF Return, Goto
<1> HIDE DEF output
<1>3. outcome' \in OutcomeState
  BY <1>1, <1>2 DEF OutcomeState
<1>4. outcome'.kind = kind /\ outcome'.lost = lost /\ outcome'.output = output
  BY <1>2
<1> QED
  BY <1>2, <1>3, <1>4 DEF output

\* Aborting the readers that have not ended takes nothing from what was kept.
LEMMA AbortKeeps ==
    ASSUME Inv, Abort
    PROVE  /\ out' \in [Streams -> StreamState]
           /\ \A s \in Streams : /\ out'[s].written = out[s].written
                                 /\ out'[s].ends = out[s].ends
                                 /\ out'[s].pipe = out[s].pipe
                                 /\ out'[s].kept = out[s].kept
                                 /\ out'[s].cut = out[s].cut
                                 /\ out'[s].reader # "reading"
                                 /\ Ended(s)' <=> Ended(s)
  BY DEF Inv, RunTypeOK, Abort, Ended, StreamState

\* A managed run that returns with its readers aborted, and a result that is
\* true, leaves nothing running.
LEMMA ReturnKeeps ==
  ASSUME Inv, Abort, call.mode = "managed", call.at # "returned", UNCHANGED stdin,
         outcome' \in OutcomeState, outcome'.kind # "none",
         call' = [call EXCEPT !.at = "returned"],
         procs' \in [child : {"running", "exited", "reaped"},
                     helper : {"none", "running", "gone"}, killed : BOOLEAN],
         ~Alive', HonestResult'
  PROVE  Inv'
<1>1. /\ out' \in [Streams -> StreamState] /\ call'.mode = call.mode /\ call'.late = call.late
      /\ call'.at = "returned" /\ call'.timedOut = call.timedOut
      /\ \A s \in Streams : /\ out'[s].written = out[s].written /\ out'[s].ends = out[s].ends
                            /\ out'[s].pipe = out[s].pipe /\ out'[s].kept = out[s].kept
                            /\ out'[s].cut = out[s].cut /\ out'[s].reader # "reading"
                            /\ Ended(s)' <=> Ended(s)
  BY AbortKeeps DEF Inv, RunTypeOK
<1>2. RunTypeOK'
  BY <1>1 DEF Inv, RunTypeOK, StreamState, OutcomeState
<1>3. CallerInv' /\ TreeInv'
  BY <1>1 DEF Inv, CallerInv, TreeInv, Waited, Before
<1>4. StreamInv'
  <2>1. ASSUME NEW s \in Streams PROVE Streamed(s)'
    <3>1. Streamed(s)
      BY DEF Inv, StreamInv
    <3> QED
      BY <1>1, <3>1 DEF Streamed, WholeOrLines, LinesEnd
  <2> QED
    BY <2>1 DEF StreamInv
<1>5. CollectInv' /\ InputInv'
  BY <1>1 DEF Inv, CollectInv, InputInv
<1> QED
  BY <1>2, <1>3, <1>4, <1>5 DEF Inv

\* Each step of the caller finds what the step before it has seen to.
LEMMA CallerKeeps == ASSUME Inv, Caller \/ CleanupFails \/ Cancel PROVE Inv'
<1> USE SizeAssumption, LimitAssumption
<1>1. ASSUME ReadAll PROVE Inv'
  <2>1. RunTypeOK'
    BY <1>1 DEF ReadAll, Goto, Modes, Inv, RunTypeOK
  <2>2. CallerInv' /\ TreeInv'
    BY <1>1 DEF ReadAll, Goto, Modes, Alive, Ended, Waited, Before, Inv, RunTypeOK, CallerInv, TreeInv, HonestResult
  <2>3. StreamInv' /\ InputInv'
    BY <1>1 DEF ReadAll, Goto, Alive, Ended, Inv, RunTypeOK, StreamInv, InputInv, CallerInv, Streamed, WholeOrLines, LinesEnd
  <2>4. HonestResult'
    BY <1>1 DEF ReadAll, Goto, Alive, Ended, Inv, RunTypeOK, HonestResult, CallerInv, TreeInv, StreamInv, InputInv, WholeOrLines, LinesEnd
  <2>5. CollectInv'
    BY <1>1 DEF ReadAll, Goto, Alive, Inv, RunTypeOK, CollectInv, CallerInv, WholeOrLines, LinesEnd
  <2> QED
    BY <2>1, <2>2, <2>3, <2>4, <2>5 DEF Inv
<1>2. ASSUME SeeExit PROVE Inv'
  <2>1. RunTypeOK'
    BY <1>2 DEF SeeExit, Goto, Modes, Inv, RunTypeOK
  <2>2. CallerInv' /\ TreeInv'
    BY <1>2 DEF SeeExit, Goto, Modes, Alive, Ended, Waited, Before, Inv, RunTypeOK, CallerInv, TreeInv, HonestResult
  <2>3. StreamInv' /\ InputInv'
    BY <1>2 DEF SeeExit, Goto, Alive, Ended, Inv, RunTypeOK, StreamInv, InputInv, CallerInv, Streamed, WholeOrLines, LinesEnd
  <2>4. HonestResult'
    BY <1>2 DEF SeeExit, Goto, Alive, Ended, Inv, RunTypeOK, HonestResult, CallerInv, TreeInv, StreamInv, InputInv, WholeOrLines, LinesEnd
  <2>5. CollectInv'
    BY <1>2 DEF SeeExit, Goto, Alive, Inv, RunTypeOK, CollectInv, CallerInv, WholeOrLines, LinesEnd
  <2> QED
    BY <2>1, <2>2, <2>3, <2>4, <2>5 DEF Inv
<1>3. ASSUME SeeDeadline PROVE Inv'
  <2>1. RunTypeOK'
    BY <1>3 DEF SeeDeadline, Goto, Modes, Inv, RunTypeOK
  <2>2. CallerInv' /\ TreeInv'
    BY <1>3 DEF SeeDeadline, Goto, Modes, Alive, Ended, Waited, Before, Inv, RunTypeOK, CallerInv, TreeInv, HonestResult
  <2>3. StreamInv' /\ InputInv'
    BY <1>3 DEF SeeDeadline, Goto, Alive, Ended, Inv, RunTypeOK, StreamInv, InputInv, CallerInv, Streamed, WholeOrLines, LinesEnd
  <2>4. HonestResult'
    BY <1>3 DEF SeeDeadline, Goto, Alive, Ended, Inv, RunTypeOK, HonestResult, CallerInv, TreeInv, StreamInv, InputInv, WholeOrLines, LinesEnd
  <2>5. CollectInv'
    BY <1>3 DEF SeeDeadline, Goto, Alive, Inv, RunTypeOK, CollectInv, CallerInv, WholeOrLines, LinesEnd
  <2> QED
    BY <2>1, <2>2, <2>3, <2>4, <2>5 DEF Inv
<1>4. ASSUME Kill PROVE Inv'
  <2>1. RunTypeOK'
    BY <1>4 DEF Kill, Goto, Modes, Inv, RunTypeOK
  <2>2. CallerInv' /\ TreeInv'
    BY <1>4 DEF Kill, Goto, Modes, Alive, Ended, Waited, Before, Inv, RunTypeOK, CallerInv, TreeInv, HonestResult
  <2>3. StreamInv' /\ InputInv'
    BY <1>4 DEF Kill, Goto, Alive, Ended, Inv, RunTypeOK, StreamInv, InputInv, CallerInv, Streamed, WholeOrLines, LinesEnd
  <2>4. HonestResult'
    BY <1>4 DEF Kill, Goto, Alive, Ended, Inv, RunTypeOK, HonestResult, CallerInv, TreeInv, StreamInv, InputInv, WholeOrLines, LinesEnd
  <2>5. CollectInv'
    BY <1>4 DEF Kill, Goto, Alive, Inv, RunTypeOK, CollectInv, CallerInv, WholeOrLines, LinesEnd
  <2> QED
    BY <2>1, <2>2, <2>3, <2>4, <2>5 DEF Inv
<1>5. ASSUME Reap PROVE Inv'
  <2>1. RunTypeOK'
    BY <1>5 DEF Reap, Modes, Inv, RunTypeOK
  <2>2. CallerInv' /\ TreeInv'
    BY <1>5 DEF Reap, Modes, Alive, Ended, Waited, Before, Inv, RunTypeOK, CallerInv, TreeInv, HonestResult
  <2>3. StreamInv' /\ InputInv'
    BY <1>5 DEF Reap, Alive, Ended, Inv, RunTypeOK, StreamInv, InputInv, CallerInv, Streamed, WholeOrLines, LinesEnd
  <2>4. HonestResult'
    BY <1>5 DEF Reap, Alive, Ended, Inv, RunTypeOK, HonestResult, CallerInv, TreeInv, StreamInv, InputInv, WholeOrLines, LinesEnd
  <2>5. CollectInv'
    <3>1. call.at = "reap" /\ outcome' = outcome /\ call.mode \in Modes
      BY <1>5 DEF Reap, Inv, RunTypeOK
    <3>2. call'.at \in {"joinWriter", "join", "killTree"}
      BY <1>5, <3>1 DEF Reap, Modes, Inv, RunTypeOK
    <3> QED
      BY <3>1, <3>2 DEF Inv, CollectInv
  <2> QED
    BY <2>1, <2>2, <2>3, <2>4, <2>5 DEF Inv
<1>6. ASSUME KillTree PROVE Inv'
  <2>1. RunTypeOK'
    BY <1>6 DEF KillTree, Goto, Modes, Inv, RunTypeOK
  <2>2. CallerInv' /\ TreeInv'
    BY <1>6 DEF KillTree, Goto, Modes, Alive, Ended, Waited, Before, Inv, RunTypeOK, CallerInv, TreeInv, HonestResult
  <2>3. StreamInv' /\ InputInv'
    BY <1>6 DEF KillTree, Goto, Alive, Ended, Inv, RunTypeOK, StreamInv, InputInv, CallerInv, Streamed, WholeOrLines, LinesEnd
  <2>4. HonestResult'
    BY <1>6 DEF KillTree, Goto, Alive, Ended, Inv, RunTypeOK, HonestResult, CallerInv, TreeInv, StreamInv, InputInv, WholeOrLines, LinesEnd
  <2>5. CollectInv'
    BY <1>6 DEF KillTree, Goto, Alive, Inv, RunTypeOK, CollectInv, CallerInv, WholeOrLines, LinesEnd
  <2> QED
    BY <2>1, <2>2, <2>3, <2>4, <2>5 DEF Inv
<1>7. ASSUME Join PROVE Inv'
  <2>1. RunTypeOK'
    BY <1>7 DEF Join, Goto, Modes, Inv, RunTypeOK
  <2>2. CallerInv' /\ TreeInv'
    BY <1>7 DEF Join, Goto, Modes, Alive, Ended, Waited, Before, Inv, RunTypeOK, CallerInv, TreeInv, HonestResult
  <2>3. StreamInv' /\ InputInv'
    BY <1>7 DEF Join, Goto, Alive, Ended, Inv, RunTypeOK, StreamInv, InputInv, CallerInv, Streamed, WholeOrLines, LinesEnd
  <2>4. HonestResult'
    BY <1>7 DEF Join, Goto, Alive, Ended, Inv, RunTypeOK, HonestResult, CallerInv, TreeInv, StreamInv, InputInv, WholeOrLines, LinesEnd
  <2>5. CollectInv'
    BY <1>7 DEF Join, Goto, Alive, Inv, RunTypeOK, CollectInv, CallerInv, WholeOrLines, LinesEnd
  <2> QED
    BY <2>1, <2>2, <2>3, <2>4, <2>5 DEF Inv
<1>8. ASSUME JoinWriter PROVE Inv'
  <2>1. /\ call.at = "joinWriter" /\ UNCHANGED <<procs, out, stdin>>
        /\ call.timedOut \/ stdin.writer # "writing"
    BY <1>8 DEF JoinWriter
  <2>2. PICK kind \in {"ok", "error"}, lost \in SUBSET Streams :
            /\ Return(kind, lost)
            /\ kind = "ok" => lost = {} /\ (stdin.writer = "failed" => call.timedOut)
    BY <1>8 DEF JoinWriter
  <2>r. /\ outcome' \in OutcomeState
        /\ outcome'.kind = kind /\ outcome'.lost = lost
        /\ kind = "ok" => \A s \in Streams : outcome'.output[s] = out[s].kept
        /\ call' = [call EXCEPT !.at = "returned"]
    BY <2>2, ReturnIs
  <2>3. RunTypeOK'
    BY <2>1, <2>2, <2>r DEF Inv, RunTypeOK, OutcomeState
  <2>4. CallerInv' /\ TreeInv'
    BY <2>1, <2>2, <2>r DEF Inv, RunTypeOK, CallerInv, TreeInv, Alive, Waited, Before, Modes
  <2>5. StreamInv' /\ InputInv' /\ CollectInv'
    BY <2>1, <2>2, <2>r DEF Inv, RunTypeOK, StreamInv, Streamed, InputInv, CollectInv, Alive, Ended,
                            WholeOrLines, LinesEnd
  <2>6. HonestResult'
    <3>1. \A s \in Streams : Ended(s) /\ WholeOrLines(s, out[s].kept)
      BY <2>1 DEF Inv, CallerInv, StreamInv, Streamed
    <3>2. call'.mode = call.mode /\ call'.late = call.late /\ call'.timedOut = call.timedOut
      BY <2>r DEF Inv, RunTypeOK
    <3>3. \A s \in Streams : \A n : WholeOrLines(s, n) => WholeOrLines(s, n)'
      BY <2>1, <3>2 DEF WholeOrLines, LinesEnd
    <3>4. kind = "ok" => \A s \in Streams : WholeOrLines(s, outcome.output[s])'
      BY <2>r, <3>1, <3>3
    <3>5. ~Alive' /\ procs'.child = "reaped"
      BY <2>1, <3>1 DEF Inv, CallerInv, StreamInv, Streamed, Waited, Alive, Streams
    <3>6. /\ call.timedOut => call.late
          /\ ~call.timedOut => ~procs.killed
      BY <2>1 DEF Inv, RunTypeOK, TreeInv, Waited
    <3>7. kind = "ok" /\ ~call.timedOut => stdin.sent = stdin.length
      BY <2>1, <2>2 DEF Inv, RunTypeOK, InputInv
    <3> QED
      BY <2>1, <2>2, <2>r, <3>2, <3>4, <3>5, <3>6, <3>7 DEF HonestResult
  <2> QED
    BY <2>3, <2>4, <2>5, <2>6 DEF Inv
<1>9. ASSUME CollectStdout PROVE Inv'
  <2>1. /\ call.mode = "managed" /\ call.at = "join" /\ UNCHANGED <<procs, out, stdin>>
        /\ outcome.lost = {} /\ outcome.output = NoOutput /\ outcome.kind = "none"
        /\ call' = [call EXCEPT !.at = "joinStderr"] /\ ~Alive /\ procs.child = "reaped"
        /\ outcome \in OutcomeState
    BY <1>9 DEF CollectStdout, Goto, Inv, RunTypeOK, CallerInv, CollectInv, Waited, OutcomeState
  <2>2. /\ outcome' \in OutcomeState /\ outcome'.kind = "none"
        /\ outcome'.output["stderr"] = 0 /\ outcome'.lost \subseteq {"stdout"}
        /\ IF "stdout" \in outcome'.lost THEN outcome'.output["stdout"] = 0
           ELSE Ended("stdout") /\ outcome'.output["stdout"] = out["stdout"].kept
    <3>1. CASE Ended("stdout")
      <4>1. outcome' = [outcome EXCEPT !.output["stdout"] = out["stdout"].kept]
        BY <1>9, <3>1 DEF CollectStdout
      <4>2. out["stdout"].kept \in 0..OutputMax
        BY DEF Inv, RunTypeOK, Streams
      <4> QED
        BY <2>1, <3>1, <4>1, <4>2 DEF OutcomeState, NoOutput, Streams
    <3>2. CASE ~Ended("stdout")
      <4>1. outcome' = [outcome EXCEPT !.lost = {"stdout"}]
        BY <1>9, <3>2 DEF CollectStdout
      <4> QED
        BY <2>1, <4>1 DEF OutcomeState, NoOutput, Streams
    <3> QED
      BY <3>1, <3>2
  <2>3. RunTypeOK'
    BY <2>1, <2>2 DEF Inv, RunTypeOK, OutcomeState
  <2>4. CallerInv' /\ TreeInv'
    BY <2>1, <2>2 DEF Inv, RunTypeOK, CallerInv, TreeInv, Alive, Waited, Before, Modes
  <2>5. StreamInv' /\ InputInv'
    BY <2>1 DEF Inv, RunTypeOK, StreamInv, Streamed, InputInv, Alive, Ended, WholeOrLines, LinesEnd
  <2>6. CollectInv'
    <3>1. Ended("stdout") => WholeOrLines("stdout", out["stdout"].kept)
      BY DEF Inv, StreamInv, Streamed, Streams
    <3>2. call'.at = "joinStderr" /\ call'.mode = call.mode
      BY <2>1 DEF Inv, RunTypeOK
    <3>3. IF "stdout" \in outcome'.lost THEN outcome'.output["stdout"] = 0
          ELSE WholeOrLines("stdout", outcome.output["stdout"])'
      <4>1. \A n : WholeOrLines("stdout", n) => WholeOrLines("stdout", n)'
        BY <2>1, <3>2 DEF WholeOrLines, LinesEnd
      <4> QED
        BY <2>2, <3>1, <4>1
    <3> QED
      BY <2>2, <3>2, <3>3 DEF CollectInv
  <2>7. HonestResult'
    BY <2>2 DEF HonestResult
  <2> QED
    BY <2>3, <2>4, <2>5, <2>6, <2>7 DEF Inv
<1>10. ASSUME CollectStderr PROVE Inv'
  <2>1. /\ call.at = "joinStderr" /\ UNCHANGED <<procs, stdin>> /\ Abort
        /\ call' = [call EXCEPT !.at = "returned"]
        /\ call.mode = "managed" /\ ~Alive /\ ~Alive' /\ procs.child = "reaped"
        /\ outcome \in OutcomeState
    BY <1>10 DEF CollectStderr, Goto, Inv, RunTypeOK, CallerInv, Waited, OutcomeState, Alive
  <2>2. /\ outcome.lost \subseteq {"stdout"} /\ outcome.output["stderr"] = 0
        /\ IF "stdout" \in outcome.lost THEN outcome.output["stdout"] = 0
           ELSE WholeOrLines("stdout", outcome.output["stdout"])
        /\ Ended("stderr") => WholeOrLines("stderr", out["stderr"].kept)
    BY <2>1 DEF Inv, CollectInv, StreamInv, Streamed, Streams
  <2>3. /\ outcome' \in OutcomeState /\ outcome'.kind = "ok"
        /\ \A s \in Streams : IF s \in outcome'.lost THEN outcome'.output[s] = 0
                              ELSE WholeOrLines(s, outcome'.output[s])
    <3>1. CASE Ended("stderr")
      <4>1. outcome' = [outcome EXCEPT !.kind = "ok", !.output["stderr"] = out["stderr"].kept]
        BY <1>10, <3>1 DEF CollectStderr
      <4>2. out["stderr"].kept \in 0..OutputMax
        BY DEF Inv, RunTypeOK, Streams
      <4>3. /\ outcome' \in OutcomeState /\ outcome'.kind = "ok" /\ outcome'.lost = outcome.lost
            /\ outcome'.output["stderr"] = out["stderr"].kept
            /\ outcome'.output["stdout"] = outcome.output["stdout"]
        BY <2>1, <4>1, <4>2 DEF OutcomeState, Streams
      <4> QED
        BY <2>2, <3>1, <4>3 DEF Streams
    <3>2. CASE ~Ended("stderr")
      <4>1. outcome' = [outcome EXCEPT !.kind = "ok", !.lost = @ \cup {"stderr"}]
        BY <1>10, <3>2 DEF CollectStderr
      <4>2. /\ outcome' \in OutcomeState /\ outcome'.kind = "ok"
            /\ outcome'.lost = outcome.lost \cup {"stderr"} /\ outcome'.output = outcome.output
        BY <2>1, <4>1 DEF OutcomeState, Streams
      <4> QED
        BY <2>2, <4>2 DEF Streams
    <3> QED
      BY <3>1, <3>2
  <2>4. \A s \in Streams : \A n : WholeOrLines(s, n) => WholeOrLines(s, n)'
    BY <2>1, AbortKeeps DEF WholeOrLines, LinesEnd, Inv, RunTypeOK
  <2>5. \A s \in Streams : IF s \in outcome'.lost THEN outcome'.output[s] = 0
                          ELSE WholeOrLines(s, outcome.output[s])'
    BY <2>3, <2>4
  <2>6. HonestResult'
    <3>1. call'.mode = call.mode /\ call'.late = call.late /\ call'.timedOut = call.timedOut
      BY <2>1 DEF Inv, RunTypeOK
    <3>2. /\ call.timedOut => call.late
          /\ ~call.timedOut => ~procs.killed
          /\ stdin.sent = stdin.length
      BY <2>1 DEF Inv, RunTypeOK, TreeInv, InputInv, Waited
    <3> QED
      BY <2>1, <2>3, <2>5, <3>1, <3>2 DEF HonestResult
  <2> QED
    BY <2>1, <2>3, <2>6, ReturnKeeps DEF Inv, RunTypeOK
<1>11. ASSUME CleanupFails PROVE Inv'
  <2>1. /\ call.mode = "managed" /\ call.at = "reap" /\ UNCHANGED <<procs, stdin>>
        /\ Abort /\ Return("error", Streams) /\ ~Alive'
    BY <1>11 DEF CleanupFails, Alive, Inv, CallerInv
  <2>2. /\ outcome' \in OutcomeState /\ outcome'.kind = "error"
        /\ call' = [call EXCEPT !.at = "returned"]
    BY <2>1, ReturnIs
  <2>3. HonestResult'
    BY <2>1, <2>2 DEF HonestResult
  <2> QED
    BY <2>1, <2>2, <2>3, ReturnKeeps DEF Inv, RunTypeOK
<1>12. ASSUME Cancel PROVE Inv'
  <2>1. /\ call.mode = "managed" /\ call.at # "returned" /\ UNCHANGED stdin
        /\ Abort /\ Return("error", Streams) /\ ~Alive'
        /\ procs' \in [child : {"running", "exited", "reaped"},
                      helper : {"none", "running", "gone"}, killed : BOOLEAN]
    BY <1>12 DEF Cancel, Alive, Inv, RunTypeOK
  <2>2. /\ outcome' \in OutcomeState /\ outcome'.kind = "error"
        /\ call' = [call EXCEPT !.at = "returned"]
    BY <2>1, ReturnIs
  <2>3. HonestResult'
    BY <2>1, <2>2 DEF HonestResult
  <2> QED
    BY <2>1, <2>2, <2>3, ReturnKeeps
<1> QED
  BY <1>1, <1>2, <1>3, <1>4, <1>5, <1>6, <1>7, <1>8, <1>9, <1>10, <1>11, <1>12 DEF Caller

\* A step that changes nothing.
LEMMA StutterKeeps == ASSUME Inv, UNCHANGED runVars PROVE Inv'
  BY DEF Inv, runVars, RunTypeOK, CallerInv, TreeInv, StreamInv, Streamed, CollectInv, InputInv,
         HonestResult, Alive, Ended, WholeOrLines, LinesEnd

\* The invariant holds of every run.
LEMMA Invariant == RunSpec => []Inv
<1>1. Inv /\ [RunNext]_runVars => Inv'
  BY ProgramKeeps, ThreadsKeep, CallerKeeps, StutterKeeps DEF RunNext
<1> QED
  BY <1>1, Initial, PTL DEF RunSpec

\* Type correctness: a pipe never holds more than it can, nor a reader more
\* than was written, whatever the sizes.
THEOREM RunTypeCorrect == RunSpec => []RunTypeOK
<1>1. Inv => RunTypeOK
  BY DEF Inv
<1> QED
  BY <1>1, Invariant, PTL

\* What a run reports is true, whichever of child, threads, deadline and
\* caller comes first, for pipes and outputs of any size.
THEOREM Honest == RunSpec => []HonestResult
<1>1. Inv => HonestResult
  BY DEF Inv
<1> QED
  BY <1>1, Invariant, PTL
=============================================================================
