------------------------- MODULE CatalogStoreProofs -------------------------
(***************************************************************************)
(* For any number of processes and catalogs, whatever fails or dies:       *)
(*  - every state has its type;                                            *)
(*  - the active catalog was approved by the user.  The inductive          *)
(*    invariant says it of everything a catalog or hash file may ever      *)
(*    become: the temporary files, the backups, and the catalog that an    *)
(*    adoption is about to write;                                          *)
(*  - a check that nobody overlaps respects the decisions, and an adoption *)
(*    that nobody overlaps is all or nothing.  The inductive invariant     *)
(*    says what such a call has moved, replaced and put back at each step. *)
(***************************************************************************)
EXTENDS CatalogStore, SequenceTheorems, TLAPS

\* A call is a record, and writes current.json and current.sha256 only to
\* adopt an approved catalog.
CallInv(c) ==
    /\ {"op", "at", "i", "cat"} \subseteq DOMAIN c
    /\ c.i \in 1..3
    /\ c.op = "adopt" => c.cat \in approved
    /\ c.op # "adopt" /\ c.at \in {"open", "fill", "verify", "rename"} => c.i = 3
    /\ c.at \in {"move", "removeAll", "putBack"} => c.op = "adopt"

Calls == /\ call = [p \in Procs |-> call[p]]
         /\ \A p \in Procs : CallInv(call[p])

Holdings == approved \cup {None, Torn}

\* fs is one of final, tmp and bak.
Holds(fs) == /\ fs = [f \in FileSet |-> fs[f]]
             /\ fs["json"] \in Holdings /\ fs["hash"] \in Holdings

IInv == Calls /\ Holds(final) /\ Holds(tmp) /\ Holds(bak)

-----------------------------------------------------------------------------
\* The invariant holds of an empty store that nobody uses.
LEMMA InitInv == Init => IInv
  BY DEF Init, IInv, Calls, CallInv, Holds, Holdings, NoFiles, FileSet, Idle

\* A file is one of the three, and a call that is not an adoption writes
\* only state.json.
LEMMA FileFact ==
  ASSUME NEW p \in Procs, CallInv(call[p])
  PROVE  /\ File(p) \in FileSet
         /\ Adopting(p) => call[p].cat \in approved
         /\ ~Adopting(p) /\ call[p].at \in {"open", "fill", "verify", "rename"} =>
                File(p) = "state"
  BY DEF CallInv, File, Files, FileSet, Adopting

\* One call takes a step and nothing is approved.
LEMMA OneCall ==
  ASSUME Calls, NEW p \in Procs, NEW c,
         call' = [call EXCEPT ![p] = c], UNCHANGED approved, CallInv(c)
  PROVE  Calls'
<1>1. call' = [q \in Procs |-> call'[q]]
  BY DEF Calls
<1>2. ASSUME NEW q \in Procs PROVE CallInv(call[q])'
  <2>1. call'[q] = c \/ call'[q] = call[q]
    BY DEF Calls
  <2>2. CallInv(call[q])
    BY DEF Calls
  <2> QED
    BY <2>1, <2>2 DEF CallInv
<1> QED
  BY <1>1, <1>2 DEF Calls

\* A file operation that gives one file a content it may have.
LEMMA OneFile ==
  ASSUME NEW fs, Holds(fs), NEW f \in FileSet, NEW x, x \in Holdings \/ f = "state"
  PROVE  Holds([fs EXCEPT ![f] = x])
  BY DEF Holds, FileSet

\* The ways in which a call ends keep its invariant.
LEMMA Endings ==
  ASSUME NEW c, CallInv(c)
  PROVE  /\ CallInv(Done(c)) /\ Done(c).op = c.op
         /\ CallInv(Recorded(c))
         /\ CallInv(Failed(c))
<1>1. CallInv(Done(c)) /\ Done(c).op = c.op
  BY DEF CallInv, Done
<1>2. CallInv(Recorded(c))
  BY DEF CallInv, Done, Recorded
<1> QED
  BY <1>1, <1>2 DEF CallInv, Done, Failed

\* A call that starts: an adoption has just been approved.
LEMMA BeginStep ==
  ASSUME IInv, NEW p \in Procs, NEW op, NEW cat, Begin(p, op, cat),
         approved \subseteq approved', op = "adopt" => cat \in approved'
  PROVE  IInv'
<1>1. Holds(final)' /\ Holds(tmp)' /\ Holds(bak)'
  BY DEF IInv, Holds, Holdings, Begin, files
<1>2. call' = [q \in Procs |-> call'[q]]
  BY DEF Begin
<1>3. ASSUME NEW q \in Procs PROVE CallInv(call[q])'
  <2>1. CallInv(call[q])
    BY DEF IInv, Calls
  <2>2. CASE q = p
    <3>1. PICK overlapped, before :
             call'[p] = [Idle EXCEPT !.op = op, !.at = "load", !.cat = cat,
                                     !.alone = overlapped, !.before = before,
                                     !.failed = (op = "note")]
      BY <2>2 DEF Begin
    <3> QED
      BY <2>2, <3>1 DEF CallInv, Idle
  <2>3. CASE q # p
    <3>1. \/ call'[q] = call[q]
          \/ call'[q] = [call[q] EXCEPT !.alone = FALSE, !.before = Nothing]
      BY <2>3 DEF Begin
    <3>2. CASE call'[q] = call[q]
      BY <2>1, <3>2 DEF CallInv
    <3>3. CASE call'[q] = [call[q] EXCEPT !.alone = FALSE, !.before = Nothing]
      <4> DEFINE d == [call[q] EXCEPT !.alone = FALSE, !.before = Nothing]
      <4>1. /\ DOMAIN d = DOMAIN call[q]
            /\ d.op = call[q].op /\ d.at = call[q].at
            /\ d.i = call[q].i /\ d.cat = call[q].cat
        BY <2>1 DEF CallInv
      <4>2. call'[q] = d
        BY <3>3
      <4> HIDE DEF d
      <4> QED
        BY <2>1, <4>1, <4>2 DEF CallInv
    <3> QED
      BY <3>1, <3>2, <3>3
  <2> QED
    BY <2>2, <2>3
<1> QED
  BY <1>1, <1>2, <1>3 DEF IInv, Calls

-----------------------------------------------------------------------------
\* The step of a call keeps the invariant, whatever file operation it is.
LEMMA StepInv ==
  ASSUME IInv, NEW p \in Procs,
         \/ Load(p) \/ Open(p) \/ Fill(p) \/ Verify(p)
         \/ Move(p) \/ Rename(p) \/ Cleanup(p) \/ RemoveAll(p) \/ PutBack(p)
         \/ Offer(p) \/ Return(p) \/ Fault(p) \/ Die(p)
  PROVE  IInv'
<1> USE DEF ghost, files
<1>c. CallInv(call[p]) /\ Calls
  BY DEF IInv, Calls
<1>e. /\ CallInv(Done(call[p])) /\ CallInv(Recorded(call[p]))
      /\ CallInv(Failed(call[p]))
  BY <1>c, Endings
<1>i. CallInv(Idle)
  BY DEF CallInv, Idle
<1>f. /\ File(p) \in FileSet
      /\ Adopting(p) => call[p].cat \in approved
      /\ ~Adopting(p) /\ call[p].at \in {"open", "fill", "verify", "rename"} =>
             File(p) = "state"
  BY <1>c, FileFact
<1>h. /\ Holds(final) /\ Holds(tmp) /\ Holds(bak)
      /\ {None, Torn} \subseteq Holdings /\ approved \subseteq Holdings
  BY DEF IInv, Holdings
<1>s. ASSUME UNCHANGED <<final, tmp, bak>>, UNCHANGED approved
      PROVE  Holds(final)' /\ Holds(tmp)' /\ Holds(bak)'
  BY <1>s, <1>h DEF Holds, Holdings
<1>1. CASE Load(p)
  <2>1. ASSUME Decisions = Torn PROVE Calls'
    <3>1. call' = [call EXCEPT ![p] = Failed(call[p])] /\ UNCHANGED approved
      BY <1>1, <2>1 DEF Load
    <3> QED
      BY <1>c, <1>e, <3>1, OneCall
  <2>2. ASSUME Decisions # Torn PROVE Calls'
    <3>1. PICK silent \in BOOLEAN :
             /\ silent => call[p].op = "check"
             /\ call' = [call EXCEPT ![p] =
                  [call[p] EXCEPT !.at  = "open",
                                  !.i   = IF call[p].op = "adopt" THEN 1 ELSE 3,
                                  !.cat = IF silent THEN None ELSE @,
                                  !.new = Changed(Decisions, call[p].op, call[p].cat)]]
      BY <1>1, <2>2 DEF Load
    <3> DEFINE c == [call[p] EXCEPT !.at  = "open",
                                    !.i   = IF call[p].op = "adopt" THEN 1 ELSE 3,
                                    !.cat = IF silent THEN None ELSE @,
                                    !.new = Changed(Decisions, call[p].op, call[p].cat)]
    <3>2. CallInv(c)
      BY <1>c, <3>1 DEF CallInv
    <3>3. call' = [call EXCEPT ![p] = c] /\ UNCHANGED approved
      BY <1>1, <3>1 DEF Load
    <3> HIDE DEF c
    <3> QED
      BY <1>c, <3>2, <3>3, OneCall
  <2>3. Calls'
    BY <2>1, <2>2
  <2> QED
    BY <1>1, <1>s, <2>3 DEF Load, IInv
<1>2. CASE Open(p)
  <2>1. CallInv([call[p] EXCEPT !.at = "fill"])
    BY <1>2, <1>c DEF Open, At, CallInv
  <2>2. Calls'
    BY <1>2, <1>c, <2>1, OneCall DEF Open
  <2> QED
    BY <1>2, <1>f, <1>h, <2>2, OneFile DEF Open, IInv, Holds, Holdings
<1>3. CASE Fill(p)
  <2>1. CallInv([call[p] EXCEPT !.at = "verify"])
    BY <1>3, <1>c DEF Fill, At, CallInv
  <2>2. Calls'
    BY <1>3, <1>c, <2>1, OneCall DEF Fill
  <2>3. Bytes(p) \in Holdings \/ File(p) = "state"
    BY <1>3, <1>f, <1>h DEF Fill, At, Bytes
  <2>4. ASSUME NEW fs, Holds(fs), NEW new \in Written(fs, p)
        PROVE  Holds(new)
    BY <1>f, <1>h, <2>3, <2>4, OneFile DEF Written
  <2>5. Holds(tmp)' /\ Holds(final)' /\ Holds(bak)'
    <3>1. /\ tmp' = tmp \/ tmp' \in Written(tmp, p)
          /\ final' = final \/ final' \in Written(final, p)
          /\ bak' = bak \/ bak' \in Written(bak, p)
          /\ UNCHANGED approved
      BY <1>3 DEF Fill
    <3>2. Holds(tmp') /\ Holds(final') /\ Holds(bak')
      BY <1>h, <2>4, <3>1
    <3> QED
      BY <3>1, <3>2 DEF Holds, Holdings
  <2> QED
    BY <2>2, <2>5 DEF IInv
<1>4. CASE Verify(p)
  <2> DEFINE c == IF call[p].op = "adopt" /\ call[p].i < Len(Files)
                  THEN [call[p] EXCEPT !.at = "open", !.i = @ + 1]
                  ELSE NextFile(call[p], IF call[p].op = "adopt" THEN "move" ELSE "rename")
  <2>1. CallInv(c)
    BY <1>4, <1>c DEF Verify, At, CallInv, NextFile, Files
  <2>2. Calls' /\ Holds(tmp)'
    <3>1. CASE tmp[File(p)] = Bytes(p)
      <4>1. call' = [call EXCEPT ![p] = c] /\ UNCHANGED <<tmp, approved>>
        BY <1>4, <3>1 DEF Verify
      <4> HIDE DEF c
      <4> QED
        BY <1>c, <1>h, <2>1, <4>1, OneCall DEF Holds, Holdings
    <3>2. CASE tmp[File(p)] # Bytes(p)
      <4>1. /\ call' = [call EXCEPT ![p] = Failed(call[p])]
            /\ tmp' = [tmp EXCEPT ![File(p)] = None] /\ UNCHANGED approved
        BY <1>4, <3>2 DEF Verify
      <4>2. Holds(tmp)'
        BY <1>f, <1>h, <4>1, OneFile DEF Holds, Holdings
      <4> QED
        BY <1>c, <1>e, <4>1, <4>2, OneCall
    <3> QED
      BY <3>1, <3>2
  <2> QED
    BY <1>4, <1>h, <2>2 DEF Verify, IInv, Holds, Holdings
<1>5. CASE Move(p)
  <2> DEFINE c == NextFile([call[p] EXCEPT !.moved =
                              IF final[File(p)] # None THEN @ \cup {File(p)} ELSE @], "rename")
  <2>1. CallInv(c)
    BY <1>5, <1>c DEF Move, At, CallInv, NextFile, Files
  <2>2. Calls'
    <3>1. call' = [call EXCEPT ![p] = c] /\ UNCHANGED approved
      BY <1>5 DEF Move
    <3> HIDE DEF c
    <3> QED
      BY <1>c, <2>1, <3>1, OneCall
  <2>3. Holds(final)' /\ Holds(bak)'
    BY <1>5, <1>f, <1>h, OneFile DEF Move, Holds, Holdings, FileSet
  <2> QED
    BY <1>5, <1>h, <2>2, <2>3 DEF Move, IInv, Holds, Holdings
<1>6. CASE Rename(p)
  <2>1. /\ AfterRename(call[p]) # "done" => CallInv(NextFile(call[p], AfterRename(call[p])))
        /\ Adopting(p) => CallInv([call[p] EXCEPT !.at = "removeAll", !.i = 1])
    BY <1>6, <1>c DEF Rename, At, CallInv, NextFile, AfterRename, Adopting, Files
  <2>2. Calls'
    <3>1. /\ UNCHANGED approved
          /\ \/ call' = [call EXCEPT ![p] = Done(call[p])]
             \/ /\ AfterRename(call[p]) # "done"
                /\ call' = [call EXCEPT ![p] = NextFile(call[p], AfterRename(call[p]))]
             \/ Adopting(p) /\ call' = [call EXCEPT ![p] = [call[p] EXCEPT !.at = "removeAll",
                                                                           !.i = 1]]
             \/ call' = [call EXCEPT ![p] = Failed(call[p])]
      BY <1>6 DEF Rename
    <3> QED
      BY <1>c, <1>e, <2>1, <3>1, OneCall
  <2>3. Holds(final)' /\ Holds(tmp)'
    BY <1>6, <1>f, <1>h, OneFile DEF Rename, Holds, Holdings, FileSet
  <2> QED
    BY <1>6, <1>h, <2>2, <2>3 DEF Rename, IInv, Holds, Holdings
<1>7. CASE Cleanup(p)
  <2>1. CallInv(Rest(call[p], Done(call[p])))
    BY <1>7, <1>c, <1>e DEF CallInv, Rest, NextFile, Files, Cleanup, At
  <2>2. Calls'
    BY <1>7, <1>c, <2>1, OneCall DEF Cleanup
  <2> QED
    BY <1>7, <1>f, <1>h, <2>2, OneFile DEF Cleanup, IInv, Holds, Holdings
<1>8. CASE RemoveAll(p)
  <2>1. CallInv(Rest(call[p], [call[p] EXCEPT !.at = "putBack", !.i = 1]))
    BY <1>8, <1>c DEF RemoveAll, At, CallInv, Rest, NextFile, Files
  <2>2. Calls'
    BY <1>8, <1>c, <2>1, OneCall DEF RemoveAll
  <2> QED
    BY <1>8, <1>f, <1>h, <2>2, OneFile DEF RemoveAll, IInv, Holds, Holdings
<1>9. CASE PutBack(p)
  <2>1. CallInv(Rest(call[p], Failed(call[p])))
    BY <1>9, <1>c, <1>e DEF PutBack, At, CallInv, Rest, NextFile, Files
  <2>2. Calls'
    BY <1>9, <1>c, <2>1, OneCall DEF PutBack
  <2>3. Holds(final)' /\ Holds(bak)'
    BY <1>9, <1>f, <1>h, OneFile DEF PutBack, Holds, Holdings, FileSet
  <2> QED
    BY <1>9, <1>h, <2>2, <2>3 DEF PutBack, IInv, Holds, Holdings
<1>10. CASE Offer(p)
  <2>1. Calls'
    BY <1>10, <1>c, <1>e, OneCall DEF Offer
  <2> QED
    BY <1>10, <1>s, <2>1 DEF Offer, IInv
<1>11. CASE Return(p)
  <2>1. Calls'
    BY <1>11, <1>c, <1>i, OneCall DEF Return
  <2> QED
    BY <1>11, <1>s, <2>1 DEF Return, IInv
<1>12. CASE Fault(p)
  <2> DEFINE c == [call[p] EXCEPT !.at = "removeAll", !.i = 1, !.aside = (call[p].at = "move")]
  <2>1. Adopting(p) => CallInv(c)
    BY <1>c DEF CallInv, Adopting
  <2>2. Calls'
    <3>1. /\ UNCHANGED approved
          /\ \/ call' = [call EXCEPT ![p] = Failed(call[p])]
             \/ Adopting(p) /\ call' = [call EXCEPT ![p] = c]
      BY <1>12 DEF Fault
    <3> HIDE DEF c
    <3> QED
      BY <1>c, <1>e, <2>1, <3>1, OneCall
  <2> QED
    BY <1>12, <1>s, <2>2 DEF Fault, IInv
<1>13. CASE Die(p)
  <2>1. Calls'
    BY <1>13, <1>c, <1>i, OneCall DEF Die
  <2> QED
    BY <1>13, <1>s, <2>1 DEF Die, IInv
<1> QED
  BY <1>1, <1>2, <1>3, <1>4, <1>5, <1>6, <1>7, <1>8, <1>9, <1>10, <1>11, <1>12, <1>13

\* Every step keeps the invariant.
LEMMA NextInv == IInv /\ [Next]_vars => IInv'
<1> SUFFICES ASSUME IInv, [Next]_vars PROVE IInv'
  OBVIOUS
<1>1. ASSUME NEW p \in Procs,
             Check(p) \/ Skip(p) \/ Remind(p) \/ Disable(p)
      PROVE  IInv'
  BY <1>1, BeginStep DEF Check, Skip, Remind, Disable
<1>2. ASSUME NEW p \in Procs, Approve(p)
      PROVE  IInv'
  <2>1. PICK user \in Catalogs, hash \in Catalogs \cup {None}, bytes \in Catalogs \cup {None} :
           IF Reviewed(user, hash, bytes)
           THEN Begin(p, "adopt", hash) /\ approved' = approved \cup {user}
           ELSE Begin(p, "note", None) /\ UNCHANGED approved
    BY <1>2 DEF Approve
  <2> QED
    BY <2>1, BeginStep DEF Reviewed
<1>3. CASE UNCHANGED vars
  BY <1>3 DEF vars, files, ghost, IInv, Calls, CallInv, Holds, Holdings
<1>4. CASE Next
  BY <1>4, <1>1, <1>2, StepInv DEF Next
<1> QED
  BY <1>3, <1>4

\* The user approved the active catalog while the remote advertised it,
\* whatever the processes do and wherever they stop (ActiveWasApproved).
THEOREM Approved == Spec => []ActiveWasApproved
<1>1. IInv => ActiveWasApproved
  BY NoneAssumption DEF IInv, Holds, Holdings, Active, ActiveWasApproved
<1> QED
  BY InitInv, NextInv, <1>1, PTL DEF Spec

-----------------------------------------------------------------------------
(* The list of skipped hashes.                                             *)

\* It is a short sequence without repetition.
LEMMA SkipsSeq ==
  /\ \A s \in Skips : s \in Seq(Catalogs) /\ Len(s) <= SkipCap /\ IsInjective(s)
                      /\ DOMAIN s = 1..Len(s) /\ Len(s) \in Nat
  /\ \A s \in Seq(Catalogs) : Len(s) <= SkipCap /\ IsInjective(s) => s \in Skips
<1>1. ASSUME NEW s \in Skips
      PROVE  s \in Seq(Catalogs) /\ Len(s) <= SkipCap /\ IsInjective(s)
             /\ DOMAIN s = 1..Len(s) /\ Len(s) \in Nat
  <2>1. PICK n \in 0..SkipCap : s \in [1..n -> Catalogs]
    BY DEF Skips
  <2>2. s \in Seq(Catalogs) /\ Len(s) = n
    BY <2>1, CapAssumption
  <2> QED
    BY <2>1, <2>2, CapAssumption DEF Skips
<1>2. ASSUME NEW s \in Seq(Catalogs), Len(s) <= SkipCap, IsInjective(s)
      PROVE  s \in Skips
  <2>1. s \in [1..Len(s) -> Catalogs] /\ Len(s) \in 0..SkipCap
    BY <1>2, LenProperties, CapAssumption
  <2> QED
    BY <1>2, <2>1 DEF Skips
<1> QED
  BY <1>1, <1>2

\* Without h, the others remain.
LEMMA WithoutSkips ==
  ASSUME NEW s \in Skips, NEW h
  PROVE  /\ Without(s, h) \in Skips
         /\ \A k \in DOMAIN Without(s, h) : Without(s, h)[k] # h
         /\ \A k \in DOMAIN s : s[k] # h =>
                \E j \in DOMAIN Without(s, h) : Without(s, h)[j] = s[k]
<1>1. s \in Seq(Catalogs) /\ Len(s) <= SkipCap /\ DOMAIN s = 1..Len(s) /\ Len(s) \in Nat
      /\ \A i, j \in 1..Len(s) : s[i] = s[j] => i = j
  BY SkipsSeq DEF IsInjective
<1>2. CASE h \notin Range(s)
  BY <1>2 DEF Without, Range
<1>3. CASE h \in Range(s)
  <2>1. PICK k \in 1..Len(s) : s[k] = h /\ Without(s, h) = RemoveAt(s, k)
    <3>1. \E k \in DOMAIN s : s[k] = h
      BY <1>3 DEF Range
    <3> QED
      BY <1>1, <1>3, <3>1 DEF Without
  <2> DEFINE a == SubSeq(s, 1, k - 1)
             b == SubSeq(s, k + 1, Len(s))
  <2>2. /\ a \in Seq(Catalogs) /\ Len(a) = k - 1
        /\ \A i \in 1..(k - 1) : a[i] = s[i]
    <3>1. \A i \in 1..(k - 1) : s[i] \in Catalogs
      BY <1>1, ElementOfSeq
    <3>2. /\ a \in Seq(Catalogs) /\ Len(a) = IF 1 <= k - 1 THEN (k - 1) - 1 + 1 ELSE 0
          /\ \A i \in 1..((k - 1) - 1 + 1) : a[i] = s[1 + i - 1]
      BY <3>1, SubSeqProperties
    <3> HIDE DEF a
    <3> QED
      BY <3>2
  <2>3. /\ b \in Seq(Catalogs) /\ Len(b) = Len(s) - k
        /\ \A i \in 1..(Len(s) - k) : b[i] = s[k + i]
    <3>1. \A i \in (k + 1)..Len(s) : s[i] \in Catalogs
      BY <1>1, ElementOfSeq
    <3>2. /\ b \in Seq(Catalogs)
          /\ Len(b) = IF k + 1 <= Len(s) THEN Len(s) - (k + 1) + 1 ELSE 0
          /\ \A i \in 1..(Len(s) - (k + 1) + 1) : b[i] = s[(k + 1) + i - 1]
      BY <1>1, <3>1, SubSeqProperties
    <3>3. /\ Len(s) - (k + 1) + 1 = Len(s) - k
          /\ \A i \in 1..(Len(s) - k) : (k + 1) + i - 1 = k + i
          /\ k + 1 <= Len(s) \/ Len(s) - k = 0
      <4>1. PICK n \in Nat : n = Len(s)
        BY <1>1
      <4>2. k \in Nat /\ k <= n
        BY <4>1
      <4>3. n - (k + 1) + 1 = n - k /\ (k + 1 <= n \/ n - k = 0)
        BY <4>2
      <4>4. \A i \in Int : (k + 1) + i - 1 = k + i
        BY <4>2
      <4> QED
        BY <4>1, <4>3, <4>4
    <3> HIDE DEF b
    <3>4. Len(b) = Len(s) - k
      BY <1>1, <3>2, <3>3
    <3>5. ASSUME NEW i \in 1..(Len(s) - k) PROVE b[i] = s[k + i]
      BY <3>2, <3>3
    <3> QED
      BY <3>2, <3>4, <3>5
  <2> HIDE DEF a, b
  <2>4. PICK t : t = a \o b
    OBVIOUS
  <2>5. t = Without(s, h)
    BY <2>1, <2>4 DEF RemoveAt, a, b
  <2>6. /\ t \in Seq(Catalogs) /\ Len(t) = Len(s) - 1
        /\ \A i \in 1..(Len(s) - 1) : t[i] = IF i <= k - 1 THEN s[i] ELSE s[i + 1]
    <3>1. /\ t \in Seq(Catalogs) /\ Len(t) = Len(a) + Len(b)
          /\ \A i \in 1..(Len(a) + Len(b)) : t[i] = IF i <= Len(a) THEN a[i] ELSE b[i - Len(a)]
      BY <2>2, <2>3, <2>4, ConcatProperties
    <3>2. Len(a) + Len(b) = Len(s) - 1
      BY <1>1, <2>2, <2>3
    <3>3. ASSUME NEW i \in 1..(Len(s) - 1)
          PROVE  t[i] = IF i <= k - 1 THEN s[i] ELSE s[i + 1]
      <4>1. CASE i <= k - 1
        <5>1. i \in 1..(Len(a) + Len(b)) /\ i <= Len(a) /\ i \in 1..(k - 1)
          BY <1>1, <2>2, <3>2, <4>1
        <5>2. t[i] = a[i] /\ a[i] = s[i]
          BY <2>2, <3>1, <5>1
        <5> QED
          BY <4>1, <5>2
      <4>2. CASE i > k - 1
        <5>1. t[i] = b[i - (k - 1)] /\ i - (k - 1) \in 1..(Len(s) - k)
          BY <1>1, <2>2, <3>1, <3>2, <4>2
        <5>2. b[i - (k - 1)] = s[k + (i - (k - 1))]
          BY <2>3, <5>1
        <5>3. k + (i - (k - 1)) = i + 1
          BY <1>1
        <5> QED
          BY <4>2, <5>1, <5>2, <5>3
      <4> QED
        BY <4>1, <4>2
    <3> QED
      BY <3>1, <3>2, <3>3
  <2>7. DOMAIN t = 1..(Len(s) - 1)
    BY <2>6, LenProperties
  <2>8. IsInjective(t)
    BY <1>1, <2>6, <2>7 DEF IsInjective
  <2>9. \A i \in DOMAIN t : t[i] # h
    BY <1>1, <2>1, <2>6, <2>7
  <2>10. ASSUME NEW j \in DOMAIN s, s[j] # h PROVE \E i \in DOMAIN t : t[i] = s[j]
    <3>1. CASE j < k
      BY <1>1, <2>6, <2>7, <3>1
    <3>2. CASE j > k
      <4>1. j - 1 \in DOMAIN t /\ t[j - 1] = s[(j - 1) + 1]
        BY <1>1, <2>6, <2>7, <3>2
      <4> QED
        BY <1>1, <4>1
    <3> QED
      BY <1>1, <2>1, <2>10, <3>1, <3>2
  <2>11. t \in Skips
    <3>1. Len(t) <= SkipCap
      BY <1>1, <2>6, CapAssumption
    <3> QED
      BY <2>6, <2>8, <3>1, SkipsSeq
  <2> QED
    BY <2>5, <2>9, <2>10, <2>11
<1> QED
  BY <1>2, <1>3

\* The cap keeps the newest.
LEMMA CappedSkips ==
  ASSUME NEW s \in Skips, NEW h \in Catalogs, \A k \in DOMAIN s : s[k] # h
  PROVE  /\ Capped(s) = s
         /\ Capped(Append(s, h)) \in Skips
         /\ \E k \in DOMAIN Capped(Append(s, h)) : Capped(Append(s, h))[k] = h
<1>1. /\ s \in Seq(Catalogs) /\ Len(s) <= SkipCap /\ DOMAIN s = 1..Len(s) /\ Len(s) \in Nat
      /\ \A i, j \in 1..Len(s) : s[i] = s[j] => i = j
  BY SkipsSeq DEF IsInjective
<1>2. Capped(s) = s
  BY <1>1, CapAssumption DEF Capped
<1>3. PICK n \in Nat : n = Len(s) + 1
  BY <1>1
<1>t. PICK t : t = Append(s, h)
  OBVIOUS
<1>4. /\ t \in Seq(Catalogs) /\ Len(t) = n /\ t[n] = h /\ DOMAIN t = 1..n
      /\ \A i \in 1..Len(s) : t[i] = s[i]
  BY <1>1, <1>3, <1>t, AppendProperties, LenProperties
<1>5. \A i, j \in 1..n : t[i] = t[j] => i = j
  <2> SUFFICES ASSUME NEW i \in 1..n, NEW j \in 1..n, t[i] = t[j] PROVE i = j
    OBVIOUS
  <2>1. \A k \in 1..n : k = n \/ k \in 1..Len(s)
    BY <1>1, <1>3, <1>t
  <2> QED
    BY <1>1, <1>4, <2>1
<1>6. CASE Len(t) <= SkipCap
  <2>1. Capped(t) = t
    BY <1>4, <1>6, CapAssumption DEF Capped
  <2>2. t \in Skips
    BY <1>4, <1>5, <1>6, SkipsSeq DEF IsInjective
  <2>3. n \in DOMAIN t
    BY <1>1, <1>3, <1>t, <1>4
  <2> QED
    BY <1>2, <1>3, <1>t, <1>4, <2>1, <2>2, <2>3
<1>7. CASE ~(Len(t) <= SkipCap)
  <2>1. n = SkipCap + 1 /\ SkipCap \in Nat \ {0}
    BY <1>1, <1>3, <1>t, <1>4, <1>7, CapAssumption
  <2>2. PICK u : u = Capped(t)
    OBVIOUS
  <2>3. u = SubSeq(t, 2, n)
    <3>1. n - SkipCap + 1 = 2
      BY <2>1
    <3> QED
      BY <1>4, <1>7, <2>1, <2>2, <3>1 DEF Capped
  <2>4. /\ u \in Seq(Catalogs) /\ Len(u) = n - 1 /\ \A i \in 1..(n - 1) : u[i] = t[i + 1]
    <3>1. \A i \in 2..n : t[i] \in Catalogs
      BY <1>4, ElementOfSeq
    <3>2. /\ u \in Seq(Catalogs) /\ Len(u) = IF 2 <= n THEN n - 2 + 1 ELSE 0
          /\ \A i \in 1..(n - 2 + 1) : u[i] = t[2 + i - 1]
      BY <2>3, <3>1, SubSeqProperties
    <3>3. n - 2 + 1 = n - 1 /\ 2 <= n /\ \A i \in Int : 2 + i - 1 = i + 1
      BY <2>1
    <3>4. Len(u) = n - 1
      BY <3>2, <3>3
    <3>5. ASSUME NEW i \in 1..(n - 1) PROVE u[i] = t[i + 1]
      BY <3>2, <3>3
    <3> QED
      BY <3>2, <3>4, <3>5
  <2>5. DOMAIN u = 1..(n - 1)
    BY <2>4, LenProperties
  <2>6. IsInjective(u)
    <3> SUFFICES ASSUME NEW i \in 1..(n - 1), NEW j \in 1..(n - 1), u[i] = u[j] PROVE i = j
      BY <2>5 DEF IsInjective
    <3>1. i + 1 \in 1..n /\ j + 1 \in 1..n
      BY <2>1
    <3>2. i + 1 = j + 1
      BY <1>5, <2>4, <3>1
    <3> QED
      BY <3>2
  <2>7. u \in Skips
    BY <2>1, <2>4, <2>6, SkipsSeq
  <2>8. n - 1 \in DOMAIN u /\ u[n - 1] = h
    <3>1. n - 1 \in 1..(n - 1) /\ (n - 1) + 1 = n
      BY <2>1
    <3> QED
      BY <1>4, <2>4, <2>5, <3>1
  <2> QED
    BY <1>2, <1>3, <1>t, <2>2, <2>7, <2>8
<1> QED
  BY <1>6, <1>7

Listed(s, x) == \E k \in DOMAIN s.skipped : s.skipped[k] = x

\* A call that changes the state keeps what earlier calls decided, and adds its own
\* decision.
LEMMA ChangedState ==
  ASSUME NEW s \in States, NEW op, NEW h \in Catalogs \cup {None},
         op \in {"skip", "adopt"} => h \in Catalogs
  PROVE  /\ Changed(s, op, h) \in States
         /\ op \in {"check", "note", "remind"} => Changed(s, op, h) = s
         /\ Changed(s, op, h).disabled = (s.disabled \/ op = "disable")
         /\ Changed(s, op, h).installed = IF op = "adopt" THEN h ELSE s.installed
         /\ op = "skip" => Listed(Changed(s, op, h), h)
         /\ op # "skip" => \A x : Listed(s, x) /\ (x = h => op # "adopt")
                                     => Listed(Changed(s, op, h), x)
<1>1. s.skipped \in Skips /\ s.disabled \in BOOLEAN /\ s.installed \in Catalogs \cup {None}
  BY DEF States
<1>2. PICK w : w = Without(s.skipped, h)
  OBVIOUS
<1>3. w \in Skips /\ \A k \in DOMAIN w : w[k] # h
  BY <1>1, <1>2, WithoutSkips
<1>4. \A k \in DOMAIN s.skipped : s.skipped[k] # h =>
        \E j \in DOMAIN w : w[j] = s.skipped[k]
  BY <1>1, <1>2, WithoutSkips
<1>5. CASE op = "skip"
  <2>1. PICK u : u = Capped(Append(w, h))
    OBVIOUS
  <2>2. u \in Skips /\ \E k \in DOMAIN u : u[k] = h
    BY <1>3, <1>5, <2>1, CappedSkips
  <2>3. Changed(s, op, h) = [s EXCEPT !.skipped = u]
    BY <1>2, <1>5, <2>1 DEF Changed
  <2> QED
    BY <1>5, <2>2, <2>3 DEF States, Listed
<1>6. CASE op = "adopt"
  <2>1. Capped(w) = w
    BY <1>3, <1>6, CappedSkips
  <2>2. Changed(s, op, h) = [s EXCEPT !.installed = h, !.skipped = w]
    BY <1>2, <1>6, <2>1 DEF Changed
  <2> QED
    BY <1>3, <1>4, <1>6, <2>2 DEF States, Listed
<1>7. CASE op = "disable"
  <2>1. Changed(s, op, h) = [s EXCEPT !.disabled = TRUE]
    BY <1>7 DEF Changed
  <2> QED
    BY <1>7, <2>1 DEF States, Listed
<1>8. CASE op \notin {"skip", "adopt", "disable"}
  <2>1. Changed(s, op, h) = s
    BY <1>8 DEF Changed
  <2> QED
    BY <1>1, <1>8, <2>1
<1> QED
  BY <1>5, <1>6, <1>7, <1>8

-----------------------------------------------------------------------------
(* Types.                                                                  *)

Ops == {"none", "check", "note", "skip", "remind", "disable", "adopt"}

Places == 1..3
Hashes == Catalogs \cup {None}
Stores == Hashes \X (States \cup {Torn})
Flags  == BOOLEAN
Groups == SUBSET FileSet

CallType ==
    [op : Ops, at : Steps, i : Places, cat : Hashes, new : States, moved : Groups,
     failed : Flags, aside : Flags, alone : Flags, before : Stores]

\* Which calls reach which steps.
Shape(c) ==
    /\ c.at \in {"move", "removeAll", "putBack", "cleanup"} \/ c.moved # {} => c.op = "adopt"
    /\ c.op # "adopt" /\ c.at \in {"open", "fill", "verify", "rename"} => c.i = 3
    /\ c.op \in {"adopt", "skip"} => c.cat \in Catalogs
    /\ c.at = "offer" => c.op = "check"
    /\ c.aside => c.op = "note" \/ c.at \in {"removeAll", "putBack"}

CallOK(c) == c \in CallType /\ Shape(c)

\* What a file may hold, and a set of the three files.
Content(f) == {None, Torn} \cup IF f = "state" THEN States ELSE Catalogs
FilesOK(fs) == fs = [f \in FileSet |-> fs[f]] /\ \A f \in FileSet : fs[f] \in Content(f)

Handle == {"tmp", "final", "bak", "none"}
Promise == [installed : Catalogs \cup {None}, skipped : Catalogs \cup {None},
            disabled : BOOLEAN]

TypeInv ==
    /\ FilesOK(final) /\ FilesOK(tmp) /\ FilesOK(bak)
    /\ handle \in [Procs -> Handle]
    /\ call \in [Procs -> CallType] /\ \A p \in Procs : Shape(call[p])
    /\ approved \subseteq Catalogs
    /\ promise \in Promise

\* The empty state, the idle call and the empty promise are of their types.
LEMMA EmptyTypes ==
  Default \in States /\ CallOK(Idle) /\ NoPromise \in Promise
<1>1. <<>> \in Skips
  <2>1. <<>> \in Seq(Catalogs) /\ Len(<<>>) = 0
    BY EmptySeq
  <2>2. DOMAIN <<>> = {}
    OBVIOUS
  <2>3. IsInjective(<<>>) /\ Len(<<>>) <= SkipCap
    BY <2>1, <2>2, CapAssumption DEF IsInjective
  <2> QED
    BY <2>1, <2>3, SkipsSeq
<1>2. Default \in States
  BY <1>1 DEF Default, States
<1>3. Nothing \in Stores /\ None \in Hashes
  BY <1>2 DEF Nothing, Stores, Hashes
<1>4. Idle \in CallType
  BY <1>2, <1>3 DEF Idle, CallType, Ops, Steps, Places, Groups, Flags
<1>5. Shape(Idle)
  BY DEF Shape, Idle
<1> QED
  BY <1>2, <1>4, <1>5 DEF CallOK, NoPromise, Promise

\* What the store says is of its type.
LEMMA StoreTypes ==
  ASSUME FilesOK(final)
  PROVE  Active \in Catalogs \cup {None} /\ Decisions \in States \cup {Torn}
BY EmptyTypes DEF FilesOK, FileSet, Content, Active, Decisions

\* One process changes its call.
LEMMA OneCallType ==
  ASSUME TypeInv, NEW p \in Procs, NEW c, CallOK(c), call' = [call EXCEPT ![p] = c]
  PROVE  /\ call' \in [Procs -> CallType] /\ (\A q \in Procs : Shape(call'[q]))
         /\ call'[p] = c /\ \A q \in Procs \ {p} : call'[q] = call[q]
BY DEF TypeInv, CallOK

\* One file changes.
LEMMA OneFileType ==
  ASSUME NEW fs, FilesOK(fs), NEW f \in FileSet, NEW x \in Content(f)
  PROVE  /\ FilesOK([fs EXCEPT ![f] = x])
         /\ [fs EXCEPT ![f] = x][f] = x
         /\ \A g \in FileSet \ {f} : [fs EXCEPT ![f] = x][g] = fs[g]
BY DEF FilesOK

\* The file that is handled, and what is written to it.
LEMMA FileType ==
  ASSUME TypeInv, NEW p \in Procs
  PROVE  /\ call[p] \in CallType /\ Shape(call[p])
         /\ File(p) = CASE call[p].i = 1 -> "json" [] call[p].i = 2 -> "hash"
                        [] call[p].i = 3 -> "state"
         /\ File(p) \in FileSet
         /\ call[p].at \in {"open", "fill", "verify", "rename"} =>
                Bytes(p) \in Content(File(p)) /\ Bytes(p) \notin {None, Torn}
<1>1. call[p] \in CallType /\ Shape(call[p])
  BY DEF TypeInv
<1>2. call[p].i \in {1, 2, 3} /\ call[p].new \in States
  BY <1>1 DEF CallType, Places
<1>3. File(p) = CASE call[p].i = 1 -> "json" [] call[p].i = 2 -> "hash"
                  [] call[p].i = 3 -> "state"
  BY <1>2 DEF File, Files
<1>4. ASSUME call[p].at \in {"open", "fill", "verify", "rename"}
      PROVE  Bytes(p) \in Content(File(p)) /\ Bytes(p) \notin {None, Torn}
  <2>1. CASE File(p) = "state"
    BY <1>2, <2>1, StateAssumption DEF Bytes, Content
  <2>2. CASE File(p) # "state"
    <3>1. call[p].i # 3
      BY <1>3, <2>2
    <3>2. call[p].cat \in Catalogs
      BY <1>1, <1>4, <3>1 DEF Shape
    <3> QED
      BY <2>2, <3>2, NoneAssumption DEF Bytes, Content
  <2> QED
    BY <2>1, <2>2
<1>5. File(p) \in FileSet
  BY <1>2, <1>3 DEF FileSet
<1> QED
  BY <1>1, <1>3, <1>4, <1>5

\* Where open files go.
LEMMA AlongType ==
  ASSUME NEW h \in [Procs -> Handle], NEW fs, NEW from, NEW to \in Handle
  PROVE  /\ Along(h, fs, from, to) \in [Procs -> Handle]
         /\ \A q \in Procs : from # "none" /\ h[q] = "none" => Along(h, fs, from, to)[q] = "none"
<1>1. ASSUME NEW q \in Procs
      PROVE  Along(h, fs, from, to)[q] =
               IF File(q) \notin fs \/ h[q] \notin {from, to} THEN h[q]
               ELSE IF h[q] = from THEN to ELSE "none"
  BY DEF Along
<1>2. ASSUME NEW q \in Procs
      PROVE  Along(h, fs, from, to)[q] \in {h[q], to, "none"}
  BY <1>1
<1>3. ASSUME NEW q \in Procs, from # "none", h[q] = "none"
      PROVE  Along(h, fs, from, to)[q] = "none"
  BY <1>1, <1>3
<1>4. Along(h, fs, from, to) = [q \in Procs |-> Along(h, fs, from, to)[q]]
  BY DEF Along
<1> QED
  BY <1>2, <1>3, <1>4 DEF Handle

\* The ways in which a call ends.
LEMMA EndingTypes ==
  ASSUME NEW c, CallOK(c)
  PROVE  /\ c.at \notin {"removeAll", "putBack"} => CallOK(Done(c))
         /\ CallOK(Recorded(c)) /\ CallOK(Failed(c))
         /\ Recorded(c).op = "note" /\ Recorded(c).at = "load"
         /\ Recorded(c).alone = c.alone /\ Recorded(c).aside = c.aside
         /\ Recorded(c).before = c.before /\ Recorded(c).moved = {}
         /\ Done(c).at = "done" /\ Done(c).op = c.op /\ Done(c).cat = c.cat
         /\ Done(c).alone = c.alone /\ Done(c).aside = c.aside
         /\ Done(c).before = c.before /\ Done(c).moved = {}
         /\ c.op # "adopt" =>
              /\ Failed(c).at = "done" /\ Failed(c).op = c.op /\ Failed(c).cat = c.cat
              /\ Failed(c).alone = c.alone /\ Failed(c).aside = c.aside
              /\ Failed(c).before = c.before /\ Failed(c).moved = {}
<1>1. c \in CallType /\ Shape(c) /\ Default \in States
  BY EmptyTypes DEF CallOK
<1>2. /\ {} \in Groups /\ "done" \in Steps /\ "load" \in Steps /\ 1 \in Places
      /\ "note" \in Ops /\ None \in Hashes /\ TRUE \in Flags
  BY DEF Steps, Groups, Places, Ops, Hashes, Flags
<1>3. PICK d : d = Done(c)
  OBVIOUS
<1>4. /\ d \in CallType /\ d.at = "done" /\ d.op = c.op /\ d.cat = c.cat /\ d.moved = {}
      /\ d.aside = c.aside /\ d.alone = c.alone /\ d.before = c.before
  <2>1. d = [c EXCEPT !.at = "done", !.i = 1, !.new = Default, !.moved = {}]
    BY <1>3 DEF Done
  <2> QED
    BY <1>1, <1>2, <2>1 DEF CallType
<1>5. ASSUME c.aside => c.op = "note" PROVE CallOK(d)
  BY <1>1, <1>4, <1>5 DEF CallOK, Shape
<1>6. PICK e : e = [d EXCEPT !.op = "note", !.at = "load", !.cat = None, !.failed = TRUE]
  OBVIOUS
<1>7. /\ e \in CallType /\ e.op = "note" /\ e.at = "load" /\ e.moved = {}
      /\ e.aside = c.aside /\ e.alone = c.alone /\ e.before = c.before
  BY <1>2, <1>4, <1>6 DEF CallType
<1>8. e = Recorded(c) /\ CallOK(e)
  BY <1>3, <1>6, <1>7 DEF Recorded, CallOK, Shape
<1>9. c.at \notin {"removeAll", "putBack"} => CallOK(Done(c))
  BY <1>1, <1>3, <1>5 DEF Shape
<1>10. CASE c.op = "adopt"
  <2>1. Failed(c) = e
    BY <1>8, <1>10 DEF Failed
  <2> QED
    BY <1>3, <1>4, <1>7, <1>8, <1>9, <1>10, <2>1
<1>11. CASE c.op # "adopt"
  <2>1. CallOK(d)
    BY <1>1, <1>5, <1>11 DEF Shape
  <2>2. PICK g : g = [d EXCEPT !.failed = TRUE]
    OBVIOUS
  <2>3. /\ g \in CallType /\ g.at = "done" /\ g.op = c.op /\ g.cat = c.cat /\ g.moved = {}
        /\ g.aside = c.aside /\ g.alone = c.alone /\ g.before = c.before
    BY <1>2, <1>4, <2>2 DEF CallType
  <2>4. CallOK(g)
    BY <1>4, <2>1, <2>3 DEF CallOK, Shape
  <2>5. Failed(c) = g
    BY <1>3, <1>11, <2>2 DEF Failed
  <2> QED
    BY <1>3, <1>4, <1>7, <1>8, <1>9, <1>11, <2>3, <2>4, <2>5
<1> QED
  BY <1>10, <1>11

\* d is c at another step or file.
Same(d, c) ==
    /\ d \in CallType
    /\ d.op = c.op /\ d.cat = c.cat /\ d.new = c.new /\ d.moved = c.moved
    /\ d.failed = c.failed /\ d.aside = c.aside /\ d.alone = c.alone /\ d.before = c.before

\* The next step, the next file, or both.
LEMMA Steady ==
  ASSUME NEW c \in CallType, NEW at \in Steps, NEW i \in Places
  PROVE  /\ Same([c EXCEPT !.at = at], c)
         /\ [c EXCEPT !.at = at].at = at /\ [c EXCEPT !.at = at].i = c.i
         /\ Same([c EXCEPT !.i = i], c)
         /\ [c EXCEPT !.i = i].at = c.at /\ [c EXCEPT !.i = i].i = i
<1>1. [c EXCEPT !.at = at] \in CallType
  BY DEF CallType
<1>2. [c EXCEPT !.i = i] \in CallType
  BY DEF CallType
<1> QED
  BY <1>1, <1>2 DEF Same, CallType

\* The loops over the files.
LEMMA NextFileType ==
  ASSUME NEW c \in CallType, NEW after \in Steps
  PROVE  /\ Same(NextFile(c, after), c)
         /\ c.op = "adopt" /\ c.i < 3 =>
              NextFile(c, after).at = c.at /\ NextFile(c, after).i = c.i + 1
         /\ ~(c.op = "adopt" /\ c.i < 3) =>
              /\ NextFile(c, after).at = after
              /\ NextFile(c, after).i = IF c.op = "adopt" THEN 1 ELSE c.i
<1>0. c.i \in 1..3
  BY DEF CallType, Places
<1>1. CASE c.op = "adopt" /\ c.i < 3
  <2>1. NextFile(c, after) = [c EXCEPT !.i = c.i + 1] /\ c.i + 1 \in Places
    BY <1>0, <1>1 DEF NextFile, Files, Places
  <2>2. PICK d : d = [c EXCEPT !.i = c.i + 1]
    OBVIOUS
  <2>3. Same(d, c) /\ d.at = c.at /\ d.i = c.i + 1
    BY <2>1, <2>2, Steady
  <2> QED
    BY <1>1, <2>1, <2>2, <2>3
<1>2. CASE ~(c.op = "adopt" /\ c.i < 3)
  <2>1. PICK i : i = IF c.op = "adopt" THEN 1 ELSE c.i
    OBVIOUS
  <2>2. NextFile(c, after) = [c EXCEPT !.at = after, !.i = i] /\ i \in Places
    <3>1. ~(c.op = "adopt" /\ c.i < Len(Files))
      BY <1>0, <1>2 DEF Files
    <3> QED
      BY <1>0, <2>1, <3>1 DEF NextFile, Places
  <2>3. PICK d : d = [c EXCEPT !.at = after, !.i = i]
    OBVIOUS
  <2>4. Same(d, c) /\ d.at = after /\ d.i = i
    BY <2>2, <2>3 DEF Same, CallType
  <2> QED
    BY <1>2, <2>1, <2>2, <2>3, <2>4
<1> QED
  BY <1>1, <1>2

\* A call that starts.
LEMMA BeginTypes ==
  ASSUME TypeInv, NEW p \in Procs, NEW op \in Ops, NEW cat \in Catalogs \cup {None},
         op \in {"adopt", "skip"} => cat \in Catalogs,
         Begin(p, op, cat), approved' \subseteq Catalogs
  PROVE  TypeInv'
<1>1. /\ Active \in Catalogs \cup {None} /\ Decisions \in States \cup {Torn}
      /\ Idle \in CallType /\ Shape(Idle) /\ NoPromise \in Promise
      /\ Nothing \in (Catalogs \cup {None}) \X (States \cup {Torn})
  BY StoreTypes, EmptyTypes DEF TypeInv, CallOK, Nothing
<1>2. UNCHANGED files /\ promise' \in Promise
  BY <1>1 DEF Begin, TypeInv
<1>3. call' = [q \in Procs |-> call'[q]]
  BY DEF Begin
<1>4. ASSUME NEW q \in Procs PROVE CallOK(call'[q])
  <2>1. call[q] \in CallType /\ Shape(call[q])
    BY DEF TypeInv
  <2>2. CASE q = p
    <3>1. PICK alone \in BOOLEAN, before \in (Catalogs \cup {None}) \X (States \cup {Torn}) :
             call'[p] = [Idle EXCEPT !.op = op, !.at = "load", !.cat = cat,
                                     !.alone = alone, !.before = before,
                                     !.failed = (op = "note")]
      <4>1. PICK o \in BOOLEAN : o = \E r \in Procs \ {p} : Busy(r)
        OBVIOUS
      <4>2. call'[p] = [Idle EXCEPT !.op = op, !.at = "load", !.cat = cat,
                                    !.alone = ~o,
                                    !.before = IF o THEN Nothing ELSE <<Active, Decisions>>,
                                    !.failed = (op = "note")]
        BY <4>1 DEF Begin
      <4>3. (IF o THEN Nothing ELSE <<Active, Decisions>>)
               \in (Catalogs \cup {None}) \X (States \cup {Torn})
        BY <1>1
      <4> QED
        BY <4>2, <4>3
    <3>2. PICK d : d = call'[p]
      OBVIOUS
    <3>3. /\ (op = "note") \in Flags /\ alone \in Flags /\ before \in Stores /\ cat \in Hashes
          /\ "load" \in Steps
      BY <3>1 DEF Flags, Stores, Hashes, Steps
    <3>4. /\ d \in CallType /\ d.at = "load" /\ d.op = op /\ d.cat = cat
          /\ d.moved = Idle.moved /\ d.aside = Idle.aside
      BY ZenonT(40), <1>1, <3>1, <3>2, <3>3 DEF CallType
    <3>5. Idle.moved = {} /\ Idle.aside = FALSE
      BY DEF Idle
    <3> QED
      BY <2>2, <3>2, <3>4, <3>5 DEF CallOK, Shape
  <2>3. CASE q # p
    <3>1. \/ call'[q] = call[q]
          \/ call'[q] = [call[q] EXCEPT !.alone = FALSE, !.before = Nothing]
      BY <2>3 DEF Begin
    <3>2. PICK d : d = [call[q] EXCEPT !.alone = FALSE, !.before = Nothing]
      OBVIOUS
    <3>3. FALSE \in Flags /\ Nothing \in Stores
      BY <1>1 DEF Flags, Stores, Hashes
    <3>4. /\ d \in CallType /\ d.at = call[q].at /\ d.i = call[q].i /\ d.op = call[q].op
          /\ d.cat = call[q].cat /\ d.moved = call[q].moved /\ d.aside = call[q].aside
      BY <2>1, <3>2, <3>3 DEF CallType
    <3>5. Shape(d)
      BY <2>1, <3>4 DEF Shape
    <3> QED
      BY <2>1, <3>1, <3>2, <3>4, <3>5 DEF CallOK
  <2> QED
    BY <2>2, <2>3
<1>5. call' \in [Procs -> CallType] /\ \A q \in Procs : Shape(call'[q])
  BY <1>3, <1>4 DEF CallOK
<1> QED
  BY <1>2, <1>5 DEF TypeInv, files, FilesOK

\* What a call is after its step.
LEMMA ThisCall ==
  ASSUME TypeInv, NEW p \in Procs
  PROVE  /\ call[p] \in CallType /\ Shape(call[p]) /\ CallOK(call[p])
         /\ call[p].i \in {1, 2, 3} /\ call[p].i \in Places /\ call[p].at \in Steps
         /\ call[p].cat \in Hashes
         /\ \A x : call' = [call EXCEPT ![p] = x] =>
              call'[p] = x /\ call' = [call EXCEPT ![p] = call'[p]]
<1>1. call[p] \in CallType /\ Shape(call[p]) /\ call \in [Procs -> CallType]
  BY DEF TypeInv
<1> QED
  BY <1>1 DEF CallOK, CallType, Places

\* The steps and places below are among those the types allow.
LEMMA StepNames ==
  /\ \A at \in {"open", "fill", "verify", "move", "rename", "cleanup", "removeAll", "putBack",
                "offer", "done"} : at \in Steps
  /\ 1 \in Places /\ 2 \in Places /\ 3 \in Places /\ None \in Hashes
BY DEF Steps, Places, Hashes

\* What a call looks like after it loaded state.json.
LEMMA LoadCall ==
  ASSUME TypeInv, NEW p \in Procs, Load(p)
  PROVE  /\ call' = [call EXCEPT ![p] = call'[p]]
         /\ \/ call'[p] = Failed(call[p])
            \/ /\ Decisions \in States /\ call'[p] \in CallType
               /\ call'[p].at = "open" /\ call'[p].i = IF call[p].op = "adopt" THEN 1 ELSE 3
               /\ call'[p].new = Changed(Decisions, call[p].op, call[p].cat)
               /\ \/ call'[p].cat = call[p].cat
                     /\ (call[p].op = "check" => ~Quiet(Decisions, call[p].cat))
                  \/ call'[p].cat = None /\ call[p].op = "check"
               /\ call'[p].op = call[p].op /\ call'[p].moved = call[p].moved
               /\ call'[p].failed = call[p].failed /\ call'[p].aside = call[p].aside
               /\ call'[p].alone = call[p].alone /\ call'[p].before = call[p].before
<1> DEFINE c == call[p]
<1>c. /\ c \in CallType /\ Shape(c) /\ c.cat \in Hashes
      /\ \A x : call' = [call EXCEPT ![p] = x] =>
            call'[p] = x /\ call' = [call EXCEPT ![p] = call'[p]]
  BY ThisCall
<1>1. CASE Decisions = Torn
  <2>1. call' = [call EXCEPT ![p] = Failed(c)]
    BY <1>1 DEF Load
  <2> QED
    BY <1>c, <2>1
<1>2. CASE Decisions # Torn
  <2>1. PICK silent \in BOOLEAN :
           /\ silent => c.op = "check"
           /\ c.op = "check" /\ Quiet(Decisions, c.cat) => silent
           /\ call' = [call EXCEPT ![p] =
                [c EXCEPT !.at  = "open",
                          !.i   = IF c.op = "adopt" THEN 1 ELSE 3,
                          !.cat = IF silent THEN None ELSE @,
                          !.new = Changed(Decisions, c.op, c.cat)]]
    BY <1>2 DEF Load
  <2>2. Decisions \in States
    BY <1>2, StoreTypes DEF TypeInv
  <2>3. PICK s : s = Changed(Decisions, c.op, c.cat)
    OBVIOUS
  <2>4. s \in States
    BY <1>c, <2>2, <2>3, ChangedState DEF Shape, Hashes
  <2>5. PICK d : d = [c EXCEPT !.at  = "open",
                               !.i   = IF c.op = "adopt" THEN 1 ELSE 3,
                               !.cat = IF silent THEN None ELSE @,
                               !.new = s]
    OBVIOUS
  <2>6. /\ d \in CallType /\ d.at = "open" /\ d.i = (IF c.op = "adopt" THEN 1 ELSE 3)
        /\ d.cat = (IF silent THEN None ELSE c.cat) /\ d.new = s
        /\ d.op = c.op /\ d.moved = c.moved /\ d.failed = c.failed /\ d.aside = c.aside
        /\ d.alone = c.alone /\ d.before = c.before
    BY <1>c, <2>4, <2>5, StepNames DEF CallType
  <2>7. call' = [call EXCEPT ![p] = d]
    BY <2>1, <2>3, <2>5
  <2>8. call'[p] = d /\ call' = [call EXCEPT ![p] = call'[p]]
    BY <1>c, <2>7
  <2> QED
    BY <2>1, <2>2, <2>3, <2>6, <2>8
<1> QED
  BY <1>1, <1>2

\* What a call looks like while it writes a temporary file.
LEMMA OpenCall ==
  ASSUME TypeInv, NEW p \in Procs, Open(p) \/ Fill(p)
  PROVE  /\ call' = [call EXCEPT ![p] = call'[p]]
         /\ Same(call'[p], call[p]) /\ call'[p].i = call[p].i
         /\ Open(p) => call'[p].at = "fill"
         /\ Fill(p) => call'[p].at = "verify"
<1>1. PICK at : at = IF Open(p) THEN "fill" ELSE "verify"
  OBVIOUS
<1>2. PICK d : d = [call[p] EXCEPT !.at = at]
  OBVIOUS
<1>3. call' = [call EXCEPT ![p] = d] /\ at \in Steps /\ ~(Open(p) /\ Fill(p))
  BY <1>1, <1>2, StepNames DEF Open, Fill, At
<1>4. call'[p] = d /\ call' = [call EXCEPT ![p] = call'[p]]
  BY <1>3, ThisCall
<1>5. Same(d, call[p]) /\ d.at = at /\ d.i = call[p].i
  BY <1>2, <1>3, ThisCall DEF Same, CallType
<1> QED
  BY <1>1, <1>3, <1>4, <1>5

\* What a call looks like after it read back what it wrote.
LEMMA VerifyCall ==
  ASSUME TypeInv, NEW p \in Procs, Verify(p)
  PROVE  /\ call' = [call EXCEPT ![p] = call'[p]]
         /\ tmp[File(p)] # Bytes(p) => call'[p] = Failed(call[p])
         /\ tmp[File(p)] = Bytes(p) => Same(call'[p], call[p]) /\
              \/ /\ call[p].op = "adopt" /\ call[p].i < 3
                 /\ call'[p].at = "open" /\ call'[p].i = call[p].i + 1
              \/ /\ call[p].op = "adopt" /\ call[p].i = 3
                 /\ call'[p].at = "move" /\ call'[p].i = 1
              \/ /\ call[p].op # "adopt"
                 /\ call'[p].at = "rename" /\ call'[p].i = call[p].i
<1> DEFINE c == call[p]
<1>c. /\ c \in CallType /\ c.i \in {1, 2, 3}
      /\ \A x : call' = [call EXCEPT ![p] = x] =>
            call'[p] = x /\ call' = [call EXCEPT ![p] = call'[p]]
  BY ThisCall
<1>1. CASE tmp[File(p)] # Bytes(p)
  <2>1. call' = [call EXCEPT ![p] = Failed(c)]
    BY <1>1 DEF Verify
  <2> QED
    BY <1>c, <1>1, <2>1
<1>2. CASE tmp[File(p)] = Bytes(p) /\ c.op = "adopt" /\ c.i < 3
  <2>1. PICK d : d = [c EXCEPT !.at = "open", !.i = c.i + 1]
    OBVIOUS
  <2>2. call' = [call EXCEPT ![p] = d] /\ c.i + 1 \in Places
    BY <1>c, <1>2, <2>1 DEF Verify, Files, Places
  <2>3. Same(d, c) /\ d.at = "open" /\ d.i = c.i + 1
    BY <1>c, <2>1, <2>2, StepNames DEF Same, CallType
  <2>4. call'[p] = d /\ call' = [call EXCEPT ![p] = call'[p]]
    BY <1>c, <2>2
  <2> QED
    BY <1>2, <2>3, <2>4
<1>3. CASE tmp[File(p)] = Bytes(p) /\ ~(c.op = "adopt" /\ c.i < 3)
  <2>1. PICK at : at = IF c.op = "adopt" THEN "move" ELSE "rename"
    OBVIOUS
  <2>2. PICK d : d = NextFile(c, at)
    OBVIOUS
  <2>3. call' = [call EXCEPT ![p] = d] /\ at \in Steps
    BY <1>c, <1>3, <2>1, <2>2, StepNames DEF Verify, Files
  <2>4. Same(d, c) /\ d.at = at /\ d.i = IF c.op = "adopt" THEN 1 ELSE c.i
    BY <1>c, <1>3, <2>2, <2>3, NextFileType
  <2>5. call'[p] = d /\ call' = [call EXCEPT ![p] = call'[p]]
    BY <1>c, <2>3
  <2> QED
    BY <1>c, <1>3, <2>1, <2>4, <2>5
<1> QED
  BY <1>1, <1>2, <1>3

\* What an adoption looks like after it moved a file aside.
LEMMA MoveCall ==
  ASSUME TypeInv, NEW p \in Procs, Move(p)
  PROVE  /\ call' = [call EXCEPT ![p] = call'[p]]
         /\ call[p].op = "adopt" /\ call'[p] \in CallType
         /\ call'[p].at = IF call[p].i < 3 THEN "move" ELSE "rename"
         /\ call'[p].i = IF call[p].i < 3 THEN call[p].i + 1 ELSE 1
         /\ call'[p].moved = call[p].moved \cup IF final[File(p)] # None THEN {File(p)} ELSE {}
         /\ call'[p].op = call[p].op /\ call'[p].cat = call[p].cat /\ call'[p].new = call[p].new
         /\ call'[p].failed = call[p].failed /\ call'[p].aside = call[p].aside
         /\ call'[p].alone = call[p].alone /\ call'[p].before = call[p].before
<1> DEFINE c == call[p]
<1>c. /\ c \in CallType /\ Shape(c) /\ c.i \in {1, 2, 3} /\ File(p) \in FileSet
      /\ \A x : call' = [call EXCEPT ![p] = x] =>
            call'[p] = x /\ call' = [call EXCEPT ![p] = call'[p]]
  BY ThisCall, FileType
<1>1. PICK m : m = c.moved \cup IF final[File(p)] # None THEN {File(p)} ELSE {}
  OBVIOUS
<1>2. m \in Groups
  BY <1>c, <1>1 DEF CallType, Groups
<1>3. PICK e : e = [c EXCEPT !.moved = m]
  OBVIOUS
<1>4. /\ e \in CallType /\ e.at = c.at /\ e.i = c.i /\ e.op = c.op /\ e.cat = c.cat
      /\ e.new = c.new /\ e.moved = m /\ e.failed = c.failed /\ e.aside = c.aside
      /\ e.alone = c.alone /\ e.before = c.before
  BY <1>c, <1>2, <1>3 DEF CallType
<1>5. PICK d : d = NextFile(e, "rename")
  OBVIOUS
<1>6. call' = [call EXCEPT ![p] = d]
  <2>1. m = IF final[File(p)] # None THEN c.moved \cup {File(p)} ELSE c.moved
    BY <1>1
  <2>2. call' = [call EXCEPT ![p] =
           NextFile([c EXCEPT !.moved = IF final[File(p)] # None THEN @ \cup {File(p)} ELSE @],
                    "rename")]
    BY DEF Move
  <2> QED
    BY <1>3, <1>5, <2>1, <2>2
<1>7. c.op = "adopt" /\ c.at = "move"
  BY <1>c DEF Move, At, Shape
<1>8. /\ Same(d, e)
      /\ d.at = IF c.i < 3 THEN "move" ELSE "rename"
      /\ d.i = IF c.i < 3 THEN c.i + 1 ELSE 1
  BY <1>4, <1>5, <1>7, StepNames, NextFileType
<1>9. call'[p] = d /\ call' = [call EXCEPT ![p] = call'[p]]
  BY <1>c, <1>6
<1> QED
  BY <1>1, <1>4, <1>7, <1>8, <1>9 DEF Same

\* What a call looks like after it renamed a temporary file.
LEMMA RenameCall ==
  ASSUME TypeInv, NEW p \in Procs, Rename(p)
  PROVE  /\ call' = [call EXCEPT ![p] = call'[p]]
         /\ \/ /\ tmp[File(p)] # None /\ call[p].op = "adopt" /\ Same(call'[p], call[p])
               /\ call'[p].at = IF call[p].i < 3 THEN "rename" ELSE "cleanup"
               /\ call'[p].i = IF call[p].i < 3 THEN call[p].i + 1 ELSE 1
            \/ /\ tmp[File(p)] # None /\ call[p].op = "check" /\ call[p].cat # None
               /\ Same(call'[p], call[p]) /\ call'[p].at = "offer"
            \/ /\ tmp[File(p)] # None /\ call[p].op # "adopt" /\ call'[p] = Done(call[p])
            \/ /\ tmp[File(p)] = None /\ call[p].op = "adopt" /\ Same(call'[p], call[p])
               /\ call'[p].at = "removeAll" /\ call'[p].i = 1
            \/ /\ tmp[File(p)] = None /\ call[p].op # "adopt" /\ call'[p] = Failed(call[p])
<1> DEFINE c == call[p]
<1>c. /\ c \in CallType /\ c.i \in {1, 2, 3} /\ c.at = "rename"
      /\ \A x : call' = [call EXCEPT ![p] = x] =>
            call'[p] = x /\ call' = [call EXCEPT ![p] = call'[p]]
  BY ThisCall DEF Rename, At
<1>1. CASE tmp[File(p)] # None /\ AfterRename(c) = "done"
  <2>1. call' = [call EXCEPT ![p] = Done(c)] /\ c.op # "adopt"
    BY <1>1 DEF Rename, AfterRename
  <2> QED
    BY <1>c, <1>1, <2>1
<1>2. CASE tmp[File(p)] # None /\ AfterRename(c) # "done"
  <2>1. \/ c.op = "adopt" /\ AfterRename(c) = "cleanup"
        \/ c.op = "check" /\ c.cat # None /\ AfterRename(c) = "offer"
    BY <1>2 DEF AfterRename
  <2>2. PICK d : d = NextFile(c, AfterRename(c))
    OBVIOUS
  <2>3. call' = [call EXCEPT ![p] = d]
    BY <1>2, <2>2 DEF Rename
  <2>4. /\ Same(d, c)
        /\ c.op = "adopt" => /\ d.at = IF c.i < 3 THEN "rename" ELSE "cleanup"
                             /\ d.i = IF c.i < 3 THEN c.i + 1 ELSE 1
        /\ c.op # "adopt" => d.at = "offer"
    BY <1>c, <2>1, <2>2, StepNames, NextFileType
  <2>5. call'[p] = d /\ call' = [call EXCEPT ![p] = call'[p]]
    BY <1>c, <2>3
  <2> QED
    BY <1>2, <2>1, <2>4, <2>5
<1>3. CASE tmp[File(p)] = None /\ c.op = "adopt"
  <2>1. PICK d : d = [c EXCEPT !.at = "removeAll", !.i = 1]
    OBVIOUS
  <2>2. call' = [call EXCEPT ![p] = d]
    BY <1>3, <2>1 DEF Rename, Adopting
  <2>3. Same(d, c) /\ d.at = "removeAll" /\ d.i = 1
    BY <1>c, <2>1, StepNames DEF Same, CallType
  <2>4. call'[p] = d /\ call' = [call EXCEPT ![p] = call'[p]]
    BY <1>c, <2>2
  <2> QED
    BY <1>3, <2>3, <2>4
<1>4. CASE tmp[File(p)] = None /\ c.op # "adopt"
  <2>1. call' = [call EXCEPT ![p] = Failed(c)]
    BY <1>4 DEF Rename, Adopting
  <2> QED
    BY <1>c, <1>4, <2>1
<1> QED
  BY <1>1, <1>2, <1>3, <1>4

\* What an adoption looks like while it cleans up or goes back.
LEMMA LoopCall ==
  ASSUME TypeInv, NEW p \in Procs, Cleanup(p) \/ RemoveAll(p) \/ PutBack(p)
  PROVE  /\ call' = [call EXCEPT ![p] = call'[p]]
         /\ call[p].op = "adopt"
         /\ \/ /\ call[p].i < 3 /\ Same(call'[p], call[p])
               /\ call'[p].at = call[p].at /\ call'[p].i = call[p].i + 1
            \/ /\ call[p].i = 3 /\ Cleanup(p) /\ call'[p] = Done(call[p])
            \/ /\ call[p].i = 3 /\ PutBack(p) /\ call'[p] = Failed(call[p])
            \/ /\ call[p].i = 3 /\ RemoveAll(p) /\ Same(call'[p], call[p])
               /\ call'[p].at = "putBack" /\ call'[p].i = 1
<1> DEFINE c == call[p]
<1>c. /\ c \in CallType /\ c.i \in {1, 2, 3} /\ Shape(c) /\ c.at \in Steps
      /\ \A x : call' = [call EXCEPT ![p] = x] =>
            call'[p] = x /\ call' = [call EXCEPT ![p] = call'[p]]
  BY ThisCall
<1>1. c.op = "adopt"
  BY <1>c DEF Cleanup, RemoveAll, PutBack, At, Shape
<1>2. CASE c.i < 3
  <2>1. PICK d : d = NextFile(c, c.at)
    OBVIOUS
  <2>2. call' = [call EXCEPT ![p] = d]
    BY <1>2, <2>1 DEF Cleanup, RemoveAll, PutBack, Rest, Files
  <2>3. Same(d, c) /\ d.at = c.at /\ d.i = c.i + 1
    BY <1>c, <1>1, <1>2, <2>1, NextFileType
  <2>4. call'[p] = d /\ call' = [call EXCEPT ![p] = call'[p]]
    BY <1>c, <2>2
  <2> QED
    BY <1>1, <1>2, <2>3, <2>4
<1>3. CASE ~(c.i < 3)
  <2>1. PICK e : e = [c EXCEPT !.at = "putBack", !.i = 1]
    OBVIOUS
  <2>2. Same(e, c) /\ e.at = "putBack" /\ e.i = 1
    BY <1>c, <2>1, StepNames DEF Same, CallType
  <2>3. \/ Cleanup(p) /\ call' = [call EXCEPT ![p] = Done(c)]
        \/ RemoveAll(p) /\ call' = [call EXCEPT ![p] = e]
        \/ PutBack(p) /\ call' = [call EXCEPT ![p] = Failed(c)]
    BY <1>3, <2>1 DEF Cleanup, RemoveAll, PutBack, Rest, Files
  <2> QED
    BY <1>c, <1>1, <1>3, <2>2, <2>3
<1> QED
  BY <1>2, <1>3

\* What a call looks like when it is over.
LEMMA EndCall ==
  ASSUME TypeInv, NEW p \in Procs, Offer(p) \/ Return(p) \/ Die(p)
  PROVE  /\ call' = [call EXCEPT ![p] = call'[p]]
         /\ Offer(p) => call'[p] \in {Done(call[p]), Recorded(call[p])}
         /\ Return(p) \/ Die(p) => call'[p] = Idle
BY ThisCall DEF Offer, Return, Die

\* What a call looks like after a file operation failed.
LEMMA FaultCall ==
  ASSUME TypeInv, NEW p \in Procs, Fault(p)
  PROVE  /\ call' = [call EXCEPT ![p] = call'[p]]
         /\ \/ /\ call[p].at \in {"load", "open", "fill", "verify"} \/
                  (call[p].at = "rename" /\ call[p].op # "adopt")
               /\ call'[p] = Failed(call[p]) /\ UNCHANGED promise
            \/ /\ call[p].at \in {"move", "rename"} /\ call[p].op = "adopt"
               /\ call'[p] \in CallType /\ call'[p].at = "removeAll" /\ call'[p].i = 1
               /\ call'[p].aside = (call[p].at = "move")
               /\ call'[p].op = call[p].op /\ call'[p].cat = call[p].cat
               /\ call'[p].new = call[p].new /\ call'[p].moved = call[p].moved
               /\ call'[p].alone = call[p].alone /\ call'[p].before = call[p].before
               /\ promise' = IF call[p].at = "move" THEN NoPromise ELSE promise
<1> DEFINE c == call[p]
<1>c. /\ c \in CallType
      /\ \A x : call' = [call EXCEPT ![p] = x] =>
            call'[p] = x /\ call' = [call EXCEPT ![p] = call'[p]]
  BY ThisCall
<1>1. PICK b : b = (c.at = "move")
  OBVIOUS
<1>2. PICK d : d = [c EXCEPT !.at = "removeAll", !.i = 1, !.aside = b]
  OBVIOUS
<1>3. /\ d \in CallType /\ d.at = "removeAll" /\ d.i = 1 /\ d.aside = b /\ d.op = c.op
      /\ d.cat = c.cat /\ d.new = c.new /\ d.moved = c.moved /\ d.alone = c.alone
      /\ d.before = c.before
  <2>1. b \in Flags
    BY <1>1 DEF Flags
  <2> QED
    BY <1>c, <1>2, <2>1, StepNames DEF CallType
<1>4. CASE /\ c.at \in {"load", "open", "fill", "verify"} \/ (c.at = "rename" /\ ~Adopting(p))
           /\ call' = [call EXCEPT ![p] = Failed(c)]
           /\ UNCHANGED promise
  BY <1>c, <1>4 DEF Adopting
<1>5. CASE /\ c.at \in {"move", "rename"} /\ Adopting(p)
           /\ call' = [call EXCEPT ![p] = [c EXCEPT !.at = "removeAll", !.i = 1,
                                                    !.aside = (c.at = "move")]]
           /\ promise' = IF c.at = "move" THEN NoPromise ELSE promise
  <2>1. call' = [call EXCEPT ![p] = d]
    BY <1>1, <1>2, <1>5
  <2>2. call'[p] = d /\ call' = [call EXCEPT ![p] = call'[p]]
    BY <1>c, <2>1
  <2> QED
    BY <1>1, <1>3, <1>5, <2>2 DEF Adopting
<1> QED
  BY <1>4, <1>5 DEF Fault

\* Another step or file, if the call may get there.
LEMMA SameOK ==
  ASSUME NEW c, CallOK(c), NEW d, Same(d, c),
         d.at \in {"move", "removeAll", "putBack", "cleanup"} => c.op = "adopt",
         d.at \in {"open", "fill", "verify", "rename"} => c.op = "adopt" \/ d.i = 3,
         d.at = "offer" => c.op = "check",
         c.aside => c.op = "note" \/ d.at \in {"removeAll", "putBack"}
  PROVE  CallOK(d)
BY DEF Same, CallOK, Shape

\* The step of a call, whatever it is, leaves it a call.
LEMMA StepCall ==
  ASSUME TypeInv, NEW p \in Procs,
         \/ Load(p) \/ Open(p) \/ Fill(p) \/ Verify(p)
         \/ Move(p) \/ Rename(p) \/ Cleanup(p) \/ RemoveAll(p) \/ PutBack(p)
         \/ Offer(p) \/ Return(p) \/ Fault(p) \/ Die(p)
  PROVE  /\ Busy(p) /\ call' = [call EXCEPT ![p] = call'[p]] /\ CallOK(call'[p])
         /\ call'[p].at = "fill" => Open(p)
         /\ \/ call'[p] = Idle
            \/ /\ call'[p].at # "idle" /\ call'[p].alone = call[p].alone
               /\ call[p].aside => call'[p].aside
               /\ call'[p].aside => call[p].aside \/ Fault(p)
<1> DEFINE c == call[p]
           d == call'[p]
<1>c. /\ c \in CallType /\ Shape(c) /\ CallOK(c) /\ c.i \in {1, 2, 3}
  BY ThisCall
<1>e. /\ c.at \notin {"removeAll", "putBack"} => CallOK(Done(c))
      /\ CallOK(Recorded(c)) /\ CallOK(Failed(c))
      /\ \A x \in {Done(c), Recorded(c), Failed(c)} :
           x.at \in {"done", "load"} /\ x.alone = c.alone /\ x.aside = c.aside
  <2>1. c.op = "adopt" => Failed(c) = Recorded(c)
    BY DEF Failed
  <2> QED
    BY <1>c, <2>1, EndingTypes
<1>b. Busy(p)
  BY DEF Busy, At, Load, Open, Fill, Verify, Move, Rename, Cleanup, RemoveAll, PutBack,
         Offer, Return, Fault, Die
<1> USE DEF At
<1>1. CASE Load(p)
  <2>1. CASE d = Failed(c)
    BY <1>1, <1>b, <1>e, <2>1, LoadCall
  <2>2. CASE d # Failed(c)
    <3>1. CallOK(d)
      BY <1>1, <1>c, <2>2, LoadCall DEF Load, CallOK, Shape
    <3> QED
      BY <1>1, <1>b, <2>2, <3>1, LoadCall
  <2> QED
    BY <2>1, <2>2
<1>2. CASE Open(p)
  <2>1. Same(d, c) /\ d.at = "fill" /\ d.i = c.i /\ call' = [call EXCEPT ![p] = d]
    BY <1>2, OpenCall
  <2>2. CallOK(d)
    BY <1>2, <1>c, <2>1 DEF Open, Same, CallOK, Shape
  <2> QED
    BY <1>2, <1>b, <2>1, <2>2 DEF Same
<1>3. CASE Fill(p)
  <2>1. Same(d, c) /\ d.at = "verify" /\ d.i = c.i /\ call' = [call EXCEPT ![p] = d]
    BY <1>3, OpenCall
  <2>2. CallOK(d)
    BY <1>3, <1>c, <2>1 DEF Fill, Same, CallOK, Shape
  <2> QED
    BY <1>3, <1>b, <2>1, <2>2 DEF Same
<1>4. CASE Verify(p)
  <2>1. CASE tmp[File(p)] = Bytes(p)
    <3>1. /\ Same(d, c) /\ d.at \in {"open", "move", "rename"}
          /\ call' = [call EXCEPT ![p] = d]
      BY <1>4, <2>1, VerifyCall
    <3>2. d.at = "rename" /\ c.op # "adopt" => d.i = c.i
      BY <1>4, <2>1, VerifyCall
    <3>3. d.at = "move" => c.op = "adopt"
      BY <1>4, <2>1, VerifyCall
    <3>4. d.at = "open" => c.op = "adopt"
      BY <1>4, <2>1, VerifyCall
    <3>5. CallOK(d)
      BY <1>4, <1>c, <3>1, <3>2, <3>3, <3>4 DEF Verify, Same, CallOK, Shape
    <3> QED
      BY <1>4, <1>b, <3>1, <3>5 DEF Same
  <2>2. CASE tmp[File(p)] # Bytes(p)
    BY <1>4, <1>b, <1>e, <2>2, VerifyCall
  <2> QED
    BY <2>1, <2>2
<1>5. CASE Move(p)
  <2>1. CallOK(d)
    <3>1. d.aside = FALSE /\ c.op = "adopt" /\ c.cat \in Catalogs
      BY <1>5, <1>c, MoveCall DEF Move, Shape, CallType, Flags
    <3>2. d \in CallType /\ d.at # "offer" /\ d.op = c.op /\ d.cat = c.cat
      BY <1>5, MoveCall
    <3> QED
      BY <3>1, <3>2 DEF CallOK, Shape
  <2> QED
    BY <1>5, <1>b, <2>1, MoveCall
<1>6. CASE Rename(p)
  <2>1. CASE d \in {Done(c), Failed(c)}
    BY <1>6, <1>b, <1>e, <2>1, RenameCall DEF Rename
  <2>2. CASE d \notin {Done(c), Failed(c)}
    <3>1. /\ Same(d, c) /\ d.at \in {"rename", "cleanup", "offer", "removeAll"}
          /\ call' = [call EXCEPT ![p] = d]
      BY <1>6, <2>2, RenameCall
    <3>2. CallOK(d)
      <4>1. \/ c.op = "adopt"
            \/ c.op = "check" /\ d.at = "offer"
        BY <1>6, <2>2, RenameCall
      <4>2. ~c.aside
        BY <1>6, <1>c, <4>1 DEF Rename, Shape
      <4>3. /\ d.at # "offer" => c.op = "adopt"
            /\ d.at = "offer" => c.op = "check"
        BY <1>6, <2>2, RenameCall
      <4> QED
        BY <1>c, <3>1, <4>2, <4>3, SameOK
    <3> QED
      BY <1>6, <1>b, <3>1, <3>2 DEF Same
  <2> QED
    BY <2>1, <2>2
<1>7. CASE Cleanup(p) \/ RemoveAll(p) \/ PutBack(p)
  <2>1. c.op = "adopt" /\ c.at \in {"cleanup", "removeAll", "putBack"}
    BY <1>7, LoopCall DEF Cleanup, RemoveAll, PutBack
  <2>2. CASE (Cleanup(p) /\ d = Done(c)) \/ (PutBack(p) /\ d = Failed(c))
    BY <1>7, <1>b, <1>e, <2>2, LoopCall DEF Cleanup
  <2>3. CASE Same(d, c) /\ (d.at = c.at \/ (RemoveAll(p) /\ d.at = "putBack"))
    <3>1. CallOK(d)
      <4>1. c.aside => d.at \in {"removeAll", "putBack"}
        BY <1>c, <2>1, <2>3 DEF Shape
      <4> QED
        BY <1>c, <2>1, <2>3, <4>1, SameOK
    <3> QED
      <4>1. call' = [call EXCEPT ![p] = d]
        BY <1>7, LoopCall
      <4> QED
        BY <1>7, <1>b, <2>1, <2>3, <3>1, <4>1 DEF Same
  <2>4. \/ Same(d, c) /\ d.at = c.at
        \/ Cleanup(p) /\ d = Done(c)
        \/ PutBack(p) /\ d = Failed(c)
        \/ RemoveAll(p) /\ Same(d, c) /\ d.at = "putBack"
    BY <1>7, LoopCall
  <2> QED
    BY <2>2, <2>3, <2>4
<1>8. CASE Offer(p) \/ Return(p) \/ Die(p)
  <2>1. Idle.at = "idle" /\ CallOK(Idle) /\ call' = [call EXCEPT ![p] = d]
    BY <1>8, EmptyTypes, EndCall DEF Idle
  <2>2. CASE d = Idle
    BY <1>b, <2>1, <2>2
  <2>3. CASE d \in {Done(c), Recorded(c)} /\ c.at = "offer"
    BY <1>b, <1>e, <2>1, <2>3
  <2> QED
    BY <1>8, <2>2, <2>3, EndCall DEF Offer
<1>9. CASE Fault(p)
  <2>1. CASE d = Failed(c)
    BY <1>9, <1>b, <1>e, <2>1, FaultCall
  <2>2. CASE d # Failed(c)
    <3>1. ~c.aside
      BY <1>9, <1>c, <2>2, FaultCall DEF Shape
    <3>2. CallOK(d)
      BY <1>9, <1>c, <2>2, FaultCall DEF CallOK, Shape
    <3> QED
      BY <1>9, <1>b, <2>2, <3>1, <3>2, FaultCall
  <2> QED
    BY <2>1, <2>2
<1> QED
  BY <1>1, <1>2, <1>3, <1>4, <1>5, <1>6, <1>7, <1>8, <1>9

\* The step of a call, whatever it is.
LEMMA StepTypes ==
  ASSUME TypeInv, NEW p \in Procs,
         \/ Load(p) \/ Open(p) \/ Fill(p) \/ Verify(p)
         \/ Move(p) \/ Rename(p) \/ Cleanup(p) \/ RemoveAll(p) \/ PutBack(p)
         \/ Offer(p) \/ Return(p) \/ Fault(p) \/ Die(p)
  PROVE  TypeInv'
<1> DEFINE c == call[p]
           f == File(p)
<1>c. /\ c \in CallType /\ Shape(c)
      /\ f \in FileSet
      /\ c.at \in {"open", "fill", "verify", "rename"} => Bytes(p) \in Content(f)
  BY FileType
<1>t. /\ FilesOK(final) /\ FilesOK(tmp) /\ FilesOK(bak)
      /\ handle \in [Procs -> Handle] /\ call \in [Procs -> CallType]
      /\ approved \subseteq Catalogs /\ promise \in Promise /\ NoPromise \in Promise
  BY EmptyTypes DEF TypeInv
<1>k. call' \in [Procs -> CallType] /\ \A q \in Procs : Shape(call'[q])
  BY StepCall, OneCallType
<1>h. Closed(p) \in [Procs -> Handle]
  BY <1>t DEF Closed, Handle
<1>x. ASSUME NEW fs, FilesOK(fs), NEW x \in Content(f)
      PROVE  FilesOK([fs EXCEPT ![f] = x])
  BY <1>c, <1>x, OneFileType
<1>n. None \in Content(f) /\ Torn \in Content(f) /\ \A fs : FilesOK(fs) => fs[f] \in Content(f)
  BY <1>c DEF Content, FilesOK
<1>a. ASSUME NEW h \in [Procs -> Handle], NEW from, NEW to \in Handle
      PROVE  Along(h, {f}, from, to) \in [Procs -> Handle]
  BY <1>a, AlongType
<1>g. "tmp" \in Handle /\ "final" \in Handle /\ "bak" \in Handle /\ "none" \in Handle
  BY DEF Handle
<1> USE DEF files, ghost, At
<1>1. CASE Load(p) \/ Offer(p) \/ Return(p)
  BY <1>1, <1>t, <1>k DEF Load, Offer, Return, TypeInv
<1>2. CASE Open(p)
  <2>1. FilesOK(tmp') /\ FilesOK(bak')
    BY <1>2, <1>t, <1>x, <1>n DEF Open
  <2>2. handle' \in [Procs -> Handle]
    <3>1. PICK h : h = IF Adopting(p) THEN Along(handle, {f}, "bak", "none") ELSE handle
      OBVIOUS
    <3>2. h \in [Procs -> Handle] /\ handle' = [h EXCEPT ![p] = "tmp"]
      BY <1>2, <1>t, <1>a, <1>g, <3>1 DEF Open
    <3> QED
      BY <1>g, <3>2
  <2> QED
    BY <1>2, <1>t, <1>k, <2>1, <2>2 DEF Open, TypeInv
<1>3. CASE Fill(p)
  <2>1. ASSUME NEW fs, FilesOK(fs), NEW new \in Written(fs, p)
        PROVE  FilesOK(new)
    <3>1. Bytes(p) \in Content(f)
      BY <1>3, <1>c DEF Fill
    <3>2. PICK b \in {Bytes(p), Torn} : new = [fs EXCEPT ![f] = b]
      BY DEF Written
    <3> QED
      BY <1>x, <1>n, <2>1, <3>1, <3>2
  <2>2. FilesOK(tmp') /\ FilesOK(final') /\ FilesOK(bak')
    BY <1>3, <1>t, <2>1 DEF Fill
  <2> QED
    BY <1>3, <1>t, <1>h, <1>k, <2>2 DEF Fill, TypeInv
<1>4. CASE Verify(p)
  <2>1. FilesOK([tmp EXCEPT ![f] = None])
    BY <1>t, <1>x, <1>n
  <2>2. Along(handle, {f}, "tmp", "none") \in [Procs -> Handle]
    BY <1>t, <1>a, <1>g
  <2>3. FilesOK(tmp') /\ handle' \in [Procs -> Handle]
    BY <1>4, <1>t, <2>1, <2>2 DEF Verify
  <2> QED
    BY <1>4, <1>t, <1>k, <2>3 DEF Verify, TypeInv
<1>5. CASE Move(p)
  <2>1. final[f] \in Content(f)
    BY <1>t, <1>n
  <2>2. FilesOK([bak EXCEPT ![f] = final[f]]) /\ FilesOK([final EXCEPT ![f] = None])
    BY <1>t, <1>n, <1>x, <2>1
  <2>3. handle' \in [Procs -> Handle]
    BY SMTT(30), <1>5, <1>t, <1>a, <1>g DEF Move
  <2>4. FilesOK(final') /\ FilesOK(bak')
    BY <1>5, <1>t, <2>2 DEF Move
  <2> QED
    BY <1>5, <1>t, <1>k, <2>3, <2>4 DEF Move, TypeInv
<1>6. CASE Rename(p)
  <2>1. tmp[f] \in Content(f)
    BY <1>t, <1>n
  <2>2. FilesOK([final EXCEPT ![f] = tmp[f]]) /\ FilesOK([tmp EXCEPT ![f] = None])
    BY <1>t, <1>n, <1>x, <2>1
  <2>3. handle' \in [Procs -> Handle]
    <3>1. Along(handle, {f}, "tmp", "final") \in [Procs -> Handle]
      BY <1>t, <1>a, <1>g
    <3> QED
      BY <1>6, <1>t, <3>1 DEF Rename
  <2>4. FilesOK(final') /\ FilesOK(tmp')
    BY <1>6, <1>t, <2>2 DEF Rename
  <2>5. Promised(c) \in Promise
    <3>1. c.op \in {"skip", "adopt"} => c.cat \in Catalogs
      BY <1>c DEF Shape
    <3> QED
      BY <1>t, <3>1 DEF Promised, Promise
  <2>6. promise' \in Promise
    BY <1>6, <1>t, <2>5 DEF Rename
  <2> QED
    BY <1>6, <1>t, <1>k, <2>3, <2>4, <2>6 DEF Rename, TypeInv
<1>7. CASE Cleanup(p)
  BY <1>7, <1>t, <1>k, <1>x, <1>n, <1>a, <1>g DEF Cleanup, TypeInv
<1>8. CASE RemoveAll(p)
  BY <1>8, <1>t, <1>k, <1>x, <1>n, <1>a, <1>g DEF RemoveAll, TypeInv
<1>9. CASE PutBack(p)
  <2>1. FilesOK(final') /\ FilesOK(bak') /\ handle' \in [Procs -> Handle]
    BY <1>9, <1>t, <1>x, <1>n, <1>a, <1>g DEF PutBack
  <2> QED
    BY <1>9, <1>t, <1>k, <2>1 DEF PutBack, TypeInv
<1>10. CASE Fault(p) \/ Die(p)
  <2>1. promise' \in Promise
    BY <1>10, <1>t DEF Fault, Die
  <2> QED
    BY <1>10, <1>t, <1>h, <1>k, <2>1 DEF Fault, Die, TypeInv
<1> QED
  BY <1>1, <1>2, <1>3, <1>4, <1>5, <1>6, <1>7, <1>8, <1>9, <1>10

\* Every step keeps the types.
LEMMA NextTypes == TypeInv /\ [Next]_vars => TypeInv'
<1> SUFFICES ASSUME TypeInv, [Next]_vars PROVE TypeInv'
  OBVIOUS
<1>0. {"check", "note", "skip", "remind", "disable", "adopt"} \subseteq Ops
      /\ approved \subseteq Catalogs
  BY DEF Ops, TypeInv
<1>1. ASSUME NEW p \in Procs,
             Check(p) \/ Skip(p) \/ Remind(p) \/ Disable(p)
      PROVE  TypeInv'
  <2>1. approved' \subseteq Catalogs
    BY <1>0, <1>1 DEF Check, Skip, Remind, Disable
  <2>2. CASE Check(p)
    BY <1>0, <2>1, <2>2, BeginTypes DEF Check
  <2>3. CASE Skip(p)
    BY <1>0, <2>1, <2>3, BeginTypes DEF Skip
  <2>4. CASE Remind(p)
    BY <1>0, <2>1, <2>4, BeginTypes DEF Remind
  <2>5. CASE Disable(p)
    BY <1>0, <2>1, <2>5, BeginTypes DEF Disable
  <2> QED
    BY <1>1, <2>2, <2>3, <2>4, <2>5
<1>2. ASSUME NEW p \in Procs, Approve(p)
      PROVE  TypeInv'
  <2>1. PICK user \in Catalogs, hash \in Catalogs \cup {None}, bytes \in Catalogs \cup {None} :
           IF Reviewed(user, hash, bytes)
           THEN Begin(p, "adopt", hash) /\ approved' = approved \cup {user}
           ELSE Begin(p, "note", None) /\ UNCHANGED approved
    BY <1>2 DEF Approve
  <2> QED
    BY <1>0, <2>1, BeginTypes DEF Reviewed
<1>3. CASE UNCHANGED vars
  BY <1>3 DEF vars, files, ghost, TypeInv, FilesOK
<1>4. CASE Next
  BY <1>4, <1>1, <1>2, StepTypes DEF Next
<1> QED
  BY <1>3, <1>4

\* The store starts well-formed.
LEMMA InitTypes == Init => TypeInv
<1> SUFFICES ASSUME Init PROVE TypeInv
  OBVIOUS
<1>1. FilesOK(NoFiles)
  BY DEF FilesOK, NoFiles, Content
<1>2. call \in [Procs -> CallType] /\ \A p \in Procs : Shape(call[p])
  BY EmptyTypes DEF Init, CallOK
<1> QED
  BY <1>1, <1>2, EmptyTypes DEF Init, TypeInv, Handle

\* The files, the open handles, the calls and the promises keep their types
\* (TypeOK).
THEOREM TypeCorrect == Spec => []TypeOK
<1>1. TypeInv => TypeOK
  <2> SUFFICES ASSUME TypeInv PROVE TypeOK
    OBVIOUS
  <2>1. ASSUME NEW p \in Procs
        PROVE  /\ call[p].at \in Steps /\ call[p].new \in States
               /\ call[p].moved # {} => Adopting(p)
               /\ At(p, "move") \/ At(p, "putBack") => Adopting(p)
    <3>1. call[p] \in CallType /\ Shape(call[p])
      BY DEF TypeInv
    <3> QED
      BY <3>1 DEF CallType, Shape, Adopting, At
  <2>2. /\ \A f \in {"json", "hash"} :
              {final[f], tmp[f], bak[f]} \subseteq Catalogs \cup {None, Torn}
        /\ {final["state"], tmp["state"], bak["state"]} \subseteq States \cup {None, Torn}
    BY DEF TypeInv, FilesOK, Content, FileSet
  <2> QED
    BY <2>1, <2>2 DEF TypeOK, TypeInv, Handle, Promise
<1> QED
  BY InitTypes, NextTypes, <1>1, PTL DEF Spec

-----------------------------------------------------------------------------
(* A call that nobody overlaps.                                            *)

Midway == {"move", "rename", "removeAll", "putBack"}

\* The files that the loop of call c has handled.
Past(c) == {f \in FileSet : (f = "json" /\ c.i > 1) \/ (f = "hash" /\ c.i > 2)}

\* What file f held when the adoption c began to move files; what it holds,
\* for any other call.
Was(c, fi, ba, f) ==
    IF c.op # "adopt" \/ c.at \notin Midway \/ (c.at = "putBack" /\ f \in Past(c)) THEN fi[f]
    ELSE IF f \in c.moved THEN ba[f]
    ELSE IF c.at = "move" THEN fi[f] ELSE None

ActiveIn(j, h)  == IF j \in Catalogs /\ h = j THEN j ELSE None
DecisionsIn(s)  == IF s = None THEN Default ELSE s
WasDecided(c, fi, ba) == DecisionsIn(Was(c, fi, ba, "state"))
ToWrite(c, f)   == IF f = "state" THEN c.new ELSE c.cat

\* The call knows what the store held, and what it will write.
Remembers(c, fi, ba) ==
    /\ c.op \in {"check", "note"} \/ (c.op = "adopt" /\ c.at \notin {"cleanup", "done"}) =>
         c.before = <<ActiveIn(Was(c, fi, ba, "json"), Was(c, fi, ba, "hash")),
                      WasDecided(c, fi, ba)>>
    /\ c.at \in {"open", "fill", "verify", "move", "rename"} =>
         /\ WasDecided(c, fi, ba) \in States
         /\ c.new = Changed(WasDecided(c, fi, ba), c.op, c.cat)

\* What is in the temporary files.
Prepared(c, tm) ==
    /\ c.op = "adopt" /\ c.at \in {"open", "fill", "verify"} =>
         \A f \in Past(c) : tm[f] = ToWrite(c, f)
    /\ c.at = "move"   => \A f \in FileSet : tm[f] = ToWrite(c, f)
    /\ c.at = "rename" /\ c.op = "adopt" =>
         \A f \in FileSet \ Past(c) : tm[f] = ToWrite(c, f)
    /\ c.at = "rename" /\ c.op # "adopt" => tm["state"] = c.new

\* Where the files of an adoption are.
Placed(c, fi, ba) == c.op = "adopt" =>
    /\ c.at \in {"load", "open", "fill", "verify"} => c.moved = {}
    /\ c.at = "move" => c.moved \subseteq Past(c) /\ \A f \in Past(c) : fi[f] = None
    /\ c.at \in {"move", "rename", "removeAll"} => \A f \in c.moved : ba[f] # None
    /\ c.at = "rename" => \A f \in FileSet : fi[f] = IF f \in Past(c) THEN c.cat ELSE None
    /\ c.at = "removeAll" => fi["state"] = None /\ \A f \in Past(c) : fi[f] = None
    /\ c.at = "putBack" => /\ \A f \in FileSet \ Past(c) : fi[f] = None
                           /\ \A f \in c.moved \ Past(c) : ba[f] # None
    /\ c.at \in {"cleanup", "done"} =>
         /\ fi["json"] = c.cat /\ fi["hash"] = c.cat
         /\ fi["state"] = Changed(c.before[2], "adopt", c.cat)
         /\ fi["state"] \in States

\* A check that will offer its hash has a reason to.
Offering(c, fi) ==
    c.op = "check" /\ c.cat # None /\ c.at \in {"open", "fill", "verify", "rename", "offer"} =>
        ~Quiet(DecisionsIn(fi["state"]), c.cat)

\* Decisions d keep promise pr.
Keeps(d, pr) ==
    /\ pr.disabled => d.disabled
    /\ pr.installed # None => d.installed = pr.installed
    /\ pr.skipped # None => Listed(d, pr.skipped)

Good(c, fi, tm, ba, pr) ==
    /\ Remembers(c, fi, ba) /\ Prepared(c, tm) /\ Placed(c, fi, ba) /\ Offering(c, fi)
    /\ c.at = "offer" => c.cat # None
    /\ Keeps(WasDecided(c, fi, ba), pr)

Solo ==
    /\ \A p \in Procs : Busy(p) \/ call[p] = Idle
    /\ \A p, q \in Procs : Busy(p) /\ Busy(q) /\ call[p].alone => p = q

Opened ==
    \A p \in Procs : /\ handle[p] # "none" => At(p, "fill")
                     /\ At(p, "fill") /\ call[p].alone => handle[p] = "tmp"

Acting(p) == Busy(p) \/ \A q \in Procs : ~Busy(q)

Careful ==
    \A p \in Procs :
        /\ Busy(p) /\ (~call[p].alone \/ call[p].aside) => promise = NoPromise
        /\ Acting(p) /\ call[p].alone /\ ~call[p].aside => Good(call[p], final, tmp, bak, promise)

LoneInv == Solo /\ Opened /\ Careful

\* An idle call has nothing to keep but the promise.
LEMMA IdleGood ==
  ASSUME NEW fi, NEW tm, NEW ba, NEW pr
  PROVE  /\ Keeps(DecisionsIn(fi["state"]), pr) => Good(Idle, fi, tm, ba, pr)
         /\ Good(Idle, fi, tm, ba, NoPromise)
         /\ WasDecided(Idle, fi, ba) = DecisionsIn(fi["state"])
<1>1. Idle.op = "none" /\ Idle.at = "idle"
  BY DEF Idle
<1>2. Was(Idle, fi, ba, "state") = fi["state"]
  BY <1>1 DEF Was
<1>3. Remembers(Idle, fi, ba) /\ Prepared(Idle, tm) /\ Placed(Idle, fi, ba) /\ Offering(Idle, fi)
  BY <1>1 DEF Remembers, Prepared, Placed, Offering
<1>4. Keeps(DecisionsIn(fi["state"]), NoPromise)
  BY DEF Keeps, NoPromise
<1> QED
  BY <1>1, <1>2, <1>3, <1>4 DEF Good, WasDecided

\* One call takes a step: it is enough that this call is as it should be, if
\* nobody overlaps it, and that there is no promise otherwise.
LEMMA Frame ==
  ASSUME TypeInv, LoneInv, NEW p \in Procs, Busy(p), NEW d, CallOK(d),
         call' = [call EXCEPT ![p] = d], Opened',
         d.at = "idle" => d = Idle, d.alone = call[p].alone \/ d = Idle,
         call[p].aside => d.aside \/ d = Idle,
         call[p].alone /\ ~call[p].aside /\ ~d.aside => Good(d, final', tmp', bak', promise'),
         ~call[p].alone \/ call[p].aside \/ d.aside => promise' = NoPromise
  PROVE  LoneInv'
<1>1. /\ call'[p] = d /\ \A q \in Procs \ {p} : call'[q] = call[q]
      /\ Idle.at = "idle" /\ Idle.alone = TRUE /\ Idle.aside = FALSE
  BY OneCallType DEF Idle
<1>2. \A q \in Procs \ {p} : Busy(q) => ~call[p].alone /\ ~call[q].alone
  BY DEF LoneInv, Solo
<1>3. Busy(p)' <=> d # Idle
  BY <1>1 DEF Busy
<1>4. \A q \in Procs \ {p} : Busy(q)' <=> Busy(q)
  BY <1>1 DEF Busy
<1>5. Solo'
  <2>1. \A q \in Procs : Busy(q)' \/ call'[q] = Idle
    BY <1>1, <1>3, <1>4 DEF LoneInv, Solo
  <2>2. ASSUME NEW q \in Procs, NEW r \in Procs, Busy(q)', Busy(r)', call'[q].alone
        PROVE  q = r
    BY <1>1, <1>2, <1>3, <1>4, <2>2 DEF LoneInv, Solo
  <2> QED
    BY <2>1, <2>2 DEF Solo
<1>6. ASSUME NEW q \in Procs, Busy(q)', ~call'[q].alone \/ call'[q].aside
      PROVE  promise' = NoPromise
  BY <1>1, <1>2, <1>3, <1>4, <1>6
<1>7. ASSUME NEW q \in Procs, Acting(q)', call'[q].alone, ~call'[q].aside
      PROVE  Good(call'[q], final', tmp', bak', promise')
  <2>1. CASE d # Idle
    <3>1. Busy(p)' /\ Busy(q)'
      BY <1>3, <1>7, <2>1 DEF Acting
    <3>2. q = p
      BY <1>1, <1>2, <1>4, <1>7, <3>1
    <3> QED
      BY <1>1, <1>7, <2>1, <3>2
  <2>2. CASE d = Idle /\ q # p
    <3>1. CASE Busy(q)
      BY <1>1, <1>2, <1>7, <2>2, <3>1
    <3>2. CASE ~Busy(q)
      <4>1. call'[q] = Idle
        BY <1>1, <2>2, <3>2 DEF LoneInv, Solo
      <4> QED
        BY <1>1, <2>2, <4>1, IdleGood
    <3> QED
      BY <3>1, <3>2
  <2>3. CASE d = Idle /\ q = p
    BY <1>1, <2>3, IdleGood
  <2> QED
    BY <2>1, <2>2, <2>3
<1>8. Careful'
  BY <1>6, <1>7 DEF Careful
<1> QED
  BY <1>5, <1>8 DEF LoneInv

\* Who may hold an open file after a step of a call.
LEMMA OpenedFrame ==
  ASSUME TypeInv, LoneInv, NEW p \in Procs, Busy(p), NEW d, CallOK(d),
         call' = [call EXCEPT ![p] = d],
         \A q \in Procs \ {p} : handle[q] = "none" => handle'[q] = "none",
         handle'[p] # "none" => d.at = "fill",
         d.at = "fill" => handle'[p] = "tmp"
  PROVE  Opened'
<1>1. call'[p] = d /\ \A q \in Procs \ {p} : call'[q] = call[q]
  BY OneCallType
<1>2. \A q \in Procs \ {p} : Busy(q) => ~call[q].alone
  BY DEF LoneInv, Solo
<1>3. ASSUME NEW q \in Procs
      PROVE  /\ handle'[q] # "none" => call'[q].at = "fill"
             /\ call'[q].at = "fill" /\ call'[q].alone => handle'[q] = "tmp"
  BY <1>1, <1>2 DEF LoneInv, Opened, At, Busy
<1> QED
  BY <1>3 DEF Opened, At

\* Every step of a call leaves the open files as they may be.
LEMMA OpenedStep ==
  ASSUME TypeInv, TypeInv', LoneInv, NEW p \in Procs,
         \/ Load(p) \/ Open(p) \/ Fill(p) \/ Verify(p)
         \/ Move(p) \/ Rename(p) \/ Cleanup(p) \/ RemoveAll(p) \/ PutBack(p)
         \/ Offer(p) \/ Return(p) \/ Fault(p) \/ Die(p)
  PROVE  Opened'
<1> DEFINE c == call[p]
           d == call'[p]
           f == File(p)
<1>2. handle \in [Procs -> Handle] /\ handle' \in [Procs -> Handle]
  BY DEF TypeInv
<1>3. c.at # "fill" => handle[p] = "none"
  BY DEF LoneInv, Opened, At
<1>4. ASSUME NEW h \in [Procs -> Handle], NEW fs, NEW from, from # "none", NEW to \in Handle,
             NEW q \in Procs, h[q] = "none"
      PROVE  Along(h, fs, from, to)[q] = "none"
  BY <1>4, AlongType
<1>g. "tmp" \in Handle /\ "final" \in Handle /\ "bak" \in Handle /\ "none" \in Handle
  BY DEF Handle
<1>5. ASSUME NEW q \in Procs, handle[q] = "none" \/ (q = p /\ c.at = "fill"),
             ~Open(p) \/ q # p
      PROVE  handle'[q] = "none"
  <2>1. CASE Load(p) \/ Offer(p) \/ Return(p)
    BY <1>5, <2>1 DEF Load, Offer, Return, At, files
  <2>2. CASE Open(p)
    <3>1. q # p /\ handle[q] = "none"
      BY <1>5, <2>2
    <3>2. \/ handle'[q] = handle[q]
          \/ handle'[q] = Along(handle, {f}, "bak", "none")[q]
      BY <1>2, <2>2, <3>1 DEF Open, Along
    <3> QED
      BY <1>2, <1>4, <1>g, <3>1, <3>2
  <2>3. CASE Fill(p) \/ Fault(p) \/ Die(p)
    BY <1>2, <1>5, <2>3 DEF Fill, Fault, Die, Closed
  <2>4. CASE Verify(p)
    <3>1. handle[q] = "none"
      BY <1>5, <2>4 DEF Verify, At
    <3>2. handle' = handle \/ handle' = Along(handle, {f}, "tmp", "none")
      BY <2>4 DEF Verify
    <3> QED
      BY <1>2, <1>4, <1>g, <3>1, <3>2
  <2>5. CASE Move(p)
    <3>1. handle[q] = "none"
      BY <1>5, <2>5 DEF Move, At
    <3>2. handle' = handle \/ handle' = Along(handle, {f}, "final", "bak")
      BY <2>5 DEF Move
    <3> QED
      BY <1>2, <1>4, <1>g, <3>1, <3>2
  <2>6. CASE Rename(p)
    <3>1. handle[q] = "none"
      BY <1>5, <2>6 DEF Rename, At
    <3>2. handle' = handle \/ handle' = Along(handle, {f}, "tmp", "final")
      BY <2>6 DEF Rename
    <3> QED
      BY <1>2, <1>4, <1>g, <3>1, <3>2
  <2>7. CASE Cleanup(p)
    <3>1. handle[q] = "none"
      BY <1>5, <2>7 DEF Cleanup, At
    <3>2. handle' = Along(handle, {f}, "bak", "none")
      BY <2>7 DEF Cleanup
    <3> QED
      BY <1>2, <1>4, <1>g, <3>1, <3>2
  <2>8. CASE RemoveAll(p)
    <3>1. handle[q] = "none"
      BY <1>5, <2>8 DEF RemoveAll, At
    <3>2. PICK h : h = Along(handle, {f}, "final", "none")
      OBVIOUS
    <3>3. handle' = Along(h, {f}, "tmp", "none")
      BY <2>8, <3>2 DEF RemoveAll
    <3>4. h \in [Procs -> Handle] /\ h[q] = "none"
      BY <1>2, <1>4, <1>g, <3>1, <3>2, AlongType
    <3> QED
      BY <1>4, <1>g, <3>3, <3>4
  <2>9. CASE PutBack(p)
    <3>1. handle[q] = "none"
      BY <1>5, <2>9 DEF PutBack, At
    <3>2. PICK to \in {"final", "none"} : handle' = Along(handle, {f}, "bak", to)
      BY <2>9 DEF PutBack
    <3> QED
      BY <1>2, <1>4, <1>g, <3>1, <3>2
  <2> QED
    BY <2>1, <2>2, <2>3, <2>4, <2>5, <2>6, <2>7, <2>8, <2>9
<1>6. /\ Busy(p) /\ CallOK(d) /\ call' = [call EXCEPT ![p] = d]
      /\ d.at = "fill" => Open(p)
  BY StepCall
<1>7. Open(p) => handle'[p] = "tmp"
  <2>1. ASSUME Open(p) PROVE handle'[p] = "tmp"
    <3>1. PICK h : h = IF Adopting(p) THEN Along(handle, {f}, "bak", "none") ELSE handle
      OBVIOUS
    <3>2. h \in [Procs -> Handle]
      BY <1>2, <1>g, <3>1, AlongType
    <3>3. handle' = [h EXCEPT ![p] = "tmp"]
      BY <2>1, <3>1 DEF Open
    <3> QED
      BY <3>2, <3>3
  <2> QED
    BY <2>1
<1>8. \A q \in Procs \ {p} : handle[q] = "none" => handle'[q] = "none"
  BY <1>5
<1>9. handle'[p] # "none" => d.at = "fill"
  <2>1. CASE Open(p)
    BY <2>1, OpenCall
  <2>2. CASE ~Open(p)
    BY <1>3, <1>5, <2>2
  <2> QED
    BY <2>1, <2>2
<1> QED
  BY <1>6, <1>7, <1>8, <1>9, OpenedFrame

\* The files that a loop has handled, and the one it is at.
LEMMA PastFact ==
  ASSUME NEW c, c.i \in {1, 2, 3}
  PROVE  /\ c.i = 1 => Past(c) = {}
         /\ c.i = 2 => Past(c) = {"json"}
         /\ c.i = 3 => Past(c) = {"json", "hash"}
         /\ Past(c) \subseteq FileSet /\ "state" \notin Past(c)
BY DEF Past, FileSet

\* A call that ends, or that records its failure, with the files as they were.
LEMMA EndGood ==
  ASSUME NEW c, CallOK(c), NEW fi, NEW ba, NEW fi2, NEW tm2, NEW ba2, NEW pr,
         Remembers(c, fi, ba), Keeps(WasDecided(c, fi, ba), pr),
         c.at \notin {"cleanup", "done"},
         \A f \in FileSet : fi2[f] = Was(c, fi, ba, f),
         NEW d,
         \/ d = Failed(c)
         \/ c.op = "check" /\ d \in {Done(c), Recorded(c)}
  PROVE  Good(d, fi2, tm2, ba2, pr)
<1>1. \/ /\ d.op = "note" /\ d.at = "load" /\ d.before = c.before
         /\ c.op \in {"adopt", "check"}
      \/ /\ d.op = c.op /\ d.at = "done" /\ d.before = c.before /\ c.op # "adopt"
  <2>1. c.op = "adopt" => Failed(c) = Recorded(c)
    BY DEF Failed
  <2> QED
    BY <2>1, EndingTypes
<1>2. \A f \in FileSet : Was(d, fi2, ba2, f) = Was(c, fi, ba, f)
  BY <1>1 DEF Was, Midway
<1>3. WasDecided(d, fi2, ba2) = WasDecided(c, fi, ba)
  BY <1>2 DEF WasDecided, FileSet
<1>4. Remembers(d, fi2, ba2)
  <2>1. d.op \in {"check", "note"} =>
          d.before = <<ActiveIn(Was(d, fi2, ba2, "json"), Was(d, fi2, ba2, "hash")),
                       WasDecided(d, fi2, ba2)>>
    BY <1>1, <1>2, <1>3 DEF Remembers, FileSet
  <2> QED
    BY <1>1, <2>1 DEF Remembers
<1>5. Prepared(d, tm2) /\ Placed(d, fi2, ba2) /\ Offering(d, fi2)
  BY <1>1 DEF Prepared, Placed, Offering
<1> QED
  BY <1>1, <1>3, <1>4, <1>5 DEF Good

\* A step before any file is moved: the store and what the call knows of it stay.
LEMMA EarlyGood ==
  ASSUME NEW c, NEW d, Same(d, c), NEW fi, NEW ba, NEW tm, NEW tm2, NEW ba2, NEW pr,
         Good(c, fi, tm, ba, pr),
         c.at \in {"open", "fill", "verify"},
         d.at \in {"open", "fill", "verify", "move", "rename"},
         d.at = "rename" => c.op # "adopt",
         Prepared(d, tm2),
         d.at = "move" => d.i = 1
  PROVE  Good(d, fi, tm2, ba2, pr)
<1>1. /\ d.op = c.op /\ d.cat = c.cat /\ d.new = c.new /\ d.moved = c.moved
      /\ d.before = c.before
  BY DEF Same
<1>2. c.op = "adopt" => c.moved = {}
  BY DEF Good, Placed
<1>3. \A f : Was(c, fi, ba, f) = fi[f] /\ Was(d, fi, ba2, f) = fi[f]
  BY <1>1, <1>2 DEF Was, Midway
<1>4. WasDecided(c, fi, ba) = WasDecided(d, fi, ba2)
  BY <1>3 DEF WasDecided
<1>5. Remembers(d, fi, ba2)
  BY <1>1, <1>3, <1>4 DEF Good, Remembers
<1>6. Placed(d, fi, ba2)
  <2>1. d.at = "move" => Past(d) = {}
    BY PastFact
  <2> QED
    BY <1>1, <1>2, <2>1 DEF Placed
<1>7. Offering(d, fi)
  BY <1>1 DEF Good, Offering
<1> QED
  BY <1>4, <1>5, <1>6, <1>7 DEF Good

\* What a lone call knows, step by step.
LEMMA LoadGood ==
  ASSUME TypeInv, NEW p \in Procs, Load(p), Good(call[p], final, tmp, bak, promise)
  PROVE  Good(call'[p], final', tmp', bak', promise')
<1> DEFINE c == call[p]
           d == call'[p]
<1>1. /\ c.at = "load" /\ final' = final /\ tmp' = tmp /\ bak' = bak /\ promise' = promise
  BY DEF Load, At, files, ghost
<1>2. \A f : Was(c, final, bak, f) = final[f]
  BY <1>1 DEF Was, Midway
<1>3. WasDecided(c, final, bak) = Decisions
  BY <1>2 DEF WasDecided, DecisionsIn, Decisions
<1>4. CASE d = Failed(c)
  BY <1>1, <1>2, <1>4, EndGood, ThisCall DEF Good
<1>5. CASE d # Failed(c)
  <2>1. /\ Decisions \in States
        /\ d.at = "open" /\ d.i = IF c.op = "adopt" THEN 1 ELSE 3
        /\ d.new = Changed(Decisions, c.op, c.cat)
        /\ \/ d.cat = c.cat /\ (c.op = "check" => ~Quiet(Decisions, c.cat))
           \/ d.cat = None /\ c.op = "check"
        /\ d.op = c.op /\ d.moved = c.moved /\ d.before = c.before
    BY <1>5, LoadCall
  <2>2. \A f : Was(d, final', bak', f) = final[f]
    BY <1>1, <2>1 DEF Was, Midway
  <2>3. WasDecided(d, final', bak') = Decisions
    BY <2>2 DEF WasDecided, DecisionsIn, Decisions
  <2>4. d.new = Changed(Decisions, d.op, d.cat)
    <3>1. c.op = "check" => Changed(Decisions, c.op, c.cat) = Decisions
                            /\ Changed(Decisions, c.op, None) = Decisions
      BY DEF Changed
    <3> QED
      BY <2>1, <3>1
  <2>5. Remembers(d, final', bak')
    BY <1>1, <1>2, <1>3, <2>1, <2>2, <2>3, <2>4 DEF Good, Remembers
  <2>6. d.op = "adopt" => Past(d) = {}
    BY <2>1, PastFact
  <2>7. Prepared(d, tmp') /\ Placed(d, final', bak')
    BY <1>1, <2>1, <2>6 DEF Good, Prepared, Placed
  <2>8. Offering(d, final')
    <3>1. DecisionsIn(final'["state"]) = Decisions
      BY <1>1 DEF DecisionsIn, Decisions
    <3> QED
      BY <2>1, <3>1 DEF Offering
  <2>9. Keeps(Decisions, promise')
    BY <1>1, <1>3 DEF Good
  <2> QED
    BY <2>1, <2>3, <2>5, <2>7, <2>8, <2>9 DEF Good
<1> QED
  BY <1>4, <1>5

\* Opening and filling a temporary file keeps the call as it should be.
LEMMA OpenGood ==
  ASSUME TypeInv, NEW p \in Procs, Open(p) \/ Fill(p), Good(call[p], final, tmp, bak, promise),
         Fill(p) => handle[p] = "tmp"
  PROVE  Good(call'[p], final', tmp', bak', promise')
<1> DEFINE c == call[p]
           d == call'[p]
           f == File(p)
<1>1. /\ c.at \in {"open", "fill"} /\ final' = final /\ promise' = promise
  BY DEF Open, Fill, At, files, ghost
<1>2. Same(d, c) /\ d.i = c.i /\ d.at \in {"fill", "verify"}
  BY OpenCall
<1>3. FilesOK(tmp) /\ f \in FileSet /\ c.i \in {1, 2, 3}
      /\ f = CASE c.i = 1 -> "json" [] c.i = 2 -> "hash" [] c.i = 3 -> "state"
  BY ThisCall, FileType DEF TypeInv
<1>4. \A g \in FileSet \ {f} : tmp'[g] = tmp[g]
  <2>1. \E x : tmp' = [tmp EXCEPT ![f] = x]
    BY DEF Open, Fill, Written
  <2> QED
    BY <1>3, <2>1 DEF FilesOK
<1>5. c.op = "adopt" => f \notin Past(c) /\ Past(d) = Past(c) /\ Past(c) \subseteq FileSet
  <2>1. Past(d) = Past(c)
    BY <1>2 DEF Past
  <2>2. f \notin Past(c)
    BY <1>3 DEF Past
  <2> QED
    BY <2>1, <2>2 DEF Past
<1>6. Prepared(d, tmp')
  BY <1>1, <1>2, <1>4, <1>5 DEF Good, Prepared, Same, ToWrite
<1> QED
  BY <1>1, <1>2, <1>6, EarlyGood

\* So does reading it back.
LEMMA VerifyGood ==
  ASSUME TypeInv, NEW p \in Procs, Verify(p), Good(call[p], final, tmp, bak, promise)
  PROVE  Good(call'[p], final', tmp', bak', promise')
<1> DEFINE c == call[p]
           d == call'[p]
           f == File(p)
<1>1. /\ c.at = "verify" /\ final' = final /\ bak' = bak /\ promise' = promise
  BY DEF Verify, At, files, ghost
<1>c. CallOK(c) /\ c.i \in {1, 2, 3} /\ Shape(c)
  BY ThisCall
<1>2. CASE tmp[f] # Bytes(p)
  <2>1. d = Failed(c)
    BY <1>2, VerifyCall
  <2>2. \A g : Was(c, final, bak, g) = final[g]
    BY <1>1 DEF Was, Midway
  <2> QED
    BY <1>1, <1>c, <2>1, <2>2, EndGood DEF Good
<1>3. CASE tmp[f] = Bytes(p)
  <2>1. tmp' = tmp
    BY <1>3 DEF Verify
  <2>2. Same(d, c)
    BY <1>3, VerifyCall
  <2>3. /\ f = CASE c.i = 1 -> "json" [] c.i = 2 -> "hash" [] c.i = 3 -> "state"
        /\ tmp[f] = ToWrite(c, f)
    BY <1>3, FileType DEF Bytes, ToWrite
  <2>4. CASE c.op = "adopt" /\ c.i < 3
    <3>1. d.at = "open" /\ d.i = c.i + 1
      BY <1>3, <2>4, VerifyCall
    <3>2. Past(d) = Past(c) \cup {f}
      <4>1. d.i \in {1, 2, 3}
        BY <1>c, <2>4, <3>1
      <4>2. CASE c.i = 1
        <5>1. d.i = 2 /\ f = "json"
          BY <2>3, <3>1, <4>2
        <5> QED
          BY <1>c, <4>1, <4>2, <5>1, PastFact
      <4>3. CASE c.i = 2
        <5>1. d.i = 3 /\ f = "hash"
          BY <2>3, <3>1, <4>3
        <5> QED
          BY <1>c, <4>1, <4>3, <5>1, PastFact
      <4> QED
        BY <1>c, <2>4, <4>2, <4>3
    <3>3. Prepared(d, tmp')
      BY <1>1, <2>1, <2>2, <2>3, <2>4, <3>1, <3>2 DEF Good, Prepared, Same, ToWrite
    <3> QED
      BY <1>1, <2>2, <3>1, <3>3, EarlyGood
  <2>5. CASE c.op = "adopt" /\ c.i = 3
    <3>1. d.at = "move" /\ d.i = 1
      BY <1>3, <2>5, VerifyCall
    <3>2. Past(c) = {"json", "hash"} /\ f = "state"
      BY <1>c, <2>3, <2>5, PastFact
    <3>3. Prepared(d, tmp')
      BY <1>1, <2>1, <2>2, <2>3, <2>5, <3>1, <3>2 DEF Good, Prepared, Same, ToWrite, FileSet
    <3> QED
      BY <1>1, <2>2, <3>1, <3>3, EarlyGood
  <2>6. CASE c.op # "adopt"
    <3>1. d.at = "rename" /\ c.i = 3
      BY <1>1, <1>3, <1>c, <2>6, VerifyCall DEF Shape
    <3>2. Prepared(d, tmp')
      BY <2>1, <2>2, <2>3, <2>6, <3>1 DEF Prepared, Same, ToWrite
    <3> QED
      BY <1>1, <2>2, <2>6, <3>1, <3>2, EarlyGood
  <2> QED
    BY <1>c, <2>4, <2>5, <2>6
<1> QED
  BY <1>2, <1>3

\* The file that a loop is at.
LEMMA ThisFile ==
  ASSUME TypeInv, NEW p \in Procs
  PROVE  /\ call[p].i \in {1, 2, 3} /\ File(p) \in FileSet /\ File(p) \notin Past(call[p])
         /\ call[p].i = 1 => File(p) = "json" /\ Past(call[p]) = {}
         /\ call[p].i = 2 => File(p) = "hash" /\ Past(call[p]) = {"json"}
         /\ call[p].i = 3 => File(p) = "state" /\ Past(call[p]) = {"json", "hash"}
<1>1. /\ call[p].i \in {1, 2, 3} /\ File(p) \in FileSet
      /\ File(p) = CASE call[p].i = 1 -> "json" [] call[p].i = 2 -> "hash"
                     [] call[p].i = 3 -> "state"
  BY ThisCall, FileType
<1>2. /\ call[p].i = 1 => Past(call[p]) = {}
      /\ call[p].i = 2 => Past(call[p]) = {"json"}
      /\ call[p].i = 3 => Past(call[p]) = {"json", "hash"}
  BY <1>1, PastFact
<1>3. File(p) \notin Past(call[p])
  BY <1>1, <1>2
<1> QED
  BY <1>1, <1>2, <1>3

\* The next file of a loop.
LEMMA NextPast ==
  ASSUME TypeInv, NEW p \in Procs, NEW d, d.i = call[p].i + 1, call[p].i < 3
  PROVE  Past(d) = Past(call[p]) \cup {File(p)}
<1>1. CASE call[p].i = 1
  <2>1. d.i = 2
    BY <1>1
  <2> QED
    BY <1>1, <2>1, ThisFile, PastFact
<1>2. CASE call[p].i = 2
  <2>1. d.i = 3
    BY <1>2
  <2> QED
    BY <1>2, <2>1, ThisFile, PastFact
<1> QED
  BY <1>1, <1>2, ThisFile

\* So does moving a file aside.
LEMMA MoveGood ==
  ASSUME TypeInv, NEW p \in Procs, Move(p), Good(call[p], final, tmp, bak, promise)
  PROVE  Good(call'[p], final', tmp', bak', promise')
<1> DEFINE c == call[p]
           d == call'[p]
           f == File(p)
<1>1. c.at = "move" /\ tmp' = tmp /\ promise' = promise
  BY DEF Move, At, ghost
<1>2. /\ c.op = "adopt" /\ d.at = IF c.i < 3 THEN "move" ELSE "rename"
      /\ d.i = IF c.i < 3 THEN c.i + 1 ELSE 1
      /\ d.moved = c.moved \cup IF final[f] # None THEN {f} ELSE {}
      /\ d.op = c.op /\ d.cat = c.cat /\ d.new = c.new /\ d.before = c.before
  BY MoveCall
<1>3. /\ FilesOK(final) /\ FilesOK(bak) /\ c.i \in {1, 2, 3} /\ f \in FileSet /\ f \notin Past(c)
      /\ c.i = 3 => Past(c) = {"json", "hash"} /\ f = "state"
  BY ThisFile DEF TypeInv
<1>4. /\ final'[f] = None /\ (final[f] # None => bak'[f] = final[f])
      /\ \A g \in FileSet \ {f} : final'[g] = final[g] /\ bak'[g] = bak[g]
  <2>1. CASE final[f] # None
    <3>1. bak' = [bak EXCEPT ![f] = final[f]] /\ final' = [final EXCEPT ![f] = None]
      BY <2>1 DEF Move
    <3> QED
      BY <1>3, <3>1 DEF FilesOK
  <2>2. CASE final[f] = None
    BY <2>2 DEF Move
  <2> QED
    BY <2>1, <2>2
<1>5. /\ c.moved \subseteq Past(c) /\ \A g \in Past(c) : final[g] = None
      /\ \A g \in c.moved : bak[g] # None
      /\ Past(c) \subseteq FileSet
  BY <1>1, <1>2, <1>3, PastFact DEF Good, Placed
<1>6. ASSUME NEW g \in FileSet
      PROVE  Was(d, final', bak', g) = Was(c, final, bak, g)
  <2>0. Was(c, final, bak, g) = IF g \in c.moved THEN bak[g] ELSE final[g]
    BY <1>1, <1>2 DEF Was, Midway
  <2>1. Was(d, final', bak', g) = IF g \in d.moved THEN bak'[g]
                                  ELSE IF d.at = "move" THEN final'[g] ELSE None
    BY <1>2 DEF Was, Midway
  <2>2. CASE g = f
    BY <1>2, <1>3, <1>4, <1>5, <2>0, <2>1, <2>2
  <2>3. CASE g # f
    <3>1. (g \in d.moved <=> g \in c.moved) /\ final'[g] = final[g] /\ bak'[g] = bak[g]
      BY <1>2, <1>4, <2>3
    <3>2. d.at # "move" => final[g] = None
      BY <1>2, <1>3, <1>5, <2>3 DEF FileSet
    <3> QED
      BY <2>0, <2>1, <3>1, <3>2
  <2> QED
    BY <2>2, <2>3
<1>7. WasDecided(d, final', bak') = WasDecided(c, final, bak)
  BY <1>6 DEF WasDecided, FileSet
<1>8. Remembers(d, final', bak')
  <2>1. d.before = <<ActiveIn(Was(d, final', bak', "json"), Was(d, final', bak', "hash")),
                     WasDecided(d, final', bak')>>
    BY <1>1, <1>2, <1>6, <1>7 DEF Good, Remembers, FileSet
  <2>2. /\ WasDecided(d, final', bak') \in States
        /\ d.new = Changed(WasDecided(d, final', bak'), d.op, d.cat)
    BY <1>1, <1>2, <1>7 DEF Good, Remembers
  <2> QED
    BY <2>1, <2>2 DEF Remembers
<1>9. \A g \in d.moved : bak'[g] # None
  BY <1>2, <1>3, <1>4, <1>5
<1>10. CASE c.i < 3
  <2>1. d.at = "move" /\ Past(d) = Past(c) \cup {f}
    BY <1>2, <1>10, NextPast
  <2>2. d.moved \subseteq Past(d) /\ \A g \in Past(d) : final'[g] = None
    BY <1>2, <1>4, <1>5, <2>1
  <2>3. Placed(d, final', bak')
    BY <1>9, <2>1, <2>2 DEF Placed
  <2>4. Prepared(d, tmp') /\ Offering(d, final')
    BY <1>1, <1>2, <2>1 DEF Good, Prepared, Offering, ToWrite
  <2> QED
    BY <1>1, <1>7, <1>8, <2>1, <2>3, <2>4 DEF Good
<1>11. CASE ~(c.i < 3)
  <2>1. d.at = "rename" /\ Past(d) = {}
    BY <1>2, <1>11, PastFact
  <2>2. \A g \in FileSet : final'[g] = None
    BY <1>3, <1>4, <1>5, <1>11 DEF FileSet
  <2>3. Placed(d, final', bak')
    BY <1>9, <2>1, <2>2 DEF Placed
  <2>4. Prepared(d, tmp') /\ Offering(d, final')
    BY <1>1, <1>2, <2>1 DEF Good, Prepared, Offering, ToWrite
  <2> QED
    BY <1>1, <1>7, <1>8, <2>1, <2>3, <2>4 DEF Good
<1> QED
  BY <1>10, <1>11

\* A saved state keeps the promises, also the one that saving it makes.
LEMMA PromisedKept ==
  ASSUME TypeInv, NEW c \in CallType, Shape(c), NEW s \in States, Keeps(s, promise)
  PROVE  /\ Changed(s, c.op, c.cat) \in States
         /\ Keeps(Changed(s, c.op, c.cat), Promised(c))
         /\ c.op \in {"check", "note"} => Changed(s, c.op, c.cat) = s
<1>1. PICK n : n = Changed(s, c.op, c.cat)
  OBVIOUS
<1>2. c.cat \in Catalogs \cup {None} /\ (c.op \in {"skip", "adopt"} => c.cat \in Catalogs)
  BY DEF CallType, Hashes, Shape
<1>3. /\ n \in States
      /\ c.op \in {"check", "note", "remind"} => n = s
      /\ n.disabled = (s.disabled \/ c.op = "disable")
      /\ n.installed = IF c.op = "adopt" THEN c.cat ELSE s.installed
      /\ c.op = "skip" => Listed(n, c.cat)
      /\ c.op # "skip" => \A x : Listed(s, x) /\ (x = c.cat => c.op # "adopt") => Listed(n, x)
  BY <1>1, <1>2, ChangedState
<1>4. /\ promise \in [installed : Catalogs \cup {None}, skipped : Catalogs \cup {None},
                      disabled : BOOLEAN]
      /\ promise.disabled => s.disabled
      /\ promise.installed # None => s.installed = promise.installed
      /\ promise.skipped # None => Listed(s, promise.skipped)
  BY DEF TypeInv, Promise, Keeps
<1>5. Keeps(n, Promised(c))
  <2>1. CASE c.op = "skip"
    BY <1>2, <1>3, <1>4, <2>1 DEF Keeps, Promised
  <2>2. CASE c.op = "disable"
    BY <1>2, <1>3, <1>4, <2>2 DEF Keeps, Promised
  <2>3. CASE c.op = "adopt"
    BY <1>2, <1>3, <1>4, <2>3 DEF Keeps, Promised
  <2>4. CASE c.op \notin {"skip", "disable", "adopt"}
    BY <1>2, <1>3, <1>4, <2>4 DEF Keeps, Promised
  <2> QED
    BY <2>1, <2>2, <2>3, <2>4
<1> QED
  BY <1>1, <1>3, <1>5

\* So does renaming a temporary file.
LEMMA RenameGood ==
  ASSUME TypeInv, NEW p \in Procs, Rename(p), Good(call[p], final, tmp, bak, promise),
         call[p].alone
  PROVE  Good(call'[p], final', tmp', bak', promise')
<1> DEFINE c == call[p]
           d == call'[p]
           f == File(p)
           D == WasDecided(c, final, bak)
<1>1. c.at = "rename" /\ bak' = bak
  BY DEF Rename, At
<1>2. /\ c \in CallType /\ Shape(c) /\ CallOK(c)
      /\ FilesOK(final) /\ FilesOK(tmp) /\ c.i \in {1, 2, 3} /\ f \in FileSet /\ f \notin Past(c)
      /\ c.i = 3 => Past(c) = {"json", "hash"} /\ f = "state"
      /\ c.i # 3 => f # "state"
      /\ c.op # "adopt" => f = "state"
  BY <1>1, ThisFile, ThisCall DEF TypeInv, Shape
<1>3. /\ D \in States /\ c.new = Changed(D, c.op, c.cat) /\ Keeps(D, promise)
  BY <1>1 DEF Good, Remembers
<1>4. c.new \in States /\ Keeps(c.new, Promised(c)) /\ c.new # None
      /\ (c.op \in {"check", "note"} => c.new = D)
  BY <1>2, <1>3, PromisedKept, StateAssumption
<1>5. tmp[f] = ToWrite(c, f)
  <2>1. CASE c.op = "adopt"
    BY <1>1, <1>2, <2>1 DEF Good, Prepared
  <2>2. CASE c.op # "adopt"
    BY <1>1, <1>2, <2>2 DEF Good, Prepared, ToWrite
  <2> QED
    BY <2>1, <2>2
<1>6. tmp[f] # None
  BY <1>2, <1>4, <1>5, NoneAssumption DEF ToWrite, Shape
<1>7. /\ final' = [final EXCEPT ![f] = tmp[f]] /\ tmp' = [tmp EXCEPT ![f] = None]
      /\ promise' = IF f = "state" THEN Promised(c) ELSE promise
  BY <1>6 DEF Rename
<1>8. /\ final'[f] = ToWrite(c, f)
      /\ \A g \in FileSet \ {f} : final'[g] = final[g] /\ tmp'[g] = tmp[g]
  BY <1>2, <1>5, <1>7 DEF FilesOK
<1>9. \/ /\ c.op = "adopt" /\ Same(d, c)
         /\ d.at = IF c.i < 3 THEN "rename" ELSE "cleanup"
         /\ d.i = IF c.i < 3 THEN c.i + 1 ELSE 1
      \/ c.op = "check" /\ c.cat # None /\ Same(d, c) /\ d.at = "offer"
      \/ c.op # "adopt" /\ d = Done(c)
  BY <1>6, RenameCall
<1>10. CASE c.op = "adopt" /\ c.i < 3
  <2>1. /\ Same(d, c) /\ d.at = "rename" /\ Past(d) = Past(c) \cup {f}
        /\ promise' = promise
    BY <1>2, <1>7, <1>9, <1>10, NextPast
  <2>2. \A g : Was(d, final', bak', g) = Was(c, final, bak, g)
    BY <1>1, <1>10, <2>1 DEF Was, Midway, Same
  <2>3. WasDecided(d, final', bak') = D
    BY <2>2 DEF WasDecided
  <2>4. Remembers(d, final', bak')
    BY <1>1, <1>10, <2>1, <2>2, <2>3 DEF Good, Remembers, Same
  <2>5. Prepared(d, tmp')
    BY <1>1, <1>8, <1>10, <2>1 DEF Good, Prepared, Same, ToWrite
  <2>6. Placed(d, final', bak')
    <3>1. \A g \in FileSet : final'[g] = IF g \in Past(d) THEN d.cat ELSE None
      BY <1>1, <1>2, <1>8, <1>10, <2>1 DEF Good, Placed, Same, ToWrite
    <3>2. \A g \in d.moved : bak'[g] # None
      BY <1>1, <1>10, <2>1 DEF Good, Placed, Same
    <3> QED
      BY <2>1, <3>1, <3>2 DEF Placed
  <2>7. Offering(d, final')
    BY <1>10, <2>1 DEF Offering, Same
  <2> QED
    BY <1>3, <2>1, <2>3, <2>4, <2>5, <2>6, <2>7 DEF Good
<1>11. CASE c.op = "adopt" /\ ~(c.i < 3)
  <2>1. Same(d, c) /\ d.at = "cleanup" /\ promise' = Promised(c) /\ f = "state"
        /\ Past(c) = {"json", "hash"}
    BY <1>2, <1>7, <1>9, <1>11
  <2>2. final'["state"] = c.new /\ final'["json"] = c.cat /\ final'["hash"] = c.cat
    BY <1>1, <1>8, <1>11, <2>1 DEF Good, Placed, ToWrite, FileSet
  <2>3. Was(d, final', bak', "state") = c.new
    BY <2>1, <2>2 DEF Was, Midway
  <2>4. WasDecided(d, final', bak') = c.new
    BY <1>4, <2>3 DEF WasDecided, DecisionsIn
  <2>5. Remembers(d, final', bak') /\ Prepared(d, tmp') /\ Offering(d, final')
    BY <1>11, <2>1 DEF Remembers, Prepared, Offering, Same
  <2>6. c.before[2] = D
    BY <1>1, <1>11 DEF Good, Remembers
  <2>7. Placed(d, final', bak')
    BY <1>3, <1>4, <1>11, <2>1, <2>2, <2>6 DEF Placed, Same
  <2> QED
    BY <1>4, <2>1, <2>4, <2>5, <2>7 DEF Good
<1>12. CASE c.op # "adopt"
  <2>1. /\ d.op = c.op /\ d.cat = c.cat /\ d.before = c.before /\ d.at \in {"offer", "done"}
        /\ d.at = "offer" => c.cat # None /\ c.op = "check"
    <3>1. CASE d = Done(c)
      <4>1. /\ Done(c).op = c.op /\ Done(c).cat = c.cat /\ Done(c).before = c.before
            /\ Done(c).at = "done"
        BY <1>2, EndingTypes
      <4> QED
        BY <3>1, <4>1
    <3>2. CASE c.op = "check" /\ c.cat # None /\ Same(d, c) /\ d.at = "offer"
      BY <3>2 DEF Same
    <3> QED
      BY <1>9, <1>12, <3>1, <3>2
  <2>2. final'["state"] = c.new /\ final'["json"] = final["json"] /\ final'["hash"] = final["hash"]
        /\ promise' = Promised(c)
    BY <1>2, <1>7, <1>8, <1>12 DEF ToWrite, FileSet
  <2>3. \A g : Was(d, final', bak', g) = final'[g] /\ Was(c, final, bak, g) = final[g]
    BY <1>12, <2>1 DEF Was, Midway
  <2>4. WasDecided(d, final', bak') = c.new /\ DecisionsIn(final'["state"]) = c.new
    BY <1>4, <2>2, <2>3 DEF WasDecided, DecisionsIn
  <2>5. Remembers(d, final', bak')
    <3>1. c.op \in {"check", "note"} =>
            d.before = <<ActiveIn(final'["json"], final'["hash"]), c.new>>
      BY <1>4, <2>1, <2>2, <2>3 DEF Good, Remembers
    <3> QED
      BY <1>12, <2>1, <2>3, <2>4, <3>1 DEF Remembers
  <2>6. Prepared(d, tmp') /\ Placed(d, final', bak')
    BY <1>12, <2>1 DEF Prepared, Placed
  <2>7. Offering(d, final')
    <3>1. D = DecisionsIn(final["state"])
      BY <2>3 DEF WasDecided
    <3>2. c.op = "check" /\ c.cat # None => ~Quiet(c.new, c.cat)
      BY <1>1, <1>4, <3>1 DEF Good, Offering
    <3> QED
      BY <2>1, <2>4, <3>2 DEF Offering
  <2> QED
    BY <1>4, <2>1, <2>2, <2>4, <2>5, <2>6, <2>7 DEF Good
<1> QED
  BY <1>10, <1>11, <1>12

\* So does removing the backups.
LEMMA CleanupGood ==
  ASSUME TypeInv, NEW p \in Procs, Cleanup(p), Good(call[p], final, tmp, bak, promise)
  PROVE  Good(call'[p], final', tmp', bak', promise')
<1> DEFINE c == call[p]
           d == call'[p]
<1>1. c.at = "cleanup" /\ final' = final /\ tmp' = tmp /\ promise' = promise
  BY DEF Cleanup, At, ghost
<1>2. /\ c.op = "adopt" /\ d.op = c.op /\ d.cat = c.cat /\ d.before = c.before
      /\ d.at \in {"cleanup", "done"}
  <2>1. CASE Same(d, c) /\ d.at = c.at
    BY <1>1, <2>1, LoopCall DEF Same
  <2>2. CASE d = Done(c)
    <3>1. /\ Done(c).op = c.op /\ Done(c).cat = c.cat /\ Done(c).before = c.before
          /\ Done(c).at = "done"
      BY ThisCall, EndingTypes
    <3> QED
      BY <2>2, <3>1, LoopCall
  <2>3. ~RemoveAll(p) /\ ~PutBack(p)
    BY <1>1 DEF RemoveAll, PutBack, At
  <2> QED
    BY <2>1, <2>2, <2>3, LoopCall
<1>3. \A g : Was(d, final', bak', g) = final[g] /\ Was(c, final, bak, g) = final[g]
  BY <1>1, <1>2 DEF Was, Midway
<1>4. WasDecided(d, final', bak') = WasDecided(c, final, bak)
  BY <1>3 DEF WasDecided
<1>5. Remembers(d, final', bak') /\ Prepared(d, tmp') /\ Offering(d, final')
  BY <1>2 DEF Remembers, Prepared, Offering
<1>6. Placed(d, final', bak')
  BY <1>1, <1>2 DEF Good, Placed
<1> QED
  BY <1>1, <1>2, <1>4, <1>5, <1>6 DEF Good

\* So does removing what was installed, when an adoption goes back.
LEMMA RemoveAllGood ==
  ASSUME TypeInv, NEW p \in Procs, RemoveAll(p), Good(call[p], final, tmp, bak, promise)
  PROVE  Good(call'[p], final', tmp', bak', promise')
<1> DEFINE c == call[p]
           d == call'[p]
           f == File(p)
<1>1. /\ c.at = "removeAll" /\ bak' = bak /\ promise' = promise
      /\ final' = [final EXCEPT ![f] = None]
  BY DEF RemoveAll, At, ghost
<1>2. /\ c.op = "adopt" /\ Same(d, c)
      /\ \/ c.i < 3 /\ d.at = "removeAll" /\ d.i = c.i + 1
         \/ c.i = 3 /\ d.at = "putBack" /\ d.i = 1
  <2>1. ~Cleanup(p) /\ ~PutBack(p)
    BY <1>1 DEF Cleanup, PutBack, At
  <2> QED
    BY <1>1, <2>1, LoopCall
<1>3. /\ f \in FileSet /\ (c.i = 3 => Past(c) = {"json", "hash"})
      /\ final'[f] = None /\ \A g \in FileSet \ {f} : final'[g] = final[g]
  BY <1>1, ThisFile DEF TypeInv, FilesOK
<1>4. /\ \A g \in c.moved : bak[g] # None
      /\ final["state"] = None /\ \A g \in Past(c) : final[g] = None
  BY <1>1, <1>2 DEF Good, Placed
<1>5. d.at = "putBack" => Past(d) = {}
  BY <1>2, PastFact
<1>6. \A g : Was(d, final', bak', g) = Was(c, final, bak, g)
  BY <1>1, <1>2, <1>5 DEF Was, Midway, Same
<1>7. WasDecided(d, final', bak') = WasDecided(c, final, bak)
  BY <1>6 DEF WasDecided
<1>8. Remembers(d, final', bak')
  BY <1>1, <1>2, <1>6, <1>7 DEF Good, Remembers, Same
<1>9. Prepared(d, tmp') /\ Offering(d, final')
  BY <1>2 DEF Prepared, Offering, Same
<1>10. CASE c.i < 3
  <2>1. d.at = "removeAll" /\ Past(d) = Past(c) \cup {f}
    BY <1>2, <1>10, NextPast
  <2>2. final'["state"] = None /\ \A g \in Past(d) : final'[g] = None
    BY <1>3, <1>4, <2>1 DEF FileSet, Past
  <2>3. Placed(d, final', bak')
    BY <1>1, <1>2, <1>4, <2>1, <2>2 DEF Placed, Same
  <2> QED
    BY <1>1, <1>7, <1>8, <1>9, <2>1, <2>3 DEF Good
<1>11. CASE ~(c.i < 3)
  <2>1. d.at = "putBack" /\ c.i = 3
    BY <1>2, <1>11
  <2>2. \A g \in FileSet : final'[g] = None
    BY <1>3, <1>4, <2>1 DEF FileSet
  <2>3. Placed(d, final', bak')
    BY <1>1, <1>2, <1>4, <1>5, <2>1, <2>2 DEF Placed, Same
  <2> QED
    BY <1>1, <1>7, <1>8, <1>9, <2>1, <2>3 DEF Good
<1> QED
  BY <1>10, <1>11

\* So does putting a backup back.
LEMMA PutBackGood ==
  ASSUME TypeInv, NEW p \in Procs, PutBack(p), Good(call[p], final, tmp, bak, promise)
  PROVE  Good(call'[p], final', tmp', bak', promise')
<1> DEFINE c == call[p]
           d == call'[p]
           f == File(p)
<1>1. c.at = "putBack" /\ promise' = promise /\ tmp' = tmp
  BY DEF PutBack, At, ghost
<1>2. /\ c.op = "adopt"
      /\ \/ c.i < 3 /\ Same(d, c) /\ d.at = "putBack" /\ d.i = c.i + 1
         \/ c.i = 3 /\ d = Failed(c)
  <2>1. ~Cleanup(p) /\ ~RemoveAll(p)
    BY <1>1 DEF Cleanup, RemoveAll, At
  <2> QED
    BY <1>1, <2>1, LoopCall
<1>3. /\ f \in FileSet /\ f \notin Past(c) /\ FilesOK(final) /\ FilesOK(bak)
      /\ c.i = 3 => Past(c) = {"json", "hash"} /\ f = "state"
  BY ThisFile DEF TypeInv
<1>4. /\ \A g \in FileSet \ Past(c) : final[g] = None
      /\ \A g \in c.moved \ Past(c) : bak[g] # None
  BY <1>1, <1>2 DEF Good, Placed
<1>5. /\ final' = IF f \in c.moved THEN [final EXCEPT ![f] = bak[f]] ELSE final
      /\ bak' = [bak EXCEPT ![f] = None]
  BY <1>3, <1>4 DEF PutBack
<1>6. /\ final'[f] = IF f \in c.moved THEN bak[f] ELSE None
      /\ \A g \in FileSet \ {f} : final'[g] = final[g] /\ bak'[g] = bak[g]
  BY <1>3, <1>4, <1>5 DEF FilesOK
<1>7. ASSUME NEW g \in FileSet
      PROVE  Was(c, final, bak, g) = IF g \in Past(c) THEN final[g]
                                     ELSE IF g \in c.moved THEN bak[g] ELSE None
  BY <1>1, <1>2 DEF Was, Midway
<1>8. CASE c.i < 3
  <2>1. Same(d, c) /\ d.at = "putBack" /\ Past(d) = Past(c) \cup {f}
    BY <1>2, <1>8, NextPast
  <2>2. ASSUME NEW g \in FileSet
        PROVE  Was(d, final', bak', g) = Was(c, final, bak, g)
    <3>1. Was(d, final', bak', g) = IF g \in Past(d) THEN final'[g]
                                    ELSE IF g \in c.moved THEN bak'[g] ELSE None
      BY <1>2, <2>1 DEF Was, Midway, Same
    <3> QED
      BY <1>3, <1>6, <1>7, <2>1, <3>1
  <2>3. WasDecided(d, final', bak') = WasDecided(c, final, bak)
    BY <2>2 DEF WasDecided, FileSet
  <2>4. Remembers(d, final', bak')
    <3>1. d.before = <<ActiveIn(Was(d, final', bak', "json"), Was(d, final', bak', "hash")),
                       WasDecided(d, final', bak')>>
      BY <1>1, <1>2, <2>1, <2>2, <2>3 DEF Good, Remembers, FileSet, Same
    <3> QED
      BY <2>1, <3>1 DEF Remembers
  <2>5. Prepared(d, tmp') /\ Offering(d, final')
    BY <2>1 DEF Prepared, Offering
  <2>6. /\ \A g \in FileSet \ Past(d) : final'[g] = None
        /\ \A g \in d.moved \ Past(d) : bak'[g] # None
    <3>1. c.moved \subseteq FileSet
      BY ThisCall DEF CallType, Groups
    <3> QED
      BY <1>4, <1>6, <2>1, <3>1 DEF Same
  <2>7. Placed(d, final', bak')
    BY <2>1, <2>6 DEF Placed
  <2> QED
    BY <1>1, <2>1, <2>3, <2>4, <2>5, <2>7 DEF Good
<1>9. CASE ~(c.i < 3)
  <2>1. d = Failed(c) /\ Past(c) = {"json", "hash"} /\ f = "state"
    BY <1>2, <1>3, <1>9
  <2>2. \A g \in FileSet : final'[g] = Was(c, final, bak, g)
    BY <1>3, <1>6, <1>7, <2>1 DEF FileSet
  <2>3. CallOK(c)
    BY ThisCall
  <2> QED
    BY <1>1, <2>1, <2>2, <2>3, EndGood DEF Good
<1> QED
  BY <1>8, <1>9

\* So does the end of the call.
LEMMA EndsGood ==
  ASSUME TypeInv, NEW p \in Procs, Offer(p) \/ Return(p) \/ Die(p),
         Good(call[p], final, tmp, bak, promise)
  PROVE  Good(call'[p], final', tmp', bak', promise')
<1> DEFINE c == call[p]
           d == call'[p]
<1>1. final' = final /\ tmp' = tmp /\ bak' = bak
  BY DEF Offer, Return, Die, files
<1>c. CallOK(c) /\ Shape(c)
  BY ThisCall
<1>2. CASE Offer(p)
  <2>1. c.at = "offer" /\ promise' = promise /\ d \in {Done(c), Recorded(c)}
    BY <1>2, EndCall DEF Offer, At, ghost
  <2>2. \A g : Was(c, final, bak, g) = final[g]
    BY <2>1 DEF Was, Midway
  <2>3. c.op = "check"
    BY <1>c, <2>1 DEF Shape
  <2> QED
    BY <1>1, <1>c, <2>1, <2>2, <2>3, EndGood DEF Good
<1>3. CASE Return(p) \/ Die(p)
  <2>1. d = Idle
    BY <1>3, EndCall
  <2>2. CASE promise' = NoPromise
    BY <1>1, <2>1, <2>2, IdleGood
  <2>3. CASE promise' # NoPromise
    <3>1. /\ promise' = promise
          /\ c.at = "done" \/ c.moved = {} \/ c.at = "cleanup"
      BY <1>3, <2>3 DEF Return, Die, At, ghost
    <3>2. Was(c, final, bak, "state") = final["state"]
      <4>1. "state" \notin Past(c) /\ "state" \in FileSet
        BY ThisFile, PastFact DEF FileSet
      <4>2. c.op = "adopt" /\ c.at \in {"rename", "removeAll", "putBack"} => final["state"] = None
        BY <4>1 DEF Good, Placed
      <4> QED
        BY <3>1, <4>1, <4>2 DEF Was, Midway
    <3>3. Keeps(DecisionsIn(final["state"]), promise)
      BY <3>2 DEF Good, WasDecided
    <3> QED
      BY <1>1, <2>1, <3>1, <3>3, IdleGood
  <2> QED
    BY <2>2, <2>3
<1> QED
  BY <1>2, <1>3

\* So does a file operation that fails.
LEMMA FaultGood ==
  ASSUME TypeInv, NEW p \in Procs, Fault(p), Good(call[p], final, tmp, bak, promise),
         ~call'[p].aside
  PROVE  Good(call'[p], final', tmp', bak', promise')
<1> DEFINE c == call[p]
           d == call'[p]
<1>1. final' = final /\ tmp' = tmp /\ bak' = bak
  BY DEF Fault
<1>2. CASE /\ c.at \in {"load", "open", "fill", "verify"} \/ (c.at = "rename" /\ c.op # "adopt")
           /\ d = Failed(c) /\ UNCHANGED promise
  <2>1. \A g : Was(c, final, bak, g) = final[g]
    BY <1>2 DEF Was, Midway
  <2>2. CallOK(c)
    BY ThisCall
  <2> QED
    BY <1>1, <1>2, <2>1, <2>2, EndGood DEF Good
<1>3. CASE /\ c.at = "rename" /\ c.op = "adopt" /\ d.at = "removeAll" /\ d.i = 1
           /\ d.op = c.op /\ d.cat = c.cat /\ d.new = c.new /\ d.moved = c.moved
           /\ d.before = c.before /\ promise' = promise
  <2>1. \A g : Was(d, final', bak', g) = Was(c, final, bak, g)
    BY <1>1, <1>3 DEF Was, Midway
  <2>2. WasDecided(d, final', bak') = WasDecided(c, final, bak)
    BY <2>1 DEF WasDecided
  <2>3. Remembers(d, final', bak')
    BY <1>3, <2>1, <2>2 DEF Good, Remembers
  <2>4. Prepared(d, tmp') /\ Offering(d, final')
    BY <1>3 DEF Prepared, Offering
  <2>5. Past(d) = {} /\ "state" \notin Past(c) /\ "state" \in FileSet
    BY <1>3, ThisFile, PastFact DEF FileSet
  <2>6. Placed(d, final', bak')
    BY <1>1, <1>3, <2>5 DEF Good, Placed
  <2> QED
    BY <1>3, <2>2, <2>3, <2>4, <2>6 DEF Good
<1> QED
  BY <1>2, <1>3, FaultCall

\* A call that begins: nobody is alone any more, or it is the only one.
LEMMA BeginLone ==
  ASSUME TypeInv, LoneInv, NEW p \in Procs, NEW op, NEW cat, Begin(p, op, cat)
  PROVE  LoneInv'
<1>1. PICK o \in BOOLEAN : o <=> \E q \in Procs \ {p} : Busy(q)
  OBVIOUS
<1>2. PICK e : e = [Idle EXCEPT !.op = op, !.at = "load", !.cat = cat, !.alone = ~o,
                                !.before = IF o THEN Nothing ELSE <<Active, Decisions>>,
                                !.failed = (op = "note")]
  OBVIOUS
<1>3. /\ e.op = op /\ e.at = "load" /\ e.cat = cat /\ e.alone = ~o /\ e.aside = FALSE
      /\ e.moved = {} /\ (~o => e.before = <<Active, Decisions>>)
      /\ Idle.at = "idle" /\ Idle.alone = TRUE /\ Idle.aside = FALSE
  BY <1>2 DEF Idle
<1>4. /\ ~Busy(p) /\ UNCHANGED <<final, tmp, bak, handle>>
      /\ promise' = IF o THEN NoPromise ELSE promise
  BY <1>1 DEF Begin, files
<1>5. call'[p] = e
  BY <1>1, <1>2 DEF Begin
<1>6. ASSUME NEW q \in Procs \ {p}
      PROVE  /\ Busy(q)' <=> Busy(q)
             /\ call'[q].at = call[q].at
             /\ Busy(q) => ~call'[q].alone
             /\ ~Busy(q) => call'[q] = Idle
  <2>1. CASE Busy(q)
    <3>1. PICK d : d = [call[q] EXCEPT !.alone = FALSE, !.before = Nothing]
      OBVIOUS
    <3>2. call'[q] = d
      BY <2>1, <3>1 DEF Begin
    <3>3. d.at = call[q].at /\ d.alone = FALSE
      <4>1. call[q] \in CallType
        BY DEF TypeInv
      <4> QED
        BY <3>1, <4>1 DEF CallType
    <3> QED
      BY <2>1, <3>2, <3>3 DEF Busy
  <2>2. CASE ~Busy(q)
    BY <2>2 DEF Begin, Busy, LoneInv, Solo
  <2> QED
    BY <2>1, <2>2
<1>7. Busy(p)'
  BY <1>3, <1>5 DEF Busy
<1>8. Solo'
  <2>1. \A q \in Procs : Busy(q)' \/ call'[q] = Idle
    BY <1>6, <1>7
  <2>2. ASSUME NEW q \in Procs, NEW r \in Procs, Busy(q)', Busy(r)', call'[q].alone
        PROVE  q = r
    <3>1. q = p
      BY <1>6, <2>2
    <3>2. ~o
      BY <1>3, <1>5, <2>2, <3>1
    <3> QED
      BY <1>1, <1>6, <2>2, <3>1, <3>2
  <2> QED
    BY <2>1, <2>2 DEF Solo
<1>9. Opened'
  <2>1. ASSUME NEW q \in Procs
        PROVE  /\ handle'[q] # "none" => call'[q].at = "fill"
               /\ call'[q].at = "fill" /\ call'[q].alone => handle'[q] = "tmp"
    <3>1. CASE q = p
      <4>1. handle[p] = "none"
        BY <1>4 DEF LoneInv, Opened, At, Busy
      <4> QED
        BY <1>3, <1>4, <1>5, <3>1, <4>1
    <3>2. CASE q # p
      BY <1>3, <1>4, <1>6, <3>2 DEF LoneInv, Opened, At, Busy
    <3> QED
      BY <3>1, <3>2
  <2> QED
    BY <2>1 DEF Opened, At
<1>10. ~o => Good(e, final, tmp, bak, promise)
  <2> SUFFICES ASSUME ~o PROVE Good(e, final, tmp, bak, promise)
    OBVIOUS
  <2>1. call[p] = Idle /\ Acting(p)
    BY <1>1, <1>4 DEF LoneInv, Solo, Acting
  <2>2. Keeps(Decisions, promise)
    <3>1. Good(Idle, final, tmp, bak, promise)
      BY <1>3, <2>1 DEF LoneInv, Careful
    <3> QED
      BY <3>1, IdleGood DEF Good, DecisionsIn, Decisions
  <2>3. \A g : Was(e, final, bak, g) = final[g]
    BY <1>3 DEF Was, Midway
  <2>4. WasDecided(e, final, bak) = Decisions
    BY <2>3 DEF WasDecided, DecisionsIn, Decisions
  <2>5. Remembers(e, final, bak)
    <3>1. Active = ActiveIn(final["json"], final["hash"])
      BY DEF Active, ActiveIn
    <3> QED
      BY <1>3, <2>3, <2>4, <3>1 DEF Remembers
  <2>6. Prepared(e, tmp) /\ Placed(e, final, bak) /\ Offering(e, final)
    BY <1>3 DEF Prepared, Placed, Offering
  <2> QED
    BY <1>3, <2>2, <2>4, <2>5, <2>6 DEF Good
<1>11. Careful'
  <2>1. ASSUME NEW q \in Procs, Busy(q)', ~call'[q].alone \/ call'[q].aside
        PROVE  promise' = NoPromise
    BY <1>1, <1>3, <1>4, <1>5, <1>6, <2>1
  <2>2. ASSUME NEW q \in Procs, Acting(q)', call'[q].alone
        PROVE  Good(call'[q], final', tmp', bak', promise')
    <3>1. q = p
      BY <1>6, <1>7, <2>2 DEF Acting
    <3>2. ~o
      BY <1>3, <1>5, <2>2, <3>1
    <3> QED
      BY <1>4, <1>5, <1>10, <3>1, <3>2
  <2> QED
    BY <2>1, <2>2 DEF Careful
<1> QED
  BY <1>8, <1>9, <1>11 DEF LoneInv

\* Every step of a call keeps the invariant.
LEMMA StepLone ==
  ASSUME TypeInv, TypeInv', LoneInv, NEW p \in Procs,
         \/ Load(p) \/ Open(p) \/ Fill(p) \/ Verify(p)
         \/ Move(p) \/ Rename(p) \/ Cleanup(p) \/ RemoveAll(p) \/ PutBack(p)
         \/ Offer(p) \/ Return(p) \/ Fault(p) \/ Die(p)
  PROVE  LoneInv'
<1> DEFINE c == call[p]
           d == call'[p]
<1>1. /\ Busy(p) /\ call' = [call EXCEPT ![p] = d] /\ CallOK(d)
      /\ \/ d = Idle
         \/ /\ d.at # "idle" /\ d.alone = c.alone
            /\ c.aside => d.aside
  BY StepCall
<1>2. Opened'
  BY OpenedStep
<1>3. ASSUME c.alone, ~c.aside, ~d.aside
      PROVE  Good(d, final', tmp', bak', promise')
  <2>1. Good(c, final, tmp, bak, promise)
    BY <1>1, <1>3 DEF LoneInv, Careful, Acting
  <2>2. Fill(p) => handle[p] = "tmp"
    BY <1>3 DEF Fill, LoneInv, Opened
  <2> QED
    BY <1>3, <2>1, <2>2, LoadGood, OpenGood, VerifyGood, MoveGood, RenameGood, CleanupGood,
       RemoveAllGood, PutBackGood, EndsGood, FaultGood
<1>4. ASSUME ~c.alone \/ c.aside \/ d.aside
      PROVE  promise' = NoPromise
  <2>1. CASE ~c.alone \/ c.aside
    <3>1. promise = NoPromise
      BY <1>1, <2>1 DEF LoneInv, Careful
    <3>2. CASE Rename(p)
      <4>1. c.alone => c.op = "note"
        BY <2>1, <3>2, ThisCall DEF Rename, At, Shape
      <4>2. c.op = "note" => Promised(c) = promise
        BY DEF Promised
      <4> QED
        BY <3>1, <3>2, <4>1, <4>2 DEF Rename
    <3>3. CASE ~Rename(p)
      BY <3>1, <3>3
      DEF Load, Open, Fill, Verify, Move, Cleanup, RemoveAll, PutBack,
          Offer, Return, Fault, Die, ghost
    <3> QED
      BY <3>2, <3>3
  <2>2. CASE c.alone /\ ~c.aside /\ d.aside
    <3>1. d # Idle
      BY <2>2 DEF Idle
    <3>2. Fault(p)
      BY <2>2, <3>1, StepCall
    <3>3. d # Failed(c)
      <4>1. c.op = "adopt" => Failed(c) = Recorded(c)
        BY DEF Failed
      <4> QED
        BY <2>2, <4>1, ThisCall, EndingTypes
    <3> QED
      BY <2>2, <3>2, <3>3, FaultCall
  <2> QED
    BY <1>4, <2>1, <2>2
<1>5. d.at = "idle" => d = Idle
  BY <1>1
<1> QED
  BY <1>1, <1>2, <1>3, <1>4, <1>5, Frame

\* Every step keeps the invariant, and an empty store has it.
LEMMA NextLone == TypeInv /\ LoneInv /\ TypeInv' /\ [Next]_vars => LoneInv'
<1> SUFFICES ASSUME TypeInv, LoneInv, TypeInv', [Next]_vars PROVE LoneInv'
  OBVIOUS
<1>1. ASSUME NEW p \in Procs,
             Check(p) \/ Skip(p) \/ Remind(p) \/ Disable(p) \/ Approve(p)
      PROVE  LoneInv'
  <2>1. \E op, cat : Begin(p, op, cat)
    BY <1>1 DEF Check, Skip, Remind, Disable, Approve
  <2> QED
    BY <2>1, BeginLone
<1>2. CASE UNCHANGED vars
  <2>1. UNCHANGED <<final, tmp, bak, handle, call, promise>>
    BY <1>2 DEF vars, files, ghost
  <2>2. \A p \in Procs : (Busy(p)' <=> Busy(p)) /\ (Acting(p)' <=> Acting(p))
    BY <2>1 DEF Busy, Acting
  <2>3. Solo' /\ Opened'
    BY <2>1, <2>2 DEF LoneInv, Solo, Opened, At
  <2>4. Careful'
    BY <2>1, <2>2 DEF LoneInv, Careful
  <2> QED
    BY <2>3, <2>4 DEF LoneInv
<1>3. CASE Next
  BY <1>1, <1>3, StepLone DEF Next
<1> QED
  BY <1>2, <1>3

\* In the beginning nobody is at work.
LEMMA InitLone == Init => LoneInv
<1> SUFFICES ASSUME Init PROVE LoneInv
  OBVIOUS
<1>1. \A p \in Procs : call[p] = Idle /\ handle[p] = "none" /\ ~Busy(p)
  BY DEF Init, Idle, Busy
<1>2. Solo
  BY <1>1 DEF Solo
<1>4. Opened
  <2>1. Idle.at = "idle"
    BY DEF Idle
  <2>2. \A p \in Procs : ~At(p, "fill")
    BY <1>1, <2>1 DEF At
  <2> QED
    BY <1>1, <2>2 DEF Opened
<1>3. Careful
  BY <1>1, IdleGood DEF Init, Careful
<1> QED
  BY <1>2, <1>4, <1>3 DEF LoneInv

\* The two invariants together.
LEMMA LoneAlways == Spec => [](TypeInv /\ LoneInv)
<1>1. Init => TypeInv /\ LoneInv
  BY InitTypes, InitLone
<1>2. TypeInv /\ LoneInv /\ [Next]_vars => (TypeInv /\ LoneInv)'
  BY NextTypes, NextLone
<1> QED
  BY <1>1, <1>2, PTL DEF Spec

\* A call that nobody overlaps is as it should be.
LEMMA LoneFact ==
  ASSUME TypeInv, LoneInv, NEW p \in Procs, Busy(p), call[p].alone, ~call[p].aside
  PROVE  Good(call[p], final, tmp, bak, promise)
BY DEF LoneInv, Careful, Acting

\* A check that nobody overlaps offers no catalog that was installed, skipped
\* last, or turned off with the checks (DecisionsRespected).
THEOREM Respected == Spec => []DecisionsRespected
<1>1. TypeInv /\ LoneInv => DecisionsRespected
  <2> SUFFICES ASSUME TypeInv, LoneInv, NEW p \in Procs, At(p, "offer"), call[p].alone
               PROVE  /\ ~promise.disabled
                      /\ call[p].cat \notin {promise.skipped, promise.installed}
    BY DEF DecisionsRespected
  <2> DEFINE c == call[p]
             D == DecisionsIn(final["state"])
  <2>1. c.at = "offer" /\ c.op = "check" /\ ~c.aside /\ Busy(p)
    BY ThisCall DEF At, Busy, Shape
  <2>2. Good(c, final, tmp, bak, promise)
    BY <2>1, LoneFact
  <2>3. c.cat # None /\ ~Quiet(D, c.cat)
    BY <2>1, <2>2 DEF Good, Offering
  <2>4. Keeps(D, promise)
    <3>1. Was(c, final, bak, "state") = final["state"]
      BY <2>1 DEF Was, Midway
    <3> QED
      BY <2>2, <3>1 DEF Good, WasDecided
  <2> QED
    BY <2>3, <2>4 DEF Keeps, Quiet, Listed
<1> QED
  BY LoneAlways, <1>1, PTL

\* An adoption that nobody overlaps, and that could move the old files aside,
\* takes effect as a whole or not at all (AdoptionAtomic).
THEOREM Atomic == Spec => []AdoptionAtomic
<1>1. TypeInv /\ LoneInv => AdoptionAtomic
  <2> SUFFICES ASSUME TypeInv, LoneInv, NEW p \in Procs, At(p, "done"), call[p].alone,
                      ~call[p].aside
               PROVE  /\ call[p].op = "adopt" =>
                           /\ Active = call[p].cat
                           /\ Decisions = Changed(call[p].before[2], "adopt", call[p].cat)
                      /\ call[p].op = "note" => <<Active, Decisions>> = call[p].before
    BY DEF AdoptionAtomic
  <2> DEFINE c == call[p]
  <2>1. c.at = "done" /\ Busy(p)
    BY DEF At, Busy
  <2>2. Good(c, final, tmp, bak, promise)
    BY <2>1, LoneFact
  <2>3. CASE c.op = "adopt"
    <3>1. /\ final["json"] = c.cat /\ final["hash"] = c.cat /\ c.cat \in Catalogs
          /\ final["state"] = Changed(c.before[2], "adopt", c.cat) /\ final["state"] \in States
      BY <2>1, <2>2, <2>3, ThisCall DEF Good, Placed, Shape
    <3> QED
      BY <2>3, <3>1, StateAssumption DEF Active, Decisions
  <2>4. CASE c.op = "note"
    <3>1. \A f : Was(c, final, bak, f) = final[f]
      BY <2>1 DEF Was, Midway
    <3>2. WasDecided(c, final, bak) = Decisions
      BY <3>1 DEF WasDecided, DecisionsIn, Decisions
    <3>3. ActiveIn(final["json"], final["hash"]) = Active
      BY DEF ActiveIn, Active
    <3>4. c.before = <<Active, Decisions>>
      BY <2>2, <2>4, <3>1, <3>2, <3>3 DEF Good, Remembers
    <3> QED
      BY <2>4, <3>4
  <2> QED
    BY <2>3, <2>4
<1> QED
  BY LoneAlways, <1>1, PTL
=============================================================================
