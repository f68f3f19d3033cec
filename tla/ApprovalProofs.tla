--------------------------- MODULE ApprovalProofs ---------------------------
(***************************************************************************)
(* The properties of Approval, for any number of servers, approvals,       *)
(* patches and texts.  A decision is checked when a record is loaded and   *)
(* acted upon several file operations later; the invariant says what a     *)
(* server that holds a record may rely on.  Two different things protect   *)
(* it: nobody else runs (Undisturbed), which also fixes the graph, or      *)
(* nobody else holds the same approval (Ledger).                           *)
(***************************************************************************)
EXTENDS Approval, FiniteSetTheorems, TLAPS

Drafts == [status : {"Pending"}, ops : Ops]
Calls  == [at : Steps, id : Ids \cup {NoId}, rec : Records \cup Drafts \cup {NoRecord},
           read : Texts \cup {Torn}, alone : BOOLEAN]

ApplySteps == {"readMain", "hashApply", "writeMain", "saveApplied"}

\* Files, history and calls have their types.
FilesOK ==
    /\ main \in Texts \cup {Torn} /\ lib \in Texts \cup {Torn}
    /\ records \in [Ids -> Records \cup {NoRecord, TornRecord}]
    /\ decisions \in [Ids -> SUBSET {"Approved", "Rejected"}]
    /\ uses \in [Ids -> 0..MaxUses]
    /\ raced \subseteq Ids /\ died \subseteq Ids

\* What a call carries at each of its steps.
CallOK(s) ==
    /\ s \in Calls
    /\ s.at = "idle" => s = Idle
    /\ s.at \in {"hashRequest", "saveRequest"} => s.id = NoId
    /\ s.at = "hashRequest" =>
           s.rec \in Drafts /\ s.read \in Texts /\ Patched[s.rec.ops][s.read] \in Texts
    /\ s.at = "saveRequest" => s.rec \in Records /\ s.rec.status = "Pending"
    /\ s.at = "saveDecision" => s.id \in Ids /\ s.rec \in Records /\ s.rec.status = "Pending"
    /\ s.at \in ApplySteps => s.id \in Ids /\ s.rec \in Records /\ s.rec.status = "Approved"
    /\ s.at \in {"hashApply", "writeMain"} =>
           s.read \in Texts /\ Patched[s.rec.ops][s.read] \in Texts

CallsOK == /\ server \in [Servers -> Calls]
           /\ \A p \in Servers : CallOK(server[p])

\* A server that is alone is the only busy one, holds what is on disk, and has
\* seen the graph as it is.
Undisturbed ==
    \A p \in Servers :
        LET s == server[p] IN
        Busy(p) /\ s.alone =>
            /\ \A q \in Servers \ {p} : ~Busy(q)
            /\ s.id \in Ids => records[s.id] = s.rec
            /\ s.at \in {"hashApply", "writeMain"} => s.read = main
            /\ s.at = "writeMain" => /\ WorkspaceHash = s.rec.workspace
                                     /\ HashOf[Candidate(s)] = s.rec.candidate

\* An approval on disk or in a server's hands was given by a human, and one
\* marked Applied was used.
Given ==
    /\ \A i \in Ids :
        /\ records[i].status = "Approved" => "Approved" \in decisions[i]
        /\ records[i].status = "Applied" => uses[i] >= 1
    /\ \A p \in Servers :
        /\ server[p].at \in ApplySteps => "Approved" \in decisions[server[p].id]
        /\ server[p].at = "saveApplied" => uses[server[p].id] >= 1

\* The life of an approval that no two servers held at the same time.
Untouched(i) == decisions[i] = {} /\ uses[i] = 0

LedgerOf(i) ==
    /\ \A p, q \in Servers : server[p].id = i /\ server[q].id = i => p = q
    /\ decisions[i] \in {{}, {"Approved"}, {"Rejected"}}
    /\ decisions[i] # {"Approved"} => uses[i] = 0
    /\ i \notin died => uses[i] <= 1
    /\ records[i].status \in {"absent", "Pending"} => Untouched(i)
    /\ records[i].status = "absent" => \A p \in Servers : server[p].id # i
    /\ records[i].status = "Rejected" => decisions[i] = {"Rejected"}
    /\ records[i].status = "Approved" /\ i \notin died =>
           uses[i] = 0 \/ \E p \in Servers : server[p].id = i /\ server[p].at = "saveApplied"
    /\ \A p \in Servers :
        server[p].id = i =>
            /\ records[i] = server[p].rec
            /\ server[p].at # "saveApplied" /\ i \notin died => uses[i] = 0

Ledger == \A i \in Ids \ raced : LedgerOf(i)

IInv == FilesOK /\ CallsOK /\ Undisturbed /\ Given /\ Ledger

-----------------------------------------------------------------------------
(* Calls *)

\* A server at rest is well-formed and about no approval.
LEMMA IdleOK == CallOK(Idle) /\ Idle.at = "idle" /\ Idle.id \notin Ids
  BY IdAssumption DEF CallOK, Calls, Idle, Steps, ApplySteps, NoId

\* What Begin does to each server, and whom it calls raced.
LEMMA BeginIs ==
    ASSUME CallsOK, NEW p \in Servers, NEW s, CallOK(s), s.at # "idle", Begin(p, s)
    PROVE  /\ CallsOK'
           /\ ~Busy(p)
           /\ server'[p].at = s.at /\ server'[p].id = s.id
           /\ server'[p].rec = s.rec /\ server'[p].read = s.read
           /\ server'[p].alone => \A q \in Servers \ {p} : ~Busy(q)
           /\ \A q \in Servers \ {p} :
                 /\ server'[q].at = server[q].at /\ server'[q].id = server[q].id
                 /\ server'[q].rec = server[q].rec /\ server'[q].read = server[q].read
                 /\ Busy(q) => server'[q].alone = FALSE
           /\ \A i \in Ids \ raced' :
                 i \notin raced /\ (s.id = i => \A q \in Servers : server[q].id # i)
<1> DEFINE new == [s EXCEPT !.alone = \A r \in Servers \ {p} : ~Busy(r)]
<1> DEFINE other(q) == IF Busy(q) THEN [server[q] EXCEPT !.alone = FALSE] ELSE server[q]
<1>1. s \in Calls /\ \A q \in Servers : server[q] \in Calls /\ CallOK(server[q])
  BY DEF CallsOK, CallOK
<1>2. /\ new \in Calls /\ new.at = s.at /\ new.id = s.id
      /\ new.rec = s.rec /\ new.read = s.read
      /\ new.alone = \A r \in Servers \ {p} : ~Busy(r)
  BY <1>1 DEF Calls
<1>3. \A q \in Servers :
          /\ other(q) \in Calls /\ other(q).at = server[q].at /\ other(q).id = server[q].id
          /\ other(q).rec = server[q].rec /\ other(q).read = server[q].read
          /\ Busy(q) => other(q).alone = FALSE
          /\ ~Busy(q) => other(q) = server[q]
  BY <1>1 DEF Calls
<1>4. /\ ~Busy(p)
      /\ server' = [q \in Servers |-> IF q = p THEN new ELSE other(q)]
      /\ raced' = raced \cup {i \in Ids : i = s.id /\ \E q \in Servers : server[q].id = i}
  BY DEF Begin
<1> HIDE DEF new, other
<1>5. server'[p] = new /\ \A q \in Servers \ {p} : server'[q] = other(q)
  BY <1>4
<1>6. server' \in [Servers -> Calls]
  BY <1>2, <1>3, <1>4
<1>7. CallOK(new)
  BY <1>2 DEF CallOK
<1>8. ASSUME NEW q \in Servers PROVE CallOK(other(q))
  <2>1. CASE ~Busy(q)
    BY <1>1, <1>3, <2>1
  <2>2. CASE Busy(q)
    BY <1>1, <1>3, <2>2 DEF CallOK, Busy
  <2> QED
    BY <2>1, <2>2
<1>9. CallsOK'
  BY <1>5, <1>6, <1>7, <1>8 DEF CallsOK
<1> QED
  BY <1>2, <1>3, <1>4, <1>5, <1>9

\* A step of a busy server leaves the others as they are, and whoever was
\* alone still is.
LEMMA StepIs ==
    ASSUME CallsOK, Undisturbed, NEW p \in Servers, Busy(p),
           NEW c, CallOK(c), server' = [server EXCEPT ![p] = c],
           c.at # "idle" /\ c.alone =>
               /\ server[p].alone
               /\ c.id \in Ids => records'[c.id] = c.rec
               /\ c.at \in {"hashApply", "writeMain"} => c.read = main'
               /\ c.at = "writeMain" => /\ WorkspaceHash' = c.rec.workspace
                                        /\ HashOf[Patched[c.rec.ops][c.read]] = c.rec.candidate
    PROVE  /\ CallsOK' /\ Undisturbed'
           /\ server'[p] = c
           /\ \A q \in Servers \ {p} : server'[q] = server[q]
<1>1. server'[p] = c /\ \A q \in Servers \ {p} : server'[q] = server[q]
  BY DEF CallsOK
<1>2. CallsOK'
  BY <1>1 DEF CallsOK, CallOK
<1>3. ASSUME NEW q \in Servers, server'[q].at # "idle", server'[q].alone
      PROVE  /\ q = p
             /\ \A r \in Servers \ {p} : server'[r].at = "idle"
  BY <1>1, <1>3 DEF Undisturbed, Busy
<1>4. Undisturbed'
  BY <1>1, <1>3 DEF Undisturbed, Busy, Candidate
<1> QED
  BY <1>1, <1>2, <1>4

-----------------------------------------------------------------------------
(* The invariant holds initially and is kept by every step *)

\* Nothing is requested, held or decided.
LEMMA Initial == Init => IInv
<1> SUFFICES ASSUME Init PROVE IInv
  OBVIOUS
<1>1. FilesOK
  BY UsesAssumption DEF Init, FilesOK
<1>2. CallsOK
  BY IdleOK DEF Init, CallsOK, CallOK
<1>3. \A p \in Servers : server[p].at = "idle" /\ server[p].id \notin Ids
  BY IdleOK DEF Init
<1>4. Undisturbed
  BY <1>3 DEF Undisturbed, Busy
<1>5. Given
  BY <1>3 DEF Init, Given, ApplySteps, NoRecord
<1>6. Ledger
  BY <1>3 DEF Init, Ledger, LedgerOf, Untouched, NoRecord
<1> QED
  BY <1>1, <1>2, <1>4, <1>5, <1>6 DEF IInv

\* A call that begins holds what is on disk, and nobody else is alone then.
LEMMA BeginKeeps ==
    ASSUME IInv, NEW p \in Servers, NEW s, CallOK(s), Begin(p, s),
           s.at \in {"hashRequest", "readMain", "saveDecision"},
           s.id \in Ids => records[s.id] = s.rec,
           UNCHANGED <<graph, records, decisions, uses, died>>
    PROVE  IInv'
<1>1. FilesOK /\ CallsOK /\ Undisturbed /\ Given /\ Ledger
  BY DEF IInv
<1>2. /\ main' = main /\ lib' = lib /\ records' = records
      /\ decisions' = decisions /\ uses' = uses /\ died' = died
  BY DEF graph
<1>3. /\ CallsOK'
      /\ ~Busy(p)
      /\ server'[p].at = s.at /\ server'[p].id = s.id
      /\ server'[p].rec = s.rec
      /\ server'[p].alone => \A q \in Servers \ {p} : ~Busy(q)
      /\ \A q \in Servers \ {p} :
            /\ server'[q].at = server[q].at /\ server'[q].id = server[q].id
            /\ server'[q].rec = server[q].rec
            /\ Busy(q) => server'[q].alone = FALSE
      /\ \A i \in Ids \ raced' :
            i \notin raced /\ (s.id = i => \A q \in Servers : server[q].id # i)
  <2>1. s.at # "idle"
    OBVIOUS
  <2> QED
    BY <1>1, <2>1, BeginIs
<1>4. FilesOK'
  <2>1. raced' \subseteq Ids
    BY <1>1 DEF Begin, FilesOK
  <2> QED
    BY <1>1, <1>2, <2>1 DEF FilesOK
<1>5. Undisturbed'
  <2>1. ASSUME NEW q \in Servers, server'[q].at # "idle", server'[q].alone
        PROVE  q = p /\ \A r \in Servers \ {p} : server'[r].at = "idle"
    BY <1>3, <2>1 DEF Busy
  <2> QED
    BY <1>2, <1>3, <2>1 DEF Undisturbed, Busy
<1>6. s.at = "readMain" => s.id \in Ids /\ s.rec.status = "Approved"
  BY DEF CallOK, ApplySteps
<1>7. Given'
  <2>1. \A q \in Servers : server'[q].at \in ApplySteps =>
            "Approved" \in decisions[server'[q].id]
    BY <1>1, <1>3, <1>6 DEF Given, ApplySteps
  <2>2. \A q \in Servers : server'[q].at = "saveApplied" => uses[server'[q].id] >= 1
    BY <1>1, <1>3 DEF Given
  <2> QED
    BY <1>1, <1>2, <2>1, <2>2 DEF Given
<1>8. ASSUME NEW i \in Ids \ raced' PROVE LedgerOf(i)'
  <2>1. LedgerOf(i) /\ (s.id = i => \A q \in Servers : server[q].id # i)
    BY <1>1, <1>3 DEF Ledger
  <2>2. server[p].id # i
    BY <1>1, <1>3, IdleOK DEF CallsOK, CallOK, Busy
  <2>3. \A q \in Servers : server[q].id = i =>
            q # p /\ server'[q].at = server[q].at /\ server'[q].id = i
    BY <1>3, <2>2
  <2>4. \A q, r \in Servers : server'[q].id = i /\ server'[r].id = i => q = r
    BY <1>3, <2>1 DEF LedgerOf
  <2>5. records[i].status = "Approved" /\ i \notin died =>
            uses[i] = 0 \/ \E q \in Servers : server'[q].id = i /\ server'[q].at = "saveApplied"
    BY <2>1, <2>3 DEF LedgerOf
  <2>6. s.id = i => /\ records[i] = s.rec /\ records[i].status \in {"Pending", "Approved"}
                    /\ i \notin died => uses[i] = 0
    <3>1. s.id = i => records[i] = s.rec /\ records[i].status \in {"Pending", "Approved"}
      BY IdAssumption DEF CallOK, ApplySteps
    <3>2. /\ records[i].status = "Pending" => uses[i] = 0
          /\ records[i].status = "Approved" /\ i \notin died =>
                uses[i] = 0 \/ \E q \in Servers : server[q].id = i
      BY <2>1 DEF LedgerOf, Untouched
    <3> QED
      BY <2>1, <3>1, <3>2
  <2>7. ASSUME NEW q \in Servers, server'[q].id = i
        PROVE  /\ records[i] = server'[q].rec
               /\ server'[q].at # "saveApplied" /\ i \notin died => uses[i] = 0
    BY <1>3, <2>1, <2>6, <2>7 DEF LedgerOf
  <2>8. records[i].status = "absent" => \A q \in Servers : server'[q].id # i
    BY <1>3, <2>1, <2>6 DEF LedgerOf
  <2> QED
    BY <1>2, <2>1, <2>4, <2>5, <2>7, <2>8 DEF LedgerOf, Untouched
<1> QED
  BY <1>1, <1>3, <1>4, <1>5, <1>7, <1>8 DEF IInv, Ledger

\* An approval whose record, decisions and uses stay keeps its ledger, when
\* nobody takes it up and whoever has written main under it is still there or
\* dead.
LEMMA LedgerFrame ==
    ASSUME NEW i \in Ids, LedgerOf(i),
           records'[i] = records[i], decisions'[i] = decisions[i], uses'[i] = uses[i],
           i \notin died' => i \notin died,
           \A q \in Servers : server'[q].id = i =>
               /\ server[q].id = i /\ server'[q].rec = server[q].rec
               /\ server'[q].at # "saveApplied" => server[q].at # "saveApplied",
           \A q \in Servers :
               server[q].id = i /\ server[q].at = "saveApplied" /\ i \notin died' =>
                   server'[q].id = i /\ server'[q].at = "saveApplied"
    PROVE  LedgerOf(i)'
<1>1. \A q, r \in Servers : server'[q].id = i /\ server'[r].id = i => q = r
  BY DEF LedgerOf
<1>2. records[i].status = "Approved" /\ i \notin died' =>
          uses[i] = 0 \/ \E q \in Servers : server'[q].id = i /\ server'[q].at = "saveApplied"
  BY DEF LedgerOf
<1>3. ASSUME NEW q \in Servers, server'[q].id = i
      PROVE  /\ records[i] = server'[q].rec
             /\ server'[q].at # "saveApplied" /\ i \notin died' => uses[i] = 0
  BY <1>3 DEF LedgerOf
<1>4. records[i].status = "absent" => \A q \in Servers : server'[q].id # i
  BY DEF LedgerOf
<1> QED
  BY <1>1, <1>2, <1>3, <1>4 DEF LedgerOf, Untouched

\* A step that writes no file: the call goes on with the approval it has, or
\* ends.
LEMMA QuietKeeps ==
    ASSUME IInv, NEW p \in Servers,
           server[p].at \in {"hashRequest", "readMain", "hashApply"},
           NEW c, CallOK(c), server' = [server EXCEPT ![p] = c],
           \/ c = Idle
           \/ /\ c.at \notin {"idle", "saveApplied"}
              /\ c.id = server[p].id /\ c.alone = server[p].alone
              /\ c.id \in Ids => c.rec = server[p].rec
              /\ c.at \in ApplySteps => server[p].at \in ApplySteps
              /\ c.at \in {"hashApply", "writeMain"} /\ c.alone => c.read = main
              /\ c.at = "writeMain" /\ c.alone =>
                     /\ WorkspaceHash = c.rec.workspace
                     /\ HashOf[Patched[c.rec.ops][c.read]] = c.rec.candidate,
           UNCHANGED <<graph, records, ghost>>
    PROVE  IInv'
<1>1. FilesOK /\ CallsOK /\ Undisturbed /\ Given /\ Ledger
  BY DEF IInv
<1>2. /\ main' = main /\ lib' = lib /\ records' = records /\ WorkspaceHash' = WorkspaceHash
      /\ decisions' = decisions /\ uses' = uses /\ died' = died /\ raced' = raced
  BY DEF graph, ghost, WorkspaceHash
<1>3. Busy(p) /\ server[p].at # "saveApplied"
  BY DEF Busy
<1>4. c.at # "idle" /\ c.alone =>
          /\ server[p].alone
          /\ c.id \in Ids => records'[c.id] = c.rec
          /\ c.at \in {"hashApply", "writeMain"} => c.read = main'
          /\ c.at = "writeMain" => /\ WorkspaceHash' = c.rec.workspace
                                   /\ HashOf[Patched[c.rec.ops][c.read]] = c.rec.candidate
  BY <1>1, <1>2, <1>3, IdleOK DEF Undisturbed
<1>5. /\ CallsOK' /\ Undisturbed'
      /\ server'[p] = c
      /\ \A q \in Servers \ {p} : server'[q] = server[q]
  BY <1>1, <1>3, <1>4, StepIs
<1>6. FilesOK'
  BY <1>1, <1>2 DEF FilesOK
<1>7. Given'
  BY <1>1, <1>2, <1>5, IdleOK DEF Given, ApplySteps
<1>8. ASSUME NEW i \in Ids \ raced PROVE LedgerOf(i)'
  <2>1. \A q \in Servers : server'[q].id = i =>
            /\ server[q].id = i /\ server'[q].rec = server[q].rec
            /\ server'[q].at # "saveApplied" => server[q].at # "saveApplied"
    BY <1>3, <1>5, IdleOK
  <2>2. \A q \in Servers : server[q].at = "saveApplied" => server'[q] = server[q]
    BY <1>3, <1>5
  <2> QED
    BY <1>1, <1>2, <2>1, <2>2, LedgerFrame DEF Ledger
<1> QED
  BY <1>2, <1>5, <1>6, <1>7, <1>8 DEF IInv, Ledger

\* The patch of a request applies to main as it is read.
LEMMA RequestReadKeeps == ASSUME IInv, NEW p \in Servers, RequestRead(p) PROVE IInv'
<1>1. PICK o \in Ops :
         /\ main \in Texts /\ Patched[o][main] # Invalid
         /\ Begin(p, [Idle EXCEPT !.at = "hashRequest", !.read = main,
                                  !.rec = [status |-> "Pending", ops |-> o]])
         /\ UNCHANGED <<graph, records, decisions, uses, died>>
  BY DEF RequestRead, IInv, FilesOK
<1> DEFINE s == [Idle EXCEPT !.at = "hashRequest", !.read = main,
                             !.rec = [status |-> "Pending", ops |-> o]]
<1> DEFINE r == [status |-> "Pending", ops |-> o]
<1>2. r \in Drafts /\ r.ops = o
  BY DEF Drafts
<1>3. Idle \in Calls /\ Idle.id = NoId
  BY IdleOK DEF CallOK, Idle
<1>4. Patched[o][main] \in Texts
  BY <1>1, PatchAssumption
<1> HIDE DEF r
<1>5. /\ s \in Calls
      /\ s.at = "hashRequest" /\ s.id = NoId /\ s.read = main /\ s.rec = r
  <2>1. s = [Idle EXCEPT !.at = "hashRequest", !.read = main, !.rec = r]
    BY DEF r
  <2> HIDE DEF s
  <2> QED
    BY <1>1, <1>2, <1>3, <2>1 DEF Calls, Steps
<1> HIDE DEF s
<1>6. CallOK(s)
  BY <1>1, <1>2, <1>4, <1>5 DEF CallOK, ApplySteps
<1> QED
  BY <1>1, <1>5, <1>6, IdAssumption, BeginKeeps DEF s

\* A record is loaded while it is Pending.
LEMMA DecideKeeps ==
    ASSUME IInv, NEW p \in Servers, NEW i \in Ids, Decide(p, i) PROVE IInv'
<1> DEFINE s == [Idle EXCEPT !.at = "saveDecision", !.id = i, !.rec = records[i]]
<1>1. Idle \in Calls
  BY IdleOK DEF CallOK
<1>2. records[i] \in Records /\ records[i].status = "Pending"
  BY DEF Decide, Undecided, IInv, FilesOK, NoRecord, TornRecord
<1>3. Begin(p, s) /\ UNCHANGED <<graph, records, decisions, uses, died>>
  BY DEF Decide
<1>4. s \in Calls /\ s.at = "saveDecision" /\ s.id = i /\ s.rec = records[i]
  BY <1>1, <1>2 DEF Calls, Steps
<1> HIDE DEF s
<1>5. CallOK(s)
  BY <1>2, <1>4 DEF CallOK, ApplySteps
<1> QED
  BY <1>3, <1>4, <1>5, BeginKeeps

\* A record is loaded while it is Approved.
LEMMA ApplyKeeps ==
    ASSUME IInv, NEW p \in Servers, NEW i \in Ids, Apply(p, i) PROVE IInv'
<1> DEFINE s == [Idle EXCEPT !.at = "readMain", !.id = i, !.rec = records[i]]
<1>1. Idle \in Calls
  BY IdleOK DEF CallOK
<1>2. records[i] \in Records /\ records[i].status = "Approved"
  BY DEF Apply, IInv, FilesOK, NoRecord, TornRecord
<1>3. Begin(p, s) /\ UNCHANGED <<graph, records, decisions, uses, died>>
  BY DEF Apply
<1>4. s \in Calls /\ s.at = "readMain" /\ s.id = i /\ s.rec = records[i]
  BY <1>1, <1>2 DEF Calls, Steps
<1> HIDE DEF s
<1>5. CallOK(s)
  BY <1>2, <1>4 DEF CallOK, ApplySteps
<1> QED
  BY <1>3, <1>4, <1>5, BeginKeeps

\* The request binds the record to the two hashes.
LEMMA RequestHashKeeps == ASSUME IInv, NEW p \in Servers, RequestHash(p) PROVE IInv'
<1> DEFINE s == server[p]
<1>1. /\ s \in Calls /\ CallOK(s) /\ s.at = "hashRequest"
      /\ UNCHANGED <<graph, records, ghost>>
  BY DEF RequestHash, At, IInv, CallsOK
<1>2. CASE server' = [server EXCEPT ![p] = Idle]
  BY <1>1, <1>2, IdleOK, QuietKeeps
<1>3. CASE /\ Readable
           /\ server' = [server EXCEPT ![p] =
                  [s EXCEPT !.at = "saveRequest",
                            !.rec = Record(@.ops, HashOf[Candidate(s)], WorkspaceHash)]]
  <2> DEFINE r == Record(s.rec.ops, HashOf[Candidate(s)], WorkspaceHash)
  <2> DEFINE c == [s EXCEPT !.at = "saveRequest", !.rec = r]
  <2>1. main \in Texts /\ lib \in Texts
    BY <1>3 DEF Readable, IInv, FilesOK
  <2>2. s.id = NoId /\ s.rec.ops \in Ops /\ Candidate(s) \in Texts
    BY <1>1 DEF CallOK, Drafts, Candidate
  <2>3. r \in Records /\ r.status = "Pending"
    BY <2>1, <2>2 DEF Record, Records, Statuses, WorkspaceHash, Hashes
  <2> HIDE DEF r
  <2>4. /\ c \in Calls /\ c.at = "saveRequest" /\ c.id = NoId /\ c.rec = r
        /\ c.alone = s.alone
    BY <1>1, <2>2, <2>3 DEF Calls, Steps
  <2>5. server' = [server EXCEPT ![p] = c]
    BY <1>3 DEF r
  <2> HIDE DEF c
  <2>6. CallOK(c)
    BY <2>3, <2>4 DEF CallOK, ApplySteps
  <2> QED
    BY <1>1, <2>2, <2>4, <2>5, <2>6, IdAssumption, QuietKeeps DEF ApplySteps
<1> QED
  BY <1>2, <1>3 DEF RequestHash, Return

\* The approved patch applies to main as it is read.
LEMMA ApplyReadKeeps == ASSUME IInv, NEW p \in Servers, ApplyRead(p) PROVE IInv'
<1> DEFINE s == server[p]
<1>1. /\ s \in Calls /\ CallOK(s) /\ s.at = "readMain"
      /\ UNCHANGED <<graph, records, ghost>>
  BY DEF ApplyRead, At, IInv, CallsOK
<1>2. CASE server' = [server EXCEPT ![p] = Idle]
  BY <1>1, <1>2, IdleOK, QuietKeeps
<1>3. CASE /\ main # Torn /\ Patched[s.rec.ops][main] # Invalid
           /\ server' = [server EXCEPT ![p].at = "hashApply", ![p].read = main]
  <2> DEFINE c == [s EXCEPT !.at = "hashApply", !.read = main]
  <2>1. s.id \in Ids /\ s.rec \in Records /\ s.rec.status = "Approved" /\ s.rec.ops \in Ops
    BY <1>1 DEF CallOK, ApplySteps, Records
  <2>2. main \in Texts /\ Patched[s.rec.ops][main] \in Texts
    BY <1>3, <2>1, PatchAssumption DEF IInv, FilesOK
  <2>3. /\ c \in Calls /\ c.at = "hashApply" /\ c.id = s.id /\ c.rec = s.rec
        /\ c.read = main /\ c.alone = s.alone
    BY <1>1, <2>2 DEF Calls, Steps
  <2>4. server' = [server EXCEPT ![p] = c]
    BY <1>1, <1>3 DEF IInv, CallsOK
  <2> HIDE DEF c
  <2>5. CallOK(c)
    BY <2>1, <2>2, <2>3 DEF CallOK, ApplySteps
  <2> QED
    BY <1>1, <2>3, <2>4, <2>5, QuietKeeps DEF ApplySteps
<1> QED
  BY <1>2, <1>3 DEF ApplyRead, Return

\* The checks pass on the graph as it is.
LEMMA ApplyHashKeeps == ASSUME IInv, NEW p \in Servers, ApplyHash(p) PROVE IInv'
<1> DEFINE s == server[p]
<1>1. /\ s \in Calls /\ CallOK(s) /\ s.at = "hashApply"
      /\ UNCHANGED <<graph, records, ghost>>
  BY DEF ApplyHash, At, IInv, CallsOK
<1>2. CASE server' = [server EXCEPT ![p] = Idle]
  BY <1>1, <1>2, IdleOK, QuietKeeps
<1>3. CASE /\ Current(s)
           /\ server' = [server EXCEPT ![p].at = "writeMain"]
  <2> DEFINE c == [s EXCEPT !.at = "writeMain"]
  <2>1. /\ c \in Calls /\ c.at = "writeMain" /\ c.id = s.id /\ c.rec = s.rec
        /\ c.read = s.read /\ c.alone = s.alone
    BY <1>1 DEF Calls, Steps
  <2>2. server' = [server EXCEPT ![p] = c]
    BY <1>1, <1>3 DEF IInv, CallsOK
  <2> HIDE DEF c
  <2>3. CallOK(c)
    BY <1>1, <2>1 DEF CallOK, ApplySteps
  <2>4. /\ WorkspaceHash = c.rec.workspace
        /\ HashOf[Patched[c.rec.ops][c.read]] = c.rec.candidate
    BY <1>3, <2>1 DEF Current, Candidate
  <2>5. c.alone => c.read = main
    BY <1>1, <2>1 DEF Undisturbed, Busy, IInv
  <2> QED
    BY <1>1, <2>1, <2>2, <2>3, <2>4, <2>5, QuietKeeps DEF ApplySteps
<1> QED
  BY <1>2, <1>3 DEF ApplyHash, Return, Goto

\* What a call that ends leaves behind.
LEMMA ReturnIs ==
    ASSUME IInv, NEW p \in Servers, Busy(p), Return(p)
    PROVE  /\ CallsOK' /\ Undisturbed'
           /\ server'[p] = Idle
           /\ \A q \in Servers \ {p} : server'[q] = server[q]
  BY IdleOK, StepIs DEF Return, IInv

\* A request saves a record no file of the ledger has yet.
LEMMA SaveRequestKeeps == ASSUME IInv, NEW p \in Servers, SaveRequest(p) PROVE IInv'
<1>1. FilesOK /\ CallsOK /\ Undisturbed /\ Given /\ Ledger
  BY DEF IInv
<1>2. /\ main' = main /\ lib' = lib
      /\ decisions' = decisions /\ uses' = uses /\ died' = died /\ raced' = raced
  BY DEF SaveRequest, graph, ghost
<1>3. PICK n \in Ids :
         records[n] = NoRecord /\ records' = [records EXCEPT ![n] = server[p].rec]
  BY DEF SaveRequest
<1>4. /\ server[p].id = NoId /\ server[p].rec \in Records /\ server[p].rec.status = "Pending"
      /\ server[p].at = "saveRequest" /\ Busy(p)
  BY <1>1 DEF SaveRequest, At, CallsOK, CallOK, Busy
<1>5. /\ CallsOK' /\ Undisturbed'
      /\ server'[p] = Idle
      /\ \A q \in Servers \ {p} : server'[q] = server[q]
  BY <1>4, ReturnIs DEF SaveRequest
<1>6. /\ records'[n] = server[p].rec
      /\ \A i \in Ids \ {n} : records'[i] = records[i]
  BY <1>1, <1>3 DEF FilesOK
<1>7. FilesOK'
  BY <1>1, <1>2, <1>3, <1>4 DEF FilesOK
<1>8. Given'
  BY <1>1, <1>2, <1>4, <1>5, <1>6, IdleOK DEF Given, ApplySteps
<1>9. ASSUME NEW i \in Ids \ raced PROVE LedgerOf(i)'
  <2>1. LedgerOf(i)
    BY <1>1 DEF Ledger
  <2>2. CASE i # n
    BY <1>2, <1>4, <1>5, <1>6, <2>1, <2>2, IdleOK, LedgerFrame
  <2>3. CASE i = n
    <3>1. Untouched(i) /\ \A q \in Servers : server[q].id # i
      BY <1>3, <2>1, <2>3 DEF LedgerOf, NoRecord
    <3>2. \A q \in Servers : server'[q].id # i
      BY <1>5, <3>1, IdleOK
    <3> QED
      BY <1>2, <1>4, <1>6, <2>3, <3>1, <3>2 DEF LedgerOf, Untouched
  <2> QED
    BY <2>2, <2>3
<1> QED
  BY <1>2, <1>5, <1>7, <1>8, <1>9 DEF IInv, Ledger

\* A decision is saved over the record that was Pending when it was loaded.
LEMMA SaveDecisionKeeps == ASSUME IInv, NEW p \in Servers, SaveDecision(p) PROVE IInv'
<1> DEFINE n == server[p].id
<1>1. FilesOK /\ CallsOK /\ Undisturbed /\ Given /\ Ledger
  BY DEF IInv
<1>2. /\ main' = main /\ lib' = lib
      /\ uses' = uses /\ died' = died /\ raced' = raced
  BY DEF SaveDecision, graph
<1>3. PICK d \in {"Approved", "Rejected"} :
         /\ records' = [records EXCEPT ![n] = [server[p].rec EXCEPT !.status = d]]
         /\ decisions' = [decisions EXCEPT ![n] = @ \cup {d}]
  BY DEF SaveDecision
<1>4. /\ n \in Ids /\ server[p].rec \in Records /\ server[p].rec.status = "Pending"
      /\ server[p].at = "saveDecision" /\ Busy(p)
  BY <1>1 DEF SaveDecision, At, CallsOK, CallOK, Busy
<1>5. /\ CallsOK' /\ Undisturbed'
      /\ server'[p] = Idle
      /\ \A q \in Servers \ {p} : server'[q] = server[q]
  BY <1>4, ReturnIs DEF SaveDecision
<1>6. [server[p].rec EXCEPT !.status = d] \in Records
  BY <1>4 DEF Records, Statuses
<1>7. /\ records'[n].status = d /\ decisions'[n] = decisions[n] \cup {d}
      /\ \A i \in Ids \ {n} : records'[i] = records[i] /\ decisions'[i] = decisions[i]
  BY <1>1, <1>3, <1>4 DEF FilesOK, Records
<1>8. FilesOK'
  BY <1>1, <1>2, <1>3, <1>4, <1>6 DEF FilesOK
<1>9. Given'
  <2>1. \A i \in Ids : decisions[i] \subseteq decisions'[i]
    BY <1>7
  <2>2. \A i \in Ids : /\ records'[i].status = "Approved" => "Approved" \in decisions'[i]
                       /\ records'[i].status = "Applied" => uses[i] >= 1
    BY <1>1, <1>7 DEF Given
  <2>3. \A q \in Servers : server'[q].at \in ApplySteps =>
            q # p /\ server'[q] = server[q] /\ server[q].id \in Ids
    BY <1>1, <1>5, IdleOK DEF CallsOK, CallOK, ApplySteps
  <2> QED
    BY <1>1, <1>2, <2>1, <2>2, <2>3 DEF Given, ApplySteps
<1>10. ASSUME NEW i \in Ids \ raced PROVE LedgerOf(i)'
  <2>1. LedgerOf(i)
    BY <1>1 DEF Ledger
  <2>2. CASE i # n
    BY <1>2, <1>4, <1>5, <1>7, <2>1, <2>2, IdleOK, LedgerFrame
  <2>3. CASE i = n
    <3>1. Untouched(i) /\ \A q \in Servers : server[q].id = i => q = p
      BY <1>4, <2>1, <2>3 DEF LedgerOf
    <3>2. \A q \in Servers : server'[q].id # i
      BY <1>5, <3>1, IdleOK
    <3>3. decisions'[i] = {d} /\ uses'[i] = 0
      BY <1>2, <1>7, <2>3, <3>1 DEF Untouched
    <3> QED
      BY <1>7, <2>3, <3>2, <3>3 DEF LedgerOf, Untouched
  <2> QED
    BY <2>2, <2>3
<1> QED
  BY <1>2, <1>5, <1>8, <1>9, <1>10 DEF IInv, Ledger

\* Main is written under an approval that was not used before.
LEMMA WriteMainKeeps == ASSUME IInv, NEW p \in Servers, WriteMain(p) PROVE IInv'
<1> DEFINE s == server[p]
           n == s.id
           c == [s EXCEPT !.at = "saveApplied"]
<1>1. FilesOK /\ CallsOK /\ Undisturbed /\ Given /\ Ledger
  BY DEF IInv
<1>2. /\ main' = Candidate(s) /\ lib' = lib /\ records' = records
      /\ decisions' = decisions /\ died' = died /\ raced' = raced
      /\ uses[n] < MaxUses /\ uses' = [uses EXCEPT ![n] = @ + 1]
  BY DEF WriteMain
<1>3. /\ n \in Ids /\ s.rec \in Records /\ s.rec.status = "Approved"
      /\ Candidate(s) \in Texts
      /\ s \in Calls /\ s.at = "writeMain" /\ Busy(p)
  BY <1>1 DEF WriteMain, At, CallsOK, CallOK, Busy, ApplySteps, Candidate
<1>4. /\ c \in Calls /\ c.at = "saveApplied" /\ c.id = n /\ c.rec = s.rec
      /\ c.alone = s.alone
  BY <1>3 DEF Calls, Steps
<1>5. server' = [server EXCEPT ![p] = c]
  BY <1>1 DEF WriteMain, Goto, CallsOK
<1> HIDE DEF c
<1>6. CallOK(c)
  BY <1>3, <1>4 DEF CallOK, ApplySteps
<1>7. /\ CallsOK' /\ Undisturbed'
      /\ server'[p] = c
      /\ \A q \in Servers \ {p} : server'[q] = server[q]
  <2>1. c.alone => s.alone /\ records'[n] = s.rec
    BY <1>1, <1>2, <1>3, <1>4 DEF Undisturbed
  <2> QED
    BY <1>1, <1>3, <1>4, <1>5, <1>6, <2>1, StepIs
<1>8. /\ uses[n] \in Nat /\ uses'[n] = uses[n] + 1 /\ uses'[n] \in 0..MaxUses
      /\ \A i \in Ids \ {n} : uses'[i] = uses[i]
  BY <1>1, <1>2, <1>3, UsesAssumption DEF FilesOK
<1>9. FilesOK'
  BY <1>1, <1>2, <1>3, <1>8 DEF FilesOK
<1>10. Given'
  <2>1. \A i \in Ids : uses[i] \in Nat /\ uses'[i] \in Nat /\ uses'[i] >= uses[i]
    BY <1>1, <1>8, UsesAssumption DEF FilesOK
  <2>2. \A i \in Ids : /\ records[i].status = "Approved" => "Approved" \in decisions[i]
                       /\ records[i].status = "Applied" => uses'[i] >= 1
    BY <1>1, <2>1 DEF Given
  <2>3. \A q \in Servers : server'[q].at \in ApplySteps =>
            "Approved" \in decisions[server'[q].id]
    BY <1>1, <1>3, <1>4, <1>7 DEF Given, ApplySteps
  <2>4. \A q \in Servers \ {p} : server'[q].at = "saveApplied" =>
            server[q].id \in Ids /\ uses[server[q].id] >= 1
    BY <1>1, <1>7 DEF Given, CallsOK, CallOK, ApplySteps
  <2>5. \A q \in Servers : server'[q].at = "saveApplied" => uses'[server'[q].id] >= 1
    BY <1>4, <1>7, <1>8, <1>3, <2>1, <2>4
  <2> QED
    BY <1>2, <2>2, <2>3, <2>5 DEF Given
<1>11. ASSUME NEW i \in Ids \ raced PROVE LedgerOf(i)'
  <2>1. LedgerOf(i)
    BY <1>1 DEF Ledger
  <2>2. CASE i # n
    BY <1>2, <1>3, <1>4, <1>7, <1>8, <2>1, <2>2, LedgerFrame
  <2>3. CASE i = n
    <3>1. /\ records[i] = s.rec /\ decisions[i] = {"Approved"}
          /\ i \notin died => uses[i] = 0
      BY <1>1, <1>3, <2>1, <2>3 DEF LedgerOf, Given, ApplySteps
    <3>2. i \notin died => uses'[i] = 1
      BY <1>8, <2>3, <3>1
    <3>3. \A q, r \in Servers : server'[q].id = i /\ server'[r].id = i => q = r
      BY <1>4, <1>7, <2>1, <2>3 DEF LedgerOf
    <3>4. \A q \in Servers : server'[q].id = i => server'[q] = c
      BY <1>4, <1>7, <2>1, <2>3 DEF LedgerOf
    <3> QED
      BY <1>2, <1>3, <1>4, <1>7, <2>3, <3>1, <3>2, <3>3, <3>4 DEF LedgerOf, Untouched
  <2> QED
    BY <2>2, <2>3
<1> QED
  BY <1>2, <1>7, <1>9, <1>10, <1>11 DEF IInv, Ledger

\* A record is marked Applied by the server that used it.
LEMMA SaveAppliedKeeps == ASSUME IInv, NEW p \in Servers, SaveApplied(p) PROVE IInv'
<1> DEFINE n == server[p].id
<1>1. FilesOK /\ CallsOK /\ Undisturbed /\ Given /\ Ledger
  BY DEF IInv
<1>2. /\ main' = main /\ lib' = lib
      /\ decisions' = decisions /\ uses' = uses /\ died' = died /\ raced' = raced
      /\ records' = [records EXCEPT ![n] = [server[p].rec EXCEPT !.status = "Applied"]]
  BY DEF SaveApplied, MarkApplied, graph, ghost
<1>3. /\ n \in Ids /\ server[p].rec \in Records /\ server[p].rec.status = "Approved"
      /\ server[p].at = "saveApplied" /\ Busy(p)
  BY <1>1 DEF SaveApplied, At, CallsOK, CallOK, Busy, ApplySteps
<1>4. /\ CallsOK' /\ Undisturbed'
      /\ server'[p] = Idle
      /\ \A q \in Servers \ {p} : server'[q] = server[q]
  BY <1>3, ReturnIs DEF SaveApplied
<1>5. [server[p].rec EXCEPT !.status = "Applied"] \in Records
  BY <1>3 DEF Records, Statuses
<1>6. /\ records'[n].status = "Applied"
      /\ \A i \in Ids \ {n} : records'[i] = records[i]
  BY <1>1, <1>2, <1>3 DEF FilesOK, Records
<1>7. FilesOK'
  BY <1>1, <1>2, <1>3, <1>5 DEF FilesOK
<1>8. Given'
  <2>1. uses[n] >= 1
    BY <1>1, <1>3 DEF Given
  <2>2. \A i \in Ids : /\ records'[i].status = "Approved" => "Approved" \in decisions[i]
                       /\ records'[i].status = "Applied" => uses[i] >= 1
    BY <1>1, <1>6, <2>1 DEF Given
  <2>3. \A q \in Servers : server'[q].at \in ApplySteps => server'[q] = server[q]
    BY <1>4, IdleOK DEF ApplySteps
  <2> QED
    BY <1>1, <1>2, <2>2, <2>3 DEF Given, ApplySteps
<1>9. ASSUME NEW i \in Ids \ raced PROVE LedgerOf(i)'
  <2>1. LedgerOf(i)
    BY <1>1 DEF Ledger
  <2>2. CASE i # n
    BY <1>2, <1>3, <1>4, <1>6, <2>1, <2>2, IdleOK, LedgerFrame
  <2>3. CASE i = n
    <3>1. records[i].status = "Approved" /\ \A q \in Servers : server[q].id = i => q = p
      BY <1>3, <2>1, <2>3 DEF LedgerOf
    <3>2. \A q \in Servers : server'[q].id # i
      BY <1>4, <3>1, IdleOK
    <3> QED
      BY <1>2, <1>6, <2>1, <2>3, <3>1, <3>2 DEF LedgerOf, Untouched
  <2> QED
    BY <2>2, <2>3
<1> QED
  BY <1>2, <1>4, <1>7, <1>8, <1>9 DEF IInv, Ledger

\* A call that dies may tear the file it was writing; one that dies before its
\* last write leaves an Approved record of a used approval.
LEMMA DieKeeps == ASSUME IInv, NEW p \in Servers, Die(p) PROVE IInv'
<1> DEFINE s == server[p]
<1>1. FilesOK /\ CallsOK /\ Undisturbed /\ Given /\ Ledger
  BY DEF IInv
<1>2. /\ lib' = lib /\ decisions' = decisions /\ uses' = uses /\ raced' = raced
      /\ died' = died \cup {i \in Ids : s.at = "saveApplied" /\ i = s.id}
      /\ Busy(p)
  BY DEF Die
<1>3. /\ CallsOK' /\ Undisturbed'
      /\ server'[p] = Idle
      /\ \A q \in Servers \ {p} : server'[q] = server[q]
  BY <1>2, ReturnIs DEF Die
<1>4. main' \in Texts \cup {Torn}
  BY <1>1 DEF Die, FilesOK
<1>5. /\ \A i \in Ids : /\ records'[i] \in {records[i], TornRecord}
                        /\ records'[i] # records[i] => records[i] = NoRecord \/ s.id = i
      /\ records' \in [Ids -> Records \cup {NoRecord, TornRecord}]
  <2>1. CASE records' = records
    BY <1>1, <2>1 DEF FilesOK
  <2>2. CASE \E i \in Ids : /\ records[i] = NoRecord
                            /\ records' = [records EXCEPT ![i] = TornRecord]
    BY <1>1, <2>2 DEF FilesOK
  <2>3. CASE records' = [records EXCEPT ![s.id] = TornRecord]
    BY <1>1, <2>3 DEF FilesOK
  <2> QED
    BY <2>1, <2>2, <2>3 DEF Die
<1>6. FilesOK'
  BY <1>1, <1>2, <1>4, <1>5 DEF FilesOK
<1>7. TornRecord.status = "torn"
  BY DEF TornRecord
<1>8. Given'
  <2>1. \A i \in Ids : /\ records'[i].status = "Approved" => "Approved" \in decisions[i]
                       /\ records'[i].status = "Applied" => uses[i] >= 1
    BY <1>1, <1>5, <1>7 DEF Given
  <2>2. \A q \in Servers : server'[q].at \in ApplySteps => server'[q] = server[q]
    BY <1>3, IdleOK DEF ApplySteps
  <2> QED
    BY <1>1, <1>2, <2>1, <2>2 DEF Given, ApplySteps
<1>9. ASSUME NEW i \in Ids \ raced PROVE LedgerOf(i)'
  <2>1. LedgerOf(i)
    BY <1>1 DEF Ledger
  <2>2. i \notin died' => i \notin died /\ ~(s.at = "saveApplied" /\ s.id = i)
    BY <1>2
  <2>3. \A q \in Servers : server'[q].id = i => q # p /\ server'[q] = server[q]
    BY <1>3, IdleOK
  <2>4. CASE records'[i] = records[i]
    <3>1. \A q \in Servers :
              server[q].id = i /\ server[q].at = "saveApplied" /\ i \notin died' =>
                  server'[q] = server[q]
      BY <1>3, <2>2
    <3> QED
      BY <1>2, <2>1, <2>2, <2>3, <2>4, <3>1, LedgerFrame
  <2>5. CASE records'[i] # records[i]
    <3>1. records'[i].status = "torn"
      BY <1>5, <1>7, <2>5
    <3>2. \A q \in Servers : server'[q].id # i
      BY <1>5, <2>1, <2>3, <2>5 DEF LedgerOf, NoRecord
    <3> QED
      BY <1>2, <2>1, <2>2, <3>1, <3>2 DEF LedgerOf, Untouched
  <2> QED
    BY <2>4, <2>5
<1> QED
  BY <1>2, <1>3, <1>6, <1>8, <1>9 DEF IInv, Ledger

\* After an edit nobody is alone.
LEMMA EditKeeps == ASSUME IInv, Edit PROVE IInv'
<1> DEFINE other(q) == IF Busy(q) THEN [server[q] EXCEPT !.alone = FALSE] ELSE server[q]
<1>1. FilesOK /\ CallsOK /\ Undisturbed /\ Given /\ Ledger
  BY DEF IInv
<1>2. /\ main' \in Texts \cup {Torn} /\ lib' \in Texts \cup {Torn}
      /\ records' = records /\ decisions' = decisions /\ uses' = uses
      /\ raced' = raced /\ died' = died
      /\ server' = [q \in Servers |-> other(q)]
  BY <1>1 DEF Edit, ghost, FilesOK
<1>3. \A q \in Servers : server[q] \in Calls /\ CallOK(server[q])
  BY <1>1 DEF CallsOK
<1>4. \A q \in Servers :
          /\ other(q) \in Calls /\ other(q).at = server[q].at /\ other(q).id = server[q].id
          /\ other(q).rec = server[q].rec /\ other(q).read = server[q].read
          /\ Busy(q) => other(q).alone = FALSE
          /\ ~Busy(q) => other(q) = server[q]
  BY <1>3 DEF Calls
<1> HIDE DEF other
<1>5. ASSUME NEW q \in Servers PROVE CallOK(other(q))
  <2>1. CASE ~Busy(q)
    BY <1>3, <1>4, <2>1
  <2>2. CASE Busy(q)
    BY <1>3, <1>4, <2>2 DEF CallOK, Busy
  <2> QED
    BY <2>1, <2>2
<1>6. \A q \in Servers : server'[q] = other(q)
  BY <1>2
<1>7. CallsOK'
  BY <1>2, <1>4, <1>5, <1>6 DEF CallsOK
<1>8. FilesOK'
  BY <1>1, <1>2 DEF FilesOK
<1>9. Undisturbed'
  BY <1>4, <1>6 DEF Undisturbed, Busy
<1>10. Given'
  BY <1>1, <1>2, <1>4, <1>6 DEF Given
<1>11. ASSUME NEW i \in Ids \ raced PROVE LedgerOf(i)'
  <2>1. LedgerOf(i)
    BY <1>1 DEF Ledger
  <2> QED
    BY <1>2, <1>4, <1>6, <2>1, LedgerFrame
<1> QED
  BY <1>2, <1>7, <1>8, <1>9, <1>10, <1>11 DEF IInv, Ledger

\* A step that changes nothing.
LEMMA StutterKeeps == ASSUME IInv, UNCHANGED vars PROVE IInv'
  BY SMTT(60) DEF IInv, vars, graph, ghost, FilesOK, CallsOK, CallOK, Undisturbed, Busy, Candidate,
         WorkspaceHash, Given, Ledger, LedgerOf, Untouched

\* Every reachable state satisfies the invariant.
LEMMA Invariant == Spec => []IInv
<1>1. ASSUME IInv, [Next]_vars PROVE IInv'
  <2>1. ASSUME NEW p \in Servers, RequestRead(p) PROVE IInv'
    BY <1>1, <2>1, RequestReadKeeps
  <2>2. ASSUME NEW p \in Servers, RequestHash(p) PROVE IInv'
    BY <1>1, <2>2, RequestHashKeeps
  <2>3. ASSUME NEW p \in Servers, SaveRequest(p) PROVE IInv'
    BY <1>1, <2>3, SaveRequestKeeps
  <2>4. ASSUME NEW p \in Servers, NEW i \in Ids, Decide(p, i) PROVE IInv'
    BY <1>1, <2>4, DecideKeeps
  <2>5. ASSUME NEW p \in Servers, NEW i \in Ids, Apply(p, i) PROVE IInv'
    BY <1>1, <2>5, ApplyKeeps
  <2>6. ASSUME NEW p \in Servers, SaveDecision(p) PROVE IInv'
    BY <1>1, <2>6, SaveDecisionKeeps
  <2>7. ASSUME NEW p \in Servers, ApplyRead(p) PROVE IInv'
    BY <1>1, <2>7, ApplyReadKeeps
  <2>8. ASSUME NEW p \in Servers, ApplyHash(p) PROVE IInv'
    BY <1>1, <2>8, ApplyHashKeeps
  <2>9. ASSUME NEW p \in Servers, WriteMain(p) PROVE IInv'
    BY <1>1, <2>9, WriteMainKeeps
  <2>10. ASSUME NEW p \in Servers, SaveApplied(p) PROVE IInv'
    BY <1>1, <2>10, SaveAppliedKeeps
  <2>11. ASSUME NEW p \in Servers, Die(p) PROVE IInv'
    BY <1>1, <2>11, DieKeeps
  <2>12. CASE Edit
    BY <1>1, <2>12, EditKeeps
  <2>13. CASE UNCHANGED vars
    BY <1>1, <2>13, StutterKeeps
  <2> QED
    BY <1>1, <2>1, <2>2, <2>3, <2>4, <2>5, <2>6, <2>7, <2>8, <2>9, <2>10, <2>11, <2>12,
       <2>13 DEF Next
<1> QED
  BY <1>1, Initial, PTL DEF Spec

-----------------------------------------------------------------------------
(* The properties *)

\* The ledger, the graph and every server's call have their types.
THEOREM TypeCorrect == Spec => []TypeOK
<1>1. ASSUME IInv PROVE TypeOK
  <2>1. FilesOK /\ \A p \in Servers : server[p] \in Calls /\ CallOK(server[p])
    BY <1>1 DEF IInv, CallsOK
  <2>2. ASSUME NEW p \in Servers
        PROVE  LET s == server[p] IN
               /\ s.at \in Steps /\ s.id \in Ids \cup {NoId} /\ s.alone \in BOOLEAN
               /\ s.rec # NoRecord /\ s.at # "hashRequest" => s.rec \in Records
               /\ s.at \in {"hashApply", "writeMain"} => s.read \in Texts
    <3>1. server[p].at = "idle" => server[p].rec = NoRecord
      BY <2>1 DEF CallOK, Idle
    <3> QED
      BY <2>1, <3>1 DEF CallOK, Calls, Steps, ApplySteps
  <2> QED
    BY <2>1, <2>2 DEF TypeOK, FilesOK
<1> QED
  BY <1>1, Invariant, PTL

\* A server nobody has disturbed writes main over the reviewed program, with
\* the reviewed candidate, under an unused approval that a human gave: the
\* checks of apply_approved_graph_patch.
THEOREM Reviewed == Spec => []AppliesWhatWasReviewed
<1>1. ASSUME IInv PROVE AppliesWhatWasReviewed
  BY <1>1 DEF IInv, CallsOK, CallOK, ApplySteps, Undisturbed, Busy, Given,
              AppliesWhatWasReviewed
<1> QED
  BY <1>1, Invariant, PTL

\* Unless two servers held the approval at the same time, decide_record saves
\* one decision for it, and a rejected patch is never written.
THEOREM Final == Spec => []DecisionIsFinal
<1>1. ASSUME IInv, NEW i \in Ids \ raced
      PROVE  /\ Cardinality(decisions[i]) <= 1
             /\ "Rejected" \in decisions[i] => uses[i] = 0
  <2>1. LedgerOf(i)
    BY <1>1 DEF IInv, Ledger
  <2>2. Cardinality(decisions[i]) \in {0, 1}
    BY <2>1, FS_EmptySet, FS_Singleton DEF LedgerOf
  <2> QED
    BY <2>1, <2>2 DEF LedgerOf
<1>2. IInv => DecisionIsFinal
  BY <1>1 DEF DecisionIsFinal
<1> QED
  BY <1>2, Invariant, PTL

\* Unless two servers held the approval at the same time, or one died between
\* the write of main and the write of the record, main is written under it at
\* most once; a record says Applied only of an approval that was used.
THEOREM UsedOnce == Spec => []ApprovalUsedOnce
<1>1. IInv => ApprovalUsedOnce
  BY DEF IInv, Ledger, LedgerOf, Given, ApprovalUsedOnce
<1> QED
  BY <1>1, Invariant, PTL
=============================================================================
