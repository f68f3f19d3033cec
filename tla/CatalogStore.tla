---------------------------- MODULE CatalogStore ----------------------------
(***************************************************************************)
(* The user-level model catalog in ~/.duumbi/model-catalog: current.json,  *)
(* its hash current.sha256, and state.json with the user's decisions       *)
(* (agents/model_catalog.rs).  The command line and the studio server      *)
(* check the remote hash, skip or defer an update, disable the checks, and *)
(* approve a catalog, which replaces the three files.                      *)
(*                                                                         *)
(* Every write goes to <file>.tmp, is read back, and is renamed; adoption  *)
(* also moves the old files to <file>.bak and puts them back when a rename *)
(* fails.  The names are the same for every process and nothing is locked, *)
(* so one action is one file operation, and every operation may fail or be *)
(* the last one of its process.                                            *)
(***************************************************************************)
EXTENDS Naturals, Sequences, SequencesExt

CONSTANTS
    Procs,      \* processes that use the catalog
    Catalogs,   \* valid catalogs; a catalog also stands for its own hash
    None,       \* no file, no catalog, a failed fetch
    Torn,       \* what a file truncated, or written by two processes, holds
    SkipCap,    \* MAX_SKIPPED_CATALOG_HASHES
    MaxCalls,   \* bound: calls that are ever begun
    MaxFaults   \* bound: I/O errors and deaths

ASSUME NoneAssumption == {None, Torn} \cap Catalogs = {} /\ None # Torn
ASSUME CapAssumption  == SkipCap \in Nat \ {0} 
ASSUME BoundAssumption == MaxCalls \in Nat /\ MaxFaults \in Nat

VARIABLES
    final,      \* file -> what current.json, current.sha256, state.json hold
    tmp,        \* file -> what its .tmp holds
    bak,        \* file -> what its .bak holds
    handle,     \* process -> where the file is that it opened to write
    call,       \* process -> the call it is executing
    approved,   \* hashes that a user approved while they were advertised
    promise,    \* decisions that the store has confirmed and must keep
    begun,      \* how many calls were begun
    faults      \* how many I/O errors and deaths there were

files == <<final, tmp, bak, handle>>
ghost == <<approved, promise, begun, faults>>
vars  == <<files, call, ghost>>

\* The files in the order in which adoption handles them.
Files    == <<"json", "hash", "state">>
FileSet  == {"json", "hash", "state"}
NoFiles  == [f \in FileSet |-> None]

\* CatalogRefreshState without times and messages.  A deferral is a time too:
\* a check may always find one that is not over.  No hash is listed twice.
Skips   == {s \in UNION {[1..n -> Catalogs] : n \in 0..SkipCap} : IsInjective(s)}
States  == [installed : Catalogs \cup {None}, skipped : Skips, disabled : BOOLEAN]
Default == [installed |-> None, skipped |-> <<>>, disabled |-> FALSE]

ASSUME StateAssumption == None \notin States /\ Torn \notin States

\* The catalog that load_active_catalog returns; None also for an error.
Active    == IF final["json"] \in Catalogs /\ final["hash"] = final["json"]
             THEN final["json"] ELSE None
Decisions == IF final["state"] = None THEN Default ELSE final["state"]

\* op      what the call is doing to the store; "note" is record_failure
\* at      its next file operation, on Files[i]
\* cat     the hash it is about
\* new     the state it will write
\* moved   files it has moved aside
\* failed  the call returns an error;  aside: because of a move
\* alone   no other call has run since it began, when the store held before
Nothing == <<None, Default>>
Idle == [op |-> "none", at |-> "idle", i |-> 1, cat |-> None, new |-> Default,
         moved |-> {}, failed |-> FALSE, aside |-> FALSE, alone |-> TRUE, before |-> Nothing]

Steps == {"idle", "load", "open", "fill", "verify", "move", "rename", "cleanup",
          "removeAll", "putBack", "offer", "done"}

Busy(p)     == call[p].at # "idle"
At(p, step) == call[p].at = step
File(p)     == Files[call[p].i]
Bytes(p)    == IF File(p) = "state" THEN call[p].new ELSE call[p].cat
Adopting(p) == call[p].op = "adopt"

NoPromise == [installed |-> None, skipped |-> None, disabled |-> FALSE]

TypeOK ==
    /\ \A f \in {"json", "hash"} :
        {final[f], tmp[f], bak[f]} \subseteq Catalogs \cup {None, Torn}
    /\ {final["state"], tmp["state"], bak["state"]} \subseteq States \cup {None, Torn}
    /\ handle \in [Procs -> {"tmp", "final", "bak", "none"}]
    /\ \A p \in Procs :
        /\ call[p].at \in Steps /\ call[p].new \in States
        /\ call[p].moved # {} => Adopting(p)
        /\ At(p, "move") \/ At(p, "putBack") => Adopting(p)
    /\ approved \subseteq Catalogs
    /\ promise \in [installed : Catalogs \cup {None}, skipped : Catalogs \cup {None},
                    disabled : BOOLEAN]

Init ==
    /\ final = NoFiles /\ tmp = NoFiles /\ bak = NoFiles
    /\ handle = [p \in Procs |-> "none"]
    /\ call = [p \in Procs |-> Idle]
    /\ approved = {}
    /\ promise = NoPromise
    /\ begun = 0 /\ faults = 0

-----------------------------------------------------------------------------
(* The calls.  What is fetched comes first and touches no file. *)

\* Nobody keeps a promise that overlapping calls may break.
Begin(p, op, cat) ==
    LET overlapped == \E q \in Procs \ {p} : Busy(q)
        before == IF overlapped THEN Nothing ELSE <<Active, Decisions>>
    IN
    /\ ~Busy(p)
    /\ begun < MaxCalls /\ begun' = begun + 1
    /\ call' = [q \in Procs |->
                  IF q = p THEN [Idle EXCEPT !.op = op, !.at = "load", !.cat = cat,
                                             !.alone = ~overlapped, !.before = before,
                                             !.failed = (op = "note")]
                  ELSE IF Busy(q) THEN [call[q] EXCEPT !.alone = FALSE,
                                                       !.before = Nothing]
                  ELSE call[q]]
    /\ promise' = IF overlapped THEN NoPromise ELSE promise
    /\ UNCHANGED <<files, faults>>

\* check_for_update: the remote hash, or a failure to fetch it.
Check(p) ==
    /\ \/ \E h \in Catalogs : Begin(p, "check", h)
       \/ Begin(p, "note", None)
    /\ UNCHANGED approved

Skip(p)    == \E h \in Catalogs : Begin(p, "skip", h) /\ UNCHANGED approved
Remind(p)  == Begin(p, "remind", None) /\ UNCHANGED approved
Disable(p) == Begin(p, "disable", None) /\ UNCHANGED approved

\* Mutant: adopt whatever the remote now advertises.
AnyAdvertised(user, hash, bytes) == hash # None /\ bytes = hash

\* The remote still advertises the hash the user approved, and its catalog
\* has that hash.
Reviewed(user, hash, bytes) == hash = user /\ bytes = hash

\* approve_remote_catalog: anything but the reviewed catalog is recorded as a
\* failure.
Approve(p) ==
    \E user \in Catalogs, hash \in Catalogs \cup {None}, bytes \in Catalogs \cup {None} :
        IF Reviewed(user, hash, bytes)
        THEN Begin(p, "adopt", hash) /\ approved' = approved \cup {user}
        ELSE Begin(p, "note", None) /\ UNCHANGED approved

-----------------------------------------------------------------------------
(* Reading and changing state.json *)

\* retain: every copy of h goes, and there is one at most.
Without(s, h) ==
    IF h \in Range(s) THEN RemoveAt(s, CHOOSE k \in DOMAIN s : s[k] = h) ELSE s

\* Mutants: no cap; the cap drops the newest.
Uncapped(s)  == s
KeepOldest(s) == SubSeq(s, 1, IF Len(s) > SkipCap THEN SkipCap ELSE Len(s))

\* cap_skipped_hashes: the oldest are forgotten.
Capped(s) == IF Len(s) > SkipCap THEN SubSeq(s, Len(s) - SkipCap + 1, Len(s)) ELSE s

\* Why a check may stay quiet about hash h.
Quiet(s, h) == \/ s.disabled
               \/ s.installed = h
               \/ \E k \in DOMAIN s.skipped : s.skipped[k] = h

\* The state that a call writes, from the one it loaded.
Changed(s, op, h) ==
    CASE op = "skip"    -> [s EXCEPT !.skipped = Capped(Append(Without(@, h), h))]
      [] op = "disable" -> [s EXCEPT !.disabled = TRUE]
      [] op = "adopt"   -> [s EXCEPT !.installed = h, !.skipped = Capped(Without(@, h))]
      [] OTHER          -> s

\* A call that has ended still knows what it was about.
Done(c) == [c EXCEPT !.at = "done", !.i = 1, !.new = Default, !.moved = {}]

\* A failed adoption, or offer, is recorded; any other failed call ends.
Recorded(c) == [Done(c) EXCEPT !.op = "note", !.at = "load", !.cat = None, !.failed = TRUE]
Failed(c)   == IF c.op = "adopt" THEN Recorded(c) ELSE [Done(c) EXCEPT !.failed = TRUE]

\* load_state.  A check that need not stay quiet forgets nothing else and
\* will offer its hash once the state is saved; a quiet one drops it.
Load(p) ==
    LET c == call[p] IN
    /\ At(p, "load")
    /\ IF Decisions = Torn
       THEN call' = [call EXCEPT ![p] = Failed(c)]
       ELSE \E silent \in BOOLEAN :
            /\ silent => c.op = "check"
            /\ c.op = "check" /\ Quiet(Decisions, c.cat) => silent
            /\ call' = [call EXCEPT ![p] =
                 [c EXCEPT !.at  = "open",
                           !.i   = IF c.op = "adopt" THEN 1 ELSE 3,
                           !.cat = IF silent THEN None ELSE @,
                           !.new = Changed(Decisions, c.op, c.cat)]]
    /\ UNCHANGED <<files, ghost>>

-----------------------------------------------------------------------------
(* write_temp_verified *)

\* The next file at the same step, or the step that follows the last one.
NextFile(c, after) ==
    IF c.op = "adopt" /\ c.i < Len(Files) THEN [c EXCEPT !.i = @ + 1]
    ELSE [c EXCEPT !.at = after, !.i = IF c.op = "adopt" THEN 1 ELSE @]

\* An open file goes where it is renamed to; where "to" was is no file, nor
\* is there one after a removal.
Along(handles, fs, from, to) ==
    [q \in Procs |->
        IF File(q) \notin fs \/ handles[q] \notin {from, to} THEN handles[q]
        ELSE IF handles[q] = from THEN to ELSE "none"]

Closed(p) == [handle EXCEPT ![p] = "none"]

\* Adoption removes a left-over backup first.
Open(p) ==
    /\ At(p, "open")
    /\ bak' = IF Adopting(p) THEN [bak EXCEPT ![File(p)] = None] ELSE bak
    /\ tmp' = [tmp EXCEPT ![File(p)] = Torn]
    /\ handle' = [IF Adopting(p) THEN Along(handle, {File(p)}, "bak", "none") ELSE handle
                  EXCEPT ![p] = "tmp"]
    /\ call' = [call EXCEPT ![p].at = "fill"]
    /\ UNCHANGED <<final, ghost>>

\* What a write makes of a file: another process may have filled it since it
\* was opened, and the longer of the two contents then keeps its end.
Written(fs, p) ==
    {[fs EXCEPT ![File(p)] = b] :
        b \in {Bytes(p)} \cup (IF fs[File(p)] \in {Torn, Bytes(p)} THEN {} ELSE {Torn})}

\* Another process may have renamed or removed the file meanwhile.
Fill(p) ==
    /\ At(p, "fill")
    /\ IF handle[p] = "tmp" THEN tmp' \in Written(tmp, p) ELSE UNCHANGED tmp
    /\ IF handle[p] = "final" THEN final' \in Written(final, p) ELSE UNCHANGED final
    /\ IF handle[p] = "bak" THEN bak' \in Written(bak, p) ELSE UNCHANGED bak
    /\ handle' = Closed(p)
    /\ call' = [call EXCEPT ![p].at = "verify"]
    /\ UNCHANGED ghost

\* A file that is not there any more is an error too.
Verify(p) ==
    LET c == call[p]  f == File(p) IN
    /\ At(p, "verify")
    /\ IF tmp[f] = Bytes(p)
       THEN /\ call' = [call EXCEPT ![p] =
                 IF c.op = "adopt" /\ c.i < Len(Files)
                 THEN [c EXCEPT !.at = "open", !.i = @ + 1]
                 ELSE NextFile(c, IF c.op = "adopt" THEN "move" ELSE "rename")]
            /\ UNCHANGED <<tmp, handle>>
       ELSE /\ call' = [call EXCEPT ![p] = Failed(c)]
            /\ tmp' = [tmp EXCEPT ![f] = None]
            /\ handle' = Along(handle, {f}, "tmp", "none")
    /\ UNCHANGED <<final, bak, ghost>>

-----------------------------------------------------------------------------
(* replace_catalog_files_atomically, and the rename of atomic_write_verified *)

Move(p) ==
    LET c == call[p]  f == File(p)  there == final[f] # None IN
    /\ At(p, "move")
    /\ IF there
       THEN /\ bak' = [bak EXCEPT ![f] = final[f]]
            /\ final' = [final EXCEPT ![f] = None]
            /\ handle' = Along(handle, {f}, "final", "bak")
       ELSE UNCHANGED <<bak, final, handle>>
    /\ call' = [call EXCEPT ![p] =
         NextFile([c EXCEPT !.moved = IF there THEN @ \cup {f} ELSE @], "rename")]
    /\ UNCHANGED <<tmp, ghost>>

\* Saving the state makes a lone call's decision one that is to be kept.
Promised(c) ==
    CASE c.op = "skip"    -> [promise EXCEPT !.skipped = c.cat]
      [] c.op = "disable" -> [promise EXCEPT !.disabled = TRUE]
      [] c.op = "adopt"   -> [promise EXCEPT !.installed = c.cat,
                                !.skipped = IF @ = c.cat THEN None ELSE @]
      [] OTHER            -> promise

\* What follows the last rename of a call.
AfterRename(c) ==
    CASE c.op = "adopt" -> "cleanup"
      [] c.op = "check" /\ c.cat # None -> "offer"
      [] OTHER -> "done"

\* The temporary file is gone when another process renamed or removed it.
Rename(p) ==
    LET c == call[p]  f == File(p) IN
    /\ At(p, "rename")
    /\ IF tmp[f] # None
       THEN /\ final' = [final EXCEPT ![f] = tmp[f]]
            /\ tmp' = [tmp EXCEPT ![f] = None]
            /\ handle' = Along(handle, {f}, "tmp", "final")
            /\ call' = [call EXCEPT ![p] =
                  IF AfterRename(c) = "done" THEN Done(c) ELSE NextFile(c, AfterRename(c))]
            /\ promise' = IF f = "state" /\ c.alone THEN Promised(c) ELSE promise
       ELSE /\ call' = [call EXCEPT ![p] =
                  IF Adopting(p) THEN [c EXCEPT !.at = "removeAll", !.i = 1] ELSE Failed(c)]
            /\ UNCHANGED <<final, tmp, handle, promise>>
    /\ UNCHANGED <<bak, approved, begun, faults>>

\* The rest of a loop over the files, or what comes after it.
Rest(c, after) == IF c.i < Len(Files) THEN NextFile(c, c.at) ELSE after

Cleanup(p) ==
    LET f == File(p) IN
    /\ At(p, "cleanup")
    /\ bak' = [bak EXCEPT ![f] = None]
    /\ handle' = Along(handle, {f}, "bak", "none")
    /\ call' = [call EXCEPT ![p] = Rest(@, Done(@))]
    /\ UNCHANGED <<final, tmp, ghost>>

\* restore_atomic_entries: first every file and every temporary file goes,
\* also a file that was not moved aside yet.
RemoveAll(p) ==
    LET f == File(p) IN
    /\ At(p, "removeAll")
    /\ final' = [final EXCEPT ![f] = None]
    /\ tmp' = [tmp EXCEPT ![f] = None]
    /\ handle' = Along(Along(handle, {f}, "final", "none"), {f}, "tmp", "none")
    /\ call' = [call EXCEPT ![p] = Rest(@, [@ EXCEPT !.at = "putBack", !.i = 1])]
    /\ UNCHANGED <<bak, ghost>>

\* Mutant: the state is not put back.
PutBackCatalog(p) ==
    LET f == File(p)
        back == f \in call[p].moved \ {"state"} /\ bak[f] # None
    IN
    /\ At(p, "putBack")
    /\ final' = IF back THEN [final EXCEPT ![f] = bak[f]] ELSE final
    /\ bak' = [bak EXCEPT ![f] = None]
    /\ handle' = Along(handle, {f}, "bak", IF back THEN "final" ELSE "none")
    /\ call' = [call EXCEPT ![p] = Rest(@, Failed(@))]
    /\ UNCHANGED <<tmp, ghost>>

\* Then the files that were moved aside return.
PutBack(p) ==
    LET f == File(p)
        back == f \in call[p].moved /\ bak[f] # None
    IN
    /\ At(p, "putBack")
    /\ final' = IF back THEN [final EXCEPT ![f] = bak[f]] ELSE final
    /\ bak' = [bak EXCEPT ![f] = None]
    /\ handle' = Along(handle, {f}, "bak", IF back THEN "final" ELSE "none")
    /\ call' = [call EXCEPT ![p] = Rest(@, Failed(@))]
    /\ UNCHANGED <<tmp, ghost>>

-----------------------------------------------------------------------------
\* A check that will offer an update fetches the catalog; unless it is the
\* advertised one the failure is recorded.
Offer(p) ==
    /\ At(p, "offer")
    /\ \/ call' = [call EXCEPT ![p] = Done(@)]
       \/ call' = [call EXCEPT ![p] = Recorded(@)]
    /\ UNCHANGED <<files, ghost>>

Return(p) ==
    /\ At(p, "done")
    /\ call' = [call EXCEPT ![p] = Idle]
    /\ UNCHANGED <<files, ghost>>

\* A file operation returns an error.  Errors of a removal, and of the way
\* back, are ignored by the code and left out here.
Fault(p) ==
    LET c == call[p] IN
    /\ faults < MaxFaults /\ faults' = faults + 1
    /\ \/ /\ c.at \in {"load", "open", "fill", "verify"} \/ (c.at = "rename" /\ ~Adopting(p))
          /\ call' = [call EXCEPT ![p] = Failed(c)]
          /\ UNCHANGED promise
       \/ /\ c.at \in {"move", "rename"} /\ Adopting(p)
          /\ call' = [call EXCEPT ![p] = [c EXCEPT !.at = "removeAll", !.i = 1,
                                                   !.aside = (c.at = "move")]]
          /\ promise' = IF c.at = "move" THEN NoPromise ELSE promise
    /\ handle' = Closed(p)
    /\ UNCHANGED <<final, tmp, bak, approved, begun>>

\* A process dies.  With files moved aside, the decisions are lost.
Die(p) ==
    /\ Busy(p)
    /\ faults < MaxFaults /\ faults' = faults + 1
    /\ call' = [call EXCEPT ![p] = Idle]
    /\ promise' = IF call[p].moved # {} /\ ~At(p, "cleanup") THEN NoPromise ELSE promise
    /\ handle' = Closed(p)
    /\ UNCHANGED <<final, tmp, bak, approved, begun>>

Next ==
    \E p \in Procs :
        \/ Check(p) \/ Skip(p) \/ Remind(p) \/ Disable(p) \/ Approve(p)
        \/ Load(p) \/ Open(p) \/ Fill(p) \/ Verify(p)
        \/ Move(p) \/ Rename(p) \/ Cleanup(p) \/ RemoveAll(p) \/ PutBack(p)
        \/ Offer(p) \/ Return(p) \/ Fault(p) \/ Die(p)

Spec == Init /\ [][Next]_vars

-----------------------------------------------------------------------------
(* Properties *)

\* However the calls of several processes interleave, fail and die, a catalog
\* that loads was approved by the user: its hash file is the one written with
\* it, and adoption compares the approved, the advertised and the actual hash.
ActiveWasApproved == Active \in approved \cup {None}

\* A check that nobody overlaps never offers the catalog that was installed,
\* the one that was skipped last, or any after the checks were disabled, as
\* long as no overlapping calls, no death in an adoption and no adoption that
\* failed to move a file aside came in between: every call that rewrites
\* state.json keeps the decisions of the earlier ones.
DecisionsRespected ==
    \A p \in Procs :
        At(p, "offer") /\ call[p].alone =>
            /\ ~promise.disabled
            /\ call[p].cat \notin {promise.skipped, promise.installed}

\* An adoption that nobody overlaps either installs the catalog, its hash and
\* the state, or leaves the active catalog and the decisions as they were,
\* with whatever an earlier call left behind; not so when it failed to move a
\* file aside.
AdoptionAtomic ==
    \A p \in Procs :
        LET c == call[p] IN
        At(p, "done") /\ c.alone /\ ~c.aside =>
            /\ c.op = "adopt" =>
                /\ Active = c.cat
                /\ Decisions = Changed(c.before[2], "adopt", c.cat)
            /\ c.op = "note" => <<Active, Decisions>> = c.before

=============================================================================
