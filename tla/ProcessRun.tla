----------------------------- MODULE ProcessRun -----------------------------
(***************************************************************************)
(* One run of a child process whose output is captured, in the three ways  *)
(* of the code: "wait", run_workspace_binary without a deadline;           *)
(* "deadline", with one (workspace.rs); and "managed", ManagedChild of     *)
(* bench/process.rs, whose child may start helpers of its own (a build     *)
(* starts a linker; a compiled program starts nothing, and closes none of  *)
(* its pipes before it ends).  The child, its helper, the threads that     *)
(* drain or fill the pipes, the clock and the caller all run concurrently. *)
(* One byte stands for as much as one read or write moves.  Errors of the  *)
(* pipes themselves are left out, and so is the redaction of what a        *)
(* managed run has kept.                                                   *)
(***************************************************************************)
EXTENDS Integers

CONSTANTS
    PipeSize,       \* bytes that a pipe holds
    OutputMax,      \* bound: bytes written to a stream
    InputMax,       \* bound: bytes of input
    LogLimit        \* LOG_LIMIT: bytes of a stream that a managed run keeps

ASSUME SizeAssumption == PipeSize \in Nat \ {0}
ASSUME LimitAssumption == OutputMax \in Nat /\ InputMax \in Nat /\ LogLimit \in Nat

Streams == {"stdout", "stderr"}
Modes == {"wait", "deadline", "managed"}

VARIABLES
    call,       \* the caller: mode, where it is, whether the deadline is past
                \* and whether it gave up waiting
    procs,      \* the child and its helper; whether the caller killed them
    out,        \* stream -> what was written to it and where lines ended, what
                \* its pipe holds, what its reader has kept, whether that is cut
    stdin,      \* the input: its length, what was sent, what the pipe holds
    outcome     \* its result, the output, the streams not collected in time

runVars == <<call, procs, out, stdin, outcome>>

NoOutput == [s \in Streams |-> 0]

RunTypeOK ==
    /\ call \in [mode : Modes, late : BOOLEAN, timedOut : BOOLEAN,
                 at : {"wait", "kill", "reap", "killTree", "join", "joinStderr", "joinWriter",
                  "returned"}]
    /\ procs \in [child : {"running", "exited", "reaped"},
                 helper : {"none", "running", "gone"}, killed : BOOLEAN]
    /\ out \in [Streams -> [written : 0..OutputMax, ends : SUBSET (1..OutputMax),
                            pipe : 0..PipeSize, kept : 0..OutputMax, cut : BOOLEAN,
                            reader : {"reading", "done", "aborted"}]]
    /\ stdin \in [length : 0..InputMax, sent : 0..InputMax, pipe : 0..PipeSize,
                  writer : {"none", "writing", "done", "failed"}]
    /\ outcome \in [kind : {"none", "ok", "error"}, output : [Streams -> 0..OutputMax],
                   lost : SUBSET Streams]

\* The child is spawned with its pipes.  Only a run of workspace.rs has a
\* writer, and none if the child inherits the caller's input.  A managed run
\* may be given no time at all, to be stopped at once.
RunInit ==
    /\ call \in [mode : Modes, late : BOOLEAN, timedOut : {FALSE}, at : {"wait"}]
    /\ call.late => call.mode = "managed"
    /\ procs = [child |-> "running", helper |-> "none", killed |-> FALSE]
    /\ out = [s \in Streams |-> [written |-> 0, ends |-> {}, pipe |-> 0, kept |-> 0,
                               cut |-> FALSE, reader |-> "reading"]]
    /\ stdin \in [length : 0..InputMax, sent : {0}, pipe : {0}, writer : {"none", "writing"}]
    /\ stdin.writer = "none" => stdin.length = 0
    /\ call.mode = "managed" => stdin.writer = "none"
    /\ outcome = [kind |-> "none", output |-> NoOutput, lost |-> {}]

Alive == procs.child = "running" \/ procs.helper = "running"

-----------------------------------------------------------------------------
(* The child and its helper *)

\* Where lines end matters only to a managed run, and within its limit.
Write(s) ==
    /\ Alive
    /\ out[s].written < OutputMax /\ out[s].pipe < PipeSize
    /\ \E newline \in SUBSET {out[s].written + 1} :
          /\ newline # {} => call.mode = "managed" /\ out[s].written < LogLimit
          /\ out' = [out EXCEPT ![s].written = @ + 1, ![s].pipe = @ + 1,
                                ![s].ends = @ \cup newline]
    /\ UNCHANGED <<call, procs, stdin, outcome>>

TakeInput ==
    /\ procs.child = "running" /\ stdin.pipe > 0
    /\ stdin' = [stdin EXCEPT !.pipe = @ - 1]
    /\ UNCHANGED <<call, procs, out, outcome>>

StartHelper ==
    /\ call.mode = "managed" /\ procs.child = "running" /\ procs.helper = "none"
    /\ procs' = [procs EXCEPT !.helper = "running"]
    /\ UNCHANGED <<call, out, stdin, outcome>>

HelperEnds ==
    /\ procs.helper = "running"
    /\ procs' = [procs EXCEPT !.helper = "gone"]
    /\ UNCHANGED <<call, out, stdin, outcome>>

ChildExits ==
    /\ procs.child = "running"
    /\ procs' = [procs EXCEPT !.child = "exited"]
    /\ UNCHANGED <<call, out, stdin, outcome>>

-----------------------------------------------------------------------------
(* The readers, the writer and the clock *)

\* A managed run reads on past the limit, keeps no more and remembers it.
Keeps(s) == call.mode # "managed" \/ out[s].kept < LogLimit

\* Mutant of Read: one stream after the other.
ReadInTurn(s) ==
    /\ out[s].reader = "reading" /\ out[s].pipe > 0
    /\ s = "stderr" => out["stdout"].reader # "reading"
    /\ out' = [out EXCEPT ![s].pipe = @ - 1,
                          ![s].kept = IF Keeps(s) THEN @ + 1 ELSE @,
                          ![s].cut = @ \/ ~Keeps(s)]
    /\ UNCHANGED <<call, procs, stdin, outcome>>

Read(s) ==
    /\ out[s].reader = "reading" /\ out[s].pipe > 0
    /\ out' = [out EXCEPT ![s].pipe = @ - 1,
                          ![s].kept = IF Keeps(s) THEN @ + 1 ELSE @,
                          ![s].cut = @ \/ ~Keeps(s)]
    /\ UNCHANGED <<call, procs, stdin, outcome>>

\* The complete lines of the first k bytes of a stream are n bytes.
LinesEnd(s, k, n) ==
    /\ n \in {0} \cup out[s].ends /\ n <= k
    /\ \A m \in out[s].ends : m <= k => m <= n

\* A stream ends when it is empty and nobody is left who could write to it.
\* What was cut at the limit is cut back to its last complete line.
ReadEnd(s) ==
    /\ out[s].reader = "reading" /\ out[s].pipe = 0 /\ ~Alive
    /\ \E n \in 0..OutputMax :
          /\ IF out[s].cut THEN LinesEnd(s, out[s].kept, n) ELSE n = out[s].kept
          /\ out' = [out EXCEPT ![s].reader = "done", ![s].kept = n]
    /\ UNCHANGED <<call, procs, stdin, outcome>>

\* Nobody reads what is sent to a child that has ended: the write fails.
Send ==
    /\ stdin.writer = "writing" /\ stdin.sent < stdin.length
    /\ \/ /\ procs.child = "running" /\ stdin.pipe < PipeSize
          /\ stdin' = [stdin EXCEPT !.sent = @ + 1, !.pipe = @ + 1]
       \/ /\ procs.child # "running"
          /\ stdin' = [stdin EXCEPT !.writer = "failed"]
    /\ UNCHANGED <<call, procs, out, outcome>>

SendEnd ==
    /\ stdin.writer = "writing" /\ stdin.sent = stdin.length
    /\ stdin' = [stdin EXCEPT !.writer = "done"]
    /\ UNCHANGED <<call, procs, out, outcome>>

DeadlinePasses ==
    /\ call.mode # "wait" /\ ~call.late
    /\ call' = [call EXCEPT !.late = TRUE]
    /\ UNCHANGED <<procs, out, stdin, outcome>>

-----------------------------------------------------------------------------
(* The caller *)

Goto(step) == call' = [call EXCEPT !.at = step]

Ended(s) == out[s].reader = "done"

\* wait_with_output reads both streams to their ends, and waits.
ReadAll ==
    /\ call.mode = "wait" /\ call.at = "wait"
    /\ \A s \in Streams : Ended(s)
    /\ Goto("reap")
    /\ UNCHANGED <<procs, out, stdin, outcome>>

\* The child ended in time: try_wait, or wait under the timeout.
SeeExit ==
    /\ call.mode # "wait" /\ call.at = "wait" /\ procs.child = "exited"
    /\ procs' = [procs EXCEPT !.child = "reaped"]
    /\ Goto(IF call.mode = "managed" THEN "killTree" ELSE "join")
    /\ UNCHANGED <<out, stdin, outcome>>

\* The child was looked for before the clock.
SeeDeadline ==
    /\ call.at = "wait" /\ procs.child = "running" /\ call.late
    /\ Goto("kill")
    /\ UNCHANGED <<procs, out, stdin, outcome>>

\* kill reaches the child, kill_tree its whole group.  The child may have
\* ended by itself since it was looked for.
Kill ==
    /\ call.at = "kill"
    /\ procs' = [child |-> "exited",
                helper |-> IF procs.helper = "running" THEN "gone" ELSE procs.helper,
                killed |-> procs.killed \/ procs.child = "running"]
    /\ Goto("reap")
    /\ UNCHANGED <<out, stdin, outcome>>

Reap ==
    /\ call.at = "reap" /\ procs.child = "exited"
    /\ procs' = [procs EXCEPT !.child = "reaped"]
    /\ call' = [call EXCEPT !.timedOut = (call.mode # "wait"),
                            !.at = CASE call.mode = "wait" -> "joinWriter"
                                     [] call.mode = "deadline" -> "join"
                                     [] call.mode = "managed" -> "killTree"]
    /\ UNCHANGED <<out, stdin, outcome>>

\* Mutant of KillTree: after a timeout only, when the tree is dead already.
KillLateTree ==
    /\ call.at = "killTree"
    /\ procs' = [procs EXCEPT !.helper = IF @ = "running" /\ call.timedOut THEN "gone" ELSE @]
    /\ Goto("join")
    /\ UNCHANGED <<out, stdin, outcome>>

\* Helpers that outlived the child are in its group.
KillTree ==
    /\ call.at = "killTree"
    /\ procs' = [procs EXCEPT !.helper = IF @ = "running" THEN "gone" ELSE @]
    /\ Goto("join")
    /\ UNCHANGED <<out, stdin, outcome>>

Join ==
    /\ call.mode = "deadline" /\ call.at = "join"
    /\ \A s \in Streams : Ended(s)
    /\ Goto("joinWriter")
    /\ UNCHANGED <<procs, out, stdin, outcome>>

Return(kind, lost) ==
    /\ outcome' = [kind |-> kind, lost |-> lost,
                   output |-> [s \in Streams |-> IF s \in lost THEN 0 ELSE out[s].kept]]
    /\ Goto("returned")

\* The end of a managed run drops the child, and aborts the readers.
Abort == out' = [s \in Streams |->
                    IF Ended(s) THEN out[s] ELSE [out[s] EXCEPT !.reader = "aborted"]]

\* Each reader of a managed run has one second: a stream that does not end in
\* time counts as empty.
CollectStdout ==
    /\ call.mode = "managed" /\ call.at = "join"
    /\ outcome' = IF Ended("stdout")
                  THEN [outcome EXCEPT !.output["stdout"] = out["stdout"].kept]
                  ELSE [outcome EXCEPT !.lost = {"stdout"}]
    /\ Goto("joinStderr")
    /\ UNCHANGED <<procs, out, stdin>>

CollectStderr ==
    /\ call.at = "joinStderr"
    /\ outcome' = IF Ended("stderr")
                  THEN [outcome EXCEPT !.kind = "ok", !.output["stderr"] = out["stderr"].kept]
                  ELSE [outcome EXCEPT !.kind = "ok", !.lost = @ \cup {"stderr"}]
    /\ Goto("returned")
    /\ Abort
    /\ UNCHANGED <<procs, stdin>>

\* Two seconds after the kill the child has not been waited for.
CleanupFails ==
    /\ call.mode = "managed" /\ call.at = "reap"
    /\ Return("error", Streams)
    /\ Abort
    /\ UNCHANGED <<procs, stdin>>

\* The caller is cancelled: Drop kills the tree and aborts the readers.
Cancel ==
    /\ call.mode = "managed" /\ call.at # "returned"
    /\ procs' = [procs EXCEPT !.child = IF @ = "running" THEN "exited" ELSE @,
                            !.helper = IF @ = "running" THEN "gone" ELSE @,
                            !.killed = @ \/ procs.child = "running"]
    /\ Return("error", Streams)
    /\ Abort
    /\ UNCHANGED stdin

\* A writer is waited for unless the run timed out; its failure is the run's.
JoinWriter ==
    /\ call.at = "joinWriter"
    /\ \/ call.timedOut
       \/ stdin.writer # "writing"
    /\ IF stdin.writer = "failed" /\ ~call.timedOut
       THEN Return("error", Streams)
       ELSE Return("ok", {})
    /\ UNCHANGED <<procs, out, stdin>>

-----------------------------------------------------------------------------
Program ==
    \/ \E s \in Streams : Write(s)
    \/ TakeInput \/ StartHelper \/ HelperEnds \/ ChildExits

Reader(s) == Read(s) \/ ReadEnd(s)

Writer == Send \/ SendEnd

Caller ==
    \/ ReadAll \/ SeeExit \/ SeeDeadline \/ Kill \/ Reap \/ KillTree \/ Join
    \/ JoinWriter \/ CollectStdout \/ CollectStderr

RunNext ==
    \/ Program
    \/ \E s \in Streams : Reader(s)
    \/ Writer \/ DeadlinePasses \/ Caller \/ CleanupFails \/ Cancel

RunSpec == RunInit /\ [][RunNext]_runVars

\* Threads are scheduled and time passes; what the child does is its own.
Fairness ==
    /\ \A s \in Streams : WF_runVars(Reader(s))
    /\ WF_runVars(Writer) /\ WF_runVars(DeadlinePasses) /\ WF_runVars(Caller)

LiveSpec == RunSpec /\ Fairness

-----------------------------------------------------------------------------
(* Properties *)

\* n bytes are all of a stream, or what a managed run keeps of a long one.
WholeOrLines(s, n) ==
    IF call.mode = "managed" /\ out[s].written > LogLimit
    THEN LinesEnd(s, LogLimit, n)
    ELSE n = out[s].written

\* What a run that succeeded says is true, whichever of child, readers,
\* writer and deadline was first.  The child has been waited for and no helper
\* is left.  Only a run whose deadline passed is reported as timed out; any
\* other was not killed, and its child was sent all of its input.  The output
\* is all that was written; of a managed run the complete lines among the
\* first LogLimit bytes if more was written, and nothing of a stream that had
\* not ended when its second was up.  A run that failed leaves nothing running
\* either.
HonestResult ==
    /\ outcome.kind # "none" => ~Alive
    /\ outcome.kind = "ok" =>
          /\ procs.child = "reaped"
          /\ call.timedOut => call.late
          /\ ~call.timedOut => /\ ~procs.killed
                               /\ stdin.sent = stdin.length
          /\ \A s \in Streams :
                IF s \in outcome.lost THEN call.mode = "managed" /\ outcome.output[s] = 0
                ELSE WholeOrLines(s, outcome.output[s])

\* A run with a deadline returns, and one without returns once its child has
\* ended; a full pipe is emptied, so that a noisy child cannot block on it and
\* deadlock with a caller that waits for it; and a writer that was not waited
\* for ends, rather than block on a child that reads nothing.
NobodyWaitsForever ==
    /\ call.mode # "wait" ~> call.at = "returned"
    /\ procs.child = "exited" ~> call.at = "returned"
    /\ \A s \in Streams : out[s].pipe = PipeSize ~> (out[s].pipe < PipeSize \/ ~Alive)
    /\ call.at = "returned" ~> stdin.writer # "writing"
=============================================================================
