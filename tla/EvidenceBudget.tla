---------------------------- MODULE EvidenceBudget ----------------------------
(***************************************************************************)
(* What the attempts of a benchmark run promise together (the retention    *)
(* rules of intent/attempt.rs): the evidence of an attempt is settled at   *)
(* once, by what the attempts settled before it have spent.  How many      *)
(* writes that takes, and which of them fail, is in Retention.             *)
(***************************************************************************)
EXTENDS Naturals

CONSTANTS Attempts, ContentCap, StubPool, StubMax, AttemptCap

VARIABLES
    spent,          \* bytes of evidence settled
    stubbed,        \* bytes of stubs settled
    stopped,        \* no attempt keeps anything any more
    verdict         \* attempt -> how it was settled

vars == <<spent, stubbed, stopped, verdict>>

Init ==
    /\ spent = 0 /\ stubbed = 0 /\ stopped = FALSE
    /\ verdict = [a \in Attempts |-> "none"]

Settle(a, v) == verdict[a] = "none" /\ verdict' = [verdict EXCEPT ![a] = v]

\* The evidence of an attempt may not fit.
Crowded == spent + AttemptCap > ContentCap

Keep(a) ==
    /\ ~stopped
    /\ \E n \in 1..(ContentCap - spent) : spent' = spent + n
    /\ Settle(a, "complete")
    /\ UNCHANGED <<stubbed, stopped>>

KeepStub(a) ==
    /\ ~stopped /\ Crowded
    /\ \E n \in 1..StubMax : n <= StubPool - stubbed /\ stubbed' = stubbed + n
    /\ Settle(a, "partial")
    /\ UNCHANGED <<spent, stopped>>

\* The stub of this attempt does not fit either; a smaller one may.
TooBig(a) ==
    /\ ~stopped /\ Crowded
    /\ stubbed < StubPool /\ stubbed + StubMax > StubPool
    /\ Settle(a, "stubTooBig")
    /\ UNCHANGED <<spent, stubbed, stopped>>

Exhaust(a) ==
    /\ ~stopped /\ Crowded /\ stubbed = StubPool
    /\ stopped' = TRUE
    /\ Settle(a, "poolExhausted")
    /\ UNCHANGED <<spent, stubbed>>

\* A write fails: what was written before it is spent.
Fail(a) ==
    /\ ~stopped
    /\ \E n \in 0..(ContentCap - spent) : spent' = spent + n
    /\ Settle(a, "failed")
    /\ UNCHANGED <<stubbed, stopped>>

\* The attempt keeps nothing: it is not executed, has nothing to keep, or the
\* run has stopped.
Nothing(a) ==
    /\ \/ Settle(a, "unexecuted") \/ Settle(a, "jsonOnly")
       \/ stopped /\ Settle(a, "poolExhausted")
    /\ UNCHANGED <<spent, stubbed, stopped>>

Next == \E a \in Attempts :
            \/ Keep(a) \/ KeepStub(a) \/ TooBig(a) \/ Exhaust(a) \/ Fail(a)
            \/ Nothing(a)

Spec == Init /\ [][Next]_vars
=============================================================================
