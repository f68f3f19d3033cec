--------------------------- MODULE MCDependencies ---------------------------
(* Two modules with two versions each; the second version drops a file.     *)
EXTENDS Dependencies, TLC

CONSTANT WideCalls      \* bound: commands while more than one process takes part

MCShipped == (1 :> {"f", "g"}) @@ (2 :> {"f"})
Symmetry  == Permutations(Proc) \cup Permutations(Module)

\* Only one process has run commands.
OneProcess == \E p \in Proc : \A q \in Proc \ {p} : op[q] = NoCommand

\* Only one module has been touched.
OneModule ==
    \E m \in Module :
        /\ \A n \in Module \ {m} :
            /\ config[n] = None /\ vendor[n] = Absent
            /\ published[n] = {1} /\ yanked[n] = {}
            /\ \A v \in Version : cache[n][v] = Absent
        /\ \A p \in Proc : op[p].todo \subseteq {m} /\ op[p].mod \in {m, Absent}

\* Only config.toml is edited.
EditsOnly == \A p \in Proc : Cmd(p, {"none", "add", "remove"})

Narrow == OneProcess /\ OneModule

\* Commands are started up to MaxCalls by one process on one module, and up to
\* WideCalls by one process on two modules, by two processes on one module, and
\* by two that add and remove two modules.
WideOrNarrow ==
    Narrow \/ (calls <= WideCalls /\ (OneProcess \/ OneModule \/ EditsOnly))

MCNext ==
    \/ (calls < WideCalls \/ Narrow) /\ \E p \in Proc : Call(p)
    \/ \E p \in Proc : Step(p) \/ Die(p)
    \/ \E m \in Module : Publish(m) \/ Yank(m)

MCSpec == Init /\ [][MCNext]_vars
=============================================================================
