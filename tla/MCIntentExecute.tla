--------------------------- MODULE MCIntentExecute ---------------------------
(* One slug that may be created twice, and one library, which its intents    *)
(* create, modify and test.                                                 *)
EXTENDS IntentExecute

MCSpecs == {[create |-> <<"lib">>, modify |-> <<"main", "lib">>, tests |-> 1]}
=============================================================================
