----------------------------- MODULE MCMigration -----------------------------
(***************************************************************************)
(* Bounded instances of Migration for TLC: pairs of builds whose manifests *)
(* are those of a release and its successor, or disagree.                  *)
(***************************************************************************)
EXTENDS Migration, TLC

CONSTANTS old, new

Step(k, c, x) == [key |-> k, sum |-> c, kind |-> x, cleanup |-> FALSE]
Cleanup(k) == [key |-> k, sum |-> "c0", kind |-> "dml", cleanup |-> TRUE]

First == [version |-> 1, name |-> "baseline",
          steps |-> <<Step("a", "c0", "ddl"), Step("b", "c0", "dml")>>]
Second == [version |-> 2, name |-> "second",
           steps |-> <<Step("c", "c0", "check"), Step("d", "c0", "dml"), Cleanup("e")>>]

\* A release, and its successor with one more version.
MCUpgrade == old :> <<First>> @@ new :> <<First, Second>>

\* Two builds whose first version was edited: another step b, and a new step.
Edited == [First EXCEPT !.steps = <<Step("a", "c0", "ddl"), Step("b", "c1", "dml"),
                                    Step("f", "c0", "ddl")>>]
MCEdited == old :> <<First>> @@ new :> <<Edited>>
=============================================================================
