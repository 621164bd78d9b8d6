---------------------------- MODULE SchemaHistory ----------------------------
(***************************************************************************)
(* What the migration runner promises about one database and the builds    *)
(* that start on it.  There are no versions, locks, sessions or failures:  *)
(* effects appear one by one, each only when everything its build wants    *)
(* before it is recorded as done; a record follows its effect and is never *)
(* taken back; and a build serves only when its whole plan is recorded.    *)
(* Module Migration implements it, as long as nobody changes the database  *)
(* by hand.                                                                *)
(***************************************************************************)
CONSTANTS Builds,   \* the builds that start
          Plan,     \* [Builds -> [steps -> sets of steps]]: the steps each
                    \*   wants, and which of them it wants before each
          Changes   \* the steps that change the database

VARIABLES effects,  \* the steps whose effect is there
          recorded, \* the steps recorded as succeeded
          serving   \* the builds that serve

vars == <<effects, recorded, serving>>

Init == effects = {} /\ recorded = {} /\ serving = {}

\* Step x of the plan of b is due.
Due(b, x) == Plan[b][x] \subseteq recorded

Perform(b, x) ==
    /\ Due(b, x)
    /\ x \in Changes \ effects
    /\ effects' = effects \cup {x}
    /\ UNCHANGED <<recorded, serving>>

Record(b, x) ==
    /\ Due(b, x)
    /\ x \in Changes => x \in effects
    /\ recorded' = recorded \cup {x}
    /\ UNCHANGED <<effects, serving>>

Serve(b) ==
    /\ DOMAIN Plan[b] \subseteq recorded
    /\ serving' = serving \cup {b}
    /\ UNCHANGED <<effects, recorded>>

Exit(b) ==
    /\ serving' = serving \ {b}
    /\ UNCHANGED <<effects, recorded>>

Next ==
    \E b \in Builds :
        \/ \E x \in DOMAIN Plan[b] : Perform(b, x) \/ Record(b, x)
        \/ Serve(b) \/ Exit(b)

Spec == Init /\ [][Next]_vars
=============================================================================
