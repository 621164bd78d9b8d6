--------------------------- MODULE MCStartupChecks ---------------------------
(***************************************************************************)
(* Bounded instances of StartupChecks for TLC.                             *)
(***************************************************************************)
EXTENDS StartupChecks, TLC

CONSTANTS root, ops, amy, bob

User(n, k) == n :> [admin |-> FALSE, stored |-> k]
Admin(n, k) == n :> [admin |-> TRUE, stored |-> k]

\* New, old with and without an administrator, migrated, with an ordinary user
\* of the configured name, and damaged.
MCTables == {NoRows,
             User(amy, "plain") @@ User(bob, "plain"),
             User(amy, "hash") @@ User(bob, "plain"),
             User(amy, "hash"),
             User(root, "hash"),
             Admin(amy, "plain") @@ User(bob, "hash"),
             User(amy, "plain") @@ User(bob, "invalid")}

MCConfigs == [Procs -> [migrate : BOOLEAN, name : {root, ops, NoName}]]
=============================================================================
