------------------------------- MODULE Inputs -------------------------------
(***************************************************************************)
(* What the program makes of what it is given from outside: the environment*)
(* and the directory "migrations" when it starts, goods ids afterwards.    *)
(* Each action is one call of the code's function with one of its inputs; a*)
(* behaviour is one call, because no call leaves anything to the next one. *)
(***************************************************************************)
EXTENDS GoodsId, Configuration, ServerText

CONSTANTS Environments,
          ProperEnvironment,  \* one without an issue
          Authored,           \* ".step" files as their authors signed them
          Roots,
          Bootstraps,
          IdTexts

Elems(q) == {q[i] : i \in DOMAIN q}

\* Files are edited, and their signatures exchanged, but nobody signs what he
\* has not written.
ASSUME AuthoredAssumption ==
    \A f \in Authored :
        IsStepFile(f) /\ Missing \notin {f.apply, f.verify} /\ f.sha256 = MigrationChecksum(f)
ASSUME RootsAssumption ==
    \A root \in Roots :
        /\ IsRoot(root)
        /\ \A d \in root : \A f \in d.files :
              f.sha256 \in {Missing} \cup {g.sha256 : g \in Authored}
ASSUME BootstrapsAssumption ==
    \A files \in Bootstraps :
        /\ DOMAIN files = Elems(BootstrapNames)
        /\ \A n \in DOMAIN files : IsText(files[n].apply) /\ IsText(files[n].verify)
ASSUME IdTextsAssumption == IdTexts \subseteq Seq(Chars)
ASSUME EnvironmentsAssumption ==
    \A env \in Environments \cup {ProperEnvironment} : IsEnvironment(env)
ASSUME ProperEnvironmentAssumption == LoadServerConfiguration(ProperEnvironment).issues = {}

VARIABLES input, outcome
vars == <<input, outcome>>

Init == input = <<"none">> /\ outcome = {}

Load(env) ==
    /\ input' = <<"environment", env>>
    /\ outcome' = LoadServerConfiguration(env)

Discover(root) ==
    /\ input' = <<"root", root>>
    /\ outcome' = DiscoverMigrations(root)

ReadBootstrap(files) ==
    /\ input' = <<"bootstrap", files>>
    /\ outcome' = ReadMigrationBootstrapSql(files)

Parse(text) ==
    /\ input' = <<"id", text>>
    /\ outcome' = {ParseGoodsId(text)}

Next ==
    /\ input = <<"none">>
    /\ \/ \E env \in Environments : Load(env)
       \/ \E root \in Roots : Discover(root)
       \/ \E files \in Bootstraps : ReadBootstrap(files)
       \/ \E text \in IdTexts : Parse(text)

Spec == Init /\ [][Next]_vars
-----------------------------------------------------------------------------
(* Properties *)

Kind == input[1]
Given == input[2]

\* Numbers are those given, or the default, and in range: in particular a pool
\* has a connection and a server a worker.
NumbersInRange(c) ==
    \A k \in DOMAIN c.numbers :
        /\ c.numbers[k] \in 1..Largest(k)
        /\ Given[k] # Unset => Given[k] = Number(c.numbers[k])

\* Each origin that is listed is allowed, once, and never all of them.
OriginsAsListed(c) ==
    LET cors == Given["CORS_ALLOWED_ORIGINS"]
    IN  /\ Elems(c.origins) = (IF cors = Unset THEN {} ELSE Elems(cors.items)) \ {Blank}
        /\ AnyOrigin \notin Elems(c.origins)
        /\ \A i, j \in DOMAIN c.origins : c.origins[i] = c.origins[j] => i = j

Named == UNION {IF i.key = "ADMIN" THEN Admin ELSE {i.key} : i \in outcome.issues}
Repaired == [k \in Keys |-> IF k \in Named THEN ProperEnvironment[k] ELSE Given[k]]

\* loadServerConfiguration yields a configuration only from an environment that
\* means it, and one report names everything there is to repair.
ConfigurationIsSound ==
    Kind = "environment" =>
        /\ outcome.configuration = {} <=> outcome.issues # {}
        /\ \A c \in outcome.configuration :
              NumbersInRange(c) /\ OriginsAsListed(c) /\ (c.admin <=> Given["ADMIN_PASSWORD"] # Unset)
        /\ LoadServerConfiguration(Repaired).configuration # {}

\* Only what its author signed is migrated to, whatever part of it was edited.
OnlySigned(manifest) ==
    \A d \in Elems(manifest) : Elems(d.steps) \subseteq {StepOf(f) : f \in Authored}

Ascending(numbers) == \A i, j \in DOMAIN numbers : i < j => numbers[i] < numbers[j]

\* Versions and steps are in order and none is dropped: what Migration assumes.
OrderedAndWhole(manifest) ==
    /\ Ascending([i \in DOMAIN manifest |-> manifest[i].version])
    /\ \A d \in Elems(manifest) :
          d.steps # << >> /\ Ascending([i \in DOMAIN d.steps |-> d.steps[i].id])
    /\ {<<d.version, d.name, {StepOf(f) : f \in d.files}>> : d \in Given} =
          {<<d.version, d.name, Elems(d.steps)>> : d \in Elems(manifest)}

StepsFound ==
    CASE Kind = "root" -> UNION {Elems(d.steps) : d \in UNION {Elems(m) : m \in outcome}}
      [] Kind = "bootstrap" -> UNION {Elems(m) : m \in outcome}
      [] OTHER -> {}

\* The places of a text where isSingleServerStatement is known to read something
\* else than the server, as the server stands there: a backslash in backticks
\* (migration.cpp:105), the beginning of a comment that is code (migration.cpp:112),
\* two dashes before a control character or at the end (migration.cpp:109), and a
\* quote that opens after the end of a statement (migration.cpp:113).
MisreadAt(s, c, d, e) ==
    /\ s.skip = 0
    /\ \/ s.mode = "backtick" /\ c = "backslash"
       \/ /\ s.mode = "code"
          /\ \/ c = "slash" /\ d = "star" /\ e = "bang"
             \/ c = "dash" /\ d = "dash" /\ e \in {"control", End}
             \/ c \in Quotes /\ s.statements > 0 /\ ~s.begun
Misread(sql) ==
    LET server == ServerStates(sql)
    IN  \E i \in DOMAIN sql :
           MisreadAt(server[i - 1], CharAt(sql, i), CharAt(sql, i + 1), CharAt(sql, i + 2))

\* Every text that discoverMigrations or readMigrationBootstrapSql yields is one
\* statement as the server reads it, by its own rules, if it has none of those places.
\* "migration apply and verify files must contain one server statement" (migration.cpp:79).
TextsAreSingle ==
    \A x \in StepsFound : \A sql \in {x.applySql, x.verifySql} :
        Misread(sql) \/ OneServerStatement(sql)

\* What discoverMigrations gives the runner was signed, is in order, and is all of
\* the directory.
DiscoveredIsSound ==
    Kind = "root" => \A m \in outcome : OnlySigned(m) /\ OrderedAndWhole(m)

\* What the runner is given may be migrated to: signed, in order, whole, and one
\* statement per text for the server, outside the places where it reads differently.
ManifestIsSound == DiscoveredIsSound /\ TextsAreSingle

\* parseGoodsId accepts exactly the texts that denote a number of 1..MaxId, and
\* returns that number: however many leading zeros, and at the very limit.
ParsedIdIsExact ==
    Kind = "id" =>
        LET s == IF Given # << >> /\ Head(Given) = G THEN Tail(Given) ELSE Given
            number == s # << >> /\ (\A i \in DOMAIN s : s[i] \in Digits)
        IN  outcome = {IF number /\ Denoted(s) \in 1..MaxId THEN Denoted(s) ELSE NoNumber}
=============================================================================
