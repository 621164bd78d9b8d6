------------------------------ MODULE MCInputs ------------------------------
(***************************************************************************)
(* Bounded inputs for TLC: environments with up to two variables that are  *)
(* not as they should be, directories of up to two versions of up to two   *)
(* steps, short texts.                                                     *)
(***************************************************************************)
EXTENDS Inputs, TLC

Baseline ==
    [k \in Keys |-> IF k = "DB_PORT" THEN Number(1) ELSE IF k \in RequiredKeys THEN Text("x") ELSE Unset]
Numbers == {Number(n) : n \in {0, 1, 2, MaxPort, MaxPort + 1, MaxSize, MaxParsed + 1}}
Listed == {<<"">>, <<"*">>, <<"a">>, <<"a", "", "b", "a">>, <<"b", "*">>}
ValuesOf(k) ==
    CASE k = "CORS_ALLOWED_ORIGINS" -> {Unset} \cup {List(items) : items \in Listed}
      [] k = "MIGRATE_PASSWORDS" -> {Unset, Empty, Text("yes"), Text("no"), Text("x")}
      [] OTHER -> {Unset, Empty, Text("x")} \cup Numbers
MCEnvironments ==
    UNION {{(k :> v) @@ (l :> w) @@ Baseline : v \in ValuesOf(k), w \in ValuesOf(l)} : k, l \in Keys}

\* A signed step in two versions, and what becomes of it when one part of the
\* file is edited: in the last case a character moves from one text to the other.
A == <<"x">>
AA == <<"x", "x">>
Two == <<"x", "semicolon", "x">>
Sign(f) == [f EXCEPT !.sha256 = MigrationChecksum(f)]
File(i, apply, verify) ==
    Sign([file |-> "a", keyed |-> TRUE, id |-> i, phase |-> "expand", execution |-> "atomic_ddl",
          apply |-> apply, verify |-> verify, sha256 |-> Missing])
MCAuthored == {File(1, A, AA), File(2, A, AA), File(2, A, Two)}
Edits(f) ==
    {[f EXCEPT !.keyed = FALSE], [f EXCEPT !.id = 3], [f EXCEPT !.id = Missing],
     [f EXCEPT !.phase = "cleanup"], [f EXCEPT !.phase = "other"], [f EXCEPT !.execution = "check"],
     [f EXCEPT !.execution = "other"], [f EXCEPT !.apply = Missing], [f EXCEPT !.verify = A],
     [f EXCEPT !.apply = Append(A, CR)], [f EXCEPT !.sha256 = Missing],
     [f EXCEPT !.apply = AA, !.verify = A]}
Files == MCAuthored \cup UNION {Edits(f) : f \in MCAuthored}
Directory(n, name, files) == [named |-> TRUE, version |-> n, name |-> name, files |-> files]
Pairs == {{f, [g EXCEPT !.file = "b"]} : f \in Files, g \in MCAuthored}
Singles == {{}} \cup {{f} : f \in MCAuthored \cup Edits(File(1, A, AA))}
Firsts == {Directory(1, "a", fs) : fs \in Pairs \cup Singles}
Seconds == {Directory(n, "b", fs) : n \in {1, 2}, fs \in Singles}
MCRoots ==
    {{}} \cup {{d} : d \in Firsts} \cup {{d, e} : d \in Firsts, e \in Seconds}
    \cup {{[d EXCEPT !.named = FALSE], e} : d \in Firsts, e \in Seconds}

SqlChars == {"single", "backtick", "semicolon", "hash", "dash", "slash", "star", "bang",
             "backslash", "space", "newline", CR, "control", "x"}
\* What longer texts begin with: a string, a statement, a comment, a quote in a
\* string, a backslash in a name, the beginning of a comment that is code.
Beginnings ==
    {<<"single", "semicolon", "single", "x">>, <<"x", "semicolon">>,
     <<"x", "dash", "dash", "space", "semicolon", "newline">>,
     <<"x", "single", "backtick", "single", "semicolon">>,
     <<"x", "backtick", "backslash", "backtick", "semicolon">>, <<"x", "slash", "star", "bang">>}
Sqls == {Missing} \cup UNION {[1..n -> SqlChars] : n \in 0..3}
          \cup {first \o t : first \in Beginnings, t \in [1..3 -> SqlChars]}
Tables == Elems(BootstrapNames)
MCBootstraps ==
    {[n \in Tables |-> IF n = t THEN [apply |-> sql, verify |-> A] ELSE [apply |-> A, verify |-> AA]] :
        t \in Tables, sql \in Sqls}

MCIdTexts == UNION {[1..n -> Chars] : n \in 0..3} \cup {<<0, 0>> \o t : t \in [1..2 -> Digits]}
=============================================================================
