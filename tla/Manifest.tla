------------------------------ MODULE Manifest ------------------------------
(***************************************************************************)
(* infrastructure/mysql/migration: what discoverMigrations and             *)
(* readMigrationBootstrapSql make of the directory "migrations".  Whatever *)
(* is wrong with one file the result is a failure, the empty set here;     *)
(* which of several failures is reported is left out.                      *)
(*                                                                         *)
(* The directory is a set of directories [named, version, name, files];    *)
(* named says that its name has the form dddd_name.  A ".step" file is a   *)
(* record [file, keyed, id, phase, execution, apply, verify, sha256]: file *)
(* is its name, keyed says that its lines have a "=", apply and verify are *)
(* the texts of the files it names, and Missing is a field or a file that  *)
(* is not there.  Versions and ids are numbers in the order of their texts.*)
(* A text is a sequence of characters, of which the scanner tells apart    *)
(* those below.                                                            *)
(***************************************************************************)
EXTENDS Naturals, Sequences, FiniteSets

CONSTANT Missing

Quotes == {"single", "double", "backtick"}
CR == "return"
Space == {"space", "newline", CR}
End == "end"  \* past the last character

Phases == {"precheck", "expand", "backfill", "switch", "cleanup"}
Executions == {"check", "atomic_ddl", "transactional_dml"}
-----------------------------------------------------------------------------
(* isSingleServerStatement *)

\* mode is "code", "line" or "block" comment, or the quote that is open; skip
\* says that the next character was read together with the last one.
Start == [mode |-> "code", skip |-> FALSE, ended |-> FALSE, saw |-> FALSE, second |-> FALSE]

\* Defect: what one quote opens any other closes.
ReadQuotedByAny(s, c, d) ==
    CASE c = "backslash" -> [s EXCEPT !.skip = TRUE]
      [] c \in Quotes -> [s EXCEPT !.mode = "code"]
      [] OTHER -> s

ReadQuoted(s, c, d) ==
    CASE c = "backslash" \/ (c = s.mode /\ d = s.mode) -> [s EXCEPT !.skip = TRUE]
      [] c = s.mode /\ d # s.mode -> [s EXCEPT !.mode = "code"]
      [] OTHER -> s

ReadCode(s, c, d, e) ==
    CASE c = "hash" \/ (c = "dash" /\ d = "dash" /\ e \in Space) ->
            [s EXCEPT !.mode = "line", !.skip = (c = "dash")]
      [] c = "slash" /\ d = "star" -> [s EXCEPT !.mode = "block", !.skip = TRUE]
      [] c \in Quotes -> [s EXCEPT !.mode = c]
      [] c = "semicolon" -> [s EXCEPT !.ended = TRUE]
      [] c \in Space -> s
      [] OTHER -> [s EXCEPT !.saw = TRUE, !.second = @ \/ s.ended]

\* One turn of the loop, at the character c followed by d and e.
ReadChar(s, c, d, e) ==
    CASE s.skip -> [s EXCEPT !.skip = FALSE]
      [] ~s.skip /\ s.mode = "line" -> [s EXCEPT !.mode = IF c = "newline" THEN "code" ELSE @]
      [] ~s.skip /\ s.mode = "block" ->
            IF c = "star" /\ d = "slash" THEN [s EXCEPT !.mode = "code", !.skip = TRUE] ELSE s
      [] ~s.skip /\ s.mode \in Quotes -> ReadQuoted(s, c, d)
      [] ~s.skip /\ s.mode = "code" -> ReadCode(s, c, d, e)

IsSingleServerStatement(sql) ==
    LET char(i) == IF i <= Len(sql) THEN sql[i] ELSE End
        after[i \in 0..Len(sql)] ==
            IF i = 0 THEN Start ELSE ReadChar(after[i - 1], char(i), char(i + 1), char(i + 2))
        last == after[Len(sql)]
    IN  last.saw /\ ~last.second /\ last.mode \in {"code", "line"}
-----------------------------------------------------------------------------
(* The files *)

\* What is found, whether it is as it should be or not.
IsText(text) == text = Missing \/ text \in Seq(STRING)
IsStepFile(f) ==
    /\ DOMAIN f = {"file", "keyed", "id", "phase", "execution", "apply", "verify", "sha256"}
    /\ f.id = Missing \/ f.id \in Nat
    /\ IsText(f.apply) /\ IsText(f.verify)
IsDirectory(d) ==
    /\ d.named => d.version \in Nat
    /\ IsFiniteSet(d.files) /\ \A f \in d.files : IsStepFile(f)
IsRoot(root) == IsFiniteSet(root) /\ \A d \in root : IsDirectory(d)

ReadText(text) ==
    LET kept[n \in 0..Len(text)] ==
            IF n = 0 THEN << >>
            ELSE IF text[n] = CR THEN kept[n - 1]
            ELSE Append(kept[n - 1], text[n])
    IN  kept[Len(text)]

\* A file that is there and holds one statement.
Readable(text) == text # Missing /\ IsSingleServerStatement(ReadText(text))

\* Defect: the texts are hashed one after the other, without their sizes.
Unsized(text) == text

Sized(text) == <<Len(text)>> \o text

\* migrationChecksum: what is hashed stands for the hash.
MigrationChecksum(f) ==
    <<f.id, f.phase, f.execution>> \o Sized(ReadText(f.apply)) \o Sized(ReadText(f.verify))

\* readStep succeeds.
Accepted(f) ==
    /\ f.keyed
    /\ \A field \in DOMAIN f : f[field] # Missing
    /\ f.phase \in Phases
    /\ f.execution \in Executions
    /\ Readable(f.apply)
    /\ Readable(f.verify)
    /\ f.sha256 = MigrationChecksum(f)

StepOf(f) == [id |-> f.id, phase |-> f.phase, execution |-> f.execution,
              applySql |-> ReadText(f.apply), verifySql |-> ReadText(f.verify),
              checksum |-> f.sha256]

\* The elements of S by their key, a number of each that no other one has.
Sorted(S, key) ==
    CHOOSE q \in [1..Cardinality(S) -> S] :
        \A i, j \in 1..Cardinality(S) : i < j => key[q[i]] < key[q[j]]

Steps(d) ==
    LET files == Sorted(d.files, [f \in d.files |-> f.id])
    IN  [i \in DOMAIN files |-> StepOf(files[i])]

DistinctIds(files) == \A f, g \in files : f.id = g.id => f = g
DistinctVersions(dirs) == \A c, d \in dirs : c.version = d.version => c = d

\* discoverMigrations, on a directory with these directories.
DiscoverMigrations(root) ==
    IF /\ \A d \in root :
            /\ d.named
            /\ \A f \in d.files : Accepted(f)
            /\ d.files # {}
            /\ DistinctIds(d.files)
       /\ DistinctVersions(root)
    THEN LET dirs == Sorted(root, [d \in root |-> d.version])
         IN  {[i \in DOMAIN dirs |->
                 [version |-> dirs[i].version, name |-> dirs[i].name, steps |-> Steps(dirs[i])]]}
    ELSE {}

\* readMigrationBootstrapSql, given the two files of each of the two tables.
BootstrapNames == <<"schema_migrations", "schema_migration_steps">>
ReadMigrationBootstrapSql(files) ==
    IF \A n \in DOMAIN files : Readable(files[n].apply) /\ Readable(files[n].verify)
    THEN {[i \in DOMAIN BootstrapNames |->
             LET n == BootstrapNames[i]
             IN  [id |-> n, applySql |-> ReadText(files[n].apply),
                  verifySql |-> ReadText(files[n].verify)]]}
    ELSE {}
=============================================================================
