----------------------------- MODULE ServerText -----------------------------
(***************************************************************************)
(* How the MySQL server reads a text, beside how isSingleServerStatement   *)
(* does: its own rules for quotes, escapes and comments, under the sql_mode*)
(* that MySqlConnection sets (strings in single or double quotes, with     *)
(* backslash escapes).  It differs from the scanner in these:              *)
(*   - a backslash escapes nothing in a name in backticks;                 *)
(*   - what is in a comment that begins with "!" is code;                  *)
(*   - two dashes begin a comment also before a control character and at   *)
(*     the very end;                                                       *)
(*   - a statement may begin with a quote.                                 *)
(* An empty statement, between two semicolons, is none.                    *)
(***************************************************************************)
EXTENDS Manifest

\* mode is as for the scanner; skip counts the characters read together with the
\* last one; executable says that a comment that is code is open; begun that a
\* statement is, and statements how many have been.
ServerStart == [mode |-> "code", skip |-> 0, executable |-> FALSE, begun |-> FALSE, statements |-> 0]

Begun(s) == [s EXCEPT !.begun = TRUE, !.statements = IF s.begun THEN @ ELSE @ + 1]

ServerQuoted(s, c, d) ==
    CASE c = "backslash" /\ s.mode # "backtick" -> [s EXCEPT !.skip = 1]
      [] c = s.mode /\ d = s.mode -> [s EXCEPT !.skip = 1]
      [] c = s.mode /\ d # s.mode -> [s EXCEPT !.mode = "code"]
      [] OTHER -> s

ServerCode(s, c, d, e) ==
    CASE c = "hash" -> [s EXCEPT !.mode = "line"]
      [] c = "dash" /\ d = "dash" /\ e \in Space \cup {"control", End} ->
            [s EXCEPT !.mode = "line", !.skip = 1]
      [] c = "slash" /\ d = "star" /\ e = "bang" -> [s EXCEPT !.executable = TRUE, !.skip = 2]
      [] c = "slash" /\ d = "star" /\ e # "bang" -> [s EXCEPT !.mode = "block", !.skip = 1]
      [] c = "star" /\ d = "slash" /\ s.executable -> [s EXCEPT !.executable = FALSE, !.skip = 1]
      [] c \in Quotes -> [Begun(s) EXCEPT !.mode = c]
      [] c = "semicolon" -> [s EXCEPT !.begun = FALSE]
      [] c \in Space -> s
      [] OTHER -> Begun(s)

\* The server at the character c followed by d and e.
ServerChar(s, c, d, e) ==
    CASE s.skip > 0 -> [s EXCEPT !.skip = @ - 1]
      [] s.skip = 0 /\ s.mode = "line" -> [s EXCEPT !.mode = IF c = "newline" THEN "code" ELSE @]
      [] s.skip = 0 /\ s.mode = "block" ->
            IF c = "star" /\ d = "slash" THEN [s EXCEPT !.mode = "code", !.skip = 1] ELSE s
      [] s.skip = 0 /\ s.mode \in Quotes -> ServerQuoted(s, c, d)
      [] s.skip = 0 /\ s.mode = "code" -> ServerCode(s, c, d, e)

CharAt(sql, i) == IF i <= Len(sql) THEN sql[i] ELSE End

\* The state after each beginning of the text.
ServerStates(sql) ==
    LET after[i \in 0..Len(sql)] ==
            IF i = 0 THEN ServerStart
            ELSE ServerChar(after[i - 1], CharAt(sql, i), CharAt(sql, i + 1), CharAt(sql, i + 2))
    IN  after

OneServerStatement(sql) ==
    LET last == ServerStates(sql)[Len(sql)]
    IN  last.statements = 1 /\ last.mode \in {"code", "line"} /\ ~last.executable
=============================================================================
