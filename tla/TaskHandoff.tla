----------------------------- MODULE TaskHandoff -----------------------------
(***************************************************************************)
(* What the task queue of the HTTP server promises: tasks are accepted     *)
(* while there is room, started in the order in which they were accepted   *)
(* by a fixed number of workers, and refused once closing began.  Closing  *)
(* is over when every accepted task has been run.                          *)
(***************************************************************************)
EXTENDS Naturals, Sequences, FiniteSets

CONSTANTS Tasks, Workers, Limit

VARIABLES line,     \* accepted and not started
          running,  \* started and not ended
          settled,  \* ended, or refused
          gate      \* "open", "closing", "closed"

vars == <<line, running, settled, gate>>

Known == {line[i] : i \in DOMAIN line} \cup running \cup settled

Init ==
    /\ line = << >>
    /\ running = {} /\ settled = {}
    /\ gate = "open"

Accept(t) ==
    /\ gate = "open" /\ t \notin Known
    /\ Len(line) < Limit
    /\ line' = Append(line, t)
    /\ UNCHANGED <<running, settled, gate>>

Refuse(t) ==
    /\ gate # "open" /\ t \notin Known
    /\ settled' = settled \cup {t}
    /\ UNCHANGED <<line, running, gate>>

Start ==
    /\ line # << >> /\ Cardinality(running) < Cardinality(Workers)
    /\ running' = running \cup {Head(line)}
    /\ line' = Tail(line)
    /\ UNCHANGED <<settled, gate>>

End ==
    \E t \in running :
        /\ running' = running \ {t}
        /\ settled' = settled \cup {t}
        /\ UNCHANGED <<line, gate>>

StartClosing == gate = "open" /\ gate' = "closing" /\ UNCHANGED <<line, running, settled>>

Close ==
    /\ gate = "closing" /\ line = << >> /\ running = {}
    /\ gate' = "closed"
    /\ UNCHANGED <<line, running, settled>>

Next == (\E t \in Tasks : Accept(t) \/ Refuse(t)) \/ Start \/ End \/ StartClosing \/ Close

\* A free worker does not leave accepted tasks waiting, and closing comes to an
\* end when they are done.
Spec == Init /\ [][Next]_vars /\ WF_vars(Start) /\ WF_vars(Close)
=============================================================================
