----------------------------- MODULE GoodsLedger -----------------------------
(***************************************************************************)
(* What the warehouse service promises its clients about the durable rows. *)
(* A write moves one row from one state to the next; every request writes  *)
(* at most once, in one atomic step that finds the row in the state the    *)
(* write starts from.  A request acknowledged as "ok" has taken effect and *)
(* a refused one never does; one that is answered "failed", or never       *)
(* answered, may have taken effect and may still do so later.              *)
(* Module WarehouseService implements it.                                  *)
(***************************************************************************)
CONSTANTS Requests,  \* the requests ever submitted
          Writes,    \* [row, from, to]: the writes a request can be about
          NoWrite    \* of a request that writes nothing

VARIABLES row,       \* the durable state of each row
          want,      \* the write each request is about
          applied,   \* the requests that took effect
          answer     \* "none", "ok", "refused" or "failed" for each request

vars == <<row, want, applied, answer>>

\* The rows start in any state.
Init ==
    /\ want = [k \in Requests |-> NoWrite]
    /\ applied = {}
    /\ answer = [k \in Requests |-> "none"]

\* The request, still to be answered, settles on its write.
Aim(k) ==
    /\ answer[k] = "none" /\ want[k] = NoWrite
    /\ \E w \in Writes : want' = [want EXCEPT ![k] = w]
    /\ UNCHANGED <<row, applied, answer>>

\* The one atomic effect.
Apply(k) ==
    /\ answer[k] \in {"none", "failed"}
    /\ k \notin applied
    /\ want[k] # NoWrite
    /\ row[want[k].row] = want[k].from
    /\ row' = [row EXCEPT ![want[k].row] = want[k].to]
    /\ applied' = applied \cup {k}
    /\ UNCHANGED <<want, answer>>

Reply(k) ==
    /\ answer[k] = "none"
    /\ \/ /\ want[k] = NoWrite \/ k \in applied
          /\ answer' = [answer EXCEPT ![k] = "ok"]
       \/ /\ k \notin applied
          /\ answer' = [answer EXCEPT ![k] = "refused"]
       \/ answer' = [answer EXCEPT ![k] = "failed"]
    /\ UNCHANGED <<row, want, applied>>

Next == \E k \in Requests : Aim(k) \/ Apply(k) \/ Reply(k)

Spec == Init /\ [][Next]_vars
=============================================================================
