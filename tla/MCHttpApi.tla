------------------------------ MODULE MCHttpApi ------------------------------
(***************************************************************************)
(* A bounded instance of HttpApi for TLC: a well-formed request of every   *)
(* kind, and the same request with one part changed.                       *)
(***************************************************************************)
EXTENDS HttpApi, TLC

CONSTANTS manager, viewer

MCUsers == {manager, viewer}
MCOneUser == {manager}
MCWriters == {manager}

\* A payload limit below that of JSON is raised to it; an attachment limit above
\* that of the payload is lowered to it.
MCOptions == [header |-> 2, json |-> 2, payload |-> 1, attachment |-> 9]

Base == [method |-> "GET", path |-> "/file", header |-> 1, files |-> 0, auth |-> "none",
         size |-> 1, object |-> TRUE, fields |-> << >>]
Values(ts) == {Absent, NotString} \cup {String(t) : t \in ts}

\* G2 in two ways, no id, and numbers out of range.
Ids == {<<G, 0, 2>>, <<1>>, <<G>>, <<0>>, <<1, Other>>, <<3, 2>>}

Logins == [method : {"POST"}, path : {"/api/login"}, fields :
             [username : Values(Users), password : Values({"right", "wrong", "empty"})]]
Creates == [method : {"POST"}, path : {"/api/goods"}, auth : Tokens \cup {"none"}, fields :
              [name : Values({"given", "blank"}), location : Values({"any"})]]
Takes == [method : {"POST"}, path : {"/api/goods/take"}, auth : Tokens \cup {"none"}, fields :
            [id : Values(Ids)]]
Lists == [method : {"GET", "HEAD"}, path : {"/api/goods"}, auth : Tokens \cup {"none"}]
Others == [method : {"GET", "HEAD", "OPTIONS", "PUT"},
           path : {"/api/login", "/api/other", "/file", "/missing"}]
            \cup [method : {"POST"}, path : {"/api/other", "/file"}]

Proper == {r @@ Base : r \in Logins \cup Creates \cup Takes \cup Lists \cup Others}
MCHttpRequests ==
    Proper \cup {[r EXCEPT !.header = 3] : r \in Proper} \cup {[r EXCEPT !.files = 3] : r \in Proper}
           \cup {[r EXCEPT !.size = 3] : r \in Proper} \cup {[r EXCEPT !.object = FALSE] : r \in Proper}
=============================================================================
