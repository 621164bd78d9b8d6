------------------------------- MODULE HttpApi -------------------------------
(***************************************************************************)
(* api/legacy_http_server: what becomes of an HTTP request, composed with  *)
(* the service its handlers call.  A handler checks the request, calls the *)
(* use case (the steps of WarehouseService) and turns its result into a    *)
(* status, which stands for the whole response here.                       *)
(*                                                                         *)
(* The HTTP library is known from its use: it calls the pre-routing        *)
(* handler, reads the body, takes the first route that matches (those of   *)
(* GET serve HEAD too), and calls the error handler for a status of 400    *)
(* and more.                                                               *)
(***************************************************************************)
EXTENDS WarehouseService, GoodsId

CONSTANTS HttpRequests,  \* what clients may send: [method, path, header, files, auth,
                         \*   size, object, fields]
          Options        \* the limits HttpServerOptions asks for

VARIABLE reply  \* the status sent for each request, or Unsent
Unsent == 0

httpVars == <<vars, reply>>

HttpInit == Init /\ reply = [k \in Requests |-> Unsent]

\* A field of a JSON object is absent, has another type, or is a string.
Absent == [is |-> "absent"]
NotString == [is |-> "other"]
String(t) == [is |-> "string", text |-> t]

\* The strings of a request stand for what the use case makes of them.
ASSUME HttpAssumption ==
    \A r \in HttpRequests :
        LET f == r.fields
            Holds(v, ts) == v.is = "string" => v.text \in ts
        IN  /\ r.auth \in Tokens \cup {"none"}
            /\ r.method = "POST" /\ r.path = "/api/login" =>
                    Holds(f.username, Users) /\ Holds(f.password, {"right", "wrong", "empty"})
            /\ r.method = "POST" /\ r.path = "/api/goods" => Holds(f.name, {"given", "blank"})
            /\ r.method = "POST" /\ r.path = "/api/goods/take" /\ f.id.is = "string" =>
                    ParseGoodsId(f.id.text) \in Goods \cup {NoId}
-----------------------------------------------------------------------------
(* The checks.  Each yields a status, or Unsent to go on.                  *)

\* The first status of two checks.
Then(a, b) == IF a # Unsent THEN a ELSE b
Check(passed, status) == IF passed THEN Unsent ELSE status

Max2(m, n) == IF m < n THEN n ELSE m
Min2(m, n) == IF m < n THEN m ELSE n

\* The limits in force.
Limits ==
    LET json == Max2(Options.json, 1)
        payload == Max2(Options.payload, json)
    IN  [header |-> Max2(Options.header, 1), json |-> json, payload |-> payload,
         attachment |-> Min2(Options.attachment, payload)]

\* r.files is the largest part of a multipart form the library has read by then.
PreRouting(r) ==
    Then(Check(r.header <= Limits.header, 431), Check(r.files <= Limits.attachment, 413))

\* The library does not read on.
ReadBody(r) == Check(r.method \in {"POST", "PUT"} => r.size <= Limits.payload, 413)

\* A status without a body, be it of the library or of a handler.
IsApi(path) == path \in {"/api/login", "/api/goods", "/api/goods/take", "/api/other"}
ErrorHandler(r, status) ==
    IF status \in {413, 431} THEN status
    ELSE IF ~ IsApi(r.path) /\ r.method # "GET" THEN 405 ELSE 404

BearerToken(r) == Check(r.auth # "none", 401)

ParseObject(r) == Then(Check(r.size <= Limits.json, 413), Check(r.object, 400))

RequiredString(v) == Check(v.is = "string", 400)

OptionalString(v) == Check(v.is # "other", 400)
-----------------------------------------------------------------------------
(* The handlers, up to the call of the use case.                           *)

Send(k, status) == reply' = [reply EXCEPT ![k] = status] /\ UNCHANGED vars

\* A handler answers with a status of its own, or calls the use case, unless it
\* throws before that: catch (...) answers 500.
Handle(k, status, o) ==
    \/ Send(k, 500)
    \/ status # Unsent /\ Send(k, status)
    \/ status = Unsent /\ Call(k, o) /\ UNCHANGED reply

PostLogin(k, r) ==
    LET f == r.fields IN
    /\ r.method = "POST" /\ r.path = "/api/login"
    /\ Handle(k, Then(ParseObject(r),
                      Then(RequiredString(f.username), RequiredString(f.password))),
              [kind |-> "login", user |-> f.username.text, password |-> f.password.text])

GetGoods(k, r) ==
    /\ r.method \in {"GET", "HEAD"} /\ r.path = "/api/goods"
    /\ Handle(k, BearerToken(r), [kind |-> "list", token |-> r.auth])

PostGoods(k, r) ==
    LET f == r.fields IN
    /\ r.method = "POST" /\ r.path = "/api/goods"
    /\ Handle(k, Then(BearerToken(r), Then(ParseObject(r),
                      Then(RequiredString(f.name), OptionalString(f.location)))),
              [kind |-> "create", token |-> r.auth, name |-> f.name.text])

PostTake(k, r) ==
    LET f == r.fields IN
    /\ r.method = "POST" /\ r.path = "/api/goods/take"
    /\ Handle(k, Then(BearerToken(r), Then(ParseObject(r), RequiredString(f.id))),
              [kind |-> "take", token |-> r.auth, id |-> ParseGoodsId(f.id.text)])

\* serveStatic: a regular file under the public directory is found or not.
GetStatic(k, r) ==
    /\ r.method \in {"GET", "HEAD"} /\ r.path # "/api/goods"
    /\ \E status \in {500, IF r.path = "/file" THEN 200 ELSE 404} : Send(k, status)

Preflight(k, r) == r.method = "OPTIONS" /\ Send(k, 204)

\* No route matches.
Unrouted(k, r) ==
    /\ \/ r.method = "PUT"
       \/ r.method = "POST" /\ r.path \notin {"/api/login", "/api/goods", "/api/goods/take"}
    /\ Send(k, ErrorHandler(r, 404))

Route(k, r) ==
    \/ PostLogin(k, r) \/ GetGoods(k, r) \/ PostGoods(k, r) \/ PostTake(k, r)
    \/ GetStatic(k, r) \/ Preflight(k, r) \/ Unrouted(k, r)

Arrive(k) ==
    /\ pc[k] = "new" /\ reply[k] = Unsent
    /\ \E r \in HttpRequests :
        LET status == Then(PreRouting(r), ReadBody(r))
        IN  \/ status # Unsent /\ Send(k, ErrorHandler(r, status))
            \/ status = Unsent /\ Route(k, r)
-----------------------------------------------------------------------------
(* After the use case.                                                     *)

\* Defect: what could not be stored counts as a request that was not valid.
ApplicationErrorAsRefusal(code) ==
    CASE code \in {"InvalidLoginInput", "InvalidGoodsName", "InvalidGoodsId",
                   "GoodsAlreadyTaken", "PersistenceCreateFailed"} -> 400
      [] code \in {"InvalidCredentials", "Unauthenticated"} -> 401
      [] code = "Forbidden" -> 403
      [] code = "GoodsNotFound" -> 404
      [] OTHER -> 500

\* setApplicationError
ApplicationError(code) ==
    CASE code \in {"InvalidLoginInput", "InvalidGoodsName", "InvalidGoodsId",
                   "GoodsAlreadyTaken"} -> 400
      [] code \in {"InvalidCredentials", "Unauthenticated"} -> 401
      [] code = "Forbidden" -> 403
      [] code = "GoodsNotFound" -> 404
      [] OTHER -> 500

\* The response is made, unless that throws: whatever happened, catch (...)
\* answers 500.
Respond(k) ==
    /\ pc[k] = "done" /\ reply[k] = Unsent
    /\ \E status \in {500, IF verdict[k] # "ok" THEN ApplicationError(verdict[k])
                           ELSE IF op[k].kind = "create" THEN 201 ELSE 200} :
        Send(k, status)

\* The process dies; nobody answers the requests it had accepted.
Broken == 1
Dies ==
    /\ Crash
    /\ reply' = [k \in Requests |->
                   IF pc[k] # "new" /\ reply[k] = Unsent THEN Broken ELSE reply[k]]

Does(A) == A /\ UNCHANGED reply

HttpNext ==
    \/ Dies
    \/ \E k \in Requests :
        \/ Arrive(k) \/ Respond(k)
        \/ Does(Worker(k) \/ ServerDrops(k) \/ ServerCommits(k))

HttpSpec == HttpInit /\ [][HttpNext]_httpVars

\* An INSERT that finds no id left fails.
InsertWithoutId(k) ==
    /\ pc[k] = "first" /\ op[k].kind = "create"
    /\ nextId > MaxGoods
    /\ StatementFails(k)

\* A worker always gets on: statements, COMMIT and ROLLBACK return, because the
\* client library has timeouts.  A worker that waits for a connection has one if it
\* stays free (ConnectionPool: NoLostWakeup), and a statement that waits for a row
\* lock is served in turn once the lock is free; neither the deadline of acquire
\* nor a lock wait timeout nor a lost connection is relied upon.
\* The server drops every connection that is gone.
Fairness ==
    \A k \in Requests :
        /\ WF_httpVars(Does(Begin(k)))
        /\ SF_httpVars(Does(LoginSelect(k)))
        /\ SF_httpVars(Does(TakeUpdate(k))) /\ SF_httpVars(Does(TakeRecheck(k)))
        /\ WF_httpVars(Does(ListSelect(k)))
        /\ WF_httpVars(Does(CreateInsert(k) \/ InsertWithoutId(k)))
        /\ WF_httpVars(Does(LoginUpgrade(k))) /\ WF_httpVars(Does(ReadBack(k)))
        /\ WF_httpVars(Does(Rollback(k)))
        /\ WF_httpVars(Does(Commit(k) \/ CommitFails(k)))
        /\ WF_httpVars(Does(Finish(k)))
        /\ WF_httpVars(Does(ServerDrops(k) \/ ServerCommits(k)))
        /\ WF_httpVars(Respond(k))

FairSpec == HttpSpec /\ Fairness
-----------------------------------------------------------------------------
\* Every request that reached the service is answered, unless the process dies.
EveryRequestAnswered == \A k \in Requests : pc[k] # "new" ~> reply[k] # Unsent

\* The status alone tells the client what happened to the rows: 2xx, the write
\* is durable; 4xx, it never happens; 500 or no answer, it may have happened or
\* still happen.
ClientView(s) ==
    CASE s \in {Unsent, Broken} -> "none"
      [] s \in 200..299 -> "ok"
      [] s \in 400..499 -> "refused"
      [] s \in 500..599 -> "failed"

ClientLedger == INSTANCE GoodsLedger WITH
    want <- write,
    answer <- [k \in Requests |-> ClientView(reply[k])]

StatusTellsEffect == ClientLedger!Spec

\* A token that was handed out is honoured until the process dies: when its 200
\* is sent the session is there, and no other login or request removes it.
IsLogin(k) == op[k] # NoOp /\ op[k].kind = "login"
TokenHonoured ==
    [][\A k \in Requests : IsLogin(k) =>
        /\ reply[k] = Unsent /\ reply'[k] = 200 => k \in sessions
        /\ k \in sessions => k \in sessions' \/ crashes' # crashes]_httpVars
=============================================================================
