---------------------------- MODULE HttpApiProofs ----------------------------
(***************************************************************************)
(* Theorems about HttpApi, for any clients, limits, requests and goods,    *)
(* built on those about the service below it.                              *)
(***************************************************************************)
EXTENDS HttpApi, WarehouseServiceProofs

\* The service of the HTTP layer is the service: a handler calls it only with
\* what it is specified for, and does nothing else to its state.
LEMMA HandleCalls ==
    ASSUME NEW k, NEW status, NEW o, Handle(k, status, o), status = Unsent => o \in Ops
    PROVE  \/ Receive(k) /\ UNCHANGED reply
           \/ UNCHANGED vars
BY DEF Handle, Send, Receive

\* The calls of the four use cases.
LEMMA Calls ==
    /\ \A u \in Users, w \in {"right", "wrong", "empty"} :
            [kind |-> "login", user |-> u, password |-> w] \in Ops
    /\ \A t \in Tokens : [kind |-> "list", token |-> t] \in Ops
    /\ \A t \in Tokens, n \in {"given", "blank"} : [kind |-> "create", token |-> t, name |-> n] \in Ops
    /\ \A t \in Tokens, i \in Goods \cup {NoId} : [kind |-> "take", token |-> t, id |-> i] \in Ops
BY DEF Ops

LEMMA ArriveReceives ==
    ASSUME NEW k \in Requests, Arrive(k)
    PROVE  \/ Receive(k) /\ UNCHANGED reply
           \/ UNCHANGED vars
<1> PICK r \in HttpRequests : \/ \E s : Send(k, ErrorHandler(r, s))
                              \/ Route(k, r)
  BY DEF Arrive
<1> DEFINE f == r.fields
<1>1. CASE PostLogin(k, r)
  <2> DEFINE status == Then(ParseObject(r), Then(RequiredString(f.username), RequiredString(f.password)))
             o == [kind |-> "login", user |-> f.username.text, password |-> f.password.text]
  <2>1. ASSUME status = Unsent PROVE o \in Ops
    <3>1. f.username.is = "string" /\ f.password.is = "string"
      BY <2>1 DEF Then, Check, RequiredString, Unsent
    <3>2. QED BY <1>1, <3>1, HttpAssumption, Calls DEF PostLogin
  <2>2. QED BY <1>1, <2>1, HandleCalls DEF PostLogin
<1>2. CASE GetGoods(k, r)
  <2> DEFINE status == BearerToken(r)
             o == [kind |-> "list", token |-> r.auth]
  <2>1. ASSUME status = Unsent PROVE o \in Ops
    <3>1. r.auth # "none"
      BY <2>1 DEF Then, Check, BearerToken, Unsent
    <3>2. QED BY <3>1, HttpAssumption, Calls
  <2>2. QED BY <1>2, <2>1, HandleCalls DEF GetGoods
<1>3. CASE PostGoods(k, r)
  <2> DEFINE status == Then(BearerToken(r), Then(ParseObject(r),
                            Then(RequiredString(f.name), OptionalString(f.location))))
             o == [kind |-> "create", token |-> r.auth, name |-> f.name.text]
  <2>1. ASSUME status = Unsent PROVE o \in Ops
    <3>1. r.auth # "none" /\ f.name.is = "string"
      BY <2>1 DEF Then, Check, BearerToken, RequiredString, Unsent
    <3>2. QED BY <1>3, <3>1, HttpAssumption, Calls DEF PostGoods
  <2>2. QED BY <1>3, <2>1, HandleCalls DEF PostGoods
<1>4. CASE PostTake(k, r)
  <2> DEFINE status == Then(BearerToken(r), Then(ParseObject(r), RequiredString(f.id)))
             o == [kind |-> "take", token |-> r.auth, id |-> ParseGoodsId(f.id.text)]
  <2>1. ASSUME status = Unsent PROVE o \in Ops
    <3>1. r.auth # "none" /\ f.id.is = "string"
      BY <2>1 DEF Then, Check, BearerToken, RequiredString, Unsent
    <3>2. QED BY <1>4, <3>1, HttpAssumption, Calls DEF PostTake
  <2>2. QED BY <1>4, <2>1, HandleCalls DEF PostTake
<1>5. CASE GetStatic(k, r) \/ Preflight(k, r) \/ Unrouted(k, r)
  BY <1>5 DEF GetStatic, Preflight, Unrouted, Send
<1>6. QED BY <1>1, <1>2, <1>3, <1>4, <1>5 DEF Route, Send

\* Whatever clients send, the handlers call the service only with what it is
\* specified for, and change nothing of it: its theorems hold under HTTP.
THEOREM HttpUsesService == HttpSpec => Spec
<1>1. HttpInit => Init
  BY DEF HttpInit
<1>2. [HttpNext]_httpVars => [Next]_vars
  BY ArriveReceives DEF HttpNext, httpVars, Dies, Respond, Send, Does, Next
<1>3. QED BY <1>1, <1>2, PTL DEF HttpSpec, Spec

-----------------------------------------------------------------------------

Statuses == {Unsent, Broken, 200, 201, 204, 400, 401, 403, 404, 405, 413, 431, 500}

\* How far a request got and what has been sent belong together.
Replies ==
    /\ reply \in [Requests -> Statuses]
    /\ \A k \in Requests :
        /\ pc[k] = "new" => op[k] = NoOp
        /\ pc[k] \in Active => reply[k] = Unsent
        /\ pc[k] = "dead" => reply[k] = Broken
        /\ pc[k] = "done" /\ verdict[k] \in Failures => reply[k] \in {Unsent, Broken, 500}
        /\ pc[k] = "done" /\ verdict[k] = "ok" /\ IsLogin(k) => k \in sessions \/ reply[k] # Unsent

LEMMA CheckStatuses ==
    ASSUME NEW r
    PROVE  /\ Then(PreRouting(r), ReadBody(r)) \in {Unsent, 413, 431}
           /\ ParseObject(r) \in {Unsent, 413, 400}
           /\ BearerToken(r) \in {Unsent, 401}
           /\ \A v : RequiredString(v) \in {Unsent, 400} /\ OptionalString(v) \in {Unsent, 400}
           /\ \A s : ErrorHandler(r, s) \in {413, 431, 405, 404}
           /\ \A a, b : Then(a, b) \in {a, b}
BY DEF Then, Check, PreRouting, ReadBody, ParseObject, BearerToken, RequiredString, OptionalString,
       ErrorHandler

\* What an error code becomes.
LEMMA ErrorStatuses ==
    /\ \A code \in Refusals : ApplicationError(code) \in {400, 401, 403, 404}
    /\ \A code \in Failures : ApplicationError(code) = 500
BY DEF ApplicationError, Refusals, Failures

\* A request that is answered without the service gets a status of the table.
LEMMA HandleSends ==
    ASSUME NEW k, NEW status \in {Unsent, 400, 401, 413}, NEW o, Handle(k, status, o)
    PROVE  \/ Call(k, o) /\ UNCHANGED reply
           \/ \E s \in {400, 401, 413, 500} : Send(k, s)
BY DEF Handle, Unsent

LEMMA ArriveSends ==
    ASSUME TypeOK, NEW k \in Requests, Arrive(k)
    PROVE  \/ Receive(k) /\ UNCHANGED reply
           \/ \E s \in Statuses \ {Unsent, Broken} : Send(k, s)
<1> PICK r \in HttpRequests : \/ \E s : Send(k, ErrorHandler(r, s))
                              \/ Route(k, r)
  BY DEF Arrive
<1> USE DEF Statuses, Unsent, Broken
<1>1. CASE \E s : Send(k, ErrorHandler(r, s))
  BY <1>1, CheckStatuses
<1>2. CASE PostLogin(k, r) \/ GetGoods(k, r) \/ PostGoods(k, r) \/ PostTake(k, r)
  <2> DEFINE f == r.fields
  <2>1. /\ Then(ParseObject(r), Then(RequiredString(f.username), RequiredString(f.password)))
               \in {Unsent, 400, 401, 413}
        /\ BearerToken(r) \in {Unsent, 400, 401, 413}
        /\ Then(BearerToken(r), Then(ParseObject(r), Then(RequiredString(f.name), OptionalString(f.location))))
               \in {Unsent, 400, 401, 413}
        /\ Then(BearerToken(r), Then(ParseObject(r), RequiredString(f.id))) \in {Unsent, 400, 401, 413}
    BY DEF Then, Check, ParseObject, BearerToken, RequiredString, OptionalString
  <2>2. (\E o : Call(k, o) /\ UNCHANGED reply) \/ \E s \in {400, 401, 413, 500} : Send(k, s)
    BY <1>2, <2>1, HandleSends DEF PostLogin, GetGoods, PostGoods, PostTake
  <2>3. CASE \E s \in {400, 401, 413, 500} : Send(k, s)
    BY <2>3
  <2>4. CASE \E o : Call(k, o) /\ UNCHANGED reply
    <3>1. pc' # pc
      BY <2>4 DEF TypeOK, Call, Goto
    <3>2. QED BY <3>1, ArriveReceives DEF vars, client
  <2>5. QED BY <2>2, <2>3, <2>4
<1>3. CASE GetStatic(k, r) \/ Preflight(k, r) \/ Unrouted(k, r)
  BY <1>3, CheckStatuses DEF GetStatic, Preflight, Unrouted
<1>4. QED BY <1>1, <1>2, <1>3 DEF Route

\* What is sent for the result of a use case.
LEMMA RespondSends ==
    ASSUME TypeOK, RowsInv, NEW k \in Requests, Respond(k)
    PROVE  \E s \in Statuses \ {Unsent, Broken} :
            /\ Send(k, s)
            /\ \/ s = 500
               \/ s \in {400, 401, 403, 404} /\ verdict[k] \in Refusals
               \/ s \in {200, 201} /\ verdict[k] = "ok"
<1> USE DEF Statuses, Unsent, Broken
<1>1. CASE verdict[k] = "ok"
  BY <1>1 DEF Respond
<1>2. CASE verdict[k] \in Refusals
  BY <1>2, ErrorStatuses DEF Respond, Refusals
<1>3. CASE verdict[k] \in Failures
  BY <1>3, ErrorStatuses DEF Respond, Failures
<1>4. verdict[k] \in {"ok"} \cup Refusals \cup Failures
  BY DEF Respond, RowsInv, Decided
<1>5. QED BY <1>1, <1>2, <1>3, <1>4

LEMMA SendReplies ==
    ASSUME Replies, NEW k \in Requests, NEW s \in Statuses \ {Unsent, Broken}, Send(k, s),
           \/ pc[k] = "new"
           \/ pc[k] = "done" /\ (verdict[k] \in Failures => s = 500)
    PROVE  Replies'
BY DEF Replies, Send, vars, client, server, IsLogin, Active, Statement

LEMMA ServiceReplies ==
    ASSUME TypeOK, Transacts, Replies, NEW k \in Requests, Steps(k), UNCHANGED reply,
           pc[k] = "new" => reply[k] = Unsent
    PROVE  Replies'
<1> DEFINE R(j) ==
        /\ pc[j] = "new" => op[j] = NoOp
        /\ pc[j] \in Active => reply[j] = Unsent
        /\ pc[j] = "dead" => reply[j] = Broken
        /\ pc[j] = "done" /\ verdict[j] \in Failures => reply[j] \in {Unsent, Broken, 500}
        /\ pc[j] = "done" /\ verdict[j] = "ok" /\ IsLogin(j) => j \in sessions \/ reply[j] # Unsent
<1>1. sessions \subseteq sessions'
  BY DEF Steps, Receive, Call, Worker, Begin, BeginFails, LoginSelect,
         LoginUpgrade, ListSelect, CreateInsert, TakeUpdate, TakeRecheck, ReadBack,
         StatementFails, ConnectionLost, Rollback, Commit, CommitFails, Finish,
         ServerDrops, ServerCommits
<1>2. ASSUME NEW j \in Requests \ {k}
      PROVE  R(j)'
  BY <1>1, <1>2, OthersAlone DEF Replies, Steps, IsLogin
<1>3. R(k)'
  <2> USE DEF TypeOK, Replies, Active, Statement, Goto, Decide, client, server, IsLogin
  <2>1. CASE Receive(k)
    BY <2>1, Verdicts DEF Receive, Call, Refusals
  <2>2. CASE ServerDrops(k) \/ ServerCommits(k)
    BY <2>2 DEF ServerDrops, ServerCommits
  <2>3. CASE Begin(k) \/ LoginSelect(k) \/ LoginUpgrade(k) \/ ListSelect(k) \/ ReadBack(k)
    BY <2>3 DEF Begin, LoginSelect, LoginUpgrade, ListSelect, ReadBack
  <2>4. CASE CreateInsert(k) \/ TakeUpdate(k) \/ TakeRecheck(k)
    BY <2>4 DEF CreateInsert, TakeUpdate, TakeRecheck
  <2>5. CASE BeginFails(k) \/ StatementFails(k) \/ ConnectionLost(k) \/ CommitFails(k)
    <3>1. reply'[k] = Unsent /\ pc'[k] \in {"rollback", "done"}
      BY <2>5 DEF BeginFails, StatementFails, ConnectionLost, CommitFails
    <3>2. pc'[k] = "done" => verdict'[k] \in Refusals \cup Failures
      BY <2>5, Verdicts DEF BeginFails, StatementFails, ConnectionLost, CommitFails, Transacts
    <3>3. QED BY <3>1, <3>2 DEF Refusals, Failures
  <2>6. CASE Rollback(k) \/ Commit(k) \/ Finish(k)
    BY <2>6 DEF Rollback, Commit, Finish, Transacts, Refusals, Failures
  <2>7. QED BY <2>1, <2>2, <2>3, <2>4, <2>5, <2>6 DEF Worker, Steps
<1>4. QED BY <1>2, <1>3 DEF Replies

LEMMA DiesReplies == TypeOK /\ Replies /\ Dies => Replies'
BY DEF TypeOK, Replies, Dies, Crash, Active, Statement, Statuses, Unsent, Broken, IsLogin

\* Every step of the HTTP layer, as seen from the service.
LEMMA HttpSteps ==
    ASSUME TypeOK, Transacts, RowsInv, Replies, HttpNext
    PROVE  \/ Dies
           \/ \E k \in Requests : /\ Steps(k) /\ UNCHANGED reply
                                  /\ pc[k] = "new" => reply[k] = Unsent
           \/ \E k \in Requests, s \in Statuses \ {Unsent, Broken} :
                /\ Send(k, s) /\ reply[k] = Unsent
                /\ \/ pc[k] = "new"
                   \/ /\ pc[k] = "done"
                      /\ \/ s = 500
                         \/ s \in {400, 401, 403, 404} /\ verdict[k] \in Refusals
                         \/ s \in {200, 201} /\ verdict[k] = "ok"
<1>1. ASSUME NEW k \in Requests, Arrive(k)
      PROVE  /\ pc[k] = "new" /\ reply[k] = Unsent
             /\ \/ Steps(k) /\ UNCHANGED reply
                \/ \E s \in Statuses \ {Unsent, Broken} : Send(k, s)
  BY <1>1, ArriveSends DEF Arrive, Steps
<1>2. ASSUME NEW k \in Requests, Respond(k)
      PROVE  /\ pc[k] = "done" /\ reply[k] = Unsent
             /\ \E s \in Statuses \ {Unsent, Broken} :
                  /\ Send(k, s)
                  /\ \/ s = 500
                     \/ s \in {400, 401, 403, 404} /\ verdict[k] \in Refusals
                     \/ s \in {200, 201} /\ verdict[k] = "ok"
  BY <1>2, RespondSends DEF Respond
<1>3. ASSUME NEW k \in Requests, Does(Worker(k) \/ ServerDrops(k) \/ ServerCommits(k))
      PROVE  Steps(k) /\ UNCHANGED reply /\ pc[k] # "new"
  <2>1. CASE Worker(k)
    BY <1>3, <2>1 DEF Does, Steps, Worker, Begin, BeginFails, LoginSelect, LoginUpgrade, ListSelect,
          CreateInsert, TakeUpdate, TakeRecheck, ReadBack, StatementFails, ConnectionLost, Rollback,
          Commit, CommitFails, Finish, Statement
  <2>2. CASE ServerDrops(k) \/ ServerCommits(k)
    <3>1. txn[k] \in {"orphan", "inDoubt"}
      BY <2>2 DEF ServerDrops, ServerCommits
    <3>2. pc[k] # "new"
      BY <3>1 DEF Transacts
    <3>3. QED BY <1>3, <2>2, <3>2 DEF Does, Steps
  <2>3. QED BY <1>3, <2>1, <2>2 DEF Does
<1>4. QED BY <1>1, <1>2, <1>3 DEF HttpNext

LEMMA ServiceAlways == HttpSpec => [](TypeOK /\ Asked /\ Transacts /\ RowsInv)
BY HttpUsesService, TypesAlways, TransactsAlways, RowsAlways, PTL

LEMMA RepliesAlways == HttpSpec => []Replies
<1>1. HttpInit => Replies
  BY DEF HttpInit, Init, Replies, Active, Statement, Statuses, Unsent
<1>2. TypeOK /\ Transacts /\ RowsInv /\ Replies /\ [HttpNext]_httpVars => Replies'
  <2> SUFFICES ASSUME TypeOK, Transacts, RowsInv, Replies, [HttpNext]_httpVars
               PROVE  Replies'
    OBVIOUS
  <2>1. ASSUME NEW k \in Requests, NEW s \in Statuses \ {Unsent, Broken}, Send(k, s),
               \/ pc[k] = "new"
               \/ /\ pc[k] = "done"
                  /\ \/ s = 500
                     \/ s \in {400, 401, 403, 404} /\ verdict[k] \in Refusals
                     \/ s \in {200, 201} /\ verdict[k] = "ok"
        PROVE  Replies'
    BY <2>1, SendReplies, Verdicts DEF Failures
  <2>2. CASE UNCHANGED httpVars
    BY <2>2 DEF Replies, httpVars, vars, client, server, IsLogin
  <2>3. QED BY <2>1, <2>2, HttpSteps, DiesReplies, ServiceReplies
<1>3. QED BY <1>1, <1>2, ServiceAlways, PTL DEF HttpSpec

\* A token that was handed out with a 200 is honoured until the process dies:
\* its session is there when the answer is sent, and nothing else removes it.
THEOREM TokensHonoured == HttpSpec => TokenHonoured
<1> DEFINE Honoured(k) == IsLogin(k) =>
        /\ reply[k] = Unsent /\ reply'[k] = 200 => k \in sessions
        /\ k \in sessions => k \in sessions' \/ crashes' # crashes
<1>1. /\ TypeOK /\ Transacts /\ RowsInv /\ Replies
      /\ [HttpNext]_httpVars
      => [\A k \in Requests : Honoured(k)]_httpVars
  <2> SUFFICES ASSUME TypeOK, Transacts, RowsInv, Replies, HttpNext, NEW k \in Requests, IsLogin(k)
               PROVE  /\ reply[k] = Unsent /\ reply'[k] = 200 => k \in sessions
                      /\ k \in sessions => k \in sessions' \/ crashes' # crashes
    OBVIOUS
  <2>1. CASE Dies
    BY <2>1 DEF Dies, Crash, TypeOK, Replies, Statuses, Unsent, Broken
  <2>2. ASSUME NEW j \in Requests, Steps(j), UNCHANGED reply
        PROVE  k \in sessions => k \in sessions'
    BY <2>2 DEF Steps, Receive, Call, Worker, Begin, BeginFails, LoginSelect, LoginUpgrade, ListSelect,
          CreateInsert, TakeUpdate, TakeRecheck, ReadBack, StatementFails, ConnectionLost, Rollback,
          Commit, CommitFails, Finish, ServerDrops, ServerCommits
  <2>3. ASSUME NEW j \in Requests, NEW s \in Statuses \ {Unsent, Broken}, Send(j, s), reply[j] = Unsent,
               \/ pc[j] = "new"
               \/ /\ pc[j] = "done"
                  /\ \/ s = 500
                     \/ s \in {400, 401, 403, 404} /\ verdict[j] \in Refusals
                     \/ s \in {200, 201} /\ verdict[j] = "ok"
        PROVE  /\ reply[k] = Unsent /\ reply'[k] = 200 => k \in sessions
               /\ sessions' = sessions
    <3>1. sessions' = sessions /\ reply' = [reply EXCEPT ![j] = s]
      BY <2>3 DEF Send, vars
    <3>2. ASSUME reply[k] = Unsent, reply'[k] = 200
          PROVE  k = j /\ s = 200
      BY <2>3, <3>1, <3>2 DEF Replies, Unsent
    <3>3. ASSUME k = j, s = 200
          PROVE  k \in sessions
      BY <2>3, <3>3 DEF Replies, IsLogin
    <3>4. QED BY <3>1, <3>2, <3>3
  <2>4. QED BY <2>1, <2>2, <2>3, HttpSteps DEF Unsent
<1>2. QED BY <1>1, ServiceAlways, RepliesAlways, PTL DEF HttpSpec, TokenHonoured

-----------------------------------------------------------------------------

\* What a step of a request does to the rows: nothing, or it settles on its
\* write while it is served, or a commit makes that write take effect.
LEMMA Effects ==
    ASSUME TypeOK, Asked, Transacts, RowsInv, NEW k \in Requests, Steps(k)
    PROVE  \/ UNCHANGED <<row, write, applied>>
           \/ /\ pc[k] \in Active /\ write[k] = NoWrite
              /\ \E w \in Writes : write' = [write EXCEPT ![k] = w]
              /\ UNCHANGED <<row, applied>>
           \/ /\ pc[k] \in Active \/ pc[k] = "dead" \/ (pc[k] = "done" /\ verdict[k] \in Failures)
              /\ k \notin applied /\ write[k] # NoWrite
              /\ row[write[k].row] = write[k].from
              /\ row' = [row EXCEPT ![write[k].row] = write[k].to]
              /\ applied' = applied \cup {k} /\ UNCHANGED write
<1> USE DEF RowsInv
<1>1. CASE LoginUpgrade(k)
  <2>1. Upgrade(op[k].user) \in Writes /\ write[k] = NoWrite
    BY <1>1, OpFields DEF LoginUpgrade, Asked, Active, Statement, Writes, Decided
  <2>2. QED BY <1>1, <2>1 DEF LoginUpgrade, Active, Statement
<1>2. CASE CreateInsert(k)
  <2>1. Store(nextId) \in Writes /\ write[k] = NoWrite
    BY <1>2 DEF CreateInsert, TypeOK, Goods, Writes, Decided
  <2>2. QED BY <1>2, <2>1 DEF CreateInsert, Active, Statement
<1>3. CASE TakeUpdate(k)
  <2>1. Take(op[k].id) \in Writes /\ write[k] = NoWrite
    BY <1>3 DEF TakeUpdate, Asked, Active, Statement, Writes, Decided
  <2>2. QED BY <1>3, <2>1 DEF TakeUpdate, Active, Statement
<1>4. CASE Commit(k) \/ ServerCommits(k)
  <2>1. /\ CommitTxn(k) /\ txn[k] \in {"open", "inDoubt"}
        /\ pc[k] \in Active \/ pc[k] = "dead" \/ (pc[k] = "done" /\ verdict[k] \in Failures)
    BY <1>4 DEF Commit, ServerCommits, Transacts, Active
  <2>2. k \notin applied
    BY <2>1 DEF Decided
  <2>3. write[k] # NoWrite => row[write[k].row] = write[k].from
    BY <2>1 DEF WriteStillValid
  <2>4. QED BY <2>1, <2>2, <2>3 DEF CommitTxn
<1>5. CASE \/ Receive(k) \/ Begin(k) \/ BeginFails(k) \/ LoginSelect(k) \/ ListSelect(k)
           \/ TakeRecheck(k) \/ ReadBack(k) \/ StatementFails(k) \/ ConnectionLost(k) \/ Rollback(k)
           \/ CommitFails(k) \/ Finish(k) \/ ServerDrops(k)
  BY <1>5 DEF Receive, Call, Begin, BeginFails, LoginSelect, ListSelect, TakeRecheck, ReadBack,
              StatementFails, ConnectionLost, Rollback, CommitFails, Finish, ServerDrops, server
<1>6. QED BY <1>1, <1>2, <1>3, <1>4, <1>5 DEF Steps, Worker

\* How a client reads the statuses that are sent.
LEMMA Views ==
    /\ ClientView(Unsent) = "none" /\ ClientView(Broken) = "none"
    /\ \A s \in {200, 201, 204} : ClientView(s) = "ok"
    /\ \A s \in {400, 401, 403, 404, 405, 413, 431} : ClientView(s) = "refused"
    /\ ClientView(500) = "failed"
BY DEF ClientView, Unsent, Broken

LEMMA SendAnswers ==
    ASSUME TypeOK, Transacts, RowsInv, Replies,
           NEW k \in Requests, NEW s \in Statuses \ {Unsent, Broken}, Send(k, s), reply[k] = Unsent,
           \/ pc[k] = "new"
           \/ /\ pc[k] = "done"
              /\ \/ s = 500
                 \/ s \in {400, 401, 403, 404} /\ verdict[k] \in Refusals
                 \/ s \in {200, 201} /\ verdict[k] = "ok"
    PROVE  ClientLedger!Reply(k)
<1> DEFINE answer == [j \in Requests |-> ClientView(reply[j])]
<1>1. answer' = [answer EXCEPT ![k] = ClientView(s)] /\ answer[k] = "none"
  <2>1. reply' = [reply EXCEPT ![k] = s] /\ reply \in [Requests -> Statuses]
    BY DEF Send, Replies
  <2>2. \A j \in Requests : reply'[j] = IF j = k THEN s ELSE reply[j]
    BY <2>1
  <2>3. answer' = [j \in Requests |-> IF j = k THEN ClientView(s) ELSE ClientView(reply[j])]
    BY <2>2
  <2>4. answer[k] = "none"
    BY Views
  <2>5. QED BY <2>3, <2>4
<1>2. UNCHANGED <<row, write, applied>>
  BY DEF Send, vars, server
<1>3. CASE s = 500
  <2>1. ClientView(s) = "failed"
    BY <1>3, Views
  <2>2. QED BY <1>1, <1>2, <2>1 DEF ClientLedger!Reply
<1>4. CASE s \in {400, 401, 403, 404, 405, 413, 431}
  <2>1. k \notin applied
    <3>1. pc[k] = "new" \/ (pc[k] = "done" /\ verdict[k] \in Refusals)
      BY <1>4
    <3>2. QED BY <3>1 DEF Transacts, RowsInv, Decided
  <2>2. ClientView(s) = "refused"
    BY <1>4, Views
  <2>3. QED BY <1>1, <1>2, <2>1, <2>2 DEF ClientLedger!Reply
<1>5. CASE s \in {200, 201, 204}
  <2>1. write[k] = NoWrite \/ k \in applied
    <3>1. pc[k] = "new" \/ (pc[k] = "done" /\ verdict[k] = "ok")
      BY <1>5
    <3>2. QED BY <3>1 DEF Transacts, RowsInv, Decided, Refusals, Failures
  <2>2. ClientView(s) = "ok"
    BY <1>5, Views
  <2>3. QED BY <1>1, <1>2, <2>1, <2>2 DEF ClientLedger!Reply
<1>6. QED BY <1>3, <1>4, <1>5 DEF Statuses

LEMMA StepAnswers ==
    ASSUME TypeOK, Asked, Transacts, RowsInv, Replies,
           NEW k \in Requests, Steps(k), UNCHANGED reply
    PROVE  [ClientLedger!Next]_(ClientLedger!vars)
<1> DEFINE answer == [j \in Requests |-> ClientView(reply[j])]
<1>1. UNCHANGED answer
  OBVIOUS
<1>2. pc[k] \in Active => answer[k] = "none"
  BY Views DEF Replies
<1>3. CASE UNCHANGED <<row, write, applied>>
  BY <1>1, <1>3 DEF ClientLedger!vars
<1>4. CASE /\ pc[k] \in Active /\ write[k] = NoWrite
           /\ \E w \in Writes : write' = [write EXCEPT ![k] = w]
           /\ UNCHANGED <<row, applied>>
  BY <1>1, <1>2, <1>4 DEF ClientLedger!Aim, ClientLedger!Next
<1>5. CASE /\ pc[k] \in Active \/ pc[k] = "dead" \/ (pc[k] = "done" /\ verdict[k] \in Failures)
           /\ k \notin applied /\ write[k] # NoWrite
           /\ row[write[k].row] = write[k].from
           /\ row' = [row EXCEPT ![write[k].row] = write[k].to]
           /\ applied' = applied \cup {k} /\ UNCHANGED write
  <2>1. answer[k] \in {"none", "failed"}
    BY <1>2, <1>5, Views DEF Replies
  <2>2. QED BY <1>1, <1>5, <2>1 DEF ClientLedger!Apply, ClientLedger!Next
<1>6. QED BY <1>3, <1>4, <1>5, Effects

\* The status alone tells a client what becomes of its request: after 2xx the
\* write is durable, after 4xx it never happens, after 500 or no answer it may
\* have happened or still happen.
THEOREM StatusesTellEffects == HttpSpec => StatusTellsEffect
<1>1. HttpInit => ClientLedger!Init
  BY Views DEF HttpInit, Init, ClientLedger!Init
<1>2. /\ TypeOK /\ Asked /\ Transacts /\ RowsInv /\ Replies /\ [HttpNext]_httpVars
      => [ClientLedger!Next]_(ClientLedger!vars)
  <2> SUFFICES ASSUME TypeOK, Asked, Transacts, RowsInv, Replies, [HttpNext]_httpVars
               PROVE  [ClientLedger!Next]_(ClientLedger!vars)
    OBVIOUS
  <2>1. CASE Dies
    <3>1. \A k \in Requests : ClientView(reply'[k]) = ClientView(reply[k])
      BY <2>1, Views DEF Dies, Replies
    <3>2. QED BY <2>1, <3>1 DEF Dies, Crash, ClientLedger!vars
  <2>2. CASE UNCHANGED httpVars
    BY <2>2 DEF httpVars, vars, server, ClientLedger!vars
  <2>3. QED BY <2>1, <2>2, HttpSteps, StepAnswers, SendAnswers DEF ClientLedger!Next
<1>3. QED
  BY <1>1, <1>2, ServiceAlways, RepliesAlways, PTL DEF HttpSpec, StatusTellsEffect, ClientLedger!Spec
=============================================================================
