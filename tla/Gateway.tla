------------------------------- MODULE Gateway -------------------------------
(***************************************************************************)
(* The way of an HTTP request: nginx (deploy/nginx/nginx.conf) passes it   *)
(* to one of the gateways, a handler of UserController makes at most one   *)
(* RPC through GrpcClient, and the reply or the error becomes the HTTP     *)
(* response (src/src/gateway/user_controller.cpp, grpc_client.cpp).        *)
(*                                                                         *)
(* Handlers are synchronous and Drogon runs one I/O thread, so a gateway   *)
(* has one handler at a time.  An RPC that the gateway has given up goes   *)
(* on in the server, whose handlers do not look at their context.  The     *)
(* server is what UserRepository promises for creating and getting users.  *)
(***************************************************************************)
EXTENDS Integers, Sequences, FiniteSets

CONSTANTS
  Gateways,     \* gateway processes
  Requests,     \* HTTP requests, each sent once by its client
  Names,        \* non-empty names
  EmptyName,    \* the empty name
  NoName,       \* no JSON object with a member "name" in the body
  Structured,   \* the member "name" is an array or an object
  Forms         \* what requests may ask for

Ids == 1..Cardinality(Requests)
NoId == 0    \* the empty id, and no user in a response
Bodies == Names \cup {EmptyName, NoName, Structured}

ASSUME GatewayAssumption ==
  /\ IsFiniteSet(Requests)
  /\ Forms \subseteq [op : {"create"}, name : Bodies] \cup [op : {"get"}, id : Ids \cup {NoId}]
                     \cup [op : {"list", "stats", "health"}]

VARIABLES
  pc,           \* pc[r]: where request r is
  form,         \* form[r]: what it asks for
  at,           \* at[r]: the gateway that has it
  tried,        \* tried[r]: the gateways that nginx has passed it to
  response,     \* response[r]: HTTP status and id of the user in the body
  sent,         \* RPCs that the server has not run, a pair of request and gateway
  replies,      \* replies of the server
  rows,         \* table users: the name, and the request it comes from
  known,        \* history: known[r]: ids created before r was sent
  selectFailed  \* history: requests whose SELECT failed

nginx == <<form, at, tried, known>>
server == <<rows, replies, selectFailed>>
vars == <<pc, form, at, tried, response, sent, replies, rows, known, selectFailed>>

Calls == Requests \X Gateways
RpcStatuses == {"ok", "invalid", "internal", "not_found", "unavailable"}
NoForm == [op |-> "none"]
NoResponse == [status |-> 0, id |-> 0]

Init ==
  /\ pc = [r \in Requests |-> "new"]
  /\ form = [r \in Requests |-> NoForm]
  /\ at \in {[r \in Requests |-> g] : g \in Gateways}
  /\ tried = [r \in Requests |-> {}]
  /\ response = [r \in Requests |-> NoResponse]
  /\ sent = {}
  /\ replies = {}
  /\ rows = <<>>
  /\ known = [r \in Requests |-> {}]
  /\ selectFailed = {}

Call(r) == <<r, at[r]>>
Answered(r, status) == pc[r] = "done" /\ response[r].status = status

\* The handler calls back with a status and, when there is one, a user.
Respond(r, status, id) ==
  /\ pc' = [pc EXCEPT ![r] = "done"]
  /\ response' = [response EXCEPT ![r] = [status |-> status, id |-> id]]

-----------------------------------------------------------------------------
(* nginx                                                                   *)

\* A client sends a request and nginx picks a gateway.
Arrive(r, f, g) ==
  /\ pc[r] = "new"
  /\ pc' = [pc EXCEPT ![r] = "queued"]
  /\ form' = [form EXCEPT ![r] = f]
  /\ at' = [at EXCEPT ![r] = g]
  /\ tried' = [tried EXCEPT ![r] = {g}]
  /\ known' = [known EXCEPT ![r] = {response[q].id : q \in {p \in Requests : Answered(p, 201)}}]
  /\ UNCHANGED <<response, sent, server>>

\* Mutant of PassOn: proxy_next_upstream with non_idempotent.
PassOnAnything(r) == tried[r] # Gateways

\* nginx passes a request on to a gateway that has not had it yet, but not a
\* POST that it has sent before.
PassOn(r) == form[r].op # "create" /\ tried[r] # Gateways

\* Gateway g dies, with the requests that it holds, and is started again.
GatewayDies(g) ==
  LET held == {r \in Requests : pc[r] \in {"queued", "calling"} /\ at[r] = g}
      moved == {r \in held : PassOn(r)}
  IN  /\ held # {}
      /\ \E to \in [moved -> Gateways] :
           /\ \A r \in moved : to[r] \notin tried[r]
           /\ at' = [r \in Requests |-> IF r \in moved THEN to[r] ELSE at[r]]
           /\ tried' = [r \in Requests |->
                          IF r \in moved THEN tried[r] \cup {to[r]} ELSE tried[r]]
      /\ pc' = [r \in Requests |-> IF r \in moved THEN "queued"
                                   ELSE IF r \in held THEN "done" ELSE pc[r]]
      /\ response' = [r \in Requests |-> IF r \in held \ moved
                                         THEN [status |-> 502, id |-> 0] ELSE response[r]]
      /\ UNCHANGED <<form, known, sent, server>>

-----------------------------------------------------------------------------
(* UserController up to the RPC                                            *)

\* The I/O thread of the gateway turns to request r.
Turn(r, op) ==
  /\ pc[r] = "queued" /\ form[r].op = op
  /\ \A q \in Requests : pc[q] = "calling" => at[q] # at[r]

\* The stub sends the RPC, with a deadline.
StartCall(r) ==
  /\ pc' = [pc EXCEPT ![r] = "calling"]
  /\ sent' = sent \cup {Call(r)}
  /\ UNCHANGED <<nginx, response, server>>

\* Mutant of RejectBody: the return after the callback is missing.
RejectAndGoOn(r) ==
  /\ Turn(r, "create")
  /\ form[r].name = NoName
  /\ Respond(r, 400, 0)
  /\ sent' = sent \cup {Call(r)}
  /\ UNCHANGED <<nginx, server>>

\* createUser: no JSON object, or no name in it.
RejectBody(r) ==
  /\ Turn(r, "create")
  /\ form[r].name = NoName
  /\ Respond(r, 400, 0)
  /\ UNCHANGED <<nginx, sent, server>>

\* createUser: asString() throws, and Drogon answers for the handler.
ThrowOnName(r) ==
  /\ Turn(r, "create")
  /\ form[r].name = Structured
  /\ Respond(r, 500, 0)
  /\ UNCHANGED <<nginx, sent, server>>

CallCreateUser(r) ==
  /\ Turn(r, "create")
  /\ form[r].name \notin {NoName, Structured}
  /\ StartCall(r)

CallGetUser(r) == Turn(r, "get") /\ StartCall(r)
CallListUsers(r) == Turn(r, "list") /\ StartCall(r)
CallGetStats(r) == Turn(r, "stats") /\ StartCall(r)

Health(r) ==
  /\ Turn(r, "health")
  /\ Respond(r, 200, 0)
  /\ UNCHANGED <<nginx, sent, server>>

-----------------------------------------------------------------------------
(* The server                                                              *)

Reply(c, status, id) ==
  /\ sent' = sent \ {c}
  /\ replies' = replies \cup {[call |-> c, status |-> status, id |-> id]}
  /\ UNCHANGED <<nginx, pc, response>>

\* CreateUser: an empty name is invalid; a statement that fails may have
\* inserted the row all the same.
RunCreateUser(c) ==
  LET r == c[1]
      inserted == Append(rows, [by |-> r, name |-> form[r].name])
  IN  /\ c \in sent /\ form[r].op = "create"
      /\ \/ form[r].name = EmptyName /\ Reply(c, "invalid", 0) /\ UNCHANGED rows
         \/ form[r].name # EmptyName /\ Reply(c, "ok", Len(rows) + 1) /\ rows' = inserted
         \/ form[r].name # EmptyName /\ Reply(c, "internal", 0) /\ rows' \in {rows, inserted}
      /\ UNCHANGED selectFailed

\* GetUser: an empty id is invalid; a missing row and a failed SELECT are both
\* NOT_FOUND.
RunGetUser(c) ==
  LET id == form[c[1]].id
  IN  /\ c \in sent /\ form[c[1]].op = "get"
      /\ \/ id = NoId /\ Reply(c, "invalid", 0) /\ UNCHANGED selectFailed
         \/ id \in 1..Len(rows) /\ Reply(c, "ok", id) /\ UNCHANGED selectFailed
         \/ id > Len(rows) /\ Reply(c, "not_found", 0) /\ UNCHANGED selectFailed
         \/ /\ id # NoId
            /\ Reply(c, "not_found", 0) /\ selectFailed' = selectFailed \cup {c[1]}
      /\ UNCHANGED rows

\* ListUsers and GetStats: what they reply is the subject of UserRepository.
RunRead(c) ==
  /\ c \in sent /\ form[c[1]].op \in {"list", "stats"}
  /\ Reply(c, "ok", 0) \/ Reply(c, "internal", 0)
  /\ UNCHANGED <<rows, selectFailed>>

\* The server dies with the RPCs that it has and is started again.
LoseRpcs ==
  /\ sent # {}
  /\ sent' \in SUBSET sent
  /\ UNCHANGED <<nginx, pc, response, server>>

-----------------------------------------------------------------------------
(* The RPC returns, and the handler responds                               *)

\* Mutant of HttpStatus: createUser does not test the status.
CreatedAnyway(op, status) == IF op = "create" THEN 201 ELSE IF status = "ok" THEN 200 ELSE 502

\* Mutant of HttpStatus: every error of GetUser is an unknown user.
ErrorIsNotFound(op, status) ==
  IF status = "ok" THEN IF op = "create" THEN 201 ELSE 200
  ELSE IF op = "get" THEN 404 ELSE 502

\* RpcStatus of the client and status of the controller: only GetUser tells
\* NOT_FOUND from the other errors.
HttpStatus(op, status) ==
  IF status = "ok" THEN IF op = "create" THEN 201 ELSE 200
  ELSE IF op = "get" /\ status = "not_found" THEN 404 ELSE 502

\* The reply is there before the deadline.
TakeReply(r) ==
  /\ pc[r] = "calling"
  /\ \E a \in replies :
       /\ a.call = Call(r)
       /\ Respond(r, HttpStatus(form[r].op, a.status), a.id)
  /\ UNCHANGED <<nginx, sent, server>>

\* Mutant of GiveUp: set_deadline() is missing.
WaitForReply(r) == FALSE /\ pc[r] = "calling" /\ UNCHANGED vars

\* The deadline is over, or the connection to the server fails; the server
\* may have run the RPC, may run it later or never.
GiveUp(r) ==
  /\ pc[r] = "calling"
  /\ Respond(r, HttpStatus(form[r].op, "unavailable"), 0)
  /\ UNCHANGED <<nginx, sent, server>>

-----------------------------------------------------------------------------

\* The handler starts, which ends it when no RPC is needed.
Start(r) ==
  \/ RejectBody(r) \/ ThrowOnName(r) \/ Health(r)
  \/ CallCreateUser(r) \/ CallGetUser(r) \/ CallListUsers(r) \/ CallGetStats(r)

Handle(r) == Start(r) \/ TakeReply(r) \/ GiveUp(r)

Server ==
  \/ \E c \in Calls : RunCreateUser(c) \/ RunGetUser(c) \/ RunRead(c)
  \/ LoseRpcs

\* All responses are there and the server has no RPC left.
Finished ==
  /\ \A r \in Requests : pc[r] = "done"
  /\ sent = {}
  /\ UNCHANGED vars

Next ==
  \/ \E r \in Requests : Handle(r) \/ \E f \in Forms, g \in Gateways : Arrive(r, f, g)
  \/ \E g \in Gateways : GatewayDies(g)
  \/ Server
  \/ Finished

Spec == Init /\ [][Next]_vars

-----------------------------------------------------------------------------
(* Properties                                                              *)

TypeOK ==
  /\ pc \in [Requests -> {"new", "queued", "calling", "done"}]
  /\ form \in [Requests -> Forms \cup {NoForm}]
  /\ at \in [Requests -> Gateways]
  /\ tried \in [Requests -> SUBSET Gateways]
  /\ response \in [Requests -> [status : {0, 200, 201, 400, 404, 500, 502}, id : 0..Len(rows)]]
  /\ sent \subseteq Calls
  /\ replies \subseteq [call : Calls, status : RpcStatuses, id : 0..Len(rows)]
  /\ rows \in Seq([by : Requests, name : Names])
  /\ known \in [Requests -> SUBSET Ids]
  /\ selectFailed \subseteq Requests

\* 201 is the truth: the body has the id of the row that this very request
\* inserted, whatever other clients do through the other gateway.
CreatedIsStored ==
  \A r \in Requests : Answered(r, 201) =>
    /\ response[r].id \in 1..Len(rows)
    /\ rows[response[r].id] = [by |-> r, name |-> form[r].name]

\* A request creates at most one user, although RPCs outlive their deadline,
\* gateways die, and nginx passes requests on.
CreatedAtMostOnce ==
  \A j, k \in 1..Len(rows) : rows[j].by = rows[k].by => j = k

\* A client that is told that its own request is wrong can rely on it: 400
\* and 500 leave no user behind and no RPC that could still create one.
RefusedLeavesNothing ==
  \A r \in Requests : Answered(r, 400) \/ Answered(r, 500) =>
    /\ \A k \in 1..Len(rows) : rows[k].by # r
    /\ \A c \in sent : c[1] # r

\* A user whose creation was confirmed is not unknown to the other gateway:
\* 404 means that the user did not exist when the request was sent, unless
\* the SELECT failed.  Errors of the transport are never a 404.
KnownUserFound ==
  \A r \in Requests : Answered(r, 404) =>
    form[r].id \notin known[r] \/ r \in selectFailed

\* Every request is answered in the end, also when the server never is: this
\* is what the deadline of GrpcClient is for.
EveryRequestAnswered ==
  \A r \in Requests : pc[r] = "queued" ~> pc[r] = "done"
==============================================================================
