----------------------------- MODULE GatewayProofs -----------------------------
(***************************************************************************)
(* Proofs about Gateway, for any number of gateways, clients and requests, *)
(* whatever dies, times out or is passed on.                               *)
(*                                                                         *)
(* What carries them is the life of a request that creates a user: one     *)
(* gateway has it, so that one RPC at most is sent for it; a row comes     *)
(* from that RPC, which is then gone.                                      *)
(*                                                                         *)
(* Then Deployment, where UserDirectory is the server: each step maps to a *)
(* step of Gateway.                                                        *)
(***************************************************************************)
EXTENDS Deployment, SequenceTheorems, FiniteSetTheorems, TLAPS

\* A request that has arrived is one of the forms.
FormsKnown == \A r \in Requests : pc[r] # "new" => form[r] \in Forms

\* An RPC that creates a user was sent by the one gateway that had the
\* request, with a name, and has not run.
CallsFresh ==
  \A c \in sent :
    /\ pc[c[1]] # "new"
    /\ form[c[1]].op = "create" =>
         /\ pc[c[1]] \in {"calling", "done"}
         /\ c[2] = at[c[1]]
         /\ form[c[1]].name \notin {NoName, Structured}
         /\ \A k \in 1..Len(rows) : rows[k].by # c[1]

\* A row comes from a request that asked for it.
RowsAskedFor ==
  \A k \in 1..Len(rows) :
    LET r == rows[k].by
    IN  /\ pc[r] \in {"calling", "done"}
        /\ form[r].op = "create" /\ form[r].name = rows[k].name
        /\ form[r].name \notin {NoName, Structured}

\* Row id is the one that request r has inserted.
Stored(r, id) == id \in 1..Len(rows) /\ rows[id] = [by |-> r, name |-> form[r].name]

\* User of request r did not exist when r was sent, or the SELECT failed.
Unknown(r) == form[r].id \notin known[r] \/ r \in selectFailed

\* The server replies the truth.
RepliesTrue ==
  \A a \in replies :
    LET r == a.call[1]
    IN  /\ pc[r] # "new"
        /\ form[r].op = "create" /\ a.status = "ok" => Stored(r, a.id)
        /\ form[r].op = "get" /\ a.status = "not_found" => Unknown(r)

\* So do the gateways; they refuse a request only for its name.
Refused(r) == form[r].op = "create" /\ form[r].name \in {NoName, Structured}
ResponsesTrue ==
  \A r \in Requests :
    /\ Answered(r, 400) \/ Answered(r, 500) => Refused(r)
    /\ Answered(r, 201) => form[r].op = "create" /\ Stored(r, response[r].id)
    /\ Answered(r, 404) => form[r].op = "get" /\ Unknown(r)

\* Users that were known to clients are in the table.
KnownStored == \A r \in Requests : known[r] \subseteq 1..Len(rows)

\* TypeOK without the bound of the ids in known, which follows.
Types ==
  /\ pc \in [Requests -> {"new", "queued", "calling", "done"}]
  /\ form \in [Requests -> Forms \cup {NoForm}]
  /\ at \in [Requests -> Gateways]
  /\ tried \in [Requests -> SUBSET Gateways]
  /\ response \in [Requests -> [status : {0, 200, 201, 400, 404, 500, 502}, id : 0..Len(rows)]]
  /\ sent \subseteq Calls
  /\ replies \subseteq [call : Calls, status : RpcStatuses, id : 0..Len(rows)]
  /\ rows \in Seq([by : Requests, name : Names])
  /\ known \in [Requests -> SUBSET Nat]
  /\ selectFailed \subseteq Requests

GatewayInv ==
  /\ Types
  /\ FormsKnown
  /\ CallsFresh
  /\ RowsAskedFor
  /\ CreatedAtMostOnce
  /\ RepliesTrue
  /\ ResponsesTrue
  /\ KnownStored

-----------------------------------------------------------------------------
(* Forms and rows                                                          *)

\* The members that a form has.
LEMMA FormFields ==
  ASSUME NEW f \in Forms
  PROVE  /\ f.op \in {"create", "get", "list", "stats", "health"}
         /\ f.op = "create" => f.name \in Bodies
         /\ f.op = "get" => f.id \in Ids \cup {NoId}
  BY GatewayAssumption

\* Rows are a sequence whose length is a number; one more row leaves the others.
LEMMA OneMoreRow ==
  ASSUME Types, NEW row \in [by : Requests, name : Names], rows' = Append(rows, row)
  PROVE  /\ Len(rows) \in Nat /\ Len(rows') = Len(rows) + 1
         /\ rows' \in Seq([by : Requests, name : Names])
         /\ rows'[Len(rows) + 1] = row
         /\ \A k \in 1..Len(rows) : rows'[k] = rows[k]
  BY AppendProperties, LenProperties DEF Types

LEMMA RowFields ==
  ASSUME Types
  PROVE  /\ Len(rows) \in Nat
         /\ \A k \in 1..Len(rows) : rows[k] \in [by : Requests, name : Names]
  BY LenProperties, ElementOfSeq DEF Types

-----------------------------------------------------------------------------
(* Steps of nginx and the gateways: they leave the server alone            *)

\* A new request is nobody's RPC or row yet, and what it knows is stored.
LEMMA ArriveKeeps ==
  ASSUME GatewayInv, NEW r \in Requests, NEW f \in Forms, NEW g \in Gateways, Arrive(r, f, g)
  PROVE  GatewayInv'
  <1> USE DEF GatewayInv, server
  <1>0. /\ pc[r] = "new"
        /\ \A q \in Requests \ {r} : /\ pc'[q] = pc[q] /\ form'[q] = form[q] /\ at'[q] = at[q]
                                     /\ known'[q] = known[q]
        /\ pc'[r] = "queued" /\ form'[r] = f
        /\ known'[r] = {response[q].id : q \in {p \in Requests : Answered(p, 201)}}
        /\ UNCHANGED <<response, sent, rows, replies, selectFailed>>
    BY DEF Arrive, Types
  <1>1. known'[r] \subseteq 1..Len(rows)
    <2>1. \A q \in Requests : Answered(q, 201) => response[q].id \in 1..Len(rows)
      BY DEF ResponsesTrue, Stored, Answered
    <2> QED
      BY <1>0, <2>1
  <1>2. Types'
    <2>1. known' \in [Requests -> SUBSET Nat]
      BY <1>0, <1>1, RowFields DEF Types, Arrive
    <2> QED
      BY <2>1 DEF Types, Arrive
  <1>3. FormsKnown'
    BY <1>0 DEF FormsKnown
  <1>4. CallsFresh'
    BY <1>0 DEF CallsFresh, Types, Calls
  <1>5. RowsAskedFor'
    <2>1. \A k \in 1..Len(rows) : rows[k].by \in Requests \ {r}
      BY <1>0, RowFields DEF RowsAskedFor
    <2> QED
      BY <1>0, <2>1 DEF RowsAskedFor
  <1>6. CreatedAtMostOnce'
    BY <1>0 DEF CreatedAtMostOnce
  <1>7. RepliesTrue'
    <2>1. \A a \in replies : a.call[1] \in Requests \ {r}
      BY <1>0 DEF RepliesTrue, Types, Calls
    <2> QED
      BY <1>0, <2>1 DEF RepliesTrue, Stored, Unknown
  <1>8. ResponsesTrue'
    BY <1>0 DEF ResponsesTrue, Answered, Refused, Stored, Unknown
  <1>9. KnownStored'
    BY <1>0, <1>1 DEF KnownStored
  <1> QED
    BY <1>2, <1>3, <1>4, <1>5, <1>6, <1>7, <1>8, <1>9

\* A request that creates a user is not passed on, so that its gateway stays.
LEMMA GatewayDiesKeeps ==
  ASSUME GatewayInv, NEW g \in Gateways, GatewayDies(g)
  PROVE  GatewayInv'
  <1> USE DEF GatewayInv, server
  <1> DEFINE held == {r \in Requests : pc[r] \in {"queued", "calling"} /\ at[r] = g}
             moved == {r \in held : PassOn(r)}
  <1>0. UNCHANGED <<form, known, sent, rows, replies, selectFailed>>
    BY DEF GatewayDies
  <1>1. PICK to \in [moved -> Gateways] :
          /\ at' = [r \in Requests |-> IF r \in moved THEN to[r] ELSE at[r]]
          /\ tried' = [r \in Requests |-> IF r \in moved THEN tried[r] \cup {to[r]} ELSE tried[r]]
    BY DEF GatewayDies
  <1>2. /\ pc' = [r \in Requests |-> IF r \in moved THEN "queued"
                                     ELSE IF r \in held THEN "done" ELSE pc[r]]
        /\ response' = [r \in Requests |-> IF r \in held \ moved
                                           THEN [status |-> 502, id |-> 0] ELSE response[r]]
    BY DEF GatewayDies
  <1>3. \A r \in Requests :
          /\ pc'[r] # pc[r] => pc[r] \in {"queued", "calling"} /\ pc'[r] \in {"queued", "done"}
          /\ form[r].op = "create" =>
               at'[r] = at[r] /\ (pc[r] \in {"calling", "done"} => pc'[r] \in {"calling", "done"})
          /\ \A status \in {200, 201, 400, 404, 500} :
               Answered(r, status)' => Answered(r, status) /\ response'[r] = response[r]
    BY <1>1, <1>2 DEF PassOn, Answered, Types
  <1>4. Types'
    <2>1. pc' \in [Requests -> {"new", "queued", "calling", "done"}]
      BY <1>2 DEF Types
    <2>2. at' \in [Requests -> Gateways] /\ tried' \in [Requests -> SUBSET Gateways]
      BY <1>1 DEF Types
    <2>3. response' \in [Requests -> [status : {0, 200, 201, 400, 404, 500, 502}, id : 0..Len(rows)]]
      BY <1>2, RowFields DEF Types
    <2> QED
      BY <1>0, <2>1, <2>2, <2>3 DEF Types
  <1> HIDE DEF held, moved
  <1>5. FormsKnown'
    BY <1>0, <1>3 DEF FormsKnown
  <1>6. CallsFresh'
    BY <1>0, <1>3 DEF CallsFresh, Types, Calls
  <1>7. RowsAskedFor'
    BY <1>0, <1>3, RowFields DEF RowsAskedFor
  <1>8. CreatedAtMostOnce'
    BY <1>0 DEF CreatedAtMostOnce
  <1>9. RepliesTrue'
    BY <1>0, <1>3 DEF RepliesTrue, Types, Calls, Stored, Unknown
  <1>10. ResponsesTrue'
    BY <1>0, <1>3 DEF ResponsesTrue, Refused, Stored, Unknown
  <1>11. KnownStored'
    BY <1>0 DEF KnownStored
  <1> QED
    BY <1>4, <1>5, <1>6, <1>7, <1>8, <1>9, <1>10, <1>11

\* A response keeps the invariant if it is true.
LEMMA RespondKeeps ==
  ASSUME GatewayInv, NEW r \in Requests, pc[r] \in {"queued", "calling"},
         NEW status \in {200, 201, 400, 404, 500, 502}, NEW id \in 0..Len(rows),
         Respond(r, status, id), UNCHANGED <<nginx, sent, server>>,
         status \in {400, 500} => Refused(r),
         status = 201 => form[r].op = "create" /\ Stored(r, id),
         status = 404 => form[r].op = "get" /\ Unknown(r)
  PROVE  GatewayInv'
  <1> USE DEF GatewayInv, nginx, server
  <1>0. /\ pc'[r] = "done" /\ response'[r] = [status |-> status, id |-> id]
        /\ \A q \in Requests \ {r} : pc'[q] = pc[q] /\ response'[q] = response[q]
    BY DEF Respond, Types
  <1>1. Types'
    BY DEF Respond, Types
  <1>2. FormsKnown'
    BY <1>0 DEF FormsKnown
  <1>3. CallsFresh'
    BY <1>0 DEF CallsFresh, Types, Calls
  <1>4. RowsAskedFor'
    BY <1>0, RowFields DEF RowsAskedFor
  <1>5. CreatedAtMostOnce'
    BY DEF CreatedAtMostOnce
  <1>6. RepliesTrue'
    BY <1>0 DEF RepliesTrue, Types, Calls, Stored, Unknown
  <1>7. ResponsesTrue'
    BY <1>0 DEF ResponsesTrue, Answered, Refused, Stored, Unknown
  <1>8. KnownStored'
    BY DEF KnownStored
  <1> QED
    BY <1>1, <1>2, <1>3, <1>4, <1>5, <1>6, <1>7, <1>8

\* An RPC that creates a user is the first one for its request.
LEMMA StartCallKeeps ==
  ASSUME GatewayInv, NEW r \in Requests, pc[r] = "queued", StartCall(r),
         form[r].op = "create" => form[r].name \notin {NoName, Structured}
  PROVE  GatewayInv'
  <1> USE DEF GatewayInv, nginx, server
  <1>0. /\ pc'[r] = "calling" /\ \A q \in Requests \ {r} : pc'[q] = pc[q]
        /\ sent' = sent \cup {Call(r)}
        /\ UNCHANGED <<form, at, tried, known, response, rows, replies, selectFailed>>
    BY DEF StartCall, Types
  <1>1. Types'
    BY DEF StartCall, Types, Call, Calls
  <1>2. FormsKnown'
    BY <1>0 DEF FormsKnown
  <1>3. CallsFresh'
    <2>1. \A k \in 1..Len(rows) : rows[k].by \in Requests \ {r}
      BY RowFields DEF RowsAskedFor
    <2>2. \A c \in sent : c[1] \in Requests /\ (c[1] = r => form[r].op # "create")
      BY DEF CallsFresh, Types, Calls
    <2> QED
      BY <1>0, <2>1, <2>2 DEF CallsFresh, Call
  <1>4. RowsAskedFor'
    BY <1>0, RowFields DEF RowsAskedFor
  <1>5. CreatedAtMostOnce'
    BY <1>0 DEF CreatedAtMostOnce
  <1>6. RepliesTrue'
    BY <1>0 DEF RepliesTrue, Types, Calls, Stored, Unknown
  <1>7. ResponsesTrue'
    BY <1>0 DEF ResponsesTrue, Answered, Refused, Stored, Unknown
  <1>8. KnownStored'
    BY <1>0 DEF KnownStored
  <1> QED
    BY <1>1, <1>2, <1>3, <1>4, <1>5, <1>6, <1>7, <1>8

\* The handlers of UserController respond the truth, and call at most once.
LEMMA HandleKeeps ==
  ASSUME GatewayInv, NEW r \in Requests, Handle(r)
  PROVE  GatewayInv'
  <1>0. Len(rows) \in Nat /\ 0 \in 0..Len(rows)
    BY RowFields DEF GatewayInv
  <1>1. CASE RejectBody(r)
    BY <1>0, <1>1, RespondKeeps DEF RejectBody, Turn, Refused
  <1>2. CASE ThrowOnName(r)
    BY <1>0, <1>2, RespondKeeps DEF ThrowOnName, Turn, Refused
  <1>3. CASE Health(r)
    BY <1>0, <1>3, RespondKeeps DEF Health, Turn
  <1>4. CASE CallCreateUser(r) \/ CallGetUser(r) \/ CallListUsers(r) \/ CallGetStats(r)
    BY <1>4, StartCallKeeps DEF CallCreateUser, CallGetUser, CallListUsers, CallGetStats, Turn
  <1>5. CASE TakeReply(r)
    <2>1. PICK a \in replies :
            a.call = Call(r) /\ Respond(r, HttpStatus(form[r].op, a.status), a.id)
      BY <1>5 DEF TakeReply
    <2>2. /\ pc[r] = "calling" /\ UNCHANGED <<nginx, sent, server>>
          /\ a.id \in 0..Len(rows)
      BY <1>5 DEF TakeReply, GatewayInv, Types
    <2>3. /\ form[r].op = "create" /\ a.status = "ok" => Stored(r, a.id)
          /\ form[r].op = "get" /\ a.status = "not_found" => Unknown(r)
      BY <2>1 DEF GatewayInv, RepliesTrue, Call
    <2> QED
      BY <2>1, <2>2, <2>3, RespondKeeps DEF HttpStatus
  <1>6. CASE GiveUp(r)
    BY <1>0, <1>6, RespondKeeps DEF GiveUp, HttpStatus
  <1> QED
    BY <1>1, <1>2, <1>3, <1>4, <1>5, <1>6 DEF Handle, Start

-----------------------------------------------------------------------------
(* Steps of the server                                                     *)

\* A reply keeps the invariant if it is true and the table stays.
LEMMA ReplyKeeps ==
  ASSUME GatewayInv, NEW c \in sent, NEW status \in RpcStatuses, NEW id \in 0..Len(rows),
         Reply(c, status, id), UNCHANGED rows, selectFailed \subseteq selectFailed',
         selectFailed' \subseteq selectFailed \cup {c[1]},
         form[c[1]].op = "create" => status # "ok",
         form[c[1]].op = "get" /\ status = "not_found" => Unknown(c[1])'
  PROVE  GatewayInv'
  <1> USE DEF GatewayInv, nginx
  <1>0. /\ UNCHANGED <<form, at, tried, known, pc, response, rows>>
        /\ sent' \subseteq sent
        /\ replies' = replies \cup {[call |-> c, status |-> status, id |-> id]}
        /\ c \in Calls /\ c[1] \in Requests /\ pc[c[1]] # "new"
    BY DEF Reply, CallsFresh, Types, Calls
  <1>1. Types'
    BY <1>0 DEF Types
  <1>2. FormsKnown' /\ CreatedAtMostOnce' /\ KnownStored'
    BY <1>0 DEF FormsKnown, CreatedAtMostOnce, KnownStored
  <1>3. CallsFresh' /\ RowsAskedFor'
    BY <1>0 DEF CallsFresh, RowsAskedFor
  <1>4. RepliesTrue'
    BY <1>0 DEF RepliesTrue, Stored, Unknown
  <1>5. ResponsesTrue'
    BY <1>0 DEF ResponsesTrue, Answered, Refused, Stored, Unknown
  <1> QED
    BY <1>1, <1>2, <1>3, <1>4, <1>5

\* An RPC that inserts its row is gone, and no other one is for its request.
LEMMA InsertKeeps ==
  ASSUME GatewayInv, NEW c \in sent, NEW status \in RpcStatuses, NEW id,
         form[c[1]].op = "create", form[c[1]].name # EmptyName,
         rows' = Append(rows, [by |-> c[1], name |-> form[c[1]].name]),
         Reply(c, status, id), UNCHANGED selectFailed,
         id \in {0, Len(rows) + 1}, status = "ok" => id = Len(rows) + 1
  PROVE  GatewayInv'
  <1> USE DEF GatewayInv, nginx
  <1> DEFINE r == c[1]
             row == [by |-> r, name |-> form[r].name]
  <1>0. /\ UNCHANGED <<form, at, tried, known, pc, response, selectFailed>>
        /\ sent' = sent \ {c}
        /\ replies' = replies \cup {[call |-> c, status |-> status, id |-> id]}
    BY DEF Reply
  <1>1. /\ c \in Calls /\ r \in Requests /\ pc[r] \in {"calling", "done"}
        /\ c = <<r, at[r]>>
        /\ form[r].name \notin {NoName, Structured}
        /\ \A k \in 1..Len(rows) : rows[k].by # r
    BY DEF CallsFresh, Types, Calls
  <1>2. form[r].name \in Names
    BY <1>1, FormFields DEF FormsKnown, Bodies
  <1>3. /\ Len(rows) \in Nat /\ Len(rows') = Len(rows) + 1
        /\ rows' \in Seq([by : Requests, name : Names])
        /\ rows'[Len(rows) + 1] = row
        /\ \A k \in 1..Len(rows) : rows'[k] = rows[k]
    <2>1. row \in [by : Requests, name : Names] /\ rows' = Append(rows, row)
      BY <1>1, <1>2
    <2> HIDE DEF row
    <2> QED
      BY <2>1, OneMoreRow
  <1>4. 1..Len(rows') = 1..Len(rows) \cup {Len(rows) + 1} /\ 0..Len(rows) \subseteq 0..Len(rows')
    BY <1>3
  <1>5. \A q \in Requests : \A n : Stored(q, n) => Stored(q, n)'
    BY <1>0, <1>3, <1>4 DEF Stored
  <1> HIDE DEF row
  <1>6. Types'
    BY <1>0, <1>1, <1>3, <1>4 DEF Types
  <1>7. FormsKnown'
    BY <1>0 DEF FormsKnown
  <1>8. CallsFresh'
    <2>1. \A d \in sent : d = <<d[1], d[2]>>
      BY DEF Types, Calls
    <2>2. \A d \in sent : form[d[1]].op = "create" => d = <<d[1], at[d[1]]>>
      BY <2>1 DEF CallsFresh
    <2>3. \A d \in sent' : d \in sent /\ (form[d[1]].op = "create" => d[1] # r)
      BY <1>0, <1>1, <2>2
    <2> QED
      BY <1>0, <1>3, <1>4, <2>3 DEF CallsFresh, row
  <1>9. RowsAskedFor'
    BY <1>0, <1>1, <1>3, <1>4 DEF RowsAskedFor, row
  <1>10. CreatedAtMostOnce'
    BY <1>1, <1>3, <1>4 DEF CreatedAtMostOnce, row
  <1>11. RepliesTrue'
    <2>1. status = "ok" => Stored(r, id)'
      BY <1>0, <1>3, <1>4 DEF Stored, row
    <2>2. \A a \in replies : a.call[1] \in Requests
      BY DEF Types, Calls
    <2> QED
      BY <1>0, <1>1, <1>5, <2>1, <2>2 DEF RepliesTrue, Unknown
  <1>12. ResponsesTrue'
    BY <1>0, <1>5 DEF ResponsesTrue, Answered, Refused, Unknown
  <1>13. KnownStored'
    BY <1>0, <1>4 DEF KnownStored
  <1> QED
    BY <1>6, <1>7, <1>8, <1>9, <1>10, <1>11, <1>12, <1>13

\* RPCs that are lost do not matter.
LEMMA LoseRpcsKeeps ==
  ASSUME GatewayInv, LoseRpcs
  PROVE  GatewayInv'
  <1> USE DEF GatewayInv, nginx, server
  <1>0. /\ UNCHANGED <<form, at, tried, known, pc, response, rows, replies, selectFailed>>
        /\ sent' \subseteq sent
    BY DEF LoseRpcs
  <1>1. Types'
    BY <1>0 DEF Types
  <1>2. FormsKnown' /\ CreatedAtMostOnce' /\ KnownStored'
    BY <1>0 DEF FormsKnown, CreatedAtMostOnce, KnownStored
  <1>3. CallsFresh' /\ RowsAskedFor'
    BY <1>0 DEF CallsFresh, RowsAskedFor
  <1>4. RepliesTrue' /\ ResponsesTrue'
    BY <1>0 DEF RepliesTrue, ResponsesTrue, Answered, Refused, Stored, Unknown
  <1> QED
    BY <1>1, <1>2, <1>3, <1>4

\* What the server does with an RPC keeps the invariant, also when a statement
\* fails and has inserted its row.
LEMMA ServerKeeps == GatewayInv /\ Server => GatewayInv'
  <1> SUFFICES ASSUME GatewayInv, Server, ~LoseRpcs PROVE GatewayInv'
    BY LoseRpcsKeeps
  <1>0. PICK c \in sent : RunCreateUser(c) \/ RunGetUser(c) \/ RunRead(c)
    BY DEF Server, RunCreateUser, RunGetUser, RunRead
  <1>1. /\ Len(rows) \in Nat /\ 0 \in 0..Len(rows)
        /\ {"ok", "invalid", "internal", "not_found"} \subseteq RpcStatuses
    BY RowFields DEF GatewayInv, RpcStatuses
  <1>2. CASE RunCreateUser(c)
    <2>1. form[c[1]].op = "create" /\ UNCHANGED selectFailed
      BY <1>2 DEF RunCreateUser
    <2>2. CASE form[c[1]].name = EmptyName /\ Reply(c, "invalid", 0) /\ UNCHANGED rows
      BY <1>1, <2>1, <2>2, ReplyKeeps
    <2>3. CASE /\ form[c[1]].name # EmptyName /\ Reply(c, "ok", Len(rows) + 1)
               /\ rows' = Append(rows, [by |-> c[1], name |-> form[c[1]].name])
      BY <1>1, <2>1, <2>3, InsertKeeps
    <2>4. CASE form[c[1]].name # EmptyName /\ Reply(c, "internal", 0) /\ UNCHANGED rows
      BY <1>1, <2>1, <2>4, ReplyKeeps
    <2>5. CASE /\ form[c[1]].name # EmptyName /\ Reply(c, "internal", 0)
               /\ rows' = Append(rows, [by |-> c[1], name |-> form[c[1]].name])
      BY <1>1, <2>1, <2>5, InsertKeeps
    <2> QED
      BY <1>2, <2>2, <2>3, <2>4, <2>5 DEF RunCreateUser
  <1>3. CASE RunGetUser(c)
    <2> DEFINE id == form[c[1]].id
    <2>1. /\ form[c[1]].op = "get" /\ UNCHANGED rows
          /\ c[1] \in Requests /\ form[c[1]] \in Forms
      BY <1>3 DEF RunGetUser, GatewayInv, CallsFresh, FormsKnown, Types, Calls
    <2>2. CASE id = NoId /\ Reply(c, "invalid", 0) /\ UNCHANGED selectFailed
      BY <1>1, <2>1, <2>2, ReplyKeeps
    <2>3. CASE id \in 1..Len(rows) /\ Reply(c, "ok", id) /\ UNCHANGED selectFailed
      <3>1. id \in 0..Len(rows)
        BY <1>1, <2>3
      <3> QED
        BY <1>1, <2>1, <2>3, <3>1, ReplyKeeps
    <2>4. CASE id > Len(rows) /\ Reply(c, "not_found", 0) /\ UNCHANGED selectFailed
      <3>1. id \notin known[c[1]] /\ UNCHANGED <<form, known>>
        BY <1>1, <2>1, <2>4 DEF GatewayInv, KnownStored, Reply, nginx
      <3>2. Unknown(c[1])'
        BY <3>1 DEF Unknown
      <3> QED
        BY <1>1, <2>1, <2>4, <3>2, ReplyKeeps
    <2>5. CASE Reply(c, "not_found", 0) /\ selectFailed' = selectFailed \cup {c[1]}
      <3>1. Unknown(c[1])'
        BY <2>5 DEF Unknown
      <3> QED
        BY <1>1, <2>1, <2>5, <3>1, ReplyKeeps
    <2> QED
      BY <1>3, <2>2, <2>3, <2>4, <2>5 DEF RunGetUser
  <1>4. CASE RunRead(c)
    <2>1. /\ form[c[1]].op \in {"list", "stats"} /\ UNCHANGED <<rows, selectFailed>>
          /\ Reply(c, "ok", 0) \/ Reply(c, "internal", 0)
      BY <1>4 DEF RunRead
    <2> QED
      BY <1>1, <2>1, ReplyKeeps
  <1> QED
    BY <1>0, <1>2, <1>3, <1>4

-----------------------------------------------------------------------------
(* The invariant                                                           *)

\* Nothing has arrived and nothing is stored: GatewayInv holds.
LEMMA InitGatewayInv == Init => GatewayInv
  <1> SUFFICES ASSUME Init PROVE GatewayInv
    OBVIOUS
  <1> USE DEF Init
  <1>1. Types
    <2>1. rows \in Seq([by : Requests, name : Names])
      BY EmptySeq
    <2> QED
      BY <2>1 DEF Types, NoResponse
  <1>2. FormsKnown /\ CallsFresh /\ RowsAskedFor /\ CreatedAtMostOnce
    BY DEF FormsKnown, CallsFresh, RowsAskedFor, CreatedAtMostOnce
  <1>3. RepliesTrue /\ ResponsesTrue /\ KnownStored
    BY DEF RepliesTrue, ResponsesTrue, KnownStored, Answered
  <1> QED
    BY <1>1, <1>2, <1>3 DEF GatewayInv

\* Every step keeps GatewayInv.
LEMMA NextKeepsGatewayInv == GatewayInv /\ [Next]_vars => GatewayInv'
  <1> SUFFICES ASSUME GatewayInv, [Next]_vars PROVE GatewayInv'
    OBVIOUS
  <1>1. CASE UNCHANGED vars
    BY <1>1 DEF vars, GatewayInv, Types, FormsKnown, CallsFresh, RowsAskedFor, CreatedAtMostOnce,
                RepliesTrue, ResponsesTrue, KnownStored, Answered, Refused, Stored, Unknown
  <1> QED
    BY <1>1, ArriveKeeps, GatewayDiesKeeps, HandleKeeps, ServerKeeps DEF Next, Finished

\* GatewayInv, the inductive invariant, holds in every state.
THEOREM GatewayInvariant == Spec => []GatewayInv
  BY InitGatewayInv, NextKeepsGatewayInv, PTL DEF Spec

\* There are no more rows than requests, since each one has its own.
LEMMA RowsBounded ==
  ASSUME Types, CreatedAtMostOnce
  PROVE  1..Len(rows) \subseteq Ids
  <1> DEFINE n == Len(rows)
             f == [k \in 1..n |-> rows[k].by]
  <1>1. n \in Nat /\ \A k \in 1..n : rows[k].by \in Requests
    BY RowFields
  <1>2. f \in Injection(1..n, Requests)
    BY <1>1 DEF CreatedAtMostOnce, Injection, IsInjective
  <1>3. Cardinality(1..n) <= Cardinality(Requests)
    BY <1>2, FS_Injection, GatewayAssumption
  <1> HIDE DEF n, f
  <1>4. Cardinality(1..n) = n
    <2>1. Cardinality(1..n) = IF 1 > n THEN 0 ELSE n - 1 + 1
      BY <1>1, FS_Interval
    <2> QED
      BY <1>1, <2>1
  <1>5. Cardinality(Requests) \in Nat
    BY FS_CardinalityType, GatewayAssumption
  <1> QED
    BY <1>1, <1>3, <1>4, <1>5 DEF Ids, n

\* The variables keep their types, with ids within the number of requests.
THEOREM GatewayTyped == Spec => []TypeOK
  <1>1. GatewayInv => TypeOK
    <2> SUFFICES ASSUME GatewayInv PROVE TypeOK
      OBVIOUS
    <2>1. known \in [Requests -> SUBSET Ids]
      BY RowsBounded DEF GatewayInv, Types, KnownStored
    <2> QED
      BY <2>1 DEF GatewayInv, Types, TypeOK
  <1> QED
    BY <1>1, GatewayInvariant, PTL

\* A confirmed creation is the row that this very request inserted, for any
\* number of gateways and clients.
THEOREM CreationsAreTrue == Spec => []CreatedIsStored
  <1>1. GatewayInv => CreatedIsStored
    BY DEF GatewayInv, ResponsesTrue, Answered, Stored, CreatedIsStored
  <1> QED
    BY <1>1, GatewayInvariant, PTL

\* No request creates two users, whatever dies, times out or is passed on.
THEOREM CreationsAreUnique == Spec => []CreatedAtMostOnce
  BY GatewayInvariant, PTL DEF GatewayInv

\* A request that was refused for what it says leaves nothing behind.
THEOREM RefusalsAreFinal == Spec => []RefusedLeavesNothing
  <1>1. GatewayInv => RefusedLeavesNothing
    <2> SUFFICES ASSUME GatewayInv, NEW r \in Requests, Answered(r, 400) \/ Answered(r, 500)
                 PROVE  /\ \A k \in 1..Len(rows) : rows[k].by # r
                        /\ \A c \in sent : c[1] # r
      BY DEF RefusedLeavesNothing
    <2>1. Refused(r)
      BY DEF GatewayInv, ResponsesTrue
    <2> QED
      BY <2>1 DEF GatewayInv, Refused, RowsAskedFor, CallsFresh
  <1> QED
    BY <1>1, GatewayInvariant, PTL

\* 404 is only for users that did not exist when the request was sent, or whose
\* SELECT failed; no error of the transport becomes one.
THEOREM NotFoundIsTrue == Spec => []KnownUserFound
  <1>1. GatewayInv => KnownUserFound
    BY DEF GatewayInv, ResponsesTrue, Unknown, KnownUserFound
  <1> QED
    BY <1>1, GatewayInvariant, PTL

-----------------------------------------------------------------------------
(* Deployment: Gateway with UserDirectory as its server                    *)

\* An RPC is for a request that makes one.
RpcsMade == \A c \in sent : MakesRpc(form[c[1]])

\* A thread has an RPC and what it asks for, or neither; the RPC is among those
\* that are sent until its answer is settled, and then among the replies.
Serves(t) ==
  LET c == serving[t]
  IN  /\ pc[c[1]] # "new" /\ MakesRpc(form[c[1]]) /\ call[t] \in Rpcs(form[c[1]])
      /\ answer[t].status = "pending" => c \in sent
      /\ answer[t].status # "pending" =>
           [call |-> c, status |-> answer[t].status, id |-> UserIn(t)] \in replies

ThreadsServe ==
  /\ serving \in [Threads -> Calls \cup {Nil}]
  /\ call = [t \in Threads |-> call[t]] /\ answer = [t \in Threads |-> answer[t]]
  /\ \A t \in Threads : IF serving[t] = Nil THEN call[t] = Nil /\ answer[t] = Directory!NoAnswer
                        ELSE Serves(t)
  /\ \A t, u \in Threads : serving[t] = serving[u] /\ serving[t] # Nil => t = u

DeploymentInv ==
  /\ GatewayInv
  /\ RpcsMade
  /\ ThreadsServe
  /\ KnownWasTold

\* What a gateway that starts or gives up a request does to the others' view:
\* it sends RPCs only for requests that make one, and confirms no user.
LEMMA FrontendShows ==
  ASSUME GatewayInv, Frontend
  PROVE  /\ [Next]_vars
         /\ UNCHANGED <<replies, rows, selectFailed, serving, call, answer, told>>
         /\ sent \subseteq sent'
         /\ \A c \in sent' \ sent : pc'[c[1]] # "new" /\ MakesRpc(form'[c[1]])
         /\ \A r \in Requests : pc[r] # "new" => pc'[r] # "new" /\ form'[r] = form[r]
         /\ \A r \in Requests : Answered(r, 201)' => Answered(r, 201) /\ response'[r] = response[r]
         /\ \A r \in Requests :
              known'[r] \subseteq known[r] \cup {response[q].id : q \in {p \in Requests : Answered(p, 201)}}
  <1> USE DEF server
  <1>0. /\ pc \in [Requests -> {"new", "queued", "calling", "done"}]
        /\ form \in [Requests -> Forms \cup {NoForm}] /\ known \in [Requests -> SUBSET Nat]
        /\ response \in [Requests -> [status : {0, 200, 201, 400, 404, 500, 502}, id : 0..Len(rows)]]
        /\ \A r \in Requests : pc[r] # "new" => form[r] \in Forms
    BY DEF GatewayInv, Types, FormsKnown
  <1>1. ASSUME NEW r \in Requests, NEW f \in Forms, NEW g \in Gateways, Arrive(r, f, g), UNCHANGED threadVars
        PROVE  /\ Next
               /\ UNCHANGED <<sent, replies, rows, selectFailed, serving, call, answer, told>>
               /\ \A q \in Requests : pc[q] # "new" => pc'[q] # "new" /\ form'[q] = form[q]
               /\ \A q \in Requests : Answered(q, 201)' => Answered(q, 201) /\ response'[q] = response[q]
               /\ \A q \in Requests :
                    known'[q] \subseteq known[q] \cup {response[p].id : p \in {p \in Requests : Answered(p, 201)}}
    <2> DEFINE confirmed == {response[p].id : p \in {p \in Requests : Answered(p, 201)}}
    <2>1. /\ Next /\ pc[r] = "new"
          /\ pc' = [pc EXCEPT ![r] = "queued"] /\ form' = [form EXCEPT ![r] = f]
          /\ known' = [known EXCEPT ![r] = confirmed]
          /\ UNCHANGED <<response, sent, replies, rows, selectFailed, serving, call, answer, told>>
      BY <1>1 DEF Arrive, Next, threadVars
    <2> HIDE DEF confirmed
    <2>2. \A q \in Requests : known'[q] \subseteq known[q] \cup confirmed
      BY <1>0, <2>1
    <2>3. /\ \A q \in Requests : pc[q] # "new" => pc'[q] # "new" /\ form'[q] = form[q]
          /\ \A q \in Requests : Answered(q, 201)' => Answered(q, 201) /\ response'[q] = response[q]
      BY <1>0, <2>1 DEF Answered
    <2> QED
      BY <2>1, <2>2, <2>3 DEF confirmed
  <1>2. ASSUME NEW r \in Requests, Start(r) \/ GiveUp(r), UNCHANGED threadVars
        PROVE  /\ Next
               /\ UNCHANGED <<replies, rows, selectFailed, serving, call, answer, told, form, known>>
               /\ sent' = sent \/ (sent' = sent \cup {Call(r)} /\ pc'[r] # "new" /\ MakesRpc(form[r]))
               /\ \A q \in Requests : pc[q] # "new" => pc'[q] # "new"
               /\ \A q \in Requests : Answered(q, 201)' => Answered(q, 201) /\ response'[q] = response[q]
    <2>1. Next
      BY <1>2 DEF Next, Handle
    <2>2. UNCHANGED <<replies, rows, selectFailed, serving, call, answer, told, form, known>>
      BY <1>2 DEF Start, GiveUp, RejectBody, ThrowOnName, Health, CallCreateUser, CallGetUser,
                  CallListUsers, CallGetStats, StartCall, nginx, threadVars
    <2>3. CASE \E status \in {200, 400, 500, 502, 404} : Respond(r, status, 0) /\ sent' = sent
      BY <1>0, <2>1, <2>2, <2>3 DEF Respond, Answered
    <2>4. CASE StartCall(r) /\ MakesRpc(form[r])
      BY <1>0, <2>1, <2>2, <2>4 DEF StartCall, Answered
    <2>5. RejectBody(r) \/ ThrowOnName(r) \/ Health(r) \/ GiveUp(r) =>
            \E status \in {200, 400, 500, 502, 404} : Respond(r, status, 0) /\ sent' = sent
      BY DEF RejectBody, ThrowOnName, Health, GiveUp, HttpStatus
    <2>6. CallCreateUser(r) \/ CallGetUser(r) \/ CallListUsers(r) \/ CallGetStats(r) =>
            StartCall(r) /\ MakesRpc(form[r])
      BY DEF CallCreateUser, CallGetUser, CallListUsers, CallGetStats, Turn, MakesRpc
    <2> QED
      BY <1>2, <2>3, <2>4, <2>5, <2>6 DEF Start
  <1>3. ASSUME NEW g \in Gateways, GatewayDies(g), UNCHANGED threadVars
        PROVE  /\ Next
               /\ UNCHANGED <<sent, replies, rows, selectFailed, serving, call, answer, told, form, known>>
               /\ \A q \in Requests : pc[q] # "new" => pc'[q] # "new"
               /\ \A q \in Requests : Answered(q, 201)' => Answered(q, 201) /\ response'[q] = response[q]
    <2>1. /\ Next
          /\ UNCHANGED <<sent, replies, rows, selectFailed, serving, call, answer, told, form, known>>
      BY <1>3 DEF GatewayDies, Next, threadVars
    <2> DEFINE held == {q \in Requests : pc[q] \in {"queued", "calling"} /\ at[q] = g}
               moved == {q \in held : PassOn(q)}
    <2>2. /\ pc' = [q \in Requests |-> IF q \in moved THEN "queued"
                                       ELSE IF q \in held THEN "done" ELSE pc[q]]
          /\ response' = [q \in Requests |-> IF q \in held \ moved
                                             THEN [status |-> 502, id |-> 0] ELSE response[q]]
      BY <1>3 DEF GatewayDies
    <2>3. \A q \in held : pc[q] # "new"
      OBVIOUS
    <2> HIDE DEF held, moved
    <2> QED
      BY <1>0, <2>1, <2>2, <2>3 DEF Answered
  <1>4. ASSUME Finished, UNCHANGED threadVars
        PROVE  UNCHANGED vars /\ UNCHANGED <<serving, call, answer, told>>
    BY <1>4 DEF Finished, threadVars
  <1>5. CASE \E r \in Requests, f \in Forms, g \in Gateways : Arrive(r, f, g) /\ UNCHANGED threadVars
    BY <1>1, <1>5
  <1>6. CASE \E r \in Requests : (Start(r) \/ GiveUp(r)) /\ UNCHANGED threadVars
    <2>1. PICK r \in Requests : (Start(r) \/ GiveUp(r)) /\ UNCHANGED threadVars
      BY <1>6
    <2> QED
      BY <1>2, <2>1 DEF Call
  <1>7. CASE \E g \in Gateways : GatewayDies(g) /\ UNCHANGED threadVars
    BY <1>3, <1>7
  <1>8. CASE Finished /\ UNCHANGED threadVars
    BY <1>4, <1>8 DEF vars, Answered
  <1> QED
    BY <1>5, <1>6, <1>7, <1>8 DEF Frontend

\* A thread that has an RPC has something to do, which is for a request.
LEMMA BusyThreads ==
  ASSUME DeploymentInv, NEW t \in Threads
  PROVE  /\ call[t] = Nil <=> serving[t] = Nil
         /\ serving[t] # Nil =>
              /\ serving[t] \in Calls /\ serving[t][1] \in Requests
              /\ form[serving[t][1]] \in Forms /\ Serves(t)
  <1> SUFFICES ASSUME serving[t] # Nil
               PROVE  /\ call[t] # Nil
                      /\ serving[t] \in Calls /\ serving[t][1] \in Requests
                      /\ form[serving[t][1]] \in Forms /\ Serves(t)
    BY DEF DeploymentInv, ThreadsServe
  <1>1. serving[t] \in Calls /\ serving[t][1] \in Requests /\ Serves(t)
    BY DEF DeploymentInv, ThreadsServe, Calls
  <1>2. form[serving[t][1]] \in Forms
    BY <1>1 DEF Serves, DeploymentInv, GatewayInv, FormsKnown
  <1> QED
    BY <1>1, <1>2, DeploymentAssumption DEF Serves

\* The gateways leave the server's threads as they are.
LEMMA FrontendKeeps ==
  ASSUME DeploymentInv, Frontend
  PROVE  RpcsMade' /\ ThreadsServe' /\ KnownWasTold'
  <1>0. /\ GatewayInv /\ RpcsMade /\ ThreadsServe /\ KnownWasTold
        /\ sent \in SUBSET Calls /\ \A c \in sent : pc[c[1]] # "new"
        /\ \A c \in Calls : c[1] \in Requests
    BY DEF DeploymentInv, GatewayInv, Types, CallsFresh, Calls
  <1>1. RpcsMade'
    BY <1>0, FrontendShows DEF RpcsMade
  <1>2. ThreadsServe'
    <2>1. ASSUME NEW t \in Threads, serving[t] # Nil PROVE Serves(t)'
      <3>1. serving[t][1] \in Requests /\ Serves(t)
        BY <1>0, <2>1 DEF ThreadsServe
      <3>2. UserIn(t)' = UserIn(t)
        BY <1>0, FrontendShows DEF UserIn
      <3> QED
        BY <1>0, <3>1, <3>2, FrontendShows DEF Serves
    <2> QED
      BY <1>0, <2>1, FrontendShows DEF ThreadsServe
  <1>3. KnownWasTold'
    <2>1. \A r \in Requests : Answered(r, 201) => response[r].id \in told
      BY <1>0 DEF KnownWasTold
    <2> QED
      BY <1>0, <2>1, FrontendShows DEF KnownWasTold
  <1> QED
    BY <1>1, <1>2, <1>3

\* A thread begins with an RPC that no other thread has.
LEMMA BeginKeeps ==
  ASSUME DeploymentInv, NEW t \in Threads, Begin(t)
  PROVE  RpcsMade' /\ ThreadsServe' /\ KnownWasTold'
  <1>0. /\ GatewayInv /\ RpcsMade /\ ThreadsServe /\ KnownWasTold
        /\ sent \in SUBSET Calls /\ \A c \in sent : pc[c[1]] # "new"
        /\ UNCHANGED vars /\ answer' = answer /\ told' = told /\ call[t] = Nil
    BY DEF DeploymentInv, GatewayInv, Types, CallsFresh, Begin, Directory!Begin
  <1>1. PICK c \in sent :
          /\ \A u \in Threads : serving[u] # c
          /\ serving' = [serving EXCEPT ![t] = c]
          /\ \E rpc \in Rpcs(form[c[1]]) : call' = [call EXCEPT ![t] = rpc]
    BY DEF Begin
  <1>2. RpcsMade' /\ KnownWasTold'
    BY <1>0 DEF RpcsMade, KnownWasTold, vars, Answered
  <1>3. ThreadsServe'
    <2>1. /\ serving' \in [Threads -> Calls \cup {Nil}]
          /\ call' = [u \in Threads |-> call'[u]] /\ answer' = [u \in Threads |-> answer'[u]]
          /\ \A u \in Threads \ {t} : serving'[u] = serving[u] /\ call'[u] = call[u]
          /\ serving'[t] = c /\ call'[t] \in Rpcs(form[c[1]])
      BY <1>0, <1>1 DEF ThreadsServe
    <2>2. \A u, v \in Threads : serving'[u] = serving'[v] /\ serving'[u] # Nil => u = v
      BY <1>0, <1>1, <2>1 DEF ThreadsServe
    <2>3. Serves(t)'
      <3>1. answer[t].status = "pending"
        BY <1>0, BusyThreads DEF ThreadsServe, Directory!NoAnswer, Directory!Answer
      <3> QED
        BY <1>0, <1>1, <2>1, <3>1 DEF Serves, RpcsMade, vars
    <2>4. \A u \in Threads \ {t} : UserIn(u)' = UserIn(u)
      BY <1>0, <2>1 DEF UserIn
    <2>5. \A u \in Threads \ {t} : Serves(u) => Serves(u)'
      BY <1>0, <2>1, <2>4 DEF Serves, vars
    <2> QED
      <3>1. c # Nil
        BY <1>0, DeploymentAssumption
      <3>2. ASSUME NEW u \in Threads
            PROVE IF serving'[u] = Nil THEN call'[u] = Nil /\ answer'[u] = Directory!NoAnswer
                  ELSE Serves(u)'
        BY <1>0, <2>1, <2>3, <2>5, <3>1 DEF ThreadsServe
      <3>3. Directory!NoAnswer' = Directory!NoAnswer
        BY DEF Directory!NoAnswer, Directory!Answer
      <3> QED
        BY <2>1, <2>2, <3>2, <3>3 DEF ThreadsServe
  <1> QED
    BY <1>2, <1>3

\* An RPC ends at the gateway as TakeReply allows, or unnoticed.
LEMMA EndKeeps ==
  ASSUME DeploymentInv, NEW t \in Threads, End(t)
  PROVE  [Next]_vars /\ RpcsMade' /\ ThreadsServe' /\ KnownWasTold'
  <1> DEFINE c == serving[t]
             r == serving[t][1]
  <1>0. /\ GatewayInv /\ RpcsMade /\ ThreadsServe /\ KnownWasTold
        /\ answer[t].status # "pending"
        /\ told' = IF Directory!Asks(t, "create") /\ answer[t].status = "ok"
                   THEN told \cup {answer[t].value.id} ELSE told
        /\ call' = [call EXCEPT ![t] = Nil] /\ serving' = [serving EXCEPT ![t] = Nil]
        /\ answer' = [answer EXCEPT ![t] = Directory!NoAnswer]
    BY DEF DeploymentInv, End, Directory!End
  <1>1. c # Nil
    BY <1>0 DEF ThreadsServe, Directory!NoAnswer, Directory!Answer
  <1>2. /\ c \in Calls /\ r \in Requests /\ Serves(t)
        /\ [call |-> c, status |-> answer[t].status, id |-> UserIn(t)] \in replies
        /\ form[r] \in Forms
    BY <1>0, <1>1, BusyThreads DEF Serves
  <1>3. \/ /\ pc[r] = "calling" /\ Call(r) = c
           /\ Respond(r, HttpStatus(form[r].op, answer[t].status), UserIn(t))
           /\ UNCHANGED <<nginx, sent, server>>
        \/ UNCHANGED vars
    BY DEF End
  <1> HIDE DEF c, r
  <1>4. [Next]_vars
    <2>1. TakeReply(r) \/ UNCHANGED vars
      BY <1>2, <1>3 DEF TakeReply
    <2> QED
      BY <1>2, <2>1 DEF Next, Handle
  <1>5. UNCHANGED <<sent, replies, form, at, known>>
    BY <1>3 DEF vars, nginx, server
  <1>6. /\ pc \in [Requests -> {"new", "queued", "calling", "done"}]
        /\ response \in [Requests -> [status : {0, 200, 201, 400, 404, 500, 502}, id : 0..Len(rows)]]
    BY <1>0 DEF GatewayInv, Types
  <1>7. \A q \in Requests : pc[q] # "new" => pc'[q] # "new"
    BY <1>3, <1>6 DEF Respond, vars
  <1>8. RpcsMade'
    BY <1>0, <1>5 DEF RpcsMade
  <1>9. ThreadsServe'
    <2>1. /\ serving' \in [Threads -> Calls \cup {Nil}]
          /\ call' = [u \in Threads |-> call'[u]] /\ answer' = [u \in Threads |-> answer'[u]]
          /\ \A u \in Threads \ {t} :
               serving'[u] = serving[u] /\ call'[u] = call[u] /\ answer'[u] = answer[u]
          /\ serving'[t] = Nil /\ call'[t] = Nil /\ answer'[t] = Directory!NoAnswer
      BY <1>0 DEF ThreadsServe
    <2>2. ASSUME NEW u \in Threads \ {t}, serving[u] # Nil PROVE Serves(u)'
      <3>1. Serves(u) /\ serving[u][1] \in Requests
        BY <2>2, BusyThreads
      <3>2. UserIn(u)' = UserIn(u)
        BY <2>1 DEF UserIn
      <3> QED
        BY <1>5, <1>7, <2>1, <3>1, <3>2 DEF Serves
    <2>3. Directory!NoAnswer' = Directory!NoAnswer
      BY DEF Directory!NoAnswer, Directory!Answer
    <2> QED
      BY <1>0, <2>1, <2>2, <2>3 DEF ThreadsServe
  <1>10. KnownWasTold'
    <2>1. told \subseteq told'
      BY <1>0
    <2>2. ASSUME NEW q \in Requests, Answered(q, 201)' PROVE response'[q].id \in told'
      <3>1. CASE Answered(q, 201) /\ response'[q] = response[q]
        BY <1>0, <2>1, <3>1 DEF KnownWasTold
      <3>2. CASE /\ q = r /\ response'[r].id = UserIn(t)
                 /\ HttpStatus(form[r].op, answer[t].status) = 201
        <4>1. answer[t].status = "ok" /\ form[r].op = "create"
          BY <3>2 DEF HttpStatus
        <4>2. call[t].op = "create" /\ call[t] # Nil
          BY <1>1, <1>2, <4>1, BusyThreads DEF Serves, Rpcs, r, c
        <4>3. UserIn(t) = answer[t].value.id /\ UserIn(t) \in told'
          BY <1>0, <4>1, <4>2 DEF UserIn, Directory!Asks
        <4> QED
          BY <3>2, <4>3
      <3> QED
        BY <1>2, <1>3, <1>6, <2>2, <3>1, <3>2 DEF Answered, Respond, vars
    <2> QED
      BY <1>0, <1>5, <2>1, <2>2 DEF KnownWasTold
  <1> QED
    BY <1>4, <1>8, <1>9, <1>10

\* A server that starts again has no RPC, and those that it had are lost.
LEMMA RestartKeeps ==
  ASSUME DeploymentInv, Restart
  PROVE  [Next]_vars /\ RpcsMade' /\ ThreadsServe' /\ KnownWasTold'
  <1>0. /\ RpcsMade /\ ThreadsServe /\ KnownWasTold
        /\ sent' \subseteq sent /\ sent' \in SUBSET sent
        /\ UNCHANGED <<nginx, pc, response, server, told>>
        /\ serving' = [t \in Threads |-> Nil] /\ call' = [t \in Threads |-> Nil]
        /\ answer' = [t \in Threads |-> Directory!NoAnswer]
    BY DEF DeploymentInv, Restart, Directory!LoseCalls
  <1>1. [Next]_vars
    <2>1. CASE sent' = sent
      BY <1>0, <2>1 DEF vars, nginx, server
    <2>2. CASE sent' # sent
      BY <1>0, <2>2 DEF LoseRpcs, Server, Next
    <2> QED
      BY <2>1, <2>2
  <1>2. RpcsMade' /\ KnownWasTold'
    BY <1>0 DEF RpcsMade, KnownWasTold, Answered, nginx
  <1>3. ThreadsServe'
    <2>1. Directory!NoAnswer' = Directory!NoAnswer
      BY DEF Directory!NoAnswer, Directory!Answer
    <2> QED
      BY <1>0, <2>1 DEF ThreadsServe
  <1> QED
    BY <1>1, <1>2, <1>3

\* The users of the directory are those of the table, in its order.
LEMMA UsersAreRows ==
  ASSUME GatewayInv, NEW users, users = [k \in 1..Len(rows) |-> rows[k].name],
         NEW later, later = [k \in 1..Len(rows') |-> rows'[k].name], 
         NEW row, rows' \in {rows, Append(rows, row)}
  PROVE  /\ Len(rows) \in Nat /\ Len(users) = Len(rows)
         /\ later = users => rows' = rows
         /\ \A n : later = Append(users, n) => rows' = Append(rows, row)
  <1>1. /\ Len(rows) \in Nat
        /\ rows' = Append(rows, row) => Len(rows') = Len(rows) + 1
    <2> DEFINE R == [by : Requests, name : Names] \cup {row}
    <2>1. rows \in Seq(R) /\ row \in R
      <3> DEFINE S == [by : Requests, name : Names]
      <3>1. rows \in Seq(S) /\ S \subseteq R
        BY DEF GatewayInv, Types
      <3> HIDE DEF R, S
      <3>2. Len(rows) \in Nat /\ rows \in [1..Len(rows) -> S]
        BY <3>1, LenProperties
      <3>3. rows \in [1..Len(rows) -> R]
        BY <3>1, <3>2
      <3> QED
        BY <3>2, <3>3, SeqDef DEF R
    <2> HIDE DEF R
    <2> QED
      BY <2>1, AppendProperties, LenProperties
  <1>2. users \in Seq({rows[k].name : k \in 1..Len(rows)}) /\ Len(users) = Len(rows)
    BY <1>1
  <1>3. rows' = Append(rows, row) => DOMAIN later = 1..Len(rows) + 1
    BY <1>1
  <1>4. ASSUME NEW n PROVE DOMAIN Append(users, n) = 1..Len(rows) + 1
    <2> DEFINE S == {rows[k].name : k \in 1..Len(rows)} \cup {n}
    <2>1. users \in Seq(S) /\ n \in S
      BY <1>1
    <2> HIDE DEF S
    <2>2. Append(users, n) \in Seq(S) /\ Len(Append(users, n)) = Len(users) + 1
      BY <2>1, AppendProperties
    <2> QED
      BY <1>2, <2>2, LenProperties
  <1>5. 1..Len(rows) # 1..Len(rows) + 1
    <2>1. Len(rows) + 1 \in 1..Len(rows) + 1 /\ Len(rows) + 1 \notin 1..Len(rows)
      BY <1>1
    <2> QED
      BY <2>1
  <1>6. DOMAIN users = 1..Len(rows)
    OBVIOUS
  <1>7. rows' = rows => DOMAIN later = 1..Len(rows)
    OBVIOUS
  <1> QED
    BY <1>1, <1>2, <1>3, <1>4, <1>5, <1>6, <1>7

\* A thread that decides settles its answer, to which the RPC is then lost, and
\* leaves those of the others.
LEMMA DecideSettles ==
  ASSUME DeploymentInv, NEW t \in Threads, Decide(t),
         NEW status \in RpcStatuses, NEW value, Directory!Settle(t, status, value)
  PROVE  /\ serving[t] \in sent
         /\ answer'[t] = [status |-> status, value |-> value]
         /\ UNCHANGED <<pc, form, at, known, response, told, serving, call>>
         /\ Reply(serving[t], status,
                  IF form[serving[t][1]].op \in {"create", "get"} /\ status = "ok"
                  THEN value.id ELSE 0)
         /\ RpcsMade' /\ ThreadsServe' /\ KnownWasTold'
  <1> DEFINE c == serving[t]
             r == serving[t][1]
             id == IF form[r].op \in {"create", "get"} /\ status = "ok" THEN value.id ELSE 0
  <1>0. /\ GatewayInv /\ RpcsMade /\ ThreadsServe /\ KnownWasTold
        /\ answer[t].status = "pending" /\ c # Nil
        /\ answer' = [answer EXCEPT ![t] = [status |-> status, value |-> value]]
        /\ UNCHANGED <<pc, form, at, known, response, told, serving, call>>
        /\ sent' = sent \ {c}
        /\ replies' = replies \cup {[call |-> c, status |-> answer'[t].status, id |-> UserIn(t)']}
        /\ UNCHANGED nginx
    BY DEF DeploymentInv, Decide, Directory!Settle, Directory!Answer, nginx
  <1>1. c \in Calls /\ r \in Requests /\ c \in sent /\ call[t] \in Rpcs(form[r]) /\ form[r] \in Forms
    BY <1>0, BusyThreads DEF Serves
  <1>2. /\ answer'[t] = [status |-> status, value |-> value]
        /\ \A u \in Threads \ {t} : answer'[u] = answer[u]
        /\ answer' = [u \in Threads |-> answer'[u]]
    BY <1>0 DEF ThreadsServe
  <1>3. call[t].op = form[r].op
    BY <1>1, FormFields DEF Rpcs
  <1> HIDE DEF c, r
  <1>4. UserIn(t)' = id
    BY <1>0, <1>2, <1>3 DEF UserIn
  <1> HIDE DEF id
  <1>5. Reply(c, status, id)
    BY <1>0, <1>2, <1>4 DEF Reply
  <1>6. RpcsMade' /\ KnownWasTold'
    BY <1>0 DEF RpcsMade, KnownWasTold, Answered
  <1>7. ThreadsServe'
    <2>1. ASSUME NEW u \in Threads \ {t}, serving[u] # Nil PROVE Serves(u)'
      <3>1. Serves(u) /\ serving[u] # c
        BY <1>0, <2>1, BusyThreads DEF ThreadsServe, c
      <3>2. UserIn(u)' = UserIn(u)
        BY <1>0, <1>2 DEF UserIn
      <3> QED
        BY <1>0, <1>2, <3>1, <3>2 DEF Serves
    <2>2. Serves(t)'
      <3>1. Serves(t) /\ status # "pending"
        BY <1>0, BusyThreads DEF RpcStatuses, c
      <3>2. [call |-> c, status |-> status, id |-> UserIn(t)'] \in replies'
        BY <1>0, <1>2
      <3> QED
        BY <1>0, <1>2, <3>1, <3>2 DEF Serves, c
    <2>3. Directory!NoAnswer' = Directory!NoAnswer
      BY DEF Directory!NoAnswer, Directory!Answer
    <2> QED
      BY <1>0, <1>2, <2>1, <2>2, <2>3 DEF ThreadsServe, c
  <1> QED
    BY <1>0, <1>1, <1>2, <1>5, <1>6, <1>7 DEF c, r, id

\* What the directory settles is what Gateway lets its server do with the RPC.
LEMMA DecideKeeps ==
  ASSUME DeploymentInv, NEW t \in Threads, Decide(t)
  PROVE  [Next]_vars /\ RpcsMade' /\ ThreadsServe' /\ KnownWasTold'
  <1> DEFINE c == serving[t]
             r == serving[t][1]
             row == [by |-> r, name |-> form[r].name]
             users == [k \in 1..Len(rows) |-> rows[k].name]
             later == [k \in 1..Len(rows') |-> rows'[k].name]
             rest == RpcsMade' /\ ThreadsServe' /\ KnownWasTold'
             known404(status) == form[r].op = "get" /\ form[r].id <= Len(rows) /\ status = "not_found"
  <1>0. /\ GatewayInv /\ c # Nil
        /\ rows' \in {rows} \cup (IF form[r].op # "create" THEN {} ELSE {Append(rows, row)})
        /\ Directory!Decide(t)
        /\ selectFailed' = IF known404(answer'[t].status) THEN selectFailed \cup {r} ELSE selectFailed
    BY DEF DeploymentInv, Decide
  <1>1. /\ c \in Calls /\ r \in Requests /\ c \in Requests \X Gateways
        /\ MakesRpc(form[r]) /\ call[t] \in Rpcs(form[r]) /\ form[r] \in Forms
        /\ answer[t].status = "pending" => c \in sent
    BY <1>0, BusyThreads DEF Serves, Calls
  <1>2. /\ form[r].op \in {"create", "get", "list", "stats"}
        /\ call[t].op = form[r].op
        /\ form[r].op # "list" => call[t] = form[r]
        /\ form[r].op = "get" => form[r].id \in Nat
    <2>1. form[r].op \in {"create", "get", "list", "stats"}
      BY <1>1 DEF MakesRpc
    <2>2. form[r].op = "get" => form[r].id \in Nat
      BY <1>1, FormFields DEF Ids, NoId
    <2>3. IF form[r].op = "list" THEN call[t].op = "list" ELSE call[t] = form[r]
      BY <1>1 DEF Rpcs
    <2> QED
      BY <2>1, <2>2, <2>3
  <1>3. /\ Len(rows) \in Nat /\ Len(users) = Len(rows)
        /\ later = users => rows' = rows
        /\ \A n : later = Append(users, n) => rows' = Append(rows, row)
        /\ form[r].op # "create" => rows' = rows
    <2>1. rows' \in {rows, Append(rows, row)} /\ (form[r].op # "create" => rows' = rows)
      BY <1>0
    <2> HIDE DEF row
    <2> QED
      BY <1>0, <2>1, UsersAreRows
  <1>4. \A op : Directory!Asks(t, op) => form[r].op = op
    BY <1>2 DEF Directory!Asks
  <1>5. {"ok", "invalid", "internal", "not_found"} \subseteq RpcStatuses
    BY DEF RpcStatuses
  <1> HIDE DEF row, users, later, rest, known404
  <1>6. ASSUME NEW status \in RpcStatuses, NEW value, Directory!Settle(t, status, value)
        PROVE  /\ c \in sent /\ rest
               /\ Reply(c, status, IF form[r].op \in {"create", "get"} /\ status = "ok"
                                   THEN value.id ELSE 0)
               /\ selectFailed' = IF known404(status) THEN selectFailed \cup {r} ELSE selectFailed
    <2> DEFINE id == IF form[r].op \in {"create", "get"} /\ status = "ok" THEN value.id ELSE 0
    <2>1. /\ c \in sent /\ Reply(c, status, id) /\ rest
          /\ answer'[t] = [status |-> status, value |-> value]
      <3> USE <1>6
      <3> HIDE DEF id
      <3>1. answer'[t] = [status |-> status, value |-> value]
        BY DecideSettles, Zenon
      <3>2. c \in sent
        BY DecideSettles, Zenon
      <3>3. Reply(c, status, id)
        BY DecideSettles, Zenon DEF id
      <3>4. rest
        BY DecideSettles, Zenon DEF rest
      <3> QED
        BY <3>1, <3>2, <3>3, <3>4
    <2>2. answer'[t].status = status
      BY <2>1
    <2> HIDE DEF id
    <2> QED
      BY <1>0, <2>1, <2>2 DEF id
  <1> HIDE DEF c, r
  <1>7. ASSUME RunCreateUser(c) \/ RunGetUser(c) \/ RunRead(c) PROVE [Next]_vars
    BY <1>1, <1>7 DEF Next, Server
  <1>8. c[1] = r
    BY DEF c, r
  <1>9. CASE Directory!Refuse(t)
    <2>1. /\ Directory!Settle(t, "invalid", Nil) /\ later = users
          /\ \/ form[r].op = "create" /\ form[r].name = EmptyName
             \/ form[r].op = "get" /\ form[r].id = NoId
      BY <1>2, <1>4, <1>9 DEF Directory!Refuse, Directory!Invalid, users, later
    <2>2. c \in sent /\ rest /\ Reply(c, "invalid", 0) /\ UNCHANGED <<rows, selectFailed>>
      BY <1>3, <1>5, <1>6, <2>1 DEF known404
    <2>3. RunCreateUser(c) \/ RunGetUser(c)
      BY <1>8, <2>1, <2>2 DEF RunCreateUser, RunGetUser
    <2> QED
      BY <1>7, <2>2, <2>3 DEF rest
  <1>10. CASE Directory!Add(t)
    <2>1. /\ form[r].op = "create" /\ form[r].name # EmptyName
          /\ later = Append(users, call[t].name)
          /\ Directory!Settle(t, "ok", [id |-> Len(users) + 1, name |-> call[t].name])
      BY <1>2, <1>4, <1>10 DEF Directory!Add, users, later
    <2>2. c \in sent /\ rest /\ Reply(c, "ok", Len(rows) + 1) /\ UNCHANGED selectFailed
      BY <1>3, <1>5, <1>6, <2>1 DEF known404
    <2>3. RunCreateUser(c)
      BY <1>3, <1>8, <2>1, <2>2 DEF RunCreateUser, row
    <2> QED
      BY <1>7, <2>2, <2>3 DEF rest
  <1>11. CASE Directory!Find(t)
    <2>1. /\ form[r].op = "get" /\ call[t].id = form[r].id /\ form[r].id # NoId
          /\ IF form[r].id \in 1..Len(users)
             THEN Directory!Settle(t, "ok", Directory!UserAt(form[r].id))
             ELSE Directory!Settle(t, "not_found", Nil)
      BY <1>2, <1>4, <1>11 DEF Directory!Find, users
    <2>2. CASE form[r].id \in 1..Len(users)
      <3>1. Directory!UserAt(form[r].id).id = form[r].id
        BY DEF Directory!UserAt
      <3>2. c \in sent /\ rest /\ Reply(c, "ok", form[r].id) /\ UNCHANGED <<rows, selectFailed>>
        BY <1>3, <1>5, <1>6, <2>1, <2>2, <3>1 DEF known404
      <3>3. RunGetUser(c)
        BY <1>2, <1>3, <1>8, <2>1, <2>2, <3>2 DEF RunGetUser
      <3> QED
        BY <1>7, <3>2, <3>3 DEF rest
    <2>3. CASE form[r].id \notin 1..Len(users)
      <3>1. form[r].id > Len(rows)
        BY <1>2, <1>3, <2>1, <2>3 DEF NoId
      <3>2. c \in sent /\ rest /\ Reply(c, "not_found", 0) /\ UNCHANGED <<rows, selectFailed>>
        BY <1>2, <1>3, <1>5, <1>6, <2>1, <2>3, <3>1 DEF known404
      <3>3. RunGetUser(c)
        BY <1>8, <2>1, <3>1, <3>2 DEF RunGetUser
      <3> QED
        BY <1>7, <3>2, <3>3 DEF rest
    <2> QED
      BY <2>2, <2>3
  <1>12. CASE Directory!List(t) \/ Directory!Count(t)
    <2>1. /\ form[r].op \in {"list", "stats"}
          /\ \E value : Directory!Settle(t, "ok", value)
      BY <1>4, <1>12 DEF Directory!List, Directory!Count
    <2>2. c \in sent /\ rest /\ Reply(c, "ok", 0) /\ UNCHANGED <<rows, selectFailed>>
      BY <1>3, <1>5, <1>6, <2>1 DEF known404
    <2>3. RunRead(c)
      BY <1>8, <2>1, <2>2 DEF RunRead
    <2> QED
      BY <1>7, <2>2, <2>3 DEF rest
  <1>13. CASE Directory!Fail(t)
    <2>1. /\ call[t] # Nil /\ ~Directory!Invalid(t)
          /\ IF form[r].op = "get" THEN Directory!Settle(t, "not_found", Nil)
             ELSE Directory!Settle(t, "internal", Nil)
          /\ later = users \/ later = Append(users, call[t].name)
      BY <1>2, <1>13 DEF Directory!Fail, users, later
    <2>2. CASE form[r].op = "get"
      <3>1. c \in sent /\ rest /\ Reply(c, "not_found", 0) /\ rows' = rows
        BY <1>3, <1>5, <1>6, <2>1, <2>2
      <3>2. selectFailed' = IF form[r].id <= Len(rows) THEN selectFailed \cup {r} ELSE selectFailed
        BY <1>5, <1>6, <2>1, <2>2 DEF known404
      <3>3. form[r].id # NoId
        BY <1>2, <2>1, <2>2 DEF Directory!Invalid, Directory!Asks
      <3>4. RunGetUser(c)
        BY <1>2, <1>3, <1>8, <2>2, <3>1, <3>2, <3>3 DEF RunGetUser
      <3> QED
        BY <1>7, <3>1, <3>4 DEF rest
    <2>3. CASE form[r].op # "get"
      <3>1. c \in sent /\ rest /\ Reply(c, "internal", 0) /\ UNCHANGED selectFailed
        BY <1>5, <1>6, <2>1, <2>3 DEF known404
      <3>2. rows' \in {rows, Append(rows, row)}
        BY <1>3, <2>1
      <3>3. CASE form[r].op = "create"
        <4>1. form[r].name # EmptyName
          BY <1>2, <2>1, <3>3 DEF Directory!Invalid, Directory!Asks
        <4>2. RunCreateUser(c)
          BY <1>8, <3>1, <3>2, <3>3, <4>1 DEF RunCreateUser, row
        <4> QED
          BY <1>7, <3>1, <4>2 DEF rest
      <3>4. CASE form[r].op \in {"list", "stats"}
        <4>1. RunRead(c)
          BY <1>3, <1>8, <3>1, <3>4 DEF RunRead
        <4> QED
          BY <1>7, <3>1, <4>1 DEF rest
      <3> QED
        BY <1>2, <2>3, <3>3, <3>4
    <2> QED
      BY <2>2, <2>3
  <1> QED
    BY <1>0, <1>9, <1>10, <1>11, <1>12, <1>13 DEF Directory!Decide

\* It holds in the beginning.
LEMMA InitDeploymentInv == DeploymentInit => DeploymentInv
  <1> SUFFICES ASSUME DeploymentInit PROVE DeploymentInv
    OBVIOUS
  <1>1. GatewayInv
    BY InitGatewayInv DEF DeploymentInit
  <1>2. RpcsMade /\ ThreadsServe
    BY DEF DeploymentInit, Init, RpcsMade, ThreadsServe
  <1>3. KnownWasTold
    BY DEF DeploymentInit, Init, KnownWasTold, Answered
  <1> QED
    BY <1>1, <1>2, <1>3 DEF DeploymentInv

\* Every step keeps DeploymentInv, and is a step of Gateway.
LEMMA NextKeepsDeploymentInv ==
  DeploymentInv /\ [DeploymentNext]_<<vars, threadVars>> => DeploymentInv' /\ [Next]_vars
  <1> SUFFICES ASSUME DeploymentInv, [DeploymentNext]_<<vars, threadVars>>
               PROVE  [Next]_vars /\ RpcsMade' /\ ThreadsServe' /\ KnownWasTold'
    BY NextKeepsGatewayInv DEF DeploymentInv
  <1>1. CASE UNCHANGED <<vars, threadVars>>
    <2>1. UNCHANGED <<serving, call, answer, told, pc, form, sent, replies, known, response>>
      BY <1>1 DEF vars, threadVars
    <2>2. Directory!NoAnswer' = Directory!NoAnswer
      BY DEF Directory!NoAnswer, Directory!Answer
    <2>3. \A t \in Threads : Serves(t) => Serves(t)'
      BY <2>1 DEF Serves, UserIn
    <2>4. RpcsMade' /\ KnownWasTold'
      BY <2>1 DEF DeploymentInv, RpcsMade, KnownWasTold, Answered
    <2>5. ThreadsServe'
      BY <2>1, <2>2, <2>3 DEF DeploymentInv, ThreadsServe
    <2> QED
      BY <1>1, <2>4, <2>5
  <1>2. CASE Frontend
    <2>1. [Next]_vars
      BY <1>2, FrontendShows DEF DeploymentInv
    <2> QED
      BY <1>2, <2>1, FrontendKeeps
  <1>3. ASSUME NEW t \in Threads, Begin(t)
        PROVE  [Next]_vars /\ RpcsMade' /\ ThreadsServe' /\ KnownWasTold'
    <2>1. UNCHANGED vars
      BY <1>3 DEF Begin
    <2> QED
      BY <1>3, <2>1, BeginKeeps
  <1> QED
    BY <1>1, <1>2, <1>3, DecideKeeps, EndKeeps, RestartKeeps DEF DeploymentNext

\* DeploymentInv, the inductive invariant of the composition, holds in every state.
THEOREM DeploymentInvariant == DeploymentSpec => []DeploymentInv
  BY InitDeploymentInv, NextKeepsDeploymentInv, PTL DEF DeploymentSpec

\* The gateways with this server do what Gateway allows: whatever the directory
\* answers or loses, in whichever order, is what Gateway lets its server do.
THEOREM DeploymentImplementsGateway == DeploymentSpec => ImplementsGateway
  <1>1. DeploymentInit => Init
    BY DEF DeploymentInit
  <1> QED
    BY <1>1, InitDeploymentInv, NextKeepsDeploymentInv, PTL DEF DeploymentSpec, ImplementsGateway, Spec

\* What clients know through either gateway, the server has told.
THEOREM WhatIsKnownWasTold == DeploymentSpec => []KnownWasTold
  BY DeploymentInvariant, PTL DEF DeploymentInv

\* What was proved of Gateway holds of the gateways with this server.
THEOREM DeploymentIsTrue ==
  DeploymentSpec => [](CreatedIsStored /\ CreatedAtMostOnce /\ RefusedLeavesNothing /\ KnownUserFound)
  BY DeploymentImplementsGateway, CreationsAreTrue, CreationsAreUnique, RefusalsAreFinal,
     NotFoundIsTrue, PTL DEF ImplementsGateway
=============================================================================
