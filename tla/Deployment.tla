------------------------------ MODULE Deployment ------------------------------
(***************************************************************************)
(* The gateways together with the server: Gateway, with UserDirectory in   *)
(* the place of its server.  UserRepository implements UserDirectory, so   *)
(* that what holds here holds of requests on their whole way.              *)
(*                                                                         *)
(* An RPC waits until a thread of the server takes it (Begin), has its     *)
(* answer settled at one moment (Decide), and ends when the answer is at   *)
(* the gateway, whose handler waits for it or has gone on (End).  gRPC,    *)
(* which runs the threads, is external.                                    *)
(***************************************************************************)
EXTENDS Gateway

CONSTANTS
  Threads,      \* RPC threads of the server
  Nil,          \* no call, no value
  Limits, Offsets,  \* pages that a list may be asked for
  Faults,       \* may an RPC fail for no fault of the client?
  Crashes       \* may the server die?

VARIABLES
  serving,      \* serving[t]: the RPC that thread t has, or Nil
  call, answer, \* of UserDirectory: what the RPC asks for, and its answer
  told          \* of UserDirectory: the users that gateways have been told of

threadVars == <<serving, call, answer, told>>

\* What the RPC for a request asks for.
Rpcs(f) ==
  IF f.op = "list" THEN [op : {"list"}, limit : Limits, offset : Offsets] ELSE {f}

MakesRpc(f) ==
  f.op \in {"create", "get", "list", "stats"} /\ (f.op = "create" => f.name \notin {NoName, Structured})

ASSUME DeploymentAssumption ==
  /\ Nil \notin Calls /\ \A f \in Forms : MakesRpc(f) => Nil \notin Rpcs(f)
  /\ Limits \subseteq Int /\ Offsets \subseteq Int

\* The table has the users, and who asked for them.
Directory == INSTANCE UserDirectory
             WITH users <- [k \in 1..Len(rows) |-> rows[k].name], EmptyId <- NoId,
                  Requests <- UNION {Rpcs(f) : f \in {g \in Forms : MakesRpc(g)}}

DeploymentInit ==
  /\ Init
  /\ serving = [t \in Threads |-> Nil]
  /\ call = [t \in Threads |-> Nil]
  /\ answer = [t \in Threads |-> Directory!NoAnswer]
  /\ told = {}

\* A thread takes an RPC that has reached the server.
Begin(t) ==
  /\ UNCHANGED vars
  /\ \E c \in sent :
       /\ \A u \in Threads : serving[u] # c
       /\ serving' = [serving EXCEPT ![t] = c]
       /\ \E rpc \in Rpcs(form[c[1]]) : call' = [call EXCEPT ![t] = rpc]
  /\ Directory!Begin(t)

\* The id of the user in an answer, if there is one.
UserIn(t) ==
  IF call[t].op \in {"create", "get"} /\ answer[t].status = "ok" THEN answer[t].value.id ELSE 0

\* The answer of thread t is settled.  A new row is of the request that the
\* RPC is for; a get that fails although there is the user is remembered.
Decide(t) ==
  LET c == serving[t]
      r == c[1]
  IN  /\ c # Nil
      /\ rows' \in {rows} \cup (IF form[r].op # "create" THEN {}
                                ELSE {Append(rows, [by |-> r, name |-> form[r].name])})
      /\ Directory!Decide(t)
      /\ sent' = sent \ {c}
      /\ replies' = replies \cup {[call |-> c, status |-> answer'[t].status, id |-> UserIn(t)']}
      /\ selectFailed' = IF /\ form[r].op = "get" /\ form[r].id <= Len(rows)
                            /\ answer'[t].status = "not_found"
                         THEN selectFailed \cup {r} ELSE selectFailed
      /\ UNCHANGED <<nginx, pc, response, serving>>

\* The RPC ends; its handler may have given it up, or died.
End(t) ==
  LET r == serving[t][1]
  IN  /\ answer[t].status # "pending"
      /\ IF pc[r] = "calling" /\ Call(r) = serving[t]
         THEN /\ Respond(r, HttpStatus(form[r].op, answer[t].status), UserIn(t))
              /\ UNCHANGED <<nginx, sent, server>>
         ELSE UNCHANGED vars
      /\ Directory!End(t)
      /\ serving' = [serving EXCEPT ![t] = Nil]

\* Mutant of Restart: the gateways send again what the server had not answered.
RestartResends ==
  /\ UNCHANGED <<nginx, pc, response, server>>
  /\ sent' = sent \cup {serving[t] : t \in {u \in Threads : serving[u] # Nil}}
  /\ Directory!LoseCalls
  /\ serving' = [t \in Threads |-> Nil]

\* The server is restarted, without the RPCs that it had.
Restart ==
  /\ UNCHANGED <<nginx, pc, response, server>>
  /\ sent' = sent \ {serving[t] : t \in Threads}
  /\ Directory!LoseCalls
  /\ serving' = [t \in Threads |-> Nil]

\* The gateways and nginx, while the server does nothing.
Frontend ==
  /\ \/ \E r \in Requests : \/ Start(r) \/ GiveUp(r)
                            \/ \E f \in Forms, g \in Gateways : Arrive(r, f, g)
     \/ \E g \in Gateways : GatewayDies(g)
     \/ Finished
  /\ UNCHANGED threadVars

DeploymentNext ==
  \/ Frontend
  \/ \E t \in Threads : Begin(t) \/ Decide(t) \/ End(t)
  \/ Restart

DeploymentSpec == DeploymentInit /\ [][DeploymentNext]_<<vars, threadVars>>

(***************************************************************************)
(* A gateway serves its requests, and the clock of a deadline goes on.     *)
(* Nothing is assumed of the server: it may never answer.                  *)
(***************************************************************************)
FairDeploymentSpec ==
  /\ DeploymentSpec
  /\ \A r \in Requests :
       WF_<<vars, threadVars>>((Start(r) \/ GiveUp(r)) /\ UNCHANGED threadVars)

-----------------------------------------------------------------------------
(* Properties                                                              *)

\* With this server the gateways do what Gateway allows: nothing that the
\* directory answers, or loses, is more than Gateway says a server may do.
ImplementsGateway == Spec

\* What clients know is what the server has told: a user that a client has from
\* one gateway is one that the server counts as known when it is asked for it
\* through the other.
KnownWasTold ==
  \A r \in Requests :
    /\ known[r] \subseteq told
    /\ Answered(r, 201) => response[r].id \in told
==============================================================================
