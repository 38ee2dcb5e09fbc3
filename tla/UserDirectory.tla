---------------------------- MODULE UserDirectory ----------------------------
(***************************************************************************)
(* What the four RPCs of the UserService promise their clients, without    *)
(* cache, connections and statements: one list of users, and for each call *)
(* one moment between its begin and its end at which its answer is settled.*)
(* UserRepository implements this specification.                           *)
(*                                                                         *)
(* A create adds one user at that moment; a get answers what the directory *)
(* has then.  Of lists and counts only so much is promised that they were  *)
(* true once: they may be old, and a list may be younger than its total.   *)
(***************************************************************************)
EXTENDS Integers, Sequences

CONSTANTS
  Threads,      \* calls under way, one for each thread of the server
  Requests,     \* what clients may ask for
  EmptyName, EmptyId,
  Nil,          \* no call, no value
  Faults,       \* may a call fail for no fault of the client?
  Crashes       \* may all calls under way get lost?

VARIABLES
  users,        \* the names of the users 1, 2, ...
  call,         \* call[t]: the request of thread t
  answer,       \* answer[t]: its status, "pending" until it is settled, and its value
  told          \* the users that clients know to exist

vars == <<users, call, answer, told>>

Answer(status, value) == [status |-> status, value |-> value]
NoAnswer == Answer("pending", Nil)
UserAt(i) == [id |-> i, name |-> users[i]]

\* The users behind the offset among the first n, at most limit of them; a
\* limit or an offset that is not positive counts as 10 or 0.
UsersOn(n, r) ==
  LET first == IF r.offset > 0 THEN r.offset ELSE 0
      room == IF r.limit > 0 THEN r.limit ELSE 10
      last == IF first + room < n THEN first + room ELSE n
  IN  [k \in 1..last - first |-> UserAt(first + k)]

Init ==
  /\ users = <<>>
  /\ call = [t \in Threads |-> Nil]
  /\ answer = [t \in Threads |-> NoAnswer]
  /\ told = {}

Begin(t) ==
  /\ call[t] = Nil
  /\ \E r \in Requests : call' = [call EXCEPT ![t] = r]
  /\ UNCHANGED <<users, answer, told>>

\* The answer of call t is settled.
Settle(t, status, value) ==
  /\ answer[t].status = "pending"
  /\ answer' = [answer EXCEPT ![t] = Answer(status, value)]
  /\ UNCHANGED <<call, told>>

Asks(t, op) == call[t] # Nil /\ call[t].op = op

\* A name or an id is missing.
Invalid(t) ==
  \/ Asks(t, "create") /\ call[t].name = EmptyName
  \/ Asks(t, "get") /\ call[t].id = EmptyId

Refuse(t) ==
  /\ Invalid(t)
  /\ Settle(t, "invalid", Nil)
  /\ UNCHANGED users

Add(t) ==
  /\ Asks(t, "create")
  /\ call[t].name # EmptyName
  /\ users' = Append(users, call[t].name)
  /\ Settle(t, "ok", [id |-> Len(users) + 1, name |-> call[t].name])

\* Mutant of Find: the row is not tested for nullptr.
FindUnchecked(t) ==
  /\ Asks(t, "get")
  /\ Settle(t, "ok", [id |-> call[t].id, name |-> EmptyName])
  /\ UNCHANGED users

Find(t) ==
  /\ Asks(t, "get")
  /\ call[t].id # EmptyId
  /\ IF call[t].id \in 1..Len(users) THEN Settle(t, "ok", UserAt(call[t].id))
     ELSE Settle(t, "not_found", Nil)
  /\ UNCHANGED users

List(t) ==
  /\ Asks(t, "list")
  /\ \E n \in 0..Len(users) : \E total \in 0..n :
       Settle(t, "ok", [total |-> total, users |-> UsersOn(n, call[t])])
  /\ UNCHANGED users

Count(t) ==
  /\ Asks(t, "stats")
  /\ \E total \in 0..Len(users) : Settle(t, "ok", total)
  /\ UNCHANGED users

\* A create that fails may have added its user all the same; a get that fails
\* does not differ from one for a user that is not there.
Fail(t) ==
  /\ Faults
  /\ call[t] # Nil /\ ~Invalid(t)
  /\ IF call[t].op = "get" THEN Settle(t, "not_found", Nil) ELSE Settle(t, "internal", Nil)
  /\ \/ UNCHANGED users
     \/ call[t].op = "create" /\ users' = Append(users, call[t].name)

Decide(t) == Refuse(t) \/ Add(t) \/ Find(t) \/ List(t) \/ Count(t) \/ Fail(t)

\* The answer reaches the client.
End(t) ==
  /\ answer[t].status # "pending"
  /\ told' = IF Asks(t, "create") /\ answer[t].status = "ok"
             THEN told \cup {answer[t].value.id} ELSE told
  /\ call' = [call EXCEPT ![t] = Nil]
  /\ answer' = [answer EXCEPT ![t] = NoAnswer]
  /\ UNCHANGED users

\* The server is restarted.
LoseCalls ==
  /\ Crashes
  /\ call' = [t \in Threads |-> Nil]
  /\ answer' = [t \in Threads |-> NoAnswer]
  /\ UNCHANGED <<users, told>>

Next ==
  \/ \E t \in Threads : Begin(t) \/ Decide(t) \/ End(t)
  \/ LoseCalls

Spec == Init /\ [][Next]_vars
=============================================================================
