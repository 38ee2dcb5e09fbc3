------------------------------ MODULE RedisClient ------------------------------
(***************************************************************************)
(* RedisClient (src/src/store/redis_client.{h,cpp}): one redisContext that *)
(* all RPC threads of the gRPC server send their commands through, without *)
(* a lock.                                                                 *)
(*                                                                         *)
(* hiredis is external.  redisvCommand() appends the command to the output *)
(* buffer of the context, takes a reply that is already in the reader or   *)
(* else writes the whole buffer, trims what was written, and reads until a *)
(* reply is there.  These are steps of their own, so that two threads can  *)
(* mix them.  An error of the socket stays in the context for ever.        *)
(*                                                                         *)
(* A command is known by its call; keys and values are left out.  `raced'  *)
(* remembers that two threads were in the context together, or wrote the   *)
(* one err_ together: what these then hold is undefined, and the outcomes  *)
(* explored are mixed replies, commands lost or sent twice, and the death  *)
(* of the process.                                                         *)
(***************************************************************************)
EXTENDS Naturals, Sequences, FiniteSets

CONSTANTS
  Threads,      \* threads of the gRPC server
  Calls,        \* names for the commands under way
  NoCommand,    \* a thread that is not in the client
  NoReply,      \* redisvCommand() returned nullptr
  MaxUnsent,    \* bound: a longer output buffer is cut to this length
  MaxInFlight   \* bound: commands and replies on their way at the same time

Methods == {"set", "get", "del", "exists", "incr", "sadd", "srem", "smembers", "scard"}
Types == {"status", "string", "nil", "integer", "array", "error"}
Commands == [call : Calls, method : Methods]
Replies == [call : Calls, type : Types]

ASSUME RedisAssumption ==
  /\ NoReply \notin Replies /\ NoCommand \notin Commands
  /\ MaxUnsent \in Nat \ {0} /\ MaxInFlight \in Nat \ {0}

\* What Redis answers; a command that it refuses gets an error.
ReplyTypes(m) ==
  {"error"} \cup
  (IF m = "set" THEN {"status"}
   ELSE IF m = "get" THEN {"string", "nil"}
   ELSE IF m = "smembers" THEN {"array"}
   ELSE {"integer"})

VARIABLES
  ctx,       \* ctx_: "null", "ok", or "err" when its error flag is set
  obuf,      \* output buffer of the context: commands not written yet
  wire,      \* commands on their way to Redis
  replies,   \* replies on their way back
  reader,    \* reader of the context: replies that nobody has taken yet
  link,      \* does the TCP connection stand?
  at,        \* at[t]: the next step of thread t in redisvCommand()
  command,   \* command[t]: the command of thread t
  written,   \* written[t]: how many commands write() sent
  got,       \* got[t]: the reply that thread t holds
  runs,      \* history: how often Redis ran call c, 2 for more
  raced      \* history: two threads were in the context, or in err_, at once

buffers == <<obuf, wire, replies, reader>>
local == <<at, command, written, got>>
redisVars == <<ctx, buffers, link, local, runs, raced>>

Inside(t) == at[t] \notin {"out", "done"}

CallsOf(s) == {s[k].call : k \in 1..Len(s)}
InUse ==
  CallsOf(obuf) \cup CallsOf(wire) \cup CallsOf(replies) \cup CallsOf(reader)
  \cup {command[t].call : t \in {u \in Threads : at[u] # "out"}}

RedisInit ==
  /\ ctx = "null"
  /\ obuf = <<>> /\ wire = <<>> /\ replies = <<>> /\ reader = <<>>
  /\ link = FALSE
  /\ at = [t \in Threads |-> "out"]
  /\ command = [t \in Threads |-> NoCommand]
  /\ written = [t \in Threads |-> 0]
  /\ got = [t \in Threads |-> NoReply]
  /\ runs = [c \in Calls |-> 0]
  /\ raced = FALSE

-----------------------------------------------------------------------------
(* What the methods make of a reply                                        *)

\* Fields of a redisReply that are set; a null pointer has none.
FieldsOf(r) ==
  IF r = NoReply THEN {}
  ELSE {"type"} \cup (IF r.type \in {"string", "status", "error"} THEN {"str"}
                      ELSE IF r.type = "integer" THEN {"integer"}
                      ELSE IF r.type = "array" THEN {"element"} ELSE {})

\* RedisReply::ok()
Ok(r) == r # NoReply /\ r.type # "error"

\* RedisReply::error() reads the message of an error and nothing else.
ErrorReads(r) == IF r # NoReply /\ r.type = "error" THEN {"type", "str"} ELSE {}

\* Each method: did it succeed, and which fields of the reply did it read?
Outcome(ok, r, field) ==
  [ok |-> ok, reads |-> IF ok THEN {"type"} \cup field ELSE ErrorReads(r)]

Set(r) == Outcome(Ok(r), r, {})
Get(r) == Outcome(Ok(r) /\ r.type = "string", r, {"str"})
Del(r) == Outcome(Ok(r), r, {})
Exists(r) == Outcome(Ok(r) /\ r.type = "integer", r, {"integer"})

\* Mutant of Incr: the type is not tested, only that there is no error.
IncrUntyped(r) == Outcome(Ok(r), r, {"integer"})

Incr(r) == Outcome(Ok(r) /\ r.type = "integer", r, {"integer"})
Sadd(r) == Outcome(Ok(r), r, {})
Srem(r) == Outcome(Ok(r), r, {})
Smembers(r) == Outcome(Ok(r) /\ r.type = "array", r, {"element"})
Scard(r) == Outcome(Ok(r) /\ r.type = "integer", r, {"integer"})

Result(m, r) ==
  CASE m = "set" -> Set(r)   [] m = "get" -> Get(r)   [] m = "del" -> Del(r)
    [] m = "exists" -> Exists(r) [] m = "incr" -> Incr(r)
    [] m = "sadd" -> Sadd(r) [] m = "srem" -> Srem(r)
    [] m = "smembers" -> Smembers(r) [] m = "scard" -> Scard(r)

\* The methods that write err_ when they fail: get() not for a missing key.
WritesErr(m, r) ==
  \/ m \in {"set", "get"} /\ ~Ok(r)
  \/ m = "incr" /\ ~Incr(r).ok

-----------------------------------------------------------------------------
(* connect(), close() and the end of the process                           *)

\* A context that is new or freed has empty buffers and no command.
Drained ==
  /\ obuf' = <<>> /\ wire' = <<>> /\ replies' = <<>> /\ reader' = <<>>
  /\ runs' = [c \in Calls |-> 0]
  /\ raced' = FALSE

\* connect() closes what it has and gets a context without an error.
Connect ==
  /\ \A t \in Threads : at[t] = "out"
  /\ ctx' = "ok" /\ link' = TRUE
  /\ Drained
  /\ UNCHANGED <<at, command, written, got>>

\* close(), also after a connect() that got no context or one with an error.
Close ==
  /\ \A t \in Threads : at[t] = "out"
  /\ ctx' = "null" /\ link' = FALSE
  /\ Drained
  /\ UNCHANGED <<at, command, written, got>>

\* The process dies with all its threads.
Die ==
  /\ ctx' = "null" /\ link' = FALSE
  /\ Drained
  /\ at' = [t \in Threads |-> "out"]
  /\ command' = [t \in Threads |-> NoCommand]
  /\ written' = [t \in Threads |-> 0]
  /\ got' = [t \in Threads |-> NoReply]

-----------------------------------------------------------------------------
(* Command(): redisvCommand() of one thread                                *)

\* Thread t calls method m, which becomes the call c.
StartCall(t, m, c) ==
  /\ ctx # "null"
  /\ at[t] = "out"
  /\ c \in Calls \ InUse
  /\ at' = [at EXCEPT ![t] = "append"]
  /\ command' = [command EXCEPT ![t] = [call |-> c, method |-> m]]
  /\ runs' = [runs EXCEPT ![c] = 0]
  /\ raced' = (raced \/ \E u \in Threads \ {t} : Inside(u))
  /\ UNCHANGED <<ctx, buffers, link, written, got>>

\* The reply is there, or nullptr; the method may have to write err_ now.
HandOver(t, r) ==
  /\ at' = [at EXCEPT ![t] = "done"]
  /\ got' = [got EXCEPT ![t] = r]
  /\ raced' = (raced \/ /\ WritesErr(command[t].method, r)
                        /\ \E u \in Threads \ {t} :
                             at[u] = "done" /\ WritesErr(command[u].method, got[u]))

\* redisvAppendCommand(), whether or not the context has an error.
AppendCommand(t) ==
  /\ at[t] = "append"
  /\ obuf' = IF Len(obuf) < MaxUnsent THEN Append(obuf, command[t]) ELSE obuf
  /\ at' = [at EXCEPT ![t] = "peek"]
  /\ UNCHANGED <<ctx, wire, replies, reader, link, command, written, got, runs, raced>>

\* The first reply of the reader, whoever it is for; without one, go on.
TakeReply(t, label, next) ==
  /\ at[t] = label
  /\ \/ /\ reader # <<>>
        /\ reader' = Tail(reader)
        /\ HandOver(t, Head(reader))
     \/ /\ reader = <<>>
        /\ at' = [at EXCEPT ![t] = next]
        /\ UNCHANGED <<reader, got, raced>>
  /\ UNCHANGED <<ctx, obuf, wire, replies, link, command, written, runs>>

Peek(t) == TakeReply(t, "peek", "write")
Take(t) == TakeReply(t, "take", "read")

\* Mutant of GiveUp: the next call gets a new link, with the old buffer.
GiveUpReconnects(t) ==
  /\ at[t] \in {"write", "read"}
  /\ ctx = "err"
  /\ ctx' = "ok" /\ link' = TRUE
  /\ HandOver(t, NoReply)
  /\ UNCHANGED <<buffers, command, written, runs>>

\* redisBufferWrite() gives up on a context with an error.
GiveUp(t) ==
  /\ at[t] \in {"write", "read"}
  /\ ctx = "err"
  /\ HandOver(t, NoReply)
  /\ UNCHANGED <<ctx, buffers, link, command, written, runs>>

\* write() of the whole buffer.  On a broken link it may seem to succeed.
Write(t) ==
  /\ at[t] = "write"
  /\ ctx = "ok"
  /\ Len(wire) + Len(replies) + Len(reader) + Len(obuf) <= MaxInFlight
  /\ wire' = IF link THEN wire \o obuf ELSE wire
  /\ written' = [written EXCEPT ![t] = Len(obuf)]
  /\ at' = [at EXCEPT ![t] = "trim"]
  /\ UNCHANGED <<ctx, obuf, replies, reader, link, command, got, runs, raced>>

\* The socket fails in write() or read(): the error stays in the context.
SocketError(t) ==
  /\ at[t] = "write" \/ (at[t] = "read" /\ replies = <<>>)
  /\ ctx = "ok" /\ ~link
  /\ ctx' = "err"
  /\ HandOver(t, NoReply)
  /\ UNCHANGED <<buffers, link, command, written, runs>>

\* Drop from the buffer as much as was written, and write again if something
\* is left.
Trim(t) ==
  /\ at[t] = "trim"
  /\ obuf' = SubSeq(obuf, written[t] + 1, Len(obuf))
  /\ at' = [at EXCEPT ![t] = IF obuf' = <<>> THEN "read" ELSE "write"]
  /\ written' = [written EXCEPT ![t] = 0]
  /\ UNCHANGED <<ctx, wire, replies, reader, link, command, got, runs, raced>>

\* read() blocks until replies are there; they go to the reader.
ReadSocket(t) ==
  /\ at[t] = "read"
  /\ ctx = "ok"
  /\ \E n \in 1..Len(replies) :
       /\ reader' = reader \o SubSeq(replies, 1, n)
       /\ replies' = SubSeq(replies, n + 1, Len(replies))
  /\ at' = [at EXCEPT ![t] = "take"]
  /\ UNCHANGED <<ctx, obuf, wire, link, command, written, got, runs, raced>>

\* Mutant of CommandStep: INCR is appended, and nobody waits for its reply.
CommandWithoutWait(t) ==
  \/ /\ at[t] = "peek" /\ command[t].method = "incr"
     /\ HandOver(t, NoReply)
     /\ UNCHANGED <<ctx, buffers, link, command, written, runs>>
  \/ AppendCommand(t) \/ Peek(t) \/ Take(t) \/ GiveUp(t) \/ Write(t) \/ SocketError(t)
  \/ Trim(t) \/ ReadSocket(t)

CommandStep(t) ==
  \/ AppendCommand(t) \/ Peek(t) \/ Take(t) \/ GiveUp(t) \/ Write(t) \/ SocketError(t)
  \/ Trim(t) \/ ReadSocket(t)

\* The method has its result, err_ is written, and ~RedisReply frees the reply.
EndCall(t) ==
  /\ at[t] = "done"
  /\ at' = [at EXCEPT ![t] = "out"]
  /\ got' = [got EXCEPT ![t] = NoReply]
  /\ command' = [command EXCEPT ![t] = NoCommand]
  /\ UNCHANGED <<ctx, buffers, link, written, runs, raced>>

-----------------------------------------------------------------------------
(* Redis and the network                                                   *)

\* Redis runs commands in the order in which they arrive.
RedisRuns ==
  /\ wire # <<>>
  /\ LET c == Head(wire)
     IN  /\ \E type \in ReplyTypes(c.method) :
              replies' = Append(replies, [call |-> c.call, type |-> type])
         /\ runs' = [runs EXCEPT ![c.call] = IF @ = 0 THEN 1 ELSE 2]
  /\ wire' = Tail(wire)
  /\ UNCHANGED <<ctx, obuf, reader, link, local, raced>>

\* The connection breaks: what Redis has not run is lost, and perhaps replies.
LinkBreaks ==
  /\ link
  /\ link' = FALSE
  /\ wire' = <<>>
  /\ replies' \in {replies, <<>>}
  /\ UNCHANGED <<ctx, obuf, reader, local, runs, raced>>

RedisNext ==
  \/ Connect \/ Close \/ Die
  \/ \E t \in Threads :
       \/ CommandStep(t) \/ EndCall(t)
       \/ \E m \in Methods, c \in Calls : StartCall(t, m, c)
  \/ RedisRuns \/ LinkBreaks

RedisSpec == RedisInit /\ [][RedisNext]_redisVars

-----------------------------------------------------------------------------
(* Properties                                                              *)

Steps == {"out", "append", "peek", "write", "trim", "read", "take", "done"}

RedisTypeOK ==
  /\ ctx \in {"null", "ok", "err"}
  /\ obuf \in Seq(Commands) /\ wire \in Seq(Commands)
  /\ replies \in Seq(Replies) /\ reader \in Seq(Replies)
  /\ link \in BOOLEAN
  /\ at \in [Threads -> Steps]
  /\ command \in [Threads -> Commands \cup {NoCommand}]
  /\ written \in [Threads -> Nat]
  /\ got \in [Threads -> Replies \cup {NoReply}]
  /\ runs \in [Calls -> 0..2]
  /\ raced \in BOOLEAN

\* While one thread at a time uses the client, as redis_client.h:23 asks, each
\* method gets the reply of its own command, of a type that this command has,
\* after broken links and errors too: no reply and no command of an earlier
\* call is left where the next one would find it.
OwnReply ==
  ~raced => \A t \in Threads : at[t] = "done" /\ got[t] # NoReply =>
    got[t].call = command[t].call /\ got[t].type \in ReplyTypes(command[t].method)

\* INCR counts "atomically" (redis_client.cpp:107): no command runs twice, one
\* that was answered ran once, and Redis has nothing to run for a call that is
\* over: once the context has its error, what is left in the buffer of calls
\* that failed has not run, and no later call sends it.
RunsOnce ==
  ~raced =>
    /\ \A c \in Calls : runs[c] <= 1
    /\ \A t \in Threads : at[t] = "done" /\ got[t] # NoReply => runs[command[t].call] = 1
    /\ \A c \in CallsOf(wire) : \E t \in Threads : Inside(t) /\ command[t].call = c
    /\ ctx = "err" => \A c \in CallsOf(obuf) : runs[c] = 0

\* Whatever reply a method gets, even one meant for another thread or none, it
\* reads no field that the reply does not have (redis_client.h:37).
RightField ==
  \A t \in Threads : at[t] = "done" =>
    Result(command[t].method, got[t]).reads \subseteq FieldsOf(got[t])

=============================================================================
