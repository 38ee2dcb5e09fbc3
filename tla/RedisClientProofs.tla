--------------------------- MODULE RedisClientProofs ---------------------------
(***************************************************************************)
(* Proofs about RedisClient, for every number of threads and whatever the  *)
(* bounds.  OwnReply and RunsOnce speak of a reply that is there: what     *)
(* makes them inductive is RedisInv, which says for every step of          *)
(* redisvCommand() where the one command under way and its reply are, that *)
(* nothing is left behind when no thread is inside, and that a context     *)
(* with an error has nothing on the link, never gets to read again and     *)
(* keeps in its buffer only what has not run.                              *)
(***************************************************************************)
EXTENDS RedisClient, SequenceTheorems, TLAPS

\* A thread in the client has a command, and no two have the same.
OwnCommands ==
  /\ \A t \in Threads : at[t] # "out" => command[t] \in Commands
  /\ \A t, u \in Threads :
       at[t] # "out" /\ at[u] # "out" /\ command[t].call = command[u].call => t = u

\* A context that is not there has no threads and no buffers.
NullIsIdle ==
  ctx = "null" =>
    /\ \A t \in Threads : at[t] = "out"
    /\ obuf = <<>> /\ wire = <<>> /\ replies = <<>> /\ reader = <<>>

Answers(t, r) ==
  /\ r \in Replies
  /\ r.call = command[t].call
  /\ r.type \in ReplyTypes(command[t].method)

NothingBack == wire = <<>> /\ replies = <<>> /\ reader = <<>>

\* The command of t was written and not read yet: it is on its way to Redis,
\* or its reply is on the way back, or one of them was lost with the link.
InFlight(t) ==
  /\ reader = <<>>
  /\ \/ /\ wire = <<command[t]>> /\ replies = <<>> /\ link
        /\ runs[command[t].call] = 0
     \/ /\ wire = <<>>
        /\ \E r \in Replies : Answers(t, r) /\ replies = <<r>>
        /\ runs[command[t].call] = 1
     \/ wire = <<>> /\ replies = <<>> /\ ~link

\* Where the command of t is when t is at a step and the context is good.
CommandAt(t) ==
  /\ at[t] = "append" => obuf = <<>>
  /\ at[t] \in {"peek", "write"} => obuf = <<command[t]>>
  /\ at[t] \in {"append", "peek", "write"} => NothingBack /\ runs[command[t].call] = 0
  /\ at[t] = "trim" => obuf = <<command[t]>> /\ written[t] = 1 /\ InFlight(t)
  /\ at[t] = "read" => obuf = <<>> /\ InFlight(t)
  /\ at[t] = "take" =>
       /\ obuf = <<>> /\ wire = <<>> /\ replies = <<>>
       /\ \E r \in Replies : Answers(t, r) /\ reader = <<r>>
       /\ runs[command[t].call] = 1

\* Nothing in the output buffer has run.
BufferNotRun == \A c \in CallsOf(obuf) : runs[c] = 0

\* What holds as long as no two threads have met in the context.
Alone ==
  /\ \A t, u \in Threads : Inside(t) /\ Inside(u) => t = u
  /\ \A c \in Calls : runs[c] <= 1
  /\ \A t \in Threads : at[t] = "done" /\ got[t] # NoReply =>
       Answers(t, got[t]) /\ runs[command[t].call] = 1
  /\ ctx = "ok" =>
       /\ (\A t \in Threads : ~Inside(t)) => obuf = <<>> /\ NothingBack
       /\ \A t \in Threads : CommandAt(t)
  /\ ctx = "err" =>
       /\ NothingBack /\ ~link
       /\ \A t \in Threads : at[t] \in {"out", "append", "peek", "write", "done"}
       /\ \A t \in Threads : at[t] = "append" => runs[command[t].call] = 0
       /\ BufferNotRun

RedisInv ==
  /\ RedisTypeOK
  /\ OwnCommands
  /\ NullIsIdle
  /\ ~raced => Alone

-----------------------------------------------------------------------------
(* Short sequences                                                         *)

\* Sequences of one element, as the invariant has them.
LEMMA OneElement ==
  ASSUME NEW S, NEW x \in S
  PROVE  /\ Append(<<>>, x) = <<x>> /\ <<>> \o <<x>> = <<x>>
         /\ <<x>> \in Seq(S) /\ <<x>> # <<>>
         /\ Len(<<x>>) = 1 /\ Head(<<x>>) = x /\ Tail(<<x>>) = <<>>
         /\ SubSeq(<<x>>, 1, 1) = <<x>> /\ SubSeq(<<x>>, 2, 1) = <<>>
  <1>1. <<x>> \in Seq(S) /\ <<x>> # <<>> /\ Len(<<x>>) = 1
    OBVIOUS
  <1>2. Append(<<>>, x) = <<x>> /\ <<>> \o <<x>> = <<x>>
    OBVIOUS
  <1>3. Head(<<x>>) = x /\ Tail(<<x>>) = <<>>
    OBVIOUS
  <1>4. SubSeq(<<x>>, 1, 1) = <<x>>
    BY <1>1, SubSeqFull
  <1>5. SubSeq(<<x>>, 2, 1) = <<>>
    BY SubSeqEmpty
  <1> QED
    BY <1>1, <1>2, <1>3, <1>4, <1>5

\* Whose commands a short or a longer buffer holds.
LEMMA CallsOfShort ==
  ASSUME NEW s \in Seq(Commands), NEW x \in Commands
  PROVE  /\ CallsOf(<<>>) = {} /\ CallsOf(<<x>>) = {x.call}
         /\ CallsOf(Append(s, x)) = CallsOf(s) \cup {x.call}
  <1>1. CallsOf(<<>>) = {} /\ CallsOf(<<x>>) = {x.call}
    BY DEF CallsOf
  <1>2. /\ Len(Append(s, x)) = Len(s) + 1 /\ Len(s) \in Nat
        /\ \A k \in 1..Len(s) + 1 : Append(s, x)[k] = IF k <= Len(s) THEN s[k] ELSE x
    BY AppendProperties, LenProperties
  <1>3. CallsOf(Append(s, x)) = CallsOf(s) \cup {x.call}
    BY <1>2 DEF CallsOf
  <1> QED
    BY <1>1, <1>3

\* A sequence cut in two stays a sequence.
LEMMA Cut ==
  ASSUME NEW S, NEW s \in Seq(S), NEW n \in Nat
  PROVE  SubSeq(s, n + 1, Len(s)) \in Seq(S) /\ (n <= Len(s) => SubSeq(s, 1, n) \in Seq(S))
  <1>1. Len(s) \in Nat /\ \A k \in 1..Len(s) : s[k] \in S
    BY LenProperties, ElementOfSeq
  <1>2. \A k \in n + 1..Len(s) : s[k] \in S
    BY <1>1
  <1> QED
    BY <1>1, <1>2, SubSeqProperties

\* The first element and the rest of a sequence that is not empty.
LEMMA FirstAndRest ==
  ASSUME NEW S, NEW s \in Seq(S), s # <<>>
  PROVE  Head(s) \in S /\ Tail(s) \in Seq(S)
  BY HeadTailProperties

-----------------------------------------------------------------------------
(* Types                                                                   *)

\* What StartCall and EndCall do to the commands keeps them apart.
LEMMA StartKeepsOwnCommands ==
  ASSUME RedisTypeOK, OwnCommands, NEW t \in Threads, NEW m \in Methods, NEW c \in Calls,
         StartCall(t, m, c)
  PROVE  OwnCommands'
  <1>1. /\ at' = [at EXCEPT ![t] = "append"]
        /\ command' = [command EXCEPT ![t] = [call |-> c, method |-> m]]
        /\ at[t] = "out"
    BY DEF StartCall
  <1>2. command'[t] \in Commands /\ command'[t].call = c
    BY <1>1 DEF RedisTypeOK, Commands
  <1>3. \A u \in Threads : at[u] # "out" => command[u].call # c
    BY DEF StartCall, InUse
  <1>4. \A u \in Threads \ {t} : at'[u] = at[u] /\ command'[u] = command[u]
    BY <1>1 DEF RedisTypeOK
  <1> QED
    BY <1>2, <1>3, <1>4 DEF OwnCommands

\* A step inside of redisvCommand() changes no command.
LEMMA StepKeepsOwnCommands ==
  ASSUME RedisTypeOK, OwnCommands, NEW t \in Threads, CommandStep(t)
  PROVE  OwnCommands' /\ command' = command /\ at[t] # "out"
         /\ \A u \in Threads \ {t} : at'[u] = at[u] /\ got'[u] = got[u]
  <1>1. /\ command' = command /\ at[t] \notin {"out", "done"}
        /\ \E s \in Steps \ {"out"} : at' = [at EXCEPT ![t] = s]
        /\ got' = got \/ \E r \in Replies \cup {NoReply} : got' = [got EXCEPT ![t] = r]
    <2>1. CASE AppendCommand(t)
      BY <2>1 DEF AppendCommand, Steps
    <2>2. CASE Peek(t) \/ Take(t)
      <3>1. \A r : reader # <<>> /\ r = Head(reader) => r \in Replies
        BY FirstAndRest DEF RedisTypeOK
      <3> QED
        BY <2>2, <3>1 DEF Peek, Take, TakeReply, HandOver, Steps
    <2>3. CASE GiveUp(t) \/ SocketError(t)
      BY <2>3 DEF GiveUp, SocketError, HandOver, Steps
    <2>4. CASE Write(t) \/ ReadSocket(t)
      BY <2>4 DEF Write, ReadSocket, Steps
    <2>5. CASE Trim(t)
      BY <2>5 DEF Trim, Steps
    <2> QED
      BY <2>1, <2>2, <2>3, <2>4, <2>5 DEF CommandStep
  <1>2. \A u \in Threads \ {t} : at'[u] = at[u] /\ got'[u] = got[u]
    BY <1>1 DEF RedisTypeOK
  <1>3. \A u \in Threads : at'[u] # "out" => at[u] # "out"
    BY <1>1, <1>2
  <1>4. OwnCommands'
    BY <1>1, <1>3 DEF OwnCommands
  <1> QED
    BY <1>1, <1>2, <1>4

\* Every step inside of redisvCommand() is well typed.
LEMMA StepKeepsTypes ==
  ASSUME RedisTypeOK, OwnCommands, NEW t \in Threads, CommandStep(t)
  PROVE  RedisTypeOK'
  <1> USE DEF RedisTypeOK, Steps
  <1>1. CASE AppendCommand(t)
    <2>1. command[t] \in Commands
      BY <1>1 DEF AppendCommand, OwnCommands
    <2>2. obuf' \in Seq(Commands)
      BY <1>1, <2>1, AppendProperties DEF AppendCommand
    <2> QED
      BY <1>1, <2>2 DEF AppendCommand
  <1>2. CASE Peek(t) \/ Take(t)
    <2>1. reader # <<>> => Head(reader) \in Replies /\ Tail(reader) \in Seq(Replies)
      BY FirstAndRest
    <2>2. reader' \in Seq(Replies) /\ got' \in [Threads -> Replies \cup {NoReply}]
      BY <1>2, <2>1 DEF Peek, Take, TakeReply, HandOver
    <2> QED
      BY <1>2, <2>2 DEF Peek, Take, TakeReply, HandOver
  <1>3. CASE GiveUp(t)
    BY <1>3 DEF GiveUp, HandOver, buffers
  <1>4. CASE Write(t)
    <2>1. wire \o obuf \in Seq(Commands) /\ Len(obuf) \in Nat
      BY ConcatProperties, LenProperties
    <2> QED
      BY <1>4, <2>1 DEF Write
  <1>5. CASE SocketError(t)
    BY <1>5 DEF SocketError, HandOver, buffers
  <1>6. CASE Trim(t)
    <2>1. written[t] \in Nat
      OBVIOUS
    <2>2. obuf' \in Seq(Commands)
      BY <1>6, <2>1, Cut DEF Trim
    <2> QED
      BY <1>6, <2>2 DEF Trim
  <1>7. CASE ReadSocket(t)
    <2>1. PICK n \in 1..Len(replies) :
            /\ reader' = reader \o SubSeq(replies, 1, n)
            /\ replies' = SubSeq(replies, n + 1, Len(replies))
      BY <1>7 DEF ReadSocket
    <2>2. Len(replies) \in Nat
      BY LenProperties
    <2>3. reader' \in Seq(Replies) /\ replies' \in Seq(Replies)
      BY <2>1, <2>2, Cut, ConcatProperties
    <2> QED
      BY <1>7, <2>3 DEF ReadSocket
  <1> QED
    BY <1>1, <1>2, <1>3, <1>4, <1>5, <1>6, <1>7 DEF CommandStep

\* The history of a call starts at zero and counts to two.
LEMMA RunsKeepTypes ==
  /\ [c \in Calls |-> 0] \in [Calls -> 0..2]
  /\ \A f \in [Calls -> 0..2], n \in {0, 1, 2} : \A c :
       [f EXCEPT ![c] = n] \in [Calls -> 0..2]
  <1> DEFINE Count == 0..2
  <1>1. 0 \in Count /\ 1 \in Count /\ 2 \in Count
    OBVIOUS
  <1> HIDE DEF Count
  <1>2. [c \in Calls |-> 0] \in [Calls -> Count]
    BY <1>1
  <1>3. ASSUME NEW f \in [Calls -> Count], NEW c, NEW n \in {0, 1, 2}
        PROVE  [f EXCEPT ![c] = n] \in [Calls -> Count]
    BY <1>1
  <1> QED
    BY <1>2, <1>3 DEF Count

\* So is every step of the whole client.
LEMMA NextKeepsTypes ==
  ASSUME RedisTypeOK, OwnCommands, [RedisNext]_redisVars
  PROVE  RedisTypeOK' /\ OwnCommands'
  <1>1. CASE Connect \/ Close
    <2>1. RedisTypeOK'
      <3>1. runs' \in [Calls -> 0..2]
        BY <1>1, RunsKeepTypes DEF Connect, Close, Drained
      <3> QED
        BY <1>1, <3>1, EmptySeq DEF Connect, Close, Drained, RedisTypeOK
    <2> QED
      BY <1>1, <2>1 DEF Connect, Close, OwnCommands
  <1>2. CASE Die
    <2>1. ctx' \in {"null", "ok", "err"} /\ link' \in BOOLEAN /\ raced' \in BOOLEAN
          /\ obuf' \in Seq(Commands) /\ wire' \in Seq(Commands)
          /\ replies' \in Seq(Replies) /\ reader' \in Seq(Replies)
      BY <1>2, EmptySeq DEF Die, Drained
    <2>2. at' \in [Threads -> Steps] /\ command' \in [Threads -> Commands \cup {NoCommand}]
      BY <1>2 DEF Die, Steps
    <2>3. written' \in [Threads -> Nat] /\ got' \in [Threads -> Replies \cup {NoReply}]
      BY <1>2 DEF Die
    <2>4. runs' \in [Calls -> 0..2]
      BY <1>2, RunsKeepTypes DEF Die, Drained
    <2>5. RedisTypeOK'
      BY <2>1, <2>2, <2>3, <2>4 DEF RedisTypeOK
    <2> QED
      BY <1>2, <2>5 DEF Die, OwnCommands
  <1>3. CASE \E t \in Threads : CommandStep(t)
    BY <1>3, StepKeepsTypes, StepKeepsOwnCommands
  <1>4. CASE \E t \in Threads : EndCall(t)
    <2>1. PICK t \in Threads : EndCall(t)
      BY <1>4
    <2>2. /\ at' = [at EXCEPT ![t] = "out"] /\ command' = [command EXCEPT ![t] = NoCommand]
          /\ got' = [got EXCEPT ![t] = NoReply]
          /\ UNCHANGED <<ctx, buffers, link, written, runs, raced>>
      BY <2>1 DEF EndCall
    <2>3. RedisTypeOK'
      <3>1. at' \in [Threads -> Steps]
        BY <2>2 DEF RedisTypeOK, Steps
      <3>2. command' \in [Threads -> Commands \cup {NoCommand}]
            /\ got' \in [Threads -> Replies \cup {NoReply}]
        BY <2>2 DEF RedisTypeOK
      <3> QED
        BY <2>2, <3>1, <3>2 DEF RedisTypeOK, buffers
    <2>4. \A u \in Threads : at'[u] # "out" => at'[u] = at[u] /\ command'[u] = command[u]
      BY <2>2 DEF RedisTypeOK
    <2> QED
      BY <2>3, <2>4 DEF OwnCommands
  <1>5. CASE \E t \in Threads, m \in Methods, c \in Calls : StartCall(t, m, c)
    <2>1. PICK t \in Threads, m \in Methods, c \in Calls : StartCall(t, m, c)
      BY <1>5
    <2>2. RedisTypeOK'
      BY <2>1 DEF StartCall, RedisTypeOK, buffers, Steps, Commands
    <2> QED
      BY <2>1, <2>2, StartKeepsOwnCommands
  <1>6. CASE RedisRuns
    <2>1. wire # <<>> /\ UNCHANGED <<ctx, obuf, reader, link, local, raced>> /\ wire' = Tail(wire)
      BY <1>6 DEF RedisRuns
    <2>2. Head(wire) \in Commands /\ wire' \in Seq(Commands)
      BY <2>1, FirstAndRest DEF RedisTypeOK
    <2>3. PICK type \in ReplyTypes(Head(wire).method) :
            replies' = Append(replies, [call |-> Head(wire).call, type |-> type])
      BY <1>6 DEF RedisRuns
    <2>4. [call |-> Head(wire).call, type |-> type] \in Replies
      BY <2>2, <2>3 DEF Commands, Replies, ReplyTypes, Types
    <2>5. replies' \in Seq(Replies)
      BY <2>3, <2>4, AppendProperties DEF RedisTypeOK
    <2>6. runs' \in [Calls -> 0..2]
      <3>1. PICK n \in {1, 2} : runs' = [runs EXCEPT ![Head(wire).call] = n]
        BY <1>6 DEF RedisRuns
      <3> QED
        BY <3>1, RunsKeepTypes DEF RedisTypeOK
    <2>7. RedisTypeOK'
      BY <2>1, <2>2, <2>5, <2>6 DEF RedisTypeOK, local
    <2> QED
      BY <2>1, <2>7 DEF OwnCommands, local
  <1>7. CASE LinkBreaks
    <2>1. RedisTypeOK'
      BY <1>7, EmptySeq DEF LinkBreaks, RedisTypeOK, local
    <2> QED
      BY <1>7, <2>1 DEF LinkBreaks, OwnCommands, local
  <1>8. CASE UNCHANGED redisVars
    BY <1>8 DEF redisVars, buffers, local, RedisTypeOK, OwnCommands
  <1> QED
    BY <1>1, <1>2, <1>3, <1>4, <1>5, <1>6, <1>7, <1>8 DEF RedisNext

-----------------------------------------------------------------------------
(* A thread on its own                                                     *)

\* A context that is not there stays idle.
LEMMA NextKeepsNullIsIdle ==
  ASSUME RedisTypeOK, NullIsIdle, [RedisNext]_redisVars
  PROVE  NullIsIdle'
  <1>1. CASE Connect \/ Close \/ Die
    BY <1>1 DEF Connect, Close, Die, Drained, NullIsIdle
  <1>2. CASE \E t \in Threads : CommandStep(t)
    <2>1. PICK t \in Threads : CommandStep(t)
      BY <1>2
    <2>2. at[t] # "out" /\ (ctx' = ctx \/ ctx' = "err")
      BY <2>1 DEF CommandStep, AppendCommand, Peek, Take, TakeReply, GiveUp, Write,
                  SocketError, Trim, ReadSocket
    <2> QED
      BY <2>2 DEF NullIsIdle
  <1>3. CASE \E t \in Threads : EndCall(t)
    BY <1>3 DEF EndCall, NullIsIdle
  <1>4. CASE \E t \in Threads, m \in Methods, c \in Calls : StartCall(t, m, c)
    BY <1>4 DEF StartCall, NullIsIdle
  <1>5. CASE RedisRuns
    BY <1>5 DEF RedisRuns, NullIsIdle
  <1>6. CASE LinkBreaks
    BY <1>6 DEF LinkBreaks, NullIsIdle, local
  <1>7. CASE UNCHANGED redisVars
    BY <1>7 DEF redisVars, buffers, local, NullIsIdle
  <1> QED
    BY <1>1, <1>2, <1>3, <1>4, <1>5, <1>6, <1>7 DEF RedisNext

\* Where all is empty and no thread is inside, nobody meets anybody.
LEMMA DrainedIsAlone ==
  ASSUME RedisTypeOK, Connect \/ Close \/ Die
  PROVE  Alone'
  <1>1. /\ \A t \in Threads : at'[t] = "out"
        /\ obuf' = <<>> /\ wire' = <<>> /\ replies' = <<>> /\ reader' = <<>>
        /\ \A c \in Calls : runs'[c] = 0
        /\ ctx' # "err"
    BY DEF Connect, Close, Die, Drained
  <1> QED
    BY <1>1 DEF Alone, Inside, NothingBack, CommandAt

\* A step of the one thread inside keeps Alone if it does for that thread.
LEMMA StepOfOne ==
  ASSUME RedisInv, Alone, NEW t \in Threads, CommandStep(t),
         runs' = runs,
         at'[t] = "done" /\ got'[t] # NoReply =>
           Answers(t, got'[t]) /\ runs[command[t].call] = 1,
         ctx' = "ok" =>
           CommandAt(t)' /\ (at'[t] = "done" => obuf' = <<>> /\ NothingBack'),
         ctx' = "err" =>
           NothingBack' /\ ~link' /\ at'[t] \in {"peek", "write", "done"} /\ BufferNotRun'
  PROVE  Alone'
  <1>1. /\ command' = command
        /\ \A u \in Threads \ {t} : at'[u] = at[u] /\ got'[u] = got[u]
    BY StepKeepsOwnCommands DEF RedisInv
  <1>2. Inside(t) /\ at'[t] # "out"
    BY DEF CommandStep, AppendCommand, Peek, Take, TakeReply, HandOver, GiveUp, Write,
           SocketError, Trim, ReadSocket, Inside, RedisInv, RedisTypeOK
  <1>3. \A u \in Threads \ {t} : at'[u] \in {"out", "done"}
    BY <1>1, <1>2 DEF Alone, Inside
  <1>4. \A u, v \in Threads : Inside(u)' /\ Inside(v)' => u = v
    BY <1>3 DEF Inside
  <1>5. \A u \in Threads : at'[u] = "done" /\ got'[u] # NoReply =>
          Answers(u, got[u])' /\ runs'[command'[u].call] = 1
    BY <1>1 DEF Alone, Answers
  <1>6. ctx' = "ok" =>
          /\ (\A u \in Threads : ~Inside(u)') => obuf' = <<>> /\ NothingBack'
          /\ \A u \in Threads : CommandAt(u)'
    <2>1. \A u \in Threads \ {t} : CommandAt(u)'
      BY <1>3 DEF CommandAt
    <2> QED
      BY <1>2, <2>1 DEF Inside
  <1>7. ctx' = "err" =>
          /\ NothingBack' /\ ~link' /\ BufferNotRun'
          /\ \A u \in Threads :
               at'[u] \in {"out", "append", "peek", "write", "done"} /\ at'[u] # "append"
    BY <1>3
  <1>8. \A c \in Calls : runs'[c] <= 1
    BY DEF Alone
  <1> QED
    BY <1>4, <1>5, <1>6, <1>7, <1>8 DEF Alone

\* Before a command is written its thread finds everything empty, and appends
\* to nothing.
LEMMA AppendIsAlone ==
  ASSUME RedisInv, Alone, NEW t \in Threads, AppendCommand(t)
  PROVE  Alone'
  <1>1. at[t] = "append" /\ at'[t] = "peek" /\ command[t] \in Commands
    BY DEF AppendCommand, RedisInv, RedisTypeOK, OwnCommands
  <1>2. UNCHANGED <<ctx, wire, replies, reader, link, command, runs>>
    BY DEF AppendCommand
  <1>3. ctx = "ok" => obuf' = <<command[t]>> /\ NothingBack /\ runs[command[t].call] = 0
    <2>1. ctx = "ok" => obuf = <<>> /\ NothingBack /\ runs[command[t].call] = 0
      BY <1>1 DEF Alone, CommandAt
    <2>2. obuf = <<>> => obuf' = Append(<<>>, command[t])
      BY RedisAssumption DEF AppendCommand
    <2> QED
      BY <1>1, <2>1, <2>2, OneElement
  <1>4. ctx' = "ok" => CommandAt(t)'
    BY <1>1, <1>2, <1>3 DEF CommandAt, NothingBack
  <1>5. ctx' = "err" => NothingBack' /\ ~link' /\ BufferNotRun'
    <2>1. ctx = "err" => runs[command[t].call] = 0 /\ BufferNotRun /\ NothingBack /\ ~link
      BY <1>1 DEF Alone
    <2>2. CallsOf(obuf') \subseteq CallsOf(obuf) \cup {command[t].call}
      BY <1>1, CallsOfShort DEF AppendCommand, RedisInv, RedisTypeOK
    <2> QED
      BY <1>2, <2>1, <2>2 DEF BufferNotRun, NothingBack
  <1>6. CommandStep(t)
    BY DEF CommandStep
  <1> QED
    BY <1>1, <1>2, <1>4, <1>5, <1>6, StepOfOne

\* The reader holds nothing before the write, and afterwards the one reply
\* that answers the command.
LEMMA TakeIsAlone ==
  ASSUME RedisInv, Alone, NEW t \in Threads, Peek(t) \/ Take(t)
  PROVE  Alone'
  <1>1. UNCHANGED <<ctx, obuf, wire, replies, link, command, runs>>
    BY DEF Peek, Take, TakeReply
  <1>2. CommandStep(t)
    BY DEF CommandStep
  <1>3. ctx \in {"ok", "err"}
    BY DEF RedisInv, RedisTypeOK, NullIsIdle, Peek, Take, TakeReply
  <1>4. CASE at[t] = "peek"
    <2>1. reader = <<>> /\ NothingBack
      BY <1>3, <1>4 DEF Alone, CommandAt, NothingBack
    <2>2. at'[t] = "write" /\ reader' = reader
      BY <1>4, <2>1 DEF Peek, Take, TakeReply, RedisInv, RedisTypeOK
    <2>3. ctx = "ok" => obuf = <<command[t]>> /\ runs[command[t].call] = 0
      BY <1>4 DEF Alone, CommandAt
    <2>4. ctx' = "ok" => CommandAt(t)'
      BY <1>1, <2>1, <2>2, <2>3 DEF CommandAt, NothingBack
    <2>5. ctx' = "err" => NothingBack' /\ ~link' /\ BufferNotRun'
      BY <1>1, <2>2 DEF Alone, NothingBack, BufferNotRun
    <2> QED
      BY <1>1, <1>2, <2>2, <2>4, <2>5, StepOfOne
  <1>5. CASE at[t] = "take"
    <2>1. ctx = "ok"
      BY <1>3, <1>5 DEF Alone
    <2>2. /\ obuf = <<>> /\ wire = <<>> /\ replies = <<>>
          /\ runs[command[t].call] = 1
      BY <1>5, <2>1 DEF Alone, CommandAt
    <2>3. PICK r \in Replies : Answers(t, r) /\ reader = <<r>>
      BY <1>5, <2>1 DEF Alone, CommandAt
    <2>4. reader # <<>> /\ Head(reader) = r /\ Tail(reader) = <<>>
      BY <2>3, OneElement
    <2>5. at'[t] = "done" /\ got'[t] = r /\ reader' = <<>>
      BY <1>5, <2>4 DEF Peek, Take, TakeReply, HandOver, RedisInv, RedisTypeOK
    <2>6. CommandAt(t)' /\ NothingBack'
      BY <1>1, <2>2, <2>5 DEF CommandAt, NothingBack
    <2> QED
      BY <1>1, <1>2, <2>1, <2>2, <2>3, <2>5, <2>6, StepOfOne
  <1> QED
    BY <1>4, <1>5 DEF Peek, Take, TakeReply

\* A call that fails hands over no reply, and a failing socket leaves nothing
\* on the link.
LEMMA FailureIsAlone ==
  ASSUME RedisInv, Alone, NEW t \in Threads, GiveUp(t) \/ SocketError(t)
  PROVE  Alone'
  <1>1. CommandStep(t) /\ UNCHANGED <<buffers, link, command, runs>>
    BY DEF CommandStep, GiveUp, SocketError
  <1>2. at'[t] = "done" /\ got'[t] = NoReply /\ ctx' = "err"
    BY DEF GiveUp, SocketError, HandOver, RedisInv, RedisTypeOK
  <1>3. NothingBack /\ ~link
    <2>1. CASE GiveUp(t)
      BY <2>1 DEF GiveUp, Alone
    <2>2. CASE SocketError(t)
      <3>1. ctx = "ok" /\ ~link /\ CommandAt(t)
        BY <2>2 DEF SocketError, Alone
      <3>2. CASE at[t] = "write"
        BY <3>1, <3>2 DEF CommandAt
      <3>3. CASE at[t] = "read" /\ replies = <<>>
        <4>1. \A r \in Replies : replies # <<r>>
          BY <3>3, OneElement
        <4> QED
          BY <3>1, <3>3, <4>1 DEF CommandAt, InFlight, NothingBack
      <3> QED
        BY <2>2, <3>2, <3>3 DEF SocketError
    <2> QED
      BY <2>1, <2>2
  <1>4. BufferNotRun
    <2>1. CASE GiveUp(t)
      BY <2>1 DEF GiveUp, Alone
    <2>2. CASE SocketError(t)
      <3>1. obuf = <<>> \/ (obuf = <<command[t]>> /\ runs[command[t].call] = 0)
        BY <2>2 DEF SocketError, Alone, CommandAt
      <3>2. command[t] \in Commands
        BY <2>2 DEF SocketError, RedisInv, OwnCommands
      <3> QED
        BY <3>1, <3>2, CallsOfShort, EmptySeq DEF BufferNotRun
    <2> QED
      BY <2>1, <2>2
  <1>5. BufferNotRun'
    BY <1>1, <1>4 DEF buffers, BufferNotRun
  <1> QED
    BY <1>1, <1>2, <1>3, <1>5, StepOfOne DEF buffers, NothingBack

\* Only the command of the thread is written, on a link without traffic.
LEMMA WriteIsAlone ==
  ASSUME RedisInv, Alone, NEW t \in Threads, Write(t)
  PROVE  Alone'
  <1>1. CommandStep(t) /\ UNCHANGED <<ctx, obuf, replies, reader, link, command, runs>>
    BY DEF CommandStep, Write
  <1>2. at'[t] = "trim" /\ command[t] \in Commands /\ ctx = "ok"
    BY DEF Write, RedisInv, RedisTypeOK, OwnCommands
  <1>3. obuf = <<command[t]>> /\ NothingBack /\ runs[command[t].call] = 0
    BY DEF Write, Alone, CommandAt
  <1>4. written'[t] = 1 /\ (link => wire' = <<command[t]>>) /\ (~link => wire' = <<>>)
    BY <1>2, <1>3, OneElement DEF Write, NothingBack, RedisInv, RedisTypeOK
  <1>5. InFlight(t)'
    BY <1>1, <1>3, <1>4 DEF InFlight, NothingBack
  <1>6. CommandAt(t)'
    BY <1>1, <1>2, <1>3, <1>4, <1>5 DEF CommandAt
  <1> QED
    BY <1>1, <1>2, <1>6, StepOfOne

\* The buffer holds what was written and no more.
LEMMA TrimIsAlone ==
  ASSUME RedisInv, Alone, NEW t \in Threads, Trim(t)
  PROVE  Alone'
  <1>1. CommandStep(t)
        /\ UNCHANGED <<ctx, wire, replies, reader, link, command, runs>>
    BY DEF CommandStep, Trim
  <1>2. command[t] \in Commands /\ ctx = "ok"
    BY DEF Trim, RedisInv, RedisTypeOK, OwnCommands, NullIsIdle, Alone
  <1>3. obuf = <<command[t]>> /\ written[t] = 1 /\ InFlight(t)
    BY <1>2 DEF Trim, Alone, CommandAt
  <1>4. obuf' = <<>>
    BY <1>2, <1>3, OneElement DEF Trim
  <1>5. at'[t] = "read"
    BY <1>4 DEF Trim, RedisInv, RedisTypeOK
  <1>6. InFlight(t)'
    BY <1>1, <1>3 DEF InFlight, Answers
  <1>7. CommandAt(t)'
    BY <1>4, <1>5, <1>6 DEF CommandAt
  <1> QED
    BY <1>1, <1>2, <1>5, <1>7, StepOfOne

\* What is read is the one reply to the command.
LEMMA ReadIsAlone ==
  ASSUME RedisInv, Alone, NEW t \in Threads, ReadSocket(t)
  PROVE  Alone'
  <1>1. CommandStep(t) /\ UNCHANGED <<ctx, obuf, wire, link, command, runs>>
    BY DEF CommandStep, ReadSocket
  <1>2. ctx = "ok" /\ obuf = <<>> /\ InFlight(t) /\ at'[t] = "take"
    BY DEF ReadSocket, Alone, CommandAt, RedisInv, RedisTypeOK
  <1>3. PICK n \in 1..Len(replies) :
          /\ reader' = reader \o SubSeq(replies, 1, n)
          /\ replies' = SubSeq(replies, n + 1, Len(replies))
    BY DEF ReadSocket
  <1>4. replies # <<>>
    BY <1>3
  <1>5. PICK r \in Replies :
          /\ wire = <<>> /\ reader = <<>>
          /\ Answers(t, r) /\ replies = <<r>>
          /\ runs[command[t].call] = 1
    BY <1>2, <1>4 DEF InFlight
  <1>6. n = 1
    BY <1>3, <1>5
  <1>7. reader' = <<r>> /\ replies' = <<>>
    BY <1>3, <1>5, <1>6, OneElement
  <1>8. CommandAt(t)'
    BY <1>1, <1>2, <1>5, <1>7 DEF CommandAt, Answers
  <1> QED
    BY <1>1, <1>2, <1>8, StepOfOne

\* A call that starts alone finds nothing of an earlier one.
LEMMA StartIsAlone ==
  ASSUME RedisInv, Alone, NEW t \in Threads, NEW m \in Methods, NEW c \in Calls,
         StartCall(t, m, c), ~raced'
  PROVE  Alone'
  <1>1. /\ at' = [at EXCEPT ![t] = "append"] /\ at[t] = "out" /\ c \notin InUse
        /\ command' = [command EXCEPT ![t] = [call |-> c, method |-> m]]
        /\ runs' = [runs EXCEPT ![c] = 0]
        /\ UNCHANGED <<ctx, obuf, wire, replies, reader, link, got>>
    BY DEF StartCall, buffers
  <1>2. \A u \in Threads : ~Inside(u)
    BY <1>1 DEF StartCall, Inside
  <1>3. at'[t] = "append" /\ command'[t].call = c /\ runs'[c] = 0
    BY <1>1 DEF RedisInv, RedisTypeOK
  <1>4. \A u \in Threads \ {t} :
          at'[u] = at[u] /\ at[u] \in {"out", "done"} /\ command'[u] = command[u]
    BY <1>1, <1>2 DEF RedisInv, RedisTypeOK, Inside
  <1>5. \A d \in Calls : runs'[d] <= 1 /\ (d # c => runs'[d] = runs[d])
    BY <1>1 DEF RedisInv, RedisTypeOK, Alone
  <1>6. ASSUME NEW u \in Threads, at'[u] = "done", got'[u] # NoReply
        PROVE  Answers(u, got[u])' /\ runs'[command'[u].call] = 1
    <2>1. u # t /\ at[u] = "done" /\ command'[u] = command[u] /\ got'[u] = got[u]
      BY <1>1, <1>3, <1>4, <1>6
    <2>2. command[u].call \in Calls /\ command[u].call # c
      BY <1>1, <2>1 DEF InUse, RedisInv, OwnCommands, Commands
    <2>3. Answers(u, got[u]) /\ runs[command[u].call] = 1
      BY <1>6, <2>1 DEF Alone
    <2> QED
      BY <1>5, <2>1, <2>2, <2>3 DEF Answers
  <1>7. ctx' = "ok" => Inside(t)' /\ \A u \in Threads : CommandAt(u)'
    <2>1. ctx = "ok" => obuf = <<>> /\ NothingBack
      BY <1>2 DEF Alone
    <2>2. ctx' = "ok" => CommandAt(t)'
      BY <1>1, <1>3, <2>1 DEF CommandAt, NothingBack
    <2>3. \A u \in Threads \ {t} : CommandAt(u)'
      BY <1>4 DEF CommandAt
    <2> QED
      BY <1>3, <2>2, <2>3 DEF Inside
  <1>8. \A u, v \in Threads : Inside(u)' /\ Inside(v)' => u = v
    BY <1>4 DEF Inside
  <1>9. ctx' = "err" =>
          /\ NothingBack' /\ ~link'
          /\ \A u \in Threads : at'[u] \in {"out", "append", "peek", "write", "done"}
          /\ \A u \in Threads : at'[u] = "append" => runs'[command'[u].call] = 0
    BY <1>1, <1>3, <1>4 DEF Alone, NothingBack
  <1>10. ctx' = "err" => BufferNotRun'
    <2>1. \A d \in CallsOf(obuf) : d # c
      BY <1>1 DEF InUse
    <2>2. \A d \in CallsOf(obuf) : runs'[d] = runs[d]
      BY <1>1, <2>1
    <2> QED
      BY <1>1, <2>2 DEF Alone, BufferNotRun
  <1> QED
    BY <1>5, <1>6, <1>7, <1>8, <1>9, <1>10 DEF Alone

\* The end of a call touches no other.
LEMMA EndIsAlone ==
  ASSUME RedisInv, Alone, NEW t \in Threads, EndCall(t)
  PROVE  Alone'
  <1>1. /\ at' = [at EXCEPT ![t] = "out"] /\ at[t] = "done"
        /\ command' = [command EXCEPT ![t] = NoCommand]
        /\ got' = [got EXCEPT ![t] = NoReply]
        /\ UNCHANGED <<ctx, obuf, wire, replies, reader, link, written, runs>>
    BY DEF EndCall, buffers
  <1>2. at'[t] = "out"
    BY <1>1 DEF RedisInv, RedisTypeOK
  <1>3. \A u \in Threads \ {t} :
          at'[u] = at[u] /\ command'[u] = command[u] /\ got'[u] = got[u]
    BY <1>1 DEF RedisInv, RedisTypeOK
  <1>4. \A u \in Threads : at'[u] = "done" /\ got'[u] # NoReply =>
          Answers(u, got[u])' /\ runs'[command'[u].call] = 1
    BY <1>1, <1>2, <1>3 DEF Alone, Answers
  <1>5. \A u, v \in Threads : Inside(u)' /\ Inside(v)' => u = v
    BY <1>2, <1>3 DEF Inside, Alone
  <1>6. ctx' = "ok" =>
          /\ (\A u \in Threads : ~Inside(u)') => obuf' = <<>> /\ NothingBack'
          /\ \A u \in Threads : CommandAt(u)'
    <2>1. (\A u \in Threads : ~Inside(u)') => \A u \in Threads : ~Inside(u)
      BY <1>1, <1>3 DEF Inside
    <2>2. ASSUME NEW u \in Threads \ {t}, ctx = "ok" PROVE CommandAt(u)'
      <3>1. CommandAt(u) /\ at'[u] = at[u] /\ command'[u] = command[u]
        BY <1>3, <2>2 DEF Alone
      <3>2. InFlight(u) => InFlight(u)'
        BY <1>1, <3>1 DEF InFlight, Answers
      <3> QED
        BY <1>1, <3>1, <3>2 DEF CommandAt, NothingBack, Answers
    <2>3. CommandAt(t)'
      BY <1>2 DEF CommandAt
    <2> QED
      BY <1>1, <2>1, <2>2, <2>3 DEF Alone, NothingBack
  <1>7. ctx' = "err" =>
          /\ NothingBack' /\ ~link' /\ BufferNotRun'
          /\ \A u \in Threads : at'[u] \in {"out", "append", "peek", "write", "done"}
          /\ \A u \in Threads : at'[u] = "append" => runs'[command'[u].call] = 0
    BY <1>1, <1>2, <1>3 DEF Alone, NothingBack, BufferNotRun
  <1>8. \A c \in Calls : runs'[c] <= 1
    BY <1>1 DEF Alone
  <1> QED
    BY <1>4, <1>5, <1>6, <1>7, <1>8 DEF Alone

\* Only the command under way can be waiting for Redis, which answers it once.
LEMMA RunIsAlone ==
  ASSUME RedisInv, Alone, RedisRuns
  PROVE  Alone'
  <1>1. ctx = "ok" /\ wire # <<>>
    BY DEF RedisRuns, RedisInv, RedisTypeOK, NullIsIdle, Alone, NothingBack
  <1>2. PICK t \in Threads : Inside(t)
    BY <1>1 DEF Alone, NothingBack
  <1>3. CommandAt(t)
    BY <1>1 DEF Alone
  <1>4. at[t] \in {"trim", "read"} /\ InFlight(t)
    BY <1>1, <1>2, <1>3 DEF CommandAt, NothingBack, Inside, RedisInv, RedisTypeOK, Steps
  <1>5. /\ wire = <<command[t]>> /\ replies = <<>> /\ reader = <<>>
        /\ runs[command[t].call] = 0
    BY <1>1, <1>4 DEF InFlight
  <1>6. command[t] \in Commands /\ command[t].call \in Calls
    BY <1>4 DEF RedisInv, OwnCommands, Commands
  <1>7. Head(wire) = command[t] /\ wire' = <<>>
    BY <1>5, <1>6, OneElement DEF RedisRuns
  <1>8. PICK type \in ReplyTypes(command[t].method) :
          replies' = Append(replies, [call |-> command[t].call, type |-> type])
    BY <1>7 DEF RedisRuns
  <1> DEFINE r == [call |-> command[t].call, type |-> type]
  <1>9. r \in Replies /\ Answers(t, r)
    BY <1>6, <1>8 DEF Replies, ReplyTypes, Types, Answers
  <1>10. replies' = <<r>>
    BY <1>5, <1>8, <1>9, OneElement
  <1>11. UNCHANGED <<ctx, obuf, reader, link, at, command, written, got>>
    BY DEF RedisRuns, local
  <1>12. runs'[command[t].call] = 1
         /\ \A d \in Calls \ {command[t].call} : runs'[d] = runs[d]
    BY <1>5, <1>6, <1>7 DEF RedisRuns, RedisInv, RedisTypeOK
  <1>13. \A d \in Calls : runs'[d] <= 1
    BY <1>6, <1>12 DEF Alone
  <1>14. \A u \in Threads \ {t} : at[u] # "out" =>
           command[u].call \in Calls \ {command[t].call} /\ at[u] = "done"
    BY <1>2, <1>4, <1>6 DEF RedisInv, OwnCommands, Commands, Alone, Inside
  <1>15. \A u \in Threads : at'[u] = "done" /\ got'[u] # NoReply =>
           Answers(u, got[u])' /\ runs'[command'[u].call] = 1
    BY <1>4, <1>11, <1>12, <1>14 DEF Alone, Answers
  <1>16. \A u \in Threads : CommandAt(u)'
    <2>1. Answers(t, r)'
      BY <1>9, <1>11 DEF Answers
    <2>2. InFlight(t)'
      BY <1>5, <1>7, <1>9, <1>10, <1>11, <1>12, <2>1 DEF InFlight
    <2>3. CommandAt(t)'
      BY <1>3, <1>4, <1>11, <2>2 DEF CommandAt
    <2>4. \A u \in Threads \ {t} : CommandAt(u)'
      BY <1>11, <1>14 DEF CommandAt
    <2> QED
      BY <2>3, <2>4
  <1>17. Inside(t)' /\ \A u, v \in Threads : Inside(u)' /\ Inside(v)' => u = v
    BY <1>2, <1>11 DEF Inside, Alone
  <1> HIDE DEF r
  <1> QED
    BY <1>1, <1>11, <1>13, <1>15, <1>16, <1>17 DEF Alone

\* What a broken link loses, the call under way does not get.
LEMMA BreakIsAlone ==
  ASSUME RedisInv, Alone, LinkBreaks
  PROVE  Alone'
  <1>1. /\ UNCHANGED <<ctx, obuf, reader, at, command, written, got, runs>>
        /\ link /\ ~link' /\ wire' = <<>> /\ (replies' = replies \/ replies' = <<>>)
    BY DEF LinkBreaks, local, RedisInv, RedisTypeOK
  <1>2. NothingBack => NothingBack'
    BY <1>1 DEF NothingBack
  <1>3. \A t \in Threads, r \in Replies : Answers(t, r) => Answers(t, r)'
    BY <1>1 DEF Answers
  <1>4. \A t \in Threads : InFlight(t) => InFlight(t)'
    BY <1>1, <1>3 DEF InFlight
  <1>5. \A t \in Threads : CommandAt(t) => CommandAt(t)'
    BY <1>1, <1>2, <1>3, <1>4 DEF CommandAt
  <1>6. ctx = "err" => FALSE
    BY <1>1 DEF Alone
  <1> QED
    BY <1>1, <1>2, <1>5, <1>6 DEF Alone, Inside, Answers

-----------------------------------------------------------------------------
(* The theorems                                                            *)

LEMMA InitRedisInv == RedisInit => RedisInv
  <1> SUFFICES ASSUME RedisInit PROVE RedisInv
    OBVIOUS
  <1>1. RedisTypeOK
    BY RunsKeepTypes, EmptySeq DEF RedisInit, RedisTypeOK, Steps
  <1>2. OwnCommands /\ NullIsIdle
    BY DEF RedisInit, OwnCommands, NullIsIdle
  <1>3. Alone
    BY DEF RedisInit, Alone, Inside, NothingBack, CommandAt
  <1> QED
    BY <1>1, <1>2, <1>3 DEF RedisInv

LEMMA NextKeepsRedisInv ==
  RedisInv /\ [RedisNext]_redisVars => RedisInv'
  <1> SUFFICES ASSUME RedisInv, [RedisNext]_redisVars PROVE RedisInv'
    OBVIOUS
  <1>1. RedisTypeOK' /\ OwnCommands' /\ NullIsIdle'
    BY NextKeepsTypes, NextKeepsNullIsIdle DEF RedisInv
  <1>2. ASSUME ~raced' PROVE Alone'
    <2>1. CASE Connect \/ Close \/ Die
      BY <2>1, DrainedIsAlone DEF RedisInv
    <2>2. CASE \E t \in Threads : CommandStep(t)
      <3>1. PICK t \in Threads : CommandStep(t)
        BY <2>2
      <3>2. ~raced
        BY <1>2, <3>1 DEF CommandStep, AppendCommand, Peek, Take, TakeReply, GiveUp,
                          Write, SocketError, Trim, ReadSocket, HandOver
      <3>3. Alone
        BY <3>2 DEF RedisInv
      <3> QED
        BY <3>1, <3>3, AppendIsAlone, TakeIsAlone, FailureIsAlone, WriteIsAlone,
           TrimIsAlone, ReadIsAlone DEF CommandStep
    <2>3. CASE \E t \in Threads : EndCall(t)
      <3>1. PICK t \in Threads : EndCall(t)
        BY <2>3
      <3>2. ~raced
        BY <1>2, <3>1 DEF EndCall
      <3> QED
        BY <3>1, <3>2, EndIsAlone DEF RedisInv
    <2>4. CASE \E t \in Threads, m \in Methods, c \in Calls : StartCall(t, m, c)
      <3>1. PICK t \in Threads, m \in Methods, c \in Calls : StartCall(t, m, c)
        BY <2>4
      <3>2. ~raced
        BY <1>2, <3>1 DEF StartCall
      <3> QED
        BY <1>2, <3>1, <3>2, StartIsAlone DEF RedisInv
    <2>5. CASE RedisRuns
      BY <1>2, <2>5, RunIsAlone DEF RedisRuns, RedisInv
    <2>6. CASE LinkBreaks
      BY <1>2, <2>6, BreakIsAlone DEF LinkBreaks, RedisInv
    <2>7. CASE UNCHANGED redisVars
      <3>1. Alone
        BY <1>2, <2>7 DEF RedisInv, redisVars
      <3> QED
        BY <2>7, <3>1 DEF redisVars, buffers, local, Alone, Inside, NothingBack, CommandAt,
                          InFlight, Answers, BufferNotRun
    <2> QED
      BY <2>1, <2>2, <2>3, <2>4, <2>5, <2>6, <2>7 DEF RedisNext
  <1> QED
    BY <1>1, <1>2 DEF RedisInv

\* The strengthened invariant holds of the client, whoever calls it.
THEOREM RedisAlwaysInv == RedisSpec => []RedisInv
  BY InitRedisInv, NextKeepsRedisInv, PTL DEF RedisSpec

\* The variables of the client have their types.
THEOREM RedisTypes == RedisSpec => []RedisTypeOK
  <1>1. RedisInv => RedisTypeOK
    BY DEF RedisInv
  <1> QED
    BY <1>1, RedisAlwaysInv, PTL

\* Used by one thread at a time, the client gives each method the reply of its
\* own command, whatever links broke and errors came before.
THEOREM RepliesAreOwn == RedisSpec => []OwnReply
  <1>1. RedisInv => OwnReply
    BY DEF RedisInv, Alone, OwnReply, Answers
  <1> QED
    BY <1>1, RedisAlwaysInv, PTL

\* Used by one thread at a time, the client sends no command twice, what was
\* answered ran once, and nothing runs for a call that has failed and is over,
\* though its command stays in the buffer.
THEOREM CommandsRunOnce == RedisSpec => []RunsOnce
  <1>1. ASSUME RedisInv, ~raced, NEW c \in CallsOf(wire)
        PROVE  \E t \in Threads : Inside(t) /\ command[t].call = c
    <2>1. wire # <<>>
      BY <1>1, EmptySeq DEF CallsOf
    <2>2. ctx = "ok" /\ Alone
      BY <1>1, <2>1 DEF RedisInv, RedisTypeOK, NullIsIdle, Alone, NothingBack
    <2>3. PICK t \in Threads : Inside(t)
      BY <2>1, <2>2 DEF Alone, NothingBack
    <2>4. wire = <<command[t]>> /\ command[t] \in Commands
      BY <1>1, <2>1, <2>2, <2>3 DEF Alone, CommandAt, NothingBack, InFlight, Inside, RedisInv,
         RedisTypeOK, Steps, OwnCommands
    <2>5. CallsOf(<<command[t]>>) = {command[t].call}
      BY <2>4, EmptySeq, CallsOfShort
    <2>6. c = command[t].call
      BY <1>1, <2>4, <2>5
    <2> QED
      BY <2>3, <2>6
  <1>2. RedisInv => RunsOnce
    BY <1>1 DEF RedisInv, Alone, RunsOnce, BufferNotRun
  <1> QED
    BY <1>2, RedisAlwaysInv, PTL

\* Whatever reply a method gets, also when threads race in the context, it reads
\* only fields that this reply has.
THEOREM FieldsAreThere == RedisSpec => []RightField
  <1>1. ASSUME NEW m \in Methods, NEW r \in Replies \cup {NoReply}
        PROVE  Result(m, r).reads \subseteq FieldsOf(r)
    <2>1. ASSUME NEW ok \in BOOLEAN, NEW field, ok => r # NoReply /\ field \subseteq FieldsOf(r)
          PROVE  Outcome(ok, r, field).reads \subseteq FieldsOf(r)
      BY <2>1 DEF Outcome, ErrorReads, FieldsOf
    <2>2. /\ Ok(r) \in BOOLEAN /\ (Ok(r) => r # NoReply)
          /\ Ok(r) /\ r.type = "string" => {"str"} \subseteq FieldsOf(r)
          /\ Ok(r) /\ r.type = "integer" => {"integer"} \subseteq FieldsOf(r)
          /\ Ok(r) /\ r.type = "array" => {"element"} \subseteq FieldsOf(r)
      BY DEF Ok, FieldsOf
    <2> DEFINE Fine(o) == o.reads \subseteq FieldsOf(r)
    <2>3. Fine(Set(r)) /\ Fine(Del(r)) /\ Fine(Sadd(r)) /\ Fine(Srem(r))
      BY <2>1, <2>2 DEF Set, Del, Sadd, Srem
    <2>4. Fine(Get(r))
      BY <2>1, <2>2 DEF Get
    <2>5. Fine(Exists(r)) /\ Fine(Incr(r)) /\ Fine(Scard(r))
      BY <2>1, <2>2 DEF Exists, Incr, Scard
    <2>6. Fine(Smembers(r))
      BY <2>1, <2>2 DEF Smembers
    <2>7. Result(m, r) \in {Set(r), Get(r), Del(r), Exists(r), Incr(r), Sadd(r), Srem(r),
                           Smembers(r), Scard(r)}
      BY DEF Methods, Result
    <2> HIDE DEF Fine
    <2>8. Fine(Result(m, r))
      BY <2>3, <2>4, <2>5, <2>6, <2>7
    <2> QED
      BY <2>8 DEF Fine
  <1>2. RedisInv => RightField
    BY <1>1 DEF RedisInv, RedisTypeOK, OwnCommands, Commands, RightField
  <1> QED
    BY <1>2, RedisAlwaysInv, PTL

=============================================================================
