-------------------------- MODULE MysqlPoolProofs --------------------------
(***************************************************************************)
(* Proofs about MysqlPool, for every number of threads, connections and    *)
(* every pool size, and whether or not shutdown() runs beside handlers.    *)
(*                                                                         *)
(* The properties of the pool are not inductive by themselves.  What makes *)
(* them so is PoolInv: who owns mu_ is exactly who stands at a critical    *)
(* label, a thread holds a connection exactly from take to return, and     *)
(* nobody is inside the pool before the server has started.                *)
(***************************************************************************)
EXTENDS MysqlPool, SequenceTheorems, FiniteSetTheorems, TLAPS

\* The owner of mu_ is the only thread inside a critical section.
MutexOwner ==
  \A t \in Threads : pc[t] \in CriticalLabels <=> mu = t

\* Before release() takes mu_ the guard holds a connection; outside and
\* inside acquire() there is no guard yet.
GuardLabels ==
  \A t \in Threads :
    /\ pc[t] \in {"return", "push"} => guard[t] # NoConn
    /\ pc[t] \in {"out", "enter", "test", "take", "waiting"} => guard[t] = NoConn

\* No handler is inside the pool unless the server has been started.
QuietBeforeServing ==
  phase \notin {"serving", "closed"} => \A t \in Threads : pc[t] = "out"

PoolInv ==
  /\ TypeOK
  /\ MutexOwner
  /\ GuardLabels
  /\ QuietBeforeServing
  /\ NoEmptyPop
  /\ Exclusion
  /\ NothingLeaks

-----------------------------------------------------------------------------
(* The stack of idle connections                                           *)

\* What is on the stack after a push.
LEMMA PushIdle ==
  ASSUME NEW s \in Seq(Conns), NEW c \in Conns
  PROVE  /\ Append(s, c) \in Seq(Conns)
         /\ Len(s) \in Nat
         /\ Len(Append(s, c)) = Len(s) + 1
         /\ \A k \in 1..Len(s) : Append(s, c)[k] = s[k]
         /\ Append(s, c)[Len(s) + 1] = c
         /\ Append(s, c) # <<>>
  BY AppendProperties, LenProperties

\* What is on the stack after a pop.
LEMMA PopIdle ==
  ASSUME NEW s \in Seq(Conns), s # <<>>
  PROVE  LET r == SubSeq(s, 1, Len(s) - 1)
         IN  /\ r \in Seq(Conns)
             /\ Len(s) \in Nat \ {0}
             /\ Len(r) = Len(s) - 1
             /\ \A k \in 1..(Len(s) - 1) : r[k] = s[k]
             /\ s[Len(s)] \in Conns
  <1>1. Len(s) \in Nat \ {0} /\ \A k \in 1..Len(s) : s[k] \in Conns
    BY EmptySeq, LenProperties, ElementOfSeq
  <1>2. \A k \in 1..(Len(s) - 1) : s[k] \in Conns
    BY <1>1
  <1>3. PICK n \in Nat \ {0} : n = Len(s)
    BY <1>1
  <1> DEFINE m == n - 1
             r == SubSeq(s, 1, m)
  <1>4. m \in Nat /\ m - 1 + 1 = m /\ \A k \in 1..m : s[k] \in Conns
    BY <1>2, <1>3
  <1> HIDE DEF m
  <1>5. /\ r \in Seq(Conns)
        /\ Len(r) = IF 1 <= m THEN m - 1 + 1 ELSE 0
        /\ \A k \in 1..(m - 1 + 1) : r[k] = s[1 + k - 1]
    BY <1>4, SubSeqProperties
  <1>6. Len(r) = m /\ \A k \in 1..m : r[k] = s[k]
    BY <1>4, <1>5
  <1> QED
    BY <1>1, <1>3, <1>5, <1>6 DEF m

-----------------------------------------------------------------------------
(* The steps of main()                                                     *)

\* init(), the start of the server and the destructor keep the invariant.
LEMMA MainStepKeepsPoolInv ==
  ASSUME PoolInv, MainStep
  PROVE  PoolInv'
  <1> USE DEF PoolInv, mainVars
  <1>1. CASE CreateDatabase \/ InitFails \/ InitSucceeds \/ StartServer
    <2>1. /\ phase \notin {"serving", "closed"}
          /\ phase' \in Phases \ {"closed"}
          /\ UNCHANGED <<opened, table, conns, idle, mu, pc, guard>>
      BY <1>1 DEF CreateDatabase, InitFails, InitSucceeds, StartServer, Phases
    <2>2. TypeOK'
      BY <2>1 DEF TypeOK
    <2>3. MutexOwner' /\ GuardLabels' /\ NoEmptyPop'
      BY <2>1 DEF MutexOwner, GuardLabels, NoEmptyPop
    <2>4. QuietBeforeServing'
      BY <2>1 DEF QuietBeforeServing
    <2>5. Exclusion' /\ NothingLeaks'
      BY <2>1 DEF Exclusion, NothingLeaks, Idle, Lent
    <2> QED
      BY <2>2, <2>3, <2>4, <2>5
  <1>2. CASE OpenConnection
    <2>1. PICK c \in Conns \ conns :
            /\ idle' = Append(idle, c)
            /\ conns' = conns \cup {c}
      BY <1>2 DEF OpenConnection
    <2>2. /\ phase = "filling"
          /\ table' = (table \/ opened = 0)
          /\ opened' = opened + 1
          /\ UNCHANGED <<phase, mu, pc, guard>>
      BY <1>2 DEF OpenConnection
    <2>3. /\ idle' \in Seq(Conns)
          /\ Len(idle) \in Nat
          /\ Len(idle') = Len(idle) + 1
          /\ \A k \in 1..Len(idle) : idle'[k] = idle[k]
          /\ idle'[Len(idle) + 1] = c
      BY <2>1, PushIdle DEF TypeOK
    <2>4. TypeOK'
      BY <2>1, <2>2, <2>3 DEF TypeOK
    <2>5. MutexOwner' /\ GuardLabels' /\ QuietBeforeServing'
      BY <2>2 DEF MutexOwner, GuardLabels, QuietBeforeServing
    <2>6. NoEmptyPop'
      BY <2>2 DEF NoEmptyPop, QuietBeforeServing
    <2>7. Idle' = Idle \cup {c}
      BY <2>3 DEF Idle
    <2>8. Lent' = Lent
      BY <2>2 DEF Lent
    <2>9. c \notin Idle \cup Lent
      BY <2>1, <2>2 DEF NothingLeaks
    <2>10. \A j, k \in 1..Len(idle') : idle'[j] = idle'[k] => j = k
      BY <2>3, <2>9 DEF Exclusion, Idle
    <2>11. Exclusion'
      BY <2>2, <2>7, <2>8, <2>9, <2>10 DEF Exclusion
    <2>12. NothingLeaks'
      BY <2>1, <2>2, <2>7, <2>8 DEF NothingLeaks
    <2> QED
      BY <2>4, <2>5, <2>6, <2>11, <2>12
  <1>3. CASE Shutdown
    <2>1. /\ mu = NoThread
          /\ idle' = <<>>
          /\ conns' = {}
          /\ phase' = "closed"
          /\ UNCHANGED <<opened, table, mu, pc, guard>>
      BY <1>3 DEF Shutdown
    <2>2. TypeOK'
      BY <2>1, EmptySeq DEF TypeOK, Phases
    <2>3. MutexOwner' /\ GuardLabels' /\ QuietBeforeServing'
      BY <2>1 DEF MutexOwner, GuardLabels, QuietBeforeServing
    <2>4. NoEmptyPop'
      BY <2>1, ThreadsAssumption DEF NoEmptyPop, MutexOwner, CriticalLabels
    <2>5. Exclusion' /\ NothingLeaks'
      <3>1. Len(idle') = 0
        BY <2>1, EmptySeq
      <3>2. Idle' = {}
        BY <3>1 DEF Idle
      <3> QED
        BY <2>1, <3>1, <3>2 DEF Exclusion, NothingLeaks
    <2> QED
      BY <2>2, <2>3, <2>4, <2>5
  <1> QED
    BY <1>1, <1>2, <1>3 DEF MainStep

-----------------------------------------------------------------------------
(* The steps of the handlers                                               *)

\* A step that leaves the connections where they are keeps Exclusion and
\* NothingLeaks.
LEMMA SameHolders ==
  ASSUME Exclusion, NothingLeaks, UNCHANGED <<phase, conns, idle, guard>>
  PROVE  Exclusion' /\ NothingLeaks'
  BY DEF Exclusion, NothingLeaks, Idle, Lent

\* The steps of acquire() and ~Guard that only move a thread or mu_.
LEMMA QuietStepKeepsPoolInv ==
  ASSUME PoolInv, NEW t \in Threads,
         \/ CallAcquire(t) \/ LockToTake(t) \/ FindIdle(t) \/ WaitForIdle(t)
         \/ SpuriousWake(t) \/ DestroyGuard(t) \/ LockToReturn(t)
  PROVE  PoolInv'
  <1> USE DEF PoolInv
  <1>1. /\ UNCHANGED <<phase, opened, table, conns, idle, guard>>
        /\ mu' \in {mu, t, NoThread}
        /\ \E l \in Labels : pc' = [pc EXCEPT ![t] = l]
    BY DEF CallAcquire, LockToTake, FindIdle, WaitForIdle, SpuriousWake,
           DestroyGuard, LockToReturn, mainVars, Labels
  <1>2. TypeOK'
    BY <1>1 DEF TypeOK
  <1>3. MutexOwner'
    BY <1>1, ThreadsAssumption
    DEF TypeOK, MutexOwner, CriticalLabels, CallAcquire, LockToTake, FindIdle,
        WaitForIdle, SpuriousWake, DestroyGuard, LockToReturn
  <1>4. GuardLabels'
    BY <1>1 DEF TypeOK, GuardLabels, CallAcquire, LockToTake, FindIdle,
                WaitForIdle, SpuriousWake, DestroyGuard, LockToReturn
  <1>5. QuietBeforeServing'
    BY <1>1 DEF TypeOK, QuietBeforeServing, CallAcquire, LockToTake, FindIdle,
                WaitForIdle, SpuriousWake, DestroyGuard, LockToReturn
  <1>6. NoEmptyPop'
    BY <1>1 DEF TypeOK, NoEmptyPop, CallAcquire, LockToTake, FindIdle,
                WaitForIdle, SpuriousWake, DestroyGuard, LockToReturn
  <1>7. Exclusion' /\ NothingLeaks'
    BY <1>1, SameHolders
  <1> QED
    BY <1>2, <1>3, <1>4, <1>5, <1>6, <1>7

\* Taking the top of the stack moves one connection from idle to lent.
LEMMA TakeKeepsPoolInv ==
  ASSUME PoolInv, NEW t \in Threads, TakeIdle(t)
  PROVE  PoolInv'
  <1> USE DEF PoolInv
  <1> DEFINE c == idle[Len(idle)]
  <1>1. /\ pc[t] = "take"
        /\ guard' = [guard EXCEPT ![t] = c]
        /\ idle' = SubSeq(idle, 1, Len(idle) - 1)
        /\ mu' = NoThread
        /\ pc' = [pc EXCEPT ![t] = "using"]
        /\ UNCHANGED <<phase, opened, table, conns>>
    BY DEF TakeIdle, mainVars
  <1>2. /\ mu = t
        /\ guard[t] = NoConn
        /\ idle # <<>>
        /\ \A u \in Threads \ {t} : pc[u] \notin CriticalLabels
    BY <1>1 DEF MutexOwner, CriticalLabels, GuardLabels, NoEmptyPop
  <1>3. /\ idle' \in Seq(Conns)
        /\ Len(idle) \in Nat \ {0}
        /\ Len(idle') = Len(idle) - 1
        /\ \A k \in 1..(Len(idle) - 1) : idle'[k] = idle[k]
        /\ c \in Conns
    BY <1>1, <1>2, PopIdle DEF TypeOK
  <1> HIDE DEF c
  <1>4. c # NoConn
    BY <1>3, ConnsAssumption
  <1>5. TypeOK'
    BY <1>1, <1>3 DEF TypeOK, Labels
  <1>6. MutexOwner' /\ GuardLabels' /\ QuietBeforeServing' /\ NoEmptyPop'
    <2>1. MutexOwner'
      BY <1>1, <1>2, ThreadsAssumption DEF TypeOK, MutexOwner, CriticalLabels
    <2>2. GuardLabels'
      BY <1>1 DEF TypeOK, GuardLabels
    <2>3. QuietBeforeServing'
      BY <1>1 DEF TypeOK, QuietBeforeServing
    <2>4. NoEmptyPop'
      BY <1>1, <1>2 DEF TypeOK, NoEmptyPop, CriticalLabels
    <2> QED
      BY <2>1, <2>2, <2>3, <2>4
  <1>7. Idle' = Idle \ {c} /\ c \in Idle
    <2>1. \A j, k \in 1..Len(idle) : idle[j] = idle[k] => j = k
      BY DEF Exclusion
    <2> QED
      BY <1>3, <2>1 DEF Idle, c
  <1>8. Lent' = Lent \cup {c}
    BY <1>1, <1>2, <1>4 DEF Lent, TypeOK
  <1>9. c \notin Lent
    BY <1>7 DEF Exclusion
  <1>10. Exclusion'
    <2>1. \A u, v \in Threads : guard'[u] = guard'[v] /\ guard'[u] # NoConn => u = v
      BY <1>1, <1>4, <1>9 DEF Exclusion, Lent, TypeOK
    <2>2. Idle' \cap Lent' = {}
      BY <1>7, <1>8 DEF Exclusion
    <2>3. \A j, k \in 1..Len(idle') : idle'[j] = idle'[k] => j = k
      BY <1>3 DEF Exclusion
    <2> QED
      BY <2>1, <2>2, <2>3 DEF Exclusion
  <1>11. NothingLeaks'
    BY <1>1, <1>7, <1>8 DEF NothingLeaks
  <1> QED
    BY <1>5, <1>6, <1>10, <1>11

\* A moved guard carries its connection along.
LEMMA MoveKeepsPoolInv ==
  ASSUME PoolInv, NEW t \in Threads, NEW u \in Threads, MoveGuard(t, u)
  PROVE  PoolInv'
  <1> USE DEF PoolInv
  <1>1. /\ pc[t] = "using" /\ guard[t] # NoConn
        /\ pc[u] = "out" /\ guard[u] = NoConn /\ t # u
        /\ guard' = [guard EXCEPT ![u] = guard[t], ![t] = NoConn]
        /\ pc' = [pc EXCEPT ![u] = "using"]
        /\ UNCHANGED <<phase, opened, table, conns, idle, mu>>
    BY DEF MoveGuard, mainVars, GuardLabels
  <1>2. /\ guard'[u] = guard[t] /\ guard'[t] = NoConn
        /\ \A v \in Threads \ {t, u} : guard'[v] = guard[v]
    BY <1>1 DEF TypeOK
  <1>3. TypeOK'
    BY <1>1 DEF TypeOK, Labels
  <1>4. MutexOwner' /\ NoEmptyPop' /\ QuietBeforeServing'
    BY <1>1 DEF TypeOK, MutexOwner, CriticalLabels, NoEmptyPop, QuietBeforeServing
  <1>5. GuardLabels'
    BY <1>1, <1>2 DEF TypeOK, GuardLabels
  <1>6. Lent' = Lent /\ Idle' = Idle
    BY <1>1, <1>2 DEF Lent, Idle
  <1>7. \A v, w \in Threads : guard'[v] = guard'[w] /\ guard'[v] # NoConn => v = w
    <2> SUFFICES ASSUME NEW v \in Threads, NEW w \in Threads,
                        guard'[v] = guard'[w], guard'[v] # NoConn
                 PROVE  v = w
      OBVIOUS
    <2>1. v # t /\ w # t
      BY <1>2
    <2>2. CASE v = u /\ w # u
      BY <1>2, <2>1, <2>2 DEF Exclusion
    <2>3. CASE v # u /\ w = u
      BY <1>2, <2>1, <2>3 DEF Exclusion
    <2>4. CASE v # u /\ w # u
      BY <1>2, <2>1, <2>4 DEF Exclusion
    <2> QED
      BY <2>2, <2>3, <2>4
  <1>8. Exclusion'
    BY <1>1, <1>6, <1>7 DEF Exclusion
  <1>9. NothingLeaks'
    BY <1>1, <1>6 DEF NothingLeaks
  <1> QED
    BY <1>3, <1>4, <1>5, <1>8, <1>9

\* Returning a connection moves it from lent to idle, whoever is woken.
LEMMA PushKeepsPoolInv ==
  ASSUME PoolInv, NEW t \in Threads, PushAndNotify(t)
  PROVE  PoolInv'
  <1> USE DEF PoolInv
  <1> DEFINE c == guard[t]
  <1>1. /\ pc[t] = "push"
        /\ idle' = Append(idle, c)
        /\ guard' = [guard EXCEPT ![t] = NoConn]
        /\ mu' = NoThread
        /\ UNCHANGED <<phase, opened, table, conns>>
    BY DEF PushAndNotify, mainVars
  <1>2. /\ pc' \in [Threads -> Labels]
        /\ pc'[t] = "out"
        /\ \A u \in Threads \ {t} :
             pc'[u] = pc[u] \/ (pc[u] = "waiting" /\ pc'[u] = "enter")
    <2>1. CASE pc' = [pc EXCEPT ![t] = "out"]
      BY <2>1 DEF TypeOK, Labels
    <2>2. ASSUME NEW w \in Waiting, pc' = [pc EXCEPT ![t] = "out", ![w] = "enter"]
          PROVE  <1>2!:
      BY <1>1, <2>2 DEF TypeOK, Labels, Waiting
    <2> QED
      BY <2>1, <2>2 DEF PushAndNotify
  <1>3. mu = t /\ c # NoConn /\ c \in Conns
    BY <1>1 DEF MutexOwner, CriticalLabels, GuardLabels, TypeOK
  <1>4. /\ idle' \in Seq(Conns)
        /\ Len(idle) \in Nat
        /\ Len(idle') = Len(idle) + 1
        /\ \A k \in 1..Len(idle) : idle'[k] = idle[k]
        /\ idle'[Len(idle) + 1] = c
        /\ idle' # <<>>
    BY <1>1, <1>3, PushIdle DEF TypeOK
  <1> HIDE DEF c
  <1>5. TypeOK'
    BY <1>1, <1>2, <1>4 DEF TypeOK
  <1>6. MutexOwner'
    BY <1>1, <1>2, <1>3, ThreadsAssumption DEF MutexOwner, CriticalLabels
  <1>7. GuardLabels'
    BY <1>1, <1>2 DEF TypeOK, GuardLabels
  <1>8. QuietBeforeServing' /\ NoEmptyPop'
    BY <1>1, <1>2, <1>4 DEF QuietBeforeServing, NoEmptyPop
  <1>9. Idle' = Idle \cup {c}
    BY <1>4 DEF Idle
  <1>10. Lent' = Lent \ {c} /\ c \in Lent
    BY <1>1, <1>3 DEF Lent, Exclusion, TypeOK, c
  <1>11. c \notin Idle
    BY <1>10 DEF Exclusion
  <1>12. Exclusion'
    <2>1. \A u, v \in Threads : guard'[u] = guard'[v] /\ guard'[u] # NoConn => u = v
      BY <1>1 DEF Exclusion, TypeOK
    <2>2. Idle' \cap Lent' = {}
      BY <1>9, <1>10 DEF Exclusion
    <2>3. \A j, k \in 1..Len(idle') : idle'[j] = idle'[k] => j = k
      BY <1>4, <1>11 DEF Exclusion, Idle
    <2> QED
      BY <2>1, <2>2, <2>3 DEF Exclusion
  <1>13. NothingLeaks'
    BY <1>1, <1>9, <1>10 DEF NothingLeaks
  <1> QED
    BY <1>5, <1>6, <1>7, <1>8, <1>12, <1>13

-----------------------------------------------------------------------------
(* The invariant                                                           *)

\* PoolInv holds before init() has begun.
LEMMA InitPoolInv == Init => PoolInv
  <1> SUFFICES ASSUME Init PROVE PoolInv
    OBVIOUS
  <1> USE DEF Init
  <1>1. TypeOK
    BY EmptySeq DEF TypeOK, Phases, Labels
  <1>2. MutexOwner /\ GuardLabels /\ QuietBeforeServing /\ NoEmptyPop
    BY ThreadsAssumption
    DEF MutexOwner, CriticalLabels, GuardLabels, QuietBeforeServing, NoEmptyPop
  <1>3. Idle = {} /\ Lent = {} /\ Len(idle) = 0
    BY EmptySeq DEF Idle, Lent
  <1>4. Exclusion /\ NothingLeaks
    BY <1>3 DEF Exclusion, NothingLeaks
  <1> QED
    BY <1>1, <1>2, <1>4 DEF PoolInv

\* Every step keeps PoolInv: each action of main() and of the threads.
LEMMA NextKeepsPoolInv == PoolInv /\ [Next]_vars => PoolInv'
  <1> SUFFICES ASSUME PoolInv, [Next]_vars PROVE PoolInv'
    OBVIOUS
  <1>1. CASE MainStep
    BY <1>1, MainStepKeepsPoolInv
  <1>2. ASSUME NEW t \in Threads, ThreadStep(t)
        PROVE  PoolInv'
    BY <1>2, QuietStepKeepsPoolInv, TakeKeepsPoolInv, PushKeepsPoolInv,
       MoveKeepsPoolInv DEF ThreadStep
  <1>3. CASE UNCHANGED vars
    <2> USE <1>3 DEF vars, PoolInv
    <2>1. TypeOK' /\ MutexOwner' /\ GuardLabels'
      BY DEF TypeOK, MutexOwner, GuardLabels
    <2>2. QuietBeforeServing' /\ NoEmptyPop'
      BY DEF QuietBeforeServing, NoEmptyPop
    <2>3. Exclusion' /\ NothingLeaks'
      BY SameHolders
    <2> QED
      BY <2>1, <2>2, <2>3
  <1> QED
    BY <1>1, <1>2, <1>3 DEF Next, Terminated

\* PoolInv, the inductive invariant of the pool, holds in every state.
THEOREM PoolInvariant == Spec => []PoolInv
  BY InitPoolInv, NextKeepsPoolInv, PTL DEF Spec

\* The variables keep their types.
THEOREM PoolTyped == Spec => []TypeOK
  BY PoolInvariant, PTL DEF PoolInv

\* A connection is in at most one place: in one guard, or once on the stack.
THEOREM PoolExclusion == Spec => []Exclusion
  BY PoolInvariant, PTL DEF PoolInv

\* Until the pool is closed every connection it owns is idle or lent.
THEOREM PoolNothingLeaks == Spec => []NothingLeaks
  BY PoolInvariant, PTL DEF PoolInv

\* back() and pop_back() are never called on an empty stack.
THEOREM PoolNoEmptyPop == Spec => []NoEmptyPop
  BY PoolInvariant, PTL DEF PoolInv

-----------------------------------------------------------------------------
(* No notification is lost                                                 *)

\* Sets of threads are finite and have a cardinality.
LEMMA AwakeCardinality ==
  /\ IsFiniteSet(Awake)
  /\ Cardinality(Awake) \in Nat
  BY ThreadsAssumption, FS_Subset, FS_CardinalityType DEF Awake

\* One thread more, or one less, is on its way to a connection.
LEMMA AwakeSteps ==
  ASSUME NEW t \in Threads
  PROVE  /\ Awake' = Awake => Cardinality(Awake') = Cardinality(Awake)
         /\ Awake' = Awake \cup {t}
              => Cardinality(Awake') =
                 Cardinality(Awake) + (IF t \in Awake THEN 0 ELSE 1)
         /\ Awake' = Awake \ {t}
              => Cardinality(Awake') =
                 Cardinality(Awake) - (IF t \in Awake THEN 1 ELSE 0)
  BY AwakeCardinality, FS_AddElement, FS_RemoveElement

\* Every step keeps enough threads awake for the idle connections.
LEMMA NextKeepsWakeups ==
  PoolInv /\ NoLostWakeup /\ [Next]_vars => NoLostWakeup'
  <1> SUFFICES ASSUME PoolInv, NoLostWakeup, [Next]_vars
               PROVE  NoLostWakeup'
    OBVIOUS
  <1> USE DEF PoolInv
  <1>0. TypeOK /\ Len(idle) \in Nat
    BY LenProperties DEF TypeOK
  <1>1. CASE MainStep
    <2>1. CASE Waiting' = {}
      BY <2>1 DEF NoLostWakeup
    <2>2. CASE Waiting' # {}
      <3>1. Waiting # {} /\ UNCHANGED pc
        BY <1>1, <2>2 DEF MainStep, CreateDatabase, OpenConnection, InitFails,
           InitSucceeds, StartServer, Shutdown, Waiting
      <3>2. phase \in {"serving", "closed"}
        BY <3>1 DEF QuietBeforeServing, Waiting
      <3>3. idle' = <<>>
        BY <1>1, <3>2 DEF MainStep, CreateDatabase, OpenConnection, InitFails,
           InitSucceeds, StartServer, Shutdown
      <3>4. Len(idle') = 0 /\ Awake' = Awake
        BY <3>1, <3>3, EmptySeq DEF Awake
      <3> QED
        BY <3>4, AwakeCardinality DEF NoLostWakeup
    <2> QED
      BY <2>1, <2>2
  <1>2. ASSUME NEW t \in Threads, ThreadStep(t)
        PROVE  NoLostWakeup'
    <2>1. CASE CallAcquire(t) \/ SpuriousWake(t)
      <3>1. /\ Awake' = Awake \cup {t} /\ t \notin Awake
            /\ Waiting' \subseteq Waiting /\ idle' = idle
        BY <1>0, <2>1 DEF CallAcquire, SpuriousWake, TypeOK, Awake, Waiting
      <3>2. Cardinality(Awake') = Cardinality(Awake) + 1
        BY <3>1, AwakeSteps
      <3>3. Waiting' # {} => Len(idle) <= Cardinality(Awake)
        BY <3>1 DEF NoLostWakeup
      <3> QED
        BY <1>0, <3>1, <3>2, <3>3, AwakeCardinality DEF NoLostWakeup
    <2>2. CASE LockToTake(t) \/ FindIdle(t) \/ DestroyGuard(t) \/ LockToReturn(t)
               \/ \E u \in Threads : MoveGuard(t, u)
      <3>1. Awake' = Awake /\ Waiting' = Waiting /\ idle' = idle
        BY <1>0, <2>2 DEF LockToTake, FindIdle, DestroyGuard, LockToReturn,
           MoveGuard, TypeOK, Awake, Waiting
      <3> QED
        BY <3>1, AwakeSteps DEF NoLostWakeup
    <2>3. CASE TakeIdle(t)
      <3>1. /\ Awake' = Awake \ {t} /\ t \in Awake /\ Waiting' = Waiting
            /\ idle # <<>> /\ idle' = SubSeq(idle, 1, Len(idle) - 1)
        BY <1>0, <2>3 DEF TakeIdle, TypeOK, Awake, Waiting, NoEmptyPop
      <3>2. Len(idle') = Len(idle) - 1
        BY <3>1, PopIdle DEF TypeOK
      <3>3. Cardinality(Awake') = Cardinality(Awake) - 1
        BY <3>1, AwakeSteps
      <3> QED
        BY <1>0, <3>1, <3>2, <3>3, AwakeCardinality DEF NoLostWakeup
    <2>4. CASE WaitForIdle(t)
      <3>1. idle' = <<>>
        BY <2>4 DEF WaitForIdle
      <3>2. IsFiniteSet(Awake') /\ Cardinality(Awake') \in Nat
        BY ThreadsAssumption, FS_Subset, FS_CardinalityType DEF Awake
      <3> QED
        BY <3>1, <3>2, EmptySeq DEF NoLostWakeup
    <2>5. CASE PushAndNotify(t)
      <3>1. Len(idle') = Len(idle) + 1
        BY <2>5, PushIdle DEF PushAndNotify, TypeOK, GuardLabels
      <3>2. CASE Waiting = {} /\ pc' = [pc EXCEPT ![t] = "out"]
        BY <3>2, <1>0 DEF NoLostWakeup, Waiting, TypeOK
      <3>3. ASSUME NEW w \in Waiting, pc' = [pc EXCEPT ![t] = "out", ![w] = "enter"]
            PROVE  NoLostWakeup'
        <4>1. pc[t] = "push" /\ pc[w] = "waiting" /\ w \in Threads
          BY <2>5 DEF PushAndNotify, Waiting
        <4>2. Awake' = Awake \cup {w} /\ w \notin Awake
          BY <1>0, <3>3, <4>1 DEF TypeOK, Awake
        <4>3. Len(idle) <= Cardinality(Awake)
          BY DEF NoLostWakeup
        <4>4. Cardinality(Awake') = Cardinality(Awake) + 1
          BY <4>1, <4>2, AwakeSteps
        <4> QED
          BY <1>0, <3>1, <4>3, <4>4, AwakeCardinality DEF NoLostWakeup
      <3> QED
        BY <2>5, <3>2, <3>3 DEF PushAndNotify
    <2> QED
      BY <1>2, <2>1, <2>2, <2>3, <2>4, <2>5 DEF ThreadStep
  <1>3. CASE UNCHANGED vars
    BY <1>3 DEF vars, NoLostWakeup, Waiting, Awake
  <1> QED
    BY <1>1, <1>2, <1>3 DEF Next, Terminated

\* notify_one() of release() is never lost, with any number of threads: while
\* threads sleep in acquire(), each idle connection has one awake to take it.
THEOREM PoolNoLostWakeup == Spec => []NoLostWakeup
  <1>1. Init => NoLostWakeup
    BY DEF Init, NoLostWakeup, Waiting
  <1> QED
    BY <1>1, PoolInvariant, NextKeepsWakeups, PTL DEF Spec

-----------------------------------------------------------------------------
(* The users table                                                         *)

\* Once the loop of init() has run, the table exists.
TableAfterFirst ==
  /\ opened > 0 => table
  /\ phase \in {"ready", "serving"} => opened >= PoolSize

\* With at least one connection to open, init() returns true only when the
\* users table exists.  The assumption is needed: see run pool_empty.
THEOREM PoolTableReady ==
  ASSUME PoolSize > 0
  PROVE  Spec => []TableReady
  <1>1. Init => TableAfterFirst
    BY DEF Init, TableAfterFirst
  <1>2. TypeOK /\ TableAfterFirst /\ [Next]_vars => TableAfterFirst'
    <2> SUFFICES ASSUME TypeOK, TableAfterFirst, [Next]_vars
                 PROVE  TableAfterFirst'
      OBVIOUS
    <2> USE PoolSizeAssumption DEF TypeOK, TableAfterFirst
    <2>0. CASE OpenConnection
      <3>1. table'
        <4>1. opened = 0 \/ table
          OBVIOUS
        <4> QED
          BY <2>0, <4>1 DEF OpenConnection
      <3> QED
        BY <2>0, <3>1 DEF OpenConnection
    <2>1. CASE MainStep
      BY <2>0, <2>1 DEF MainStep, CreateDatabase, InitFails, InitSucceeds,
         StartServer, Shutdown
    <2>2. ASSUME NEW t \in Threads, ThreadStep(t)
          PROVE  TableAfterFirst'
      BY <2>2 DEF ThreadStep, CallAcquire, LockToTake, FindIdle, TakeIdle,
         WaitForIdle, SpuriousWake, MoveGuard, DestroyGuard, LockToReturn,
         PushAndNotify, mainVars
    <2> QED
      BY <2>1, <2>2 DEF Next, Terminated, vars
  <1>3. TypeOK /\ TableAfterFirst => TableReady
    BY PoolSizeAssumption DEF TypeOK, TableAfterFirst, TableReady
  <1> QED
    BY <1>1, <1>2, <1>3, PoolTyped, PTL DEF Spec

-----------------------------------------------------------------------------
(* The pool implements ConnLender                                          *)

\* The pool is closed before the server starts or never: it has no users left.
QuietWhenClosed == phase = "closed" => \A t \in Threads : pc[t] = "out"

\* The steps of main() open connections, close the pool or change nothing.
LEMMA MainStepRefines ==
  ASSUME PoolInv, MainStep
  PROVE  [Lender!Next]_(Lender!vars)
  <1> USE DEF PoolInv, Lender!vars
  <1>1. CASE OpenConnection
    <2>1. PICK c \in Conns \ conns : conns' = conns \cup {c}
      BY <1>1 DEF OpenConnection
    <2>2. UNCHANGED <<guard, Waiting \cup Awake>>
      BY <1>1 DEF OpenConnection, Waiting, Awake
    <2>3. Lender!Open(c)
      BY <2>1, <2>2 DEF Lender!Open
    <2> QED
      BY <2>1, <2>3 DEF Lender!Next
  <1>2. CASE Shutdown
    <2>1. phase \in {"failed", "ready"} /\ conns' = {} /\ UNCHANGED <<pc, guard>>
      BY <1>2 DEF Shutdown
    <2>2. \A t \in Threads : pc[t] = "out" /\ guard[t] = NoConn
      BY <2>1 DEF QuietBeforeServing, GuardLabels
    <2>3. Waiting \cup Awake = {} /\ (Waiting \cup Awake)' = {}
      BY <2>1, <2>2 DEF Waiting, Awake
    <2>4. Lender!CloseAll
      BY <2>1, <2>2, <2>3 DEF Lender!CloseAll
    <2> QED
      BY <2>4 DEF Lender!Next
  <1>3. CASE CreateDatabase \/ InitFails \/ InitSucceeds \/ StartServer
    BY <1>3 DEF CreateDatabase, InitFails, InitSucceeds, StartServer,
       Waiting, Awake
  <1> QED
    BY <1>1, <1>2, <1>3 DEF MainStep

\* The steps of a handler ask, borrow, return, hand over or change nothing.
LEMMA ThreadStepRefines ==
  ASSUME PoolInv, QuietWhenClosed, NEW t \in Threads, ThreadStep(t)
  PROVE  [Lender!Next]_(Lender!vars)
  <1> USE DEF PoolInv, Lender!vars
  <1>0. TypeOK /\ NoConn \notin Conns
    BY ConnsAssumption
  <1>1. CASE CallAcquire(t)
    <2>1. /\ (Waiting \cup Awake)' = (Waiting \cup Awake) \cup {t}
          /\ t \notin Waiting \cup Awake /\ guard[t] = NoConn
          /\ UNCHANGED <<conns, guard>>
      BY <1>0, <1>1 DEF CallAcquire, TypeOK, GuardLabels, Waiting, Awake
    <2> QED
      BY <2>1 DEF Lender!Ask, Lender!Next
  <1>2. CASE TakeIdle(t)
    <2> DEFINE c == idle[Len(idle)]
    <2>1. /\ (Waiting \cup Awake)' = (Waiting \cup Awake) \ {t}
          /\ t \in Waiting \cup Awake
          /\ guard' = [guard EXCEPT ![t] = c]
          /\ UNCHANGED conns
      BY <1>0, <1>2 DEF TakeIdle, TypeOK, Waiting, Awake
    <2>2. idle # <<>> /\ phase # "closed"
      BY <1>2 DEF TakeIdle, NoEmptyPop, QuietWhenClosed
    <2>3. c \in Idle /\ c # NoConn
      BY <1>0, <2>2, PopIdle DEF Idle, TypeOK
    <2> HIDE DEF c
    <2>4. c \in conns /\ c \notin Lent
      BY <2>2, <2>3 DEF Exclusion, NothingLeaks
    <2>5. c \in Lender!Free
      BY <2>3, <2>4 DEF Lent, Lender!Free
    <2> QED
      BY <2>1, <2>5 DEF Lender!Borrow, Lender!Next
  <1>3. CASE PushAndNotify(t)
    <2>1. (Waiting \cup Awake)' = Waiting \cup Awake
      BY <1>0, <1>3 DEF PushAndNotify, TypeOK, Waiting, Awake
    <2>2. /\ guard[t] # NoConn
          /\ guard' = [guard EXCEPT ![t] = NoConn]
          /\ UNCHANGED conns
      BY <1>3 DEF PushAndNotify, GuardLabels
    <2> QED
      BY <2>1, <2>2 DEF Lender!Return, Lender!Next
  <1>4. ASSUME NEW u \in Threads, MoveGuard(t, u)
        PROVE  [Lender!Next]_(Lender!vars)
    <2>1. /\ u \notin Waiting \cup Awake
          /\ (Waiting \cup Awake)' = Waiting \cup Awake
      BY <1>0, <1>4 DEF MoveGuard, TypeOK, Waiting, Awake
    <2>2. /\ guard[t] # NoConn /\ guard[u] = NoConn
          /\ guard' = [guard EXCEPT ![u] = guard[t], ![t] = NoConn]
          /\ UNCHANGED conns
      BY <1>4 DEF MoveGuard, GuardLabels
    <2>3. Lender!HandOver(t, u)
      BY <2>1, <2>2 DEF Lender!HandOver
    <2> QED
      BY <2>3 DEF Lender!Next
  <1>5. CASE LockToTake(t) \/ FindIdle(t) \/ WaitForIdle(t) \/ SpuriousWake(t)
             \/ DestroyGuard(t) \/ LockToReturn(t)
    BY <1>0, <1>5 DEF LockToTake, FindIdle, WaitForIdle, SpuriousWake,
       DestroyGuard, LockToReturn, TypeOK, Waiting, Awake
  <1> QED
    BY <1>1, <1>2, <1>3, <1>4, <1>5 DEF ThreadStep

\* Locks, stack and condition variable do what ConnLender says of any pool:
\* a connection is lent to one thread at a time and comes back.
THEOREM PoolRefinesLender == Spec => Lender!SafeSpec
  <1>1. Init => Lender!Init
    BY DEF Init, Lender!Init, Waiting, Awake
  <1>2. Init => QuietWhenClosed
    BY DEF Init, QuietWhenClosed
  <1>3. PoolInv /\ QuietWhenClosed /\ [Next]_vars => QuietWhenClosed'
    <2> SUFFICES ASSUME PoolInv, QuietWhenClosed, [Next]_vars
                 PROVE  QuietWhenClosed'
      OBVIOUS
    <2> USE DEF PoolInv, QuietWhenClosed, QuietBeforeServing
    <2>1. CASE MainStep
      BY <2>1 DEF MainStep, CreateDatabase, OpenConnection, InitFails,
         InitSucceeds, StartServer, Shutdown
    <2>2. ASSUME NEW t \in Threads, ThreadStep(t)
          PROVE  QuietWhenClosed'
      BY <2>2 DEF ThreadStep, CallAcquire, LockToTake, FindIdle, TakeIdle,
         WaitForIdle, SpuriousWake, MoveGuard, DestroyGuard, LockToReturn,
         PushAndNotify, mainVars
    <2> QED
      BY <2>1, <2>2 DEF Next, Terminated, vars
  <1>4. PoolInv /\ QuietWhenClosed /\ [Next]_vars
          => [Lender!Next]_(Lender!vars)
    <2>1. UNCHANGED vars => UNCHANGED Lender!vars
      BY DEF vars, Lender!vars, Waiting, Awake
    <2> QED
      BY <2>1, MainStepRefines, ThreadStepRefines DEF Next, Terminated
  <1> QED
    BY <1>1, <1>2, <1>3, <1>4, PoolInvariant, PTL DEF Spec, Lender!SafeSpec

==============================================================================
