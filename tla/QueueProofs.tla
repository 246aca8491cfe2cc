------------------------------ MODULE QueueProofs ------------------------------
(***************************************************************************)
(* The queues between the programs' threads, for any sets of threads and    *)
(* orders: the command queues, polled, whose semaphore is notified outside  *)
(* the lock, and the queue of completed orders, whose remover sleeps.       *)
(***************************************************************************)
EXTENDS CommandQueue, CompletedQueue, FiniteSetTheorems, TLAPS

(***************************************************************************)
(* The command queues: orders come out as they went in, or, of a stack, the  *)
(* last one first, and no remover pops an empty deque.                       *)
(***************************************************************************)
\* The order an adder is inserting is a real one.
CommandInv == \A a \in Adders : pc[a] = "push" => command[a] \in Orders

Inv == TypeOK /\ CommandInv /\ MutexInv /\ TokensMatchOrders

-------------------------------------------------------------------------------
\* What the two ends of a deque do to its type and length.
LEMMA InsertFacts ==
  ASSUME NEW S, NEW s \in Seq(S), NEW e \in S
  PROVE  /\ Append(s, e) \in Seq(S) /\ Len(Append(s, e)) = Len(s) + 1
         /\ <<e>> \o s \in Seq(S)   /\ Len(<<e>> \o s) = Len(s) + 1
  OBVIOUS

LEMMA RemoveFacts ==
  ASSUME NEW S, NEW s \in Seq(S), s # <<>>
  PROVE  Head(s) \in S /\ Tail(s) \in Seq(S) /\ Len(Tail(s)) = Len(s) - 1
  OBVIOUS

\* There are finitely many adders, so those between unlock and notify can be
\* counted.
LEMMA NotifyingFinite ==
  IsFiniteSet(Notifying) /\ Cardinality(Notifying) \in Nat
  BY ThreadsAssumption, FS_Subset, FS_CardinalityType DEF Notifying

\* With the mutex invariant, at most one remover is about to pop, and then
\* the deque is not empty.
LEMMA PopFinds ==
  ASSUME Inv, NEW r \in Removers, pc[r] = "pop"
  PROVE  deque # <<>> /\ Popping = {r}
<1>1. Popping = {r}
  BY DEF Inv, MutexInv, Popping, Threads
<1>2. Len(deque) > 0
  BY <1>1, NotifyingFinite DEF Inv, TypeOK, TokensMatchOrders
<1> QED BY <1>1, <1>2

-------------------------------------------------------------------------------
LEMMA InitInv == Init => Inv
<1> SUFFICES ASSUME Init PROVE Inv
  OBVIOUS
<1>1. TypeOK
  BY DEF Init, TypeOK
<1>2. MutexInv
  BY ThreadsAssumption DEF Init, MutexInv, Threads
<1>3. Notifying = {} /\ Popping = {}
  BY DEF Init, Notifying, Popping, Threads
<1>4. TokensMatchOrders
  BY <1>3, FS_EmptySet DEF Init, TokensMatchOrders
<1>5. CommandInv
  BY DEF Init, CommandInv, Threads
<1> QED BY <1>1, <1>2, <1>4, <1>5 DEF Inv

LEMMA NextInv == Inv /\ [Next]_vars => Inv'
<1> SUFFICES ASSUME Inv, [Next]_vars PROVE Inv'
  OBVIOUS
<1> USE DEF Inv
<1>1. ASSUME NEW a \in Adders, NEW o \in Orders, AddLock(a, o) PROVE Inv'
  <2>1. TypeOK' /\ CommandInv'
    BY <1>1, ThreadsAssumption DEF AddLock, Lock, TypeOK, CommandInv, Threads
  <2>2. MutexInv'
    BY <1>1, ThreadsAssumption DEF AddLock, Lock, TypeOK, MutexInv, Threads
  <2>3. Notifying' = Notifying /\ Popping' = Popping
    BY <1>1, ThreadsAssumption DEF AddLock, TypeOK, Notifying, Popping, Threads
  <2>4. TokensMatchOrders'
    BY <1>1, <2>3 DEF AddLock, TokensMatchOrders
  <2> QED BY <2>1, <2>2, <2>4
<1>2. ASSUME NEW a \in Adders, AddPush(a) PROVE Inv'
  <2>1. /\ deque' \in Seq(Orders)
        /\ Len(deque') = Len(deque) + 1
    BY <1>2, InsertFacts DEF AddPush, TypeOK, CommandInv
  <2>2. TypeOK' /\ CommandInv'
    BY <1>2, <2>1, ThreadsAssumption DEF AddPush, TypeOK, CommandInv, Threads
  <2>3. MutexInv'
    BY <1>2, ThreadsAssumption DEF AddPush, TypeOK, MutexInv, Threads
  <2>4. Notifying' = Notifying \cup {a} /\ a \notin Notifying /\ Popping' = Popping
    BY <1>2, ThreadsAssumption DEF AddPush, TypeOK, Notifying, Popping, Threads
  <2>5. Cardinality(Notifying') = Cardinality(Notifying) + 1
    BY <2>4, NotifyingFinite, FS_AddElement
  <2>6. TokensMatchOrders'
    BY <1>2, <2>1, <2>4, <2>5, NotifyingFinite DEF AddPush, TypeOK, TokensMatchOrders
  <2> QED BY <2>2, <2>3, <2>6
<1>3. ASSUME NEW a \in Adders, AddNotify(a) PROVE Inv'
  <2>1. TypeOK' /\ CommandInv'
    BY <1>3 DEF AddNotify, TypeOK, CommandInv, Threads
  <2>2. MutexInv'
    BY <1>3, ThreadsAssumption DEF AddNotify, TypeOK, MutexInv, Threads
  <2>3. Notifying' = Notifying \ {a} /\ a \in Notifying /\ Popping' = Popping
    BY <1>3, ThreadsAssumption DEF AddNotify, TypeOK, Notifying, Popping, Threads
  <2>4. Cardinality(Notifying') = Cardinality(Notifying) - 1
    BY <2>3, NotifyingFinite, FS_RemoveElement
  <2>5. TokensMatchOrders'
    BY <1>3, <2>3, <2>4, NotifyingFinite DEF AddNotify, TypeOK, TokensMatchOrders
  <2> QED BY <2>1, <2>2, <2>5
<1>4. ASSUME NEW r \in Removers, RemoveLock(r) PROVE Inv'
  <2>1. TypeOK' /\ CommandInv'
    BY <1>4, ThreadsAssumption DEF RemoveLock, Lock, TypeOK, CommandInv, Threads
  <2>2. MutexInv'
    BY <1>4, ThreadsAssumption DEF RemoveLock, Lock, TypeOK, MutexInv, Threads
  <2>3. Notifying' = Notifying /\ Popping' = Popping
    BY <1>4, ThreadsAssumption DEF RemoveLock, TypeOK, Notifying, Popping, Threads
  <2>4. TokensMatchOrders'
    BY <1>4, <2>3 DEF RemoveLock, TokensMatchOrders
  <2> QED BY <2>1, <2>2, <2>4
<1>5. ASSUME NEW r \in Removers, RemoveGet(r) PROVE Inv'
  <2>1. TypeOK' /\ CommandInv'
    BY <1>5, ThreadsAssumption DEF RemoveGet, TypeOK, CommandInv, Threads
  <2>2. MutexInv'
    BY <1>5, ThreadsAssumption DEF RemoveGet, TypeOK, MutexInv, Threads
  <2>3. Notifying' = Notifying
    BY <1>5, ThreadsAssumption DEF RemoveGet, TypeOK, Notifying, Threads
  <2>4. Popping = {} /\ Popping' = {r}
    BY <1>5, ThreadsAssumption DEF RemoveGet, TypeOK, MutexInv, Popping, Threads
  <2>5. TokensMatchOrders'
    BY <1>5, <2>3, <2>4, NotifyingFinite DEF RemoveGet, TypeOK, TokensMatchOrders
  <2> QED BY <2>1, <2>2, <2>5
<1>6. ASSUME NEW r \in Removers, RemoveMiss(r) PROVE Inv'
  <2>1. TypeOK' /\ CommandInv'
    BY <1>6, ThreadsAssumption DEF RemoveMiss, TypeOK, CommandInv, Threads
  <2>2. MutexInv'
    BY <1>6, ThreadsAssumption DEF RemoveMiss, TypeOK, MutexInv, Threads
  <2>3. Notifying' = Notifying /\ Popping' = Popping
    BY <1>6, ThreadsAssumption DEF RemoveMiss, TypeOK, Notifying, Popping, Threads
  <2>4. TokensMatchOrders'
    BY <1>6, <2>3 DEF RemoveMiss, TokensMatchOrders
  <2> QED BY <2>1, <2>2, <2>4
<1>7. ASSUME NEW r \in Removers, RemovePop(r) PROVE Inv'
  <2>1. Popping = {r} /\ deque # <<>>
    BY <1>7, PopFinds DEF RemovePop
  <2>2. /\ Head(deque) \in Orders
        /\ deque' \in Seq(Orders)
        /\ Len(deque') = Len(deque) - 1
    BY <1>7, <2>1, RemoveFacts DEF RemovePop, TypeOK
  <2>3. TypeOK' /\ CommandInv'
    BY <1>7, <2>2, ThreadsAssumption DEF RemovePop, TypeOK, CommandInv, Threads
  <2>4. MutexInv'
    BY <1>7, ThreadsAssumption DEF RemovePop, TypeOK, MutexInv, Threads
  <2>5. Notifying' = Notifying
    BY <1>7, ThreadsAssumption DEF RemovePop, TypeOK, Notifying, Threads
  <2>6. Popping' = {}
    BY <1>7, <2>1, ThreadsAssumption DEF RemovePop, TypeOK, Popping, Threads
  <2>7. TokensMatchOrders'
    BY <1>7, <2>1, <2>2, <2>5, <2>6, NotifyingFinite DEF RemovePop, TypeOK, TokensMatchOrders
  <2> QED BY <2>3, <2>4, <2>7
<1>8. CASE UNCHANGED vars
  <2>1. Notifying' = Notifying /\ Popping' = Popping
    BY <1>8 DEF vars, Notifying, Popping
  <2> QED BY <1>8, <2>1 DEF vars, TypeOK, MutexInv, TokensMatchOrders, CommandInv
<1> QED BY <1>1, <1>2, <1>3, <1>4, <1>5, <1>6, <1>7, <1>8 DEF Next, Add, Remove

-------------------------------------------------------------------------------
\* Every reachable state satisfies the inductive invariant: types, mutual
\* exclusion in the critical sections, and the accounting of the semaphore.
THEOREM Invariance == Spec => []Inv
  BY InitInv, NextInv, PTL DEF Spec

\* Every variable keeps its type.
THEOREM TypeCorrect == Spec => []TypeOK
  BY Invariance, PTL DEF Inv

\* Critical sections of add and remove exclude each other.
THEOREM MutualExclusion == Spec => []MutexInv
  BY Invariance, PTL DEF Inv

\* The semaphore counts the queued orders, minus those whose add has still to
\* notify and the one whose remove has taken its token.
THEOREM SemaphoreAccounting == Spec => []TokensMatchOrders
  BY Invariance, PTL DEF Inv

\* front() and pop_front() are never called on an empty deque.
THEOREM NoEmptyPop == Spec => []PopNeverEmpty
<1>1. Inv => PopNeverEmpty
  BY PopFinds DEF PopNeverEmpty, Popping
<1> QED BY <1>1, Invariance, PTL

-------------------------------------------------------------------------------
LEMMA RefineInit == Init => Spec_OrderQueue!Init
<1> SUFFICES ASSUME Init PROVE Spec_OrderQueue!Init
  OBVIOUS
<1>1. Notifying = {}
  BY DEF Init, Notifying, Threads
<1> QED BY <1>1 DEF Init, Spec_OrderQueue!Init

LEMMA RefineNext ==
  Inv /\ [Next]_vars => [Spec_OrderQueue!Next]_(Spec_OrderQueue!vars)
<1> SUFFICES ASSUME Inv, [Next]_vars
             PROVE  Spec_OrderQueue!Next \/ UNCHANGED Spec_OrderQueue!vars
  OBVIOUS
<1> USE DEF Inv, Spec_OrderQueue!vars
<1>1. ASSUME NEW a \in Adders, NEW o \in Orders, AddLock(a, o)
      PROVE  UNCHANGED Spec_OrderQueue!vars
  BY <1>1, ThreadsAssumption DEF AddLock, TypeOK, Notifying, Threads
<1>2. ASSUME NEW a \in Adders, AddPush(a) PROVE Spec_OrderQueue!Next
  <2>1. Notifying' = Notifying \cup {a} /\ a \notin Notifying
    BY <1>2, ThreadsAssumption DEF AddPush, TypeOK, Notifying, Threads
  <2>2. Spec_OrderQueue!Put(a, command[a])
    BY <1>2, <2>1 DEF AddPush, Spec_OrderQueue!Put, Spec_OrderQueue!Insert
  <2> QED BY <1>2, <2>2 DEF AddPush, CommandInv, Spec_OrderQueue!Next
<1>3. ASSUME NEW a \in Adders, AddNotify(a) PROVE Spec_OrderQueue!Next
  <2>1. Notifying' = Notifying \ {a} /\ a \in Notifying
    BY <1>3, ThreadsAssumption DEF AddNotify, TypeOK, Notifying, Threads
  <2>2. Spec_OrderQueue!Return(a)
    BY <1>3, <2>1 DEF AddNotify, Spec_OrderQueue!Return
  <2> QED BY <2>2 DEF Spec_OrderQueue!Next
<1>4. ASSUME NEW r \in Removers, RemoveLock(r) \/ RemoveGet(r)
      PROVE  UNCHANGED Spec_OrderQueue!vars
  BY <1>4, ThreadsAssumption DEF RemoveLock, RemoveGet, TypeOK, Notifying, Threads
<1>5. ASSUME NEW r \in Removers, RemoveMiss(r) PROVE Spec_OrderQueue!Next
  <2>1. Notifying' = Notifying
    BY <1>5, ThreadsAssumption DEF RemoveMiss, TypeOK, Notifying, Threads
  <2>2. Popping = {}
    BY <1>5 DEF RemoveMiss, TypeOK, MutexInv, Popping, Threads
  <2>3. Len(deque) <= Cardinality(Notifying)
    BY <1>5, <2>2, NotifyingFinite DEF RemoveMiss, TypeOK, TokensMatchOrders
  <2>4. Spec_OrderQueue!Miss(r)
    BY <1>5, <2>1, <2>3 DEF RemoveMiss, Spec_OrderQueue!Miss, Cardinality,
       Spec_OrderQueue!Cardinality
  <2> QED BY <2>4 DEF Spec_OrderQueue!Next
<1>6. ASSUME NEW r \in Removers, RemovePop(r) PROVE Spec_OrderQueue!Next
  <2>1. Notifying' = Notifying
    BY <1>6, ThreadsAssumption DEF RemovePop, TypeOK, Notifying, Threads
  <2>2. deque # <<>>
    BY <1>6, PopFinds DEF RemovePop
  <2>3. Spec_OrderQueue!Take(r)
    BY <1>6, <2>1, <2>2 DEF RemovePop, Spec_OrderQueue!Take
  <2> QED BY <2>3 DEF Spec_OrderQueue!Next
<1>7. CASE UNCHANGED vars
  BY <1>7 DEF vars, Notifying
<1> QED BY <1>1, <1>2, <1>3, <1>4, <1>5, <1>6, <1>7 DEF Next, Add, Remove

\* The queue implements OrderQueue: although add and remove are several steps
\* each and the semaphore is notified outside the lock, orders come out in the
\* order of the discipline, none is lost or duplicated, and a remove answers
\* NoOrder only when every queued order belongs to an add still running.
THEOREM QueueImplementsOrderQueue == Spec => ImplementsQueue
  BY RefineInit, RefineNext, Invariance, PTL
  DEF Spec, Spec_OrderQueue!Spec, ImplementsQueue

(***************************************************************************)
(* The queue of completed orders: whoever sleeps in remove is owed a wakeup  *)
(* for every queued order, and orders come out as they went in.              *)
(***************************************************************************)
\* The order an adder is inserting is a real one.
CompOrderInv == \A a \in Adders : place[a] = "push" => compOrder[a] \in Orders

\* mutex_ is held by the thread inside the critical section.
CompMutexInv == \A t \in Threads : compMutex = t <=> place[t] \in {"push", "test"}

CompInv == CompTypeOK /\ CompOrderInv /\ CompMutexInv /\ SleepersAreOwed

CompNotifying == Where(Adders, "notify")
Asleep == Where(Removers, "asleep")
Woken == Where(Removers, "woken")
Testing == Where(Removers, "test")

\* How many orders the threads that are awake will see to.
Owed == Cardinality(CompNotifying) + Cardinality(Woken) + Cardinality(Testing)

-------------------------------------------------------------------------------
LEMMA WhereFinite ==
  \A p : /\ IsFiniteSet(Where(Adders, p)) /\ Cardinality(Where(Adders, p)) \in Nat
         /\ IsFiniteSet(Where(Removers, p)) /\ Cardinality(Where(Removers, p)) \in Nat
<1> TAKE p
<1>1. Where(Adders, p) \subseteq Adders /\ Where(Removers, p) \subseteq Removers
  BY DEF Where
<1> QED BY <1>1, ThreadsAssumption, FS_Subset, FS_CardinalityType

LEMMA OwedNat == Owed \in Nat
  BY WhereFinite DEF Owed, CompNotifying, Woken, Testing

LEMMA OwedMeans == SleepersAreOwed <=> (Asleep # {} => Len(compQueue) <= Owed)
  BY DEF SleepersAreOwed, Owed, Asleep, CompNotifying, Woken, Testing

-------------------------------------------------------------------------------
LEMMA CompInitInv == CompInit => CompInv
<1> SUFFICES ASSUME CompInit PROVE CompInv
  OBVIOUS
<1>1. Asleep = {}
  BY DEF CompInit, Asleep, Where, Threads
<1>2. CompTypeOK /\ CompOrderInv /\ CompMutexInv
  BY ThreadsAssumption DEF CompInit, CompTypeOK, CompOrderInv, CompMutexInv, Threads
<1> QED BY <1>1, <1>2, OwedMeans DEF CompInv

\* What an action does to types, the mutex and the orders, apart from the deque.
LEMMA CompNextInv == CompInv /\ [CompNext]_compVars => CompInv'
<1> SUFFICES ASSUME CompInv, [CompNext]_compVars PROVE CompInv'
  OBVIOUS
<1> USE DEF CompInv
<1>0. SleepersAreOwed' <=> (Asleep' # {} => Len(compQueue') <= Owed')
  BY DEF SleepersAreOwed, Owed, Asleep, CompNotifying, Woken, Testing
<1>1. ASSUME NEW a \in Adders, NEW o \in Orders, CompAddLock(a, o) PROVE CompInv'
  <2>1. CompTypeOK' /\ CompOrderInv' /\ CompMutexInv'
    BY <1>1, ThreadsAssumption
       DEF CompAddLock, CompLock, CompTypeOK, CompOrderInv, CompMutexInv, Threads
  <2>2. a \in Threads /\ a \notin Removers /\ place[a] = "idle"
        /\ place' = [place EXCEPT ![a] = "push"] /\ compQueue' = compQueue
    BY <1>1, ThreadsAssumption DEF CompAddLock, CompLock, Threads
  <2>3. Asleep' = Asleep /\ CompNotifying' = CompNotifying /\ Woken' = Woken /\ Testing' = Testing
    BY <2>2 DEF Asleep, CompNotifying, Woken, Testing, Where, CompTypeOK, Threads
  <2> QED BY <1>0, <2>1, <2>2, <2>3, OwedMeans DEF Owed
<1>2. ASSUME NEW a \in Adders, CompPush(a) PROVE CompInv'
  <2>1. compQueue' \in Seq(Orders) /\ Len(compQueue') = Len(compQueue) + 1
    BY <1>2 DEF CompPush, CompTypeOK, CompOrderInv
  <2>2. CompTypeOK' /\ CompOrderInv' /\ CompMutexInv'
    BY <1>2, <2>1, ThreadsAssumption
       DEF CompPush, CompUnlock, CompTypeOK, CompOrderInv, CompMutexInv, Threads
  <2>3. a \in Threads /\ a \notin Removers /\ place[a] = "push"
        /\ place' = [place EXCEPT ![a] = "notify"]
    BY <1>2, ThreadsAssumption DEF CompPush, CompUnlock, Threads
  <2>4. Asleep' = Asleep /\ Woken' = Woken /\ Testing' = Testing
    BY <2>3 DEF Asleep, Woken, Testing, Where, CompTypeOK, Threads
  <2>5. Cardinality(CompNotifying') = Cardinality(CompNotifying) + 1
    <3>1. CompNotifying' = CompNotifying \cup {a} /\ a \notin CompNotifying
      BY <2>3 DEF CompNotifying, Where, CompTypeOK, Threads
    <3> QED BY <3>1, WhereFinite, FS_AddElement DEF CompNotifying
  <2>6. Owed' = Owed + 1
    BY <2>4, <2>5, WhereFinite DEF Owed, CompNotifying, Woken, Testing
  <2> QED BY <1>0, <2>1, <2>2, <2>4, <2>6, OwedNat, OwedMeans DEF CompTypeOK
<1>3. ASSUME NEW a \in Adders, CompNotify(a) PROVE CompInv'
  <2>1. CompTypeOK' /\ CompOrderInv' /\ CompMutexInv'
    BY <1>3, ThreadsAssumption
       DEF CompNotify, Where, CompTypeOK, CompOrderInv, CompMutexInv, Threads
  <2>2. CASE Asleep = {}
    <3>1. a \in Threads /\ place[a] = "notify" /\ place' = [place EXCEPT ![a] = "idle"]
      BY <1>3, <2>2 DEF CompNotify, Asleep, Threads
    <3>2. Asleep' = {}
      BY <2>2, <3>1 DEF Asleep, Where, CompTypeOK, Threads
    <3> QED BY <1>0, <2>1, <3>2
  <2>3. CASE Asleep # {}
    <3>1. PICK r \in Asleep : place' = [place EXCEPT ![a] = "idle", ![r] = "woken"]
      BY <1>3, <2>3 DEF CompNotify, Asleep
    <3>2. /\ r \in Removers /\ place[r] = "asleep" /\ a \notin Removers /\ r \notin Adders
          /\ place[a] = "notify" /\ compQueue' = compQueue
      BY <1>3, ThreadsAssumption DEF CompNotify, Asleep, Where
    <3>3. \A t \in Threads : place'[t] = IF t = a THEN "idle" ELSE IF t = r THEN "woken" ELSE place[t]
      BY <3>1, <3>2 DEF CompTypeOK, Threads
    <3>4. /\ CompNotifying' = CompNotifying \ {a} /\ a \in CompNotifying
          /\ Woken' = Woken \cup {r} /\ r \notin Woken
          /\ Testing' = Testing
      BY <3>2, <3>3 DEF CompNotifying, Woken, Testing, Where, Threads
    <3>5. /\ Cardinality(CompNotifying') = Cardinality(CompNotifying) - 1
          /\ Cardinality(Woken') = Cardinality(Woken) + 1
      BY <3>4, WhereFinite, FS_AddElement, FS_RemoveElement DEF CompNotifying, Woken
    <3>6. Owed' = Owed
      BY <3>4, <3>5, WhereFinite DEF Owed, CompNotifying, Woken, Testing
    <3> QED BY <1>0, <2>1, <2>3, <3>2, <3>6, OwedMeans
  <2> QED BY <2>2, <2>3
<1>4. ASSUME NEW r \in Removers, CompRemoveLock(r) PROVE CompInv'
  <2>1. CompTypeOK' /\ CompOrderInv' /\ CompMutexInv'
    BY <1>4, ThreadsAssumption
       DEF CompRemoveLock, CompLock, CompTypeOK, CompOrderInv, CompMutexInv, Threads
  <2>2. r \in Threads /\ r \notin Adders /\ place[r] \in {"idle", "woken"}
        /\ place' = [place EXCEPT ![r] = "test"] /\ compQueue' = compQueue
    BY <1>4, ThreadsAssumption DEF CompRemoveLock, CompLock, Threads
  <2>3. Asleep' = Asleep /\ CompNotifying' = CompNotifying
    BY <2>2 DEF Asleep, CompNotifying, Where, CompTypeOK, Threads
  <2>4. Cardinality(Testing') = Cardinality(Testing) + 1
    <3>1. Testing' = Testing \cup {r} /\ r \notin Testing
      BY <2>2 DEF Testing, Where, CompTypeOK, Threads
    <3> QED BY <3>1, WhereFinite, FS_AddElement DEF Testing
  <2>5. CASE place[r] = "idle"
    <3>1. Woken' = Woken
      BY <2>2, <2>5 DEF Woken, Where, CompTypeOK, Threads
    <3> QED BY <1>0, <2>1, <2>2, <2>3, <2>4, <3>1, WhereFinite, OwedMeans
            DEF Owed, CompNotifying, Woken, Testing, CompTypeOK
  <2>6. CASE place[r] = "woken"
    <3>1. Cardinality(Woken') = Cardinality(Woken) - 1
      <4>1. Woken' = Woken \ {r} /\ r \in Woken
        BY <2>2, <2>6 DEF Woken, Where, CompTypeOK, Threads
      <4> QED BY <4>1, WhereFinite, FS_RemoveElement DEF Woken
    <3> QED BY <1>0, <2>1, <2>2, <2>3, <2>4, <3>1, WhereFinite, OwedMeans
            DEF Owed, CompNotifying, Woken, Testing, CompTypeOK
  <2> QED BY <2>2, <2>5, <2>6
<1>5. ASSUME NEW r \in Removers, CompSleep(r) PROVE CompInv'
  <2>1. CompTypeOK' /\ CompOrderInv' /\ CompMutexInv'
    BY <1>5, ThreadsAssumption
       DEF CompSleep, CompUnlock, CompTypeOK, CompOrderInv, CompMutexInv, Threads
  <2>2. Len(compQueue') = 0
    BY <1>5 DEF CompSleep
  <2>3. Owed' \in Nat
    BY WhereFinite, ThreadsAssumption, FS_Subset, FS_CardinalityType,
       CompNotifying' \subseteq Adders, Woken' \subseteq Removers, Testing' \subseteq Removers
       DEF Owed, CompNotifying, Woken, Testing, Where
  <2> QED BY <1>0, <2>1, <2>2, <2>3
<1>6. ASSUME NEW r \in Removers, CompSpurious(r) PROVE CompInv'
  <2>1. CompTypeOK' /\ CompOrderInv' /\ CompMutexInv'
    BY <1>6, ThreadsAssumption
       DEF CompSpurious, CompTypeOK, CompOrderInv, CompMutexInv, Threads
  <2>2. r \in Threads /\ r \notin Adders /\ place[r] = "asleep" /\ r \in Asleep
        /\ place' = [place EXCEPT ![r] = "woken"] /\ compQueue' = compQueue
    BY <1>6, ThreadsAssumption DEF CompSpurious, Threads, Asleep, Where
  <2>3. CompNotifying' = CompNotifying /\ Testing' = Testing
    BY <2>2 DEF CompNotifying, Testing, Where, CompTypeOK, Threads
  <2>4. Cardinality(Woken') = Cardinality(Woken) + 1
    <3>1. Woken' = Woken \cup {r} /\ r \notin Woken
      BY <2>2 DEF Woken, Where, CompTypeOK, Threads
    <3> QED BY <3>1, WhereFinite, FS_AddElement DEF Woken
  <2>5. Owed' = Owed + 1
    BY <2>3, <2>4, WhereFinite DEF Owed, CompNotifying, Woken, Testing
  <2> QED BY <1>0, <2>1, <2>2, <2>5, OwedNat, OwedMeans DEF CompTypeOK
<1>7. ASSUME NEW r \in Removers, CompPop(r) PROVE CompInv'
  <2>1. /\ Head(compQueue) \in Orders
        /\ compQueue' \in Seq(Orders) /\ Len(compQueue') = Len(compQueue) - 1
    BY <1>7 DEF CompPop, CompTypeOK
  <2>2. CompTypeOK' /\ CompOrderInv' /\ CompMutexInv'
    BY <1>7, <2>1, ThreadsAssumption
       DEF CompPop, CompUnlock, CompTypeOK, CompOrderInv, CompMutexInv, Threads
  <2>3. r \in Threads /\ r \notin Adders /\ place[r] = "test"
        /\ place' = [place EXCEPT ![r] = "idle"]
    BY <1>7, ThreadsAssumption DEF CompPop, CompUnlock, Threads
  <2>4. Asleep' = Asleep /\ Woken' = Woken /\ CompNotifying' = CompNotifying
    BY <2>3 DEF Asleep, Woken, CompNotifying, Where, CompTypeOK, Threads
  <2>5. Cardinality(Testing') = Cardinality(Testing) - 1
    <3>1. Testing' = Testing \ {r} /\ r \in Testing
      BY <2>3 DEF Testing, Where, CompTypeOK, Threads
    <3> QED BY <3>1, WhereFinite, FS_RemoveElement DEF Testing
  <2>6. Owed' = Owed - 1
    BY <2>4, <2>5, WhereFinite DEF Owed, CompNotifying, Woken, Testing
  <2> QED BY <1>0, <2>1, <2>2, <2>4, <2>6, OwedNat, OwedMeans DEF CompTypeOK
<1>8. CASE UNCHANGED compVars
  BY <1>8 DEF compVars, CompTypeOK, CompOrderInv, CompMutexInv, SleepersAreOwed, Where
<1> QED BY <1>1, <1>2, <1>3, <1>4, <1>5, <1>6, <1>7, <1>8 DEF CompNext, CompAdd, CompRemove

THEOREM CompInvariant == CompSpec => []CompInv
  BY CompInitInv, CompNextInv, PTL DEF CompSpec

\* No wakeup is lost between the robots' add and the truck monitor's remove.
THEOREM NoLostWakeup == CompSpec => []SleepersAreOwed
  BY CompInvariant, PTL DEF CompInv

\* The critical sections of add and remove exclude each other.
THEOREM CompMutualExclusion == CompSpec => []CompMutexInv
  BY CompInvariant, PTL DEF CompInv

-------------------------------------------------------------------------------
\* A step of OrderQueue other than Miss.
FifoStep == \/ \E a \in Adders : (\E o \in Orders : CompFifo!Put(a, o)) \/ CompFifo!Return(a)
            \/ \E r \in Removers : CompFifo!Take(r)

LEMMA StepsAreFifo == CompInv /\ [CompNext]_compVars => [FifoStep]_(CompFifo!vars)
<1> SUFFICES ASSUME CompInv, [CompNext]_compVars PROVE FifoStep \/ UNCHANGED CompFifo!vars
  OBVIOUS
<1> USE DEF CompInv, CompFifo!vars, FifoStep
<1>1. ASSUME NEW a \in Adders, NEW o \in Orders, CompAddLock(a, o)
      PROVE  UNCHANGED CompFifo!vars
  BY <1>1 DEF CompAddLock, CompLock, CompTypeOK, Where, Threads
<1>2. ASSUME NEW a \in Adders, CompPush(a) PROVE FifoStep
  <2>1. CompNotifying' = CompNotifying \cup {a} /\ a \notin CompNotifying /\ compOrder[a] \in Orders
    BY <1>2 DEF CompPush, CompUnlock, CompTypeOK, CompOrderInv, CompNotifying, Where, Threads
  <2>2. CompFifo!Put(a, compOrder[a])
    BY <1>2, <2>1 DEF CompPush, CompNotifying, CompFifo!Put, CompFifo!Insert
  <2> QED BY <2>1, <2>2
<1>3. ASSUME NEW a \in Adders, CompNotify(a) PROVE FifoStep
  <2>1. CompNotifying' = CompNotifying \ {a} /\ a \in CompNotifying
    <3>1. \A b \in Adders : place'[b] = IF b = a THEN "idle" ELSE place[b]
      BY <1>3, ThreadsAssumption DEF CompNotify, CompTypeOK, Where, Threads
    <3> QED BY <1>3, <3>1 DEF CompNotify, CompNotifying, Where
  <2>2. CompFifo!Return(a)
    BY <1>3, <2>1 DEF CompNotify, CompNotifying, CompFifo!Return
  <2> QED BY <2>2
<1>4. ASSUME NEW r \in Removers, CompRemoveLock(r) \/ CompSleep(r) \/ CompSpurious(r)
      PROVE  UNCHANGED CompFifo!vars
  BY <1>4, ThreadsAssumption
     DEF CompRemoveLock, CompLock, CompSleep, CompUnlock, CompSpurious, CompTypeOK, Where, Threads
<1>5. ASSUME NEW r \in Removers, CompPop(r) PROVE FifoStep
  <2>1. CompNotifying' = CompNotifying
    BY <1>5, ThreadsAssumption DEF CompPop, CompUnlock, CompTypeOK, CompNotifying, Where, Threads
  <2>2. CompFifo!Take(r)
    BY <1>5, <2>1 DEF CompPop, CompNotifying, CompFifo!Take
  <2> QED BY <2>2
<1>6. CASE UNCHANGED compVars
  BY <1>6 DEF compVars, Where
<1> QED BY <1>1, <1>2, <1>3, <1>4, <1>5, <1>6 DEF CompNext, CompAdd, CompRemove

\* Completed orders come out once each, in the order in which they were added,
\* and remove never comes back without one.
THEOREM CompletedQueueIsFifo == CompSpec => CompletedInOrder
<1>1. CompInit => CompFifo!Init
  BY DEF CompInit, CompFifo!Init, Where, Threads
<1>2. CompInv /\ [CompNext]_compVars =>
        [\/ \E a \in Adders : (\E o \in Orders : CompFifo!Put(a, o)) \/ CompFifo!Return(a)
         \/ \E r \in Removers : CompFifo!Take(r)]_(CompFifo!vars)
  BY StepsAreFifo DEF FifoStep
<1> QED BY <1>1, <1>2, CompInvariant, PTL DEF CompSpec, CompletedInOrder
================================================================================
