----------------------------- MODULE CommandQueue -----------------------------
(***************************************************************************)
(* The four command queues of the warehouse computer (PickupQueue.h,       *)
(* DeliveryTruckQueue.h, RestockingQueue.h, TruckQueue.h): a std::deque     *)
(* under a std::mutex, with a semaphore that counts the entries.  They      *)
(* differ only in the end at which add inserts: push_back in the first two, *)
(* push_front in the last two (Lifo).                                       *)
(*                                                                         *)
(* The semaphore is notified after the mutex is released, so the count lags *)
(* behind the deque; remove tests the semaphore while it holds the mutex.   *)
(***************************************************************************)
EXTENDS Integers, Sequences, FiniteSets, QueueThreads

CONSTANTS Lifo,        \* add inserts in front
          MaxQueued    \* bound: an add starts only below this length

ASSUME LifoAssumption == Lifo \in BOOLEAN

VARIABLES deque,     \* pickupQueue, deliveryTruckQueue, ...
          mutex,     \* mutex_: the thread that holds it, or NoThread
          tokens,    \* count_ of the semaphore
          pc,        \* where each thread is
          command,   \* the order each adder was called with
          result     \* what each remover's last call returned

vars == <<deque, mutex, tokens, pc, command, result>>

\* Adders between mutex_.unlock() and the semaphore's notify().
Notifying == {a \in Adders : pc[a] = "notify"}

TypeOK == /\ deque \in Seq(Orders)
          /\ mutex \in Threads \cup {NoThread}
          /\ tokens \in Nat
          /\ pc \in [Threads -> {"idle", "push", "notify", "try", "pop"}]
          /\ command \in [Adders -> Orders \cup {NoOrder}]
          /\ result \in [Removers -> Orders \cup {NoOrder}]

Init == /\ deque = <<>>
        /\ mutex = NoThread
        /\ tokens = 0
        /\ pc = [t \in Threads |-> "idle"]
        /\ command = [a \in Adders |-> NoOrder]
        /\ result = [r \in Removers |-> NoOrder]

(***************************************************************************)
(* add: lock, insert and unlock, then notify the semaphore.                *)
(***************************************************************************)
Lock(t) == mutex = NoThread /\ mutex' = t

AddLock(a, o) ==
  /\ pc[a] = "idle"
  /\ Lock(a)
  /\ pc' = [pc EXCEPT ![a] = "push"]
  /\ command' = [command EXCEPT ![a] = o]
  /\ UNCHANGED <<deque, tokens, result>>

\* Mistake: the order goes in at the other end.
AddPush_OtherEnd(a) ==
  /\ pc[a] = "push"
  /\ deque' = IF Lifo THEN Append(deque, command[a]) ELSE <<command[a]>> \o deque
  /\ mutex' = NoThread
  /\ pc' = [pc EXCEPT ![a] = "notify"]
  /\ UNCHANGED <<tokens, command, result>>

AddPush(a) ==
  /\ pc[a] = "push"
  /\ deque' = IF Lifo THEN <<command[a]>> \o deque ELSE Append(deque, command[a])
  /\ mutex' = NoThread
  /\ pc' = [pc EXCEPT ![a] = "notify"]
  /\ UNCHANGED <<tokens, command, result>>

\* Mistakes: the semaphore is never notified, or notified twice.
AddNotify_Forgotten(a) ==
  /\ pc[a] = "notify"
  /\ pc' = [pc EXCEPT ![a] = "idle"]
  /\ UNCHANGED <<deque, mutex, tokens, command, result>>

AddNotify_Twice(a) ==
  /\ pc[a] = "notify"
  /\ tokens' = tokens + 2
  /\ pc' = [pc EXCEPT ![a] = "idle"]
  /\ UNCHANGED <<deque, mutex, command, result>>

AddNotify(a) ==
  /\ pc[a] = "notify"
  /\ tokens' = tokens + 1
  /\ pc' = [pc EXCEPT ![a] = "idle"]
  /\ UNCHANGED <<deque, mutex, command, result>>

(***************************************************************************)
(* remove: lock, try the semaphore; on success front() and pop_front(), and *)
(* unlock; on failure answer NoOrder and unlock.                            *)
(***************************************************************************)
RemoveLock(r) ==
  /\ pc[r] = "idle"
  /\ Lock(r)
  /\ pc' = [pc EXCEPT ![r] = "try"]
  /\ UNCHANGED <<deque, tokens, command, result>>

RemoveGet(r) ==
  /\ pc[r] = "try"
  /\ tokens > 0
  /\ tokens' = tokens - 1
  /\ pc' = [pc EXCEPT ![r] = "pop"]
  /\ UNCHANGED <<deque, mutex, command, result>>

RemoveMiss(r) ==
  /\ pc[r] = "try"
  /\ tokens = 0
  /\ result' = [result EXCEPT ![r] = NoOrder]
  /\ mutex' = NoThread
  /\ pc' = [pc EXCEPT ![r] = "idle"]
  /\ UNCHANGED <<deque, tokens, command>>

RemovePop(r) ==
  /\ pc[r] = "pop"
  /\ result' = [result EXCEPT ![r] = Head(deque)]
  /\ deque' = Tail(deque)
  /\ mutex' = NoThread
  /\ pc' = [pc EXCEPT ![r] = "idle"]
  /\ UNCHANGED <<tokens, command>>

Add(a) ==
  \/ \E o \in Orders : /\ \A i \in 1..Len(deque) : deque[i] # o
                       /\ Len(deque) + Cardinality(Notifying) < MaxQueued
                       /\ AddLock(a, o)
  \/ AddPush(a)
  \/ AddNotify(a)

Remove(r) == RemoveLock(r) \/ RemoveGet(r) \/ RemoveMiss(r) \/ RemovePop(r)

Next == (\E a \in Adders : Add(a)) \/ (\E r \in Removers : Remove(r))

Spec == Init /\ [][Next]_vars

\* A call that has got the mutex goes on.
CallsGoOn == /\ \A a \in Adders : WF_vars(AddPush(a) \/ AddNotify(a))
             /\ \A r \in Removers : WF_vars(RemoveGet(r) \/ RemoveMiss(r) \/ RemovePop(r))

-------------------------------------------------------------------------------
(***************************************************************************)
(* Properties.                                                             *)
(***************************************************************************)
Popping == {r \in Removers : pc[r] = "pop"}

\* The mutex is held exactly by the thread inside the critical section, so
\* there is never more than one there.
MutexInv ==
  \A t \in Threads : (mutex = t) <=> (pc[t] \in {"push", "try", "pop"})

\* The semaphore never promises more than the deque holds: every queued order
\* is announced by a token, or its add has still to notify, or a remove has
\* taken the token and is about to pop it.
TokensMatchOrders ==
  Len(deque) = tokens + Cardinality(Notifying) + (IF Popping = {} THEN 0 ELSE 1)

\* front() and pop_front() are never called on an empty deque, which would be
\* undefined behaviour: remove checks the semaphore, not empty().
PopNeverEmpty == Popping # {} => deque # <<>>

\* The queue implements OrderQueue: adds and removes take effect one at a
\* time, in the order of the discipline, and a remove misses only orders
\* whose add is still running.
Spec_OrderQueue == INSTANCE OrderQueue WITH
  items <- deque, adding <- Notifying, taken <- result

ImplementsQueue == Spec_OrderQueue!Spec

\* Every queued order is removed some time, however many are added after it.
Queued(o) == \E i \in 1..Len(deque) : deque[i] = o

EveryOrderTaken == \A o \in Orders : Queued(o) ~> ~Queued(o)

===============================================================================
