---------------------------- MODULE CompletedQueue ----------------------------
(***************************************************************************)
(* DeliveryCompQueue.h, the queue from the robots to the truck monitor: a   *)
(* deque under a mutex, with a condition variable on which remove waits     *)
(* while the deque is empty.  add notifies one waiter after it has released *)
(* the mutex.  The names start with Comp, so that a module may extend this  *)
(* one and CommandQueue.                                                   *)
(***************************************************************************)
EXTENDS Naturals, Sequences, FiniteSets, QueueThreads

VARIABLES compQueue,  \* deliveryCompQueue
          compMutex,  \* mutex_: its holder, or NoThread
          place,      \* where each thread is; "asleep" in cv_.wait
          compOrder,  \* the order each adder was called with
          received    \* what each remover's last call returned

compVars == <<compQueue, compMutex, place, compOrder, received>>

Where(T, p) == {t \in T : place[t] = p}

CompInit == /\ compQueue = <<>>
            /\ compMutex = NoThread
            /\ place = [t \in Threads |-> "idle"]
            /\ compOrder = [a \in Adders |-> NoOrder]
            /\ received = [r \in Removers |-> NoOrder]

CompLock(t, from, to) == /\ place[t] \in from /\ compMutex = NoThread
                         /\ compMutex' = t
                         /\ place' = [place EXCEPT ![t] = to]

CompUnlock(t, to) == /\ compMutex' = NoThread
                     /\ place' = [place EXCEPT ![t] = to]

CompAddLock(a, o) == /\ CompLock(a, {"idle"}, "push")
                     /\ compOrder' = [compOrder EXCEPT ![a] = o]
                     /\ UNCHANGED <<compQueue, received>>

\* Mistake: the order goes in front.
CompPush_Front(a) == /\ place[a] = "push"
                     /\ compQueue' = <<compOrder[a]>> \o compQueue
                     /\ CompUnlock(a, "notify")
                     /\ UNCHANGED <<compOrder, received>>

CompPush(a) == /\ place[a] = "push"
               /\ compQueue' = Append(compQueue, compOrder[a])
               /\ CompUnlock(a, "notify")
               /\ UNCHANGED <<compOrder, received>>

\* Mistake: add notifies only if its order is the only one.
CompNotify_IfFirst(a) ==
  /\ place[a] = "notify"
  /\ IF Len(compQueue) # 1 \/ Where(Removers, "asleep") = {}
     THEN place' = [place EXCEPT ![a] = "idle"]
     ELSE \E r \in Where(Removers, "asleep") : place' = [place EXCEPT ![a] = "idle", ![r] = "woken"]
  /\ UNCHANGED <<compQueue, compMutex, compOrder, received>>

\* notify_one wakes one of those asleep, if any.
CompNotify(a) ==
  /\ place[a] = "notify"
  /\ IF Where(Removers, "asleep") = {}
     THEN place' = [place EXCEPT ![a] = "idle"]
     ELSE \E r \in Where(Removers, "asleep") : place' = [place EXCEPT ![a] = "idle", ![r] = "woken"]
  /\ UNCHANGED <<compQueue, compMutex, compOrder, received>>

\* The unique_lock's constructor, or the end of cv_.wait, which locks again.
CompRemoveLock(r) == /\ CompLock(r, {"idle", "woken"}, "test")
                     /\ UNCHANGED <<compQueue, compOrder, received>>

\* The predicate of cv_.wait: sleep, and release the mutex, while it is empty.
CompSleep(r) == /\ place[r] = "test" /\ compQueue = <<>>
                /\ CompUnlock(r, "asleep")
                /\ UNCHANGED <<compQueue, compOrder, received>>

\* A condition variable may wake without a notification.
CompSpurious(r) == /\ place[r] = "asleep"
                   /\ place' = [place EXCEPT ![r] = "woken"]
                   /\ UNCHANGED <<compQueue, compMutex, compOrder, received>>

CompPop(r) == /\ place[r] = "test" /\ compQueue # <<>>
              /\ received' = [received EXCEPT ![r] = Head(compQueue)]
              /\ compQueue' = Tail(compQueue)
              /\ CompUnlock(r, "idle")
              /\ UNCHANGED compOrder

\* Bound: an order is not added while it is queued.
CompAdd(a) ==
  \/ \E o \in Orders : /\ \A i \in DOMAIN compQueue : compQueue[i] # o
                       /\ \A b \in Where(Adders, "push") : compOrder[b] # o
                       /\ CompAddLock(a, o)
  \/ CompPush(a)
  \/ CompNotify(a)

CompRemove(r) == CompRemoveLock(r) \/ CompSleep(r) \/ CompSpurious(r) \/ CompPop(r)

CompNext == (\E a \in Adders : CompAdd(a)) \/ (\E r \in Removers : CompRemove(r))

CompSpec == CompInit /\ [][CompNext]_compVars

\* A call that has got the mutex goes on.
CompCallsGoOn == /\ \A a \in Adders : WF_compVars(CompPush(a) \/ CompNotify(a))
                 /\ \A r \in Removers : WF_compVars(CompSleep(r) \/ CompPop(r))

-------------------------------------------------------------------------------
(***************************************************************************)
(* Properties.                                                             *)
(***************************************************************************)
CompTypeOK == /\ compQueue \in Seq(Orders)
              /\ compMutex \in Threads \cup {NoThread}
              /\ place \in [Threads -> {"idle", "push", "notify", "asleep", "woken", "test"}]
              /\ compOrder \in [Adders -> Orders \cup {NoOrder}]
              /\ received \in [Removers -> Orders \cup {NoOrder}]

\* No wakeup is lost: while somebody sleeps, each queued order has an adder
\* about to notify, or a remover that is awake and has still to test the deque.
SleepersAreOwed ==
  Where(Removers, "asleep") # {} =>
    Len(compQueue) <= Cardinality(Where(Adders, "notify"))
                      + Cardinality(Where(Removers, "woken")) + Cardinality(Where(Removers, "test"))

\* Orders come out once each, in the order of their adds, and remove answers
\* with an order whenever it returns: the queue implements OrderQueue without
\* its Miss.
CompFifo == INSTANCE OrderQueue WITH
  items <- compQueue, adding <- Where(Adders, "notify"), taken <- received, Lifo <- FALSE

CompletedInOrder ==
  /\ CompFifo!Init
  /\ [][\/ \E a \in Adders : (\E o \in Orders : CompFifo!Put(a, o)) \/ CompFifo!Return(a)
        \/ \E r \in Removers : CompFifo!Take(r)]_(CompFifo!vars)

\* A queued order is taken as long as somebody is inside remove: the truck
\* monitor does not sleep while an order waits for its truck.
CallersServed ==
  \A o \in Orders :
    (\E i \in DOMAIN compQueue : compQueue[i] = o) /\ Removers # Where(Removers, "idle")
      ~> (\A i \in DOMAIN compQueue : compQueue[i] # o) \/ Removers = Where(Removers, "idle")
===============================================================================
