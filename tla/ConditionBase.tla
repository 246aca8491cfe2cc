----------------------------- MODULE ConditionBase -----------------------------
(***************************************************************************)
(* cpen333::process::condition_base, on which a truck waits for its load    *)
(* (isDone), and thread::event, which is the same algorithm: a condition    *)
(* variable made of three counters in shared memory and three locks.        *)
(*                                                                         *)
(*   block_lock_    the gate: a semaphore with one unit, taken for a moment *)
(*                  by a thread that begins to wait, and kept by notify     *)
(*                  until all the threads it has called are awake           *)
(*   block_queue_   the semaphore on which threads sleep                    *)
(*   unblock_lock_  a mutex around the counters                             *)
(*                                                                         *)
(* One action per section of code that another thread could see: what is    *)
(* done under unblock_lock_ is one step unless it waits for the gate there.  *)
(* The names start with Cv where CommandQueue has the same.                  *)
(***************************************************************************)
EXTENDS Integers, FiniteSets

CONSTANTS Waiters, Notifiers, Nobody,
          Uses,        \* how the object is used: [timed, calls], the threads that
                       \* wait with a timeout and the notify functions called
          GoneLimit    \* numeric_limits<long>::max() / 2

ASSUME ConditionAssumption ==
  /\ IsFiniteSet(Waiters) /\ IsFiniteSet(Notifiers) /\ Waiters \cap Notifiers = {}
  /\ Nobody \notin Waiters \cup Notifiers
  /\ \A u \in Uses : u.timed \subseteq Waiters /\ u.calls \subseteq {"one", "all"}
  /\ GoneLimit \in Nat \ {0}

VARIABLES use,         \* the use in this behaviour
          blocked, unblock, gone,
          gate,        \* block_lock_
          queue,       \* block_queue_
          unblockLock, \* holder of unblock_lock_, if it waits for the gate with it
          external,    \* holder of the mutex the waiters pass in
          cvPc,          \* where each thread is
          todo         \* waiters_gone of a waiter, signals of a notifier

cvVars == <<use, blocked, unblock, gone, gate, queue, unblockLock, external, cvPc, todo>>

counters == <<blocked, unblock, gone>>
CvThreads == Waiters \cup Notifiers
At(T, place) == {t \in T : cvPc[t] = place}
Go(t, place) == cvPc' = [cvPc EXCEPT ![t] = place]

CvInit == /\ use \in Uses
          /\ blocked = 0 /\ unblock = 0 /\ gone = 0
          /\ gate = 1 /\ queue = 0
          /\ unblockLock = Nobody /\ external = Nobody
          /\ cvPc = [t \in CvThreads |-> "out"]
          /\ todo = [t \in CvThreads |-> 0]

(***************************************************************************)
(* wait                                                                    *)
(***************************************************************************)
\* The caller locks its mutex and calls wait.
CallWait(w) ==
  /\ cvPc[w] = "out" /\ external = Nobody
  /\ external' = w
  /\ Go(w, "enter")
  /\ UNCHANGED <<use, counters, gate, queue, unblockLock, todo>>

\* Mistake: the gate is not tested.
Block_NoGate(w) ==
  /\ cvPc[w] = "enter"
  /\ blocked' = blocked + 1
  /\ Go(w, "release")
  /\ UNCHANGED <<use, unblock, gone, gate, queue, unblockLock, external, todo>>

\* Through the gate: the semaphore_guard around ++blocked.
Block(w) ==
  /\ cvPc[w] = "enter" /\ gate > 0
  /\ blocked' = blocked + 1
  /\ Go(w, "release")
  /\ UNCHANGED <<use, unblock, gone, gate, queue, unblockLock, external, todo>>

\* The lock_inverter unlocks the caller's mutex.
ReleaseExternal(w) ==
  /\ cvPc[w] = "release"
  /\ external' = Nobody
  /\ Go(w, "asleep")
  /\ UNCHANGED <<use, counters, gate, queue, unblockLock, todo>>

Wake(w) ==
  /\ cvPc[w] = "asleep" /\ queue > 0
  /\ queue' = queue - 1
  /\ Go(w, "awake")
  /\ UNCHANGED <<use, counters, gate, unblockLock, external, todo>>

\* block_queue_.wait_until gives up, when there is nothing to take.
Timeout(w) ==
  /\ cvPc[w] = "asleep" /\ w \in use.timed /\ queue = 0
  /\ Go(w, "late")
  /\ UNCHANGED <<use, counters, gate, queue, unblockLock, external, todo>>

\* The section under unblock_lock_ after the sleep, with threads called.  One
\* that timed out is no longer blocked, or leaves a signal behind.  The last one
\* called opens the gate at once if others are still blocked; otherwise it takes
\* over the signals left behind.
Settle(w) ==
  /\ cvPc[w] \in {"awake", "late"} /\ unblockLock = Nobody /\ unblock # 0
  /\ unblock' = unblock - 1
  /\ blocked' = IF cvPc[w] = "late" /\ blocked # 0 THEN blocked - 1 ELSE blocked
  /\ LET left == IF cvPc[w] = "late" /\ blocked = 0 THEN gone + 1 ELSE gone
         clear == unblock = 1 /\ blocked' = 0
     IN /\ gone' = IF clear THEN 0 ELSE left
        /\ todo' = [todo EXCEPT ![w] = IF clear THEN left ELSE 0]
        /\ gate' = IF unblock = 1 /\ ~clear THEN gate + 1 ELSE gate
        /\ Go(w, IF clear THEN "drain" ELSE "relock")
  /\ UNCHANGED <<use, queue, unblockLock, external>>

\* Mistake: a thread that gave up is not counted.
GiveUp_Uncounted(w) ==
  /\ cvPc[w] \in {"awake", "late"} /\ unblockLock = Nobody /\ unblock = 0
  /\ Go(w, "relock")
  /\ UNCHANGED <<use, counters, gate, queue, unblockLock, external, todo>>

\* The same section with nobody called: the thread is gone.  At the limit it
\* goes on to Trim, with unblock_lock_.
GiveUp(w) ==
  /\ cvPc[w] \in {"awake", "late"} /\ unblockLock = Nobody /\ unblock = 0
  /\ gone' = gone + 1
  /\ IF gone + 1 = GoneLimit THEN unblockLock' = w /\ UNCHANGED cvPc
                             ELSE Go(w, "relock") /\ UNCHANGED unblockLock
  /\ UNCHANGED <<use, blocked, unblock, gate, queue, external, todo>>

\* Both counts are reduced inside the gate.
Trim(w) ==
  /\ unblockLock = w /\ gate > 0
  /\ blocked' = blocked - gone
  /\ gone' = 0
  /\ unblockLock' = Nobody
  /\ Go(w, "relock")
  /\ UNCHANGED <<use, unblock, gate, queue, external, todo>>

\* The last one takes the signals left behind, then opens the gate.
Drain(w) ==
  /\ cvPc[w] = "drain" /\ todo[w] > 0 /\ queue > 0
  /\ queue' = queue - 1
  /\ todo' = [todo EXCEPT ![w] = @ - 1]
  /\ UNCHANGED <<use, counters, gate, unblockLock, external, cvPc>>

OpenGate(w) ==
  /\ cvPc[w] = "drain" /\ todo[w] = 0
  /\ gate' = gate + 1
  /\ Go(w, "relock")
  /\ UNCHANGED <<use, counters, queue, unblockLock, external, todo>>

\* The lock_inverter locks the caller's mutex again; the caller unlocks it.
Relock(w) ==
  /\ cvPc[w] = "relock" /\ external = Nobody
  /\ external' = w
  /\ Go(w, "leave")
  /\ UNCHANGED <<use, counters, gate, queue, unblockLock, todo>>

Leave(w) ==
  /\ cvPc[w] = "leave"
  /\ external' = Nobody
  /\ Go(w, "out")
  /\ UNCHANGED <<use, counters, gate, queue, unblockLock, todo>>

(***************************************************************************)
(* notify(broadcast); cvPc[n] tells which, until the signals are posted.      *)
(***************************************************************************)
CallNotify(n, which) ==
  /\ cvPc[n] = "out"
  /\ Go(n, which)
  /\ UNCHANGED <<use, counters, gate, queue, unblockLock, external, todo>>

Calling(n) == cvPc[n] \in {"one", "all"}
Signals(n, b) == IF cvPc[n] = "all" THEN b ELSE 1

\* Nobody to signal.
NotifyNone(n) ==
  /\ Calling(n) /\ unblockLock = Nobody
  /\ IF unblock # 0 THEN blocked = 0 ELSE blocked <= gone
  /\ Go(n, "out")
  /\ UNCHANGED <<use, counters, gate, queue, unblockLock, external, todo>>

\* CvThreads called earlier are still waking: the gate is closed, add to them.
NotifyMore(n) ==
  /\ Calling(n) /\ unblockLock = Nobody
  /\ unblock # 0 /\ blocked # 0
  /\ unblock' = unblock + Signals(n, blocked)
  /\ blocked' = blocked - Signals(n, blocked)
  /\ todo' = [todo EXCEPT ![n] = Signals(n, blocked)]
  /\ Go(n, "post")
  /\ UNCHANGED <<use, gone, gate, queue, unblockLock, external>>

\* Take unblock_lock_ and wait for the gate.
NotifyBegin(n) ==
  /\ Calling(n) /\ unblockLock = Nobody
  /\ unblock = 0 /\ blocked > gone
  /\ unblockLock' = n
  /\ UNCHANGED <<use, counters, gate, queue, external, cvPc, todo>>

\* block_lock_.wait() closes the gate; then the counters are set and
\* unblock_lock_ is released.
NotifyClose(n) ==
  /\ unblockLock = n /\ gate > 0
  /\ gate' = gate - 1
  /\ gone' = 0
  /\ unblock' = Signals(n, blocked - gone)
  /\ blocked' = blocked - gone - Signals(n, blocked - gone)
  /\ todo' = [todo EXCEPT ![n] = Signals(n, blocked - gone)]
  /\ unblockLock' = Nobody
  /\ Go(n, "post")
  /\ UNCHANGED <<use, queue, external>>

\* Mistake: one unit is posted, whatever the number of signals.
NotifyPost_One(n) ==
  /\ cvPc[n] = "post"
  /\ queue' = queue + 1
  /\ todo' = [todo EXCEPT ![n] = 0]
  /\ Go(n, "out")
  /\ UNCHANGED <<use, counters, gate, unblockLock, external>>

\* One unit of block_queue_ for each signal.
NotifyPost(n) ==
  /\ cvPc[n] = "post"
  /\ queue' = queue + 1
  /\ todo' = [todo EXCEPT ![n] = @ - 1]
  /\ Go(n, IF todo[n] = 1 THEN "out" ELSE "post")
  /\ UNCHANGED <<use, counters, gate, unblockLock, external>>

\* What a thread inside wait does on its own account.
GoOn(w) == \/ Block(w) \/ ReleaseExternal(w) \/ Settle(w) \/ GiveUp(w) \/ Trim(w)
           \/ Drain(w) \/ OpenGate(w) \/ Relock(w) \/ Leave(w)

Wait(w) == CallWait(w) \/ Wake(w) \/ Timeout(w) \/ GoOn(w)

Notify(n) == NotifyNone(n) \/ NotifyMore(n) \/ NotifyBegin(n) \/ NotifyClose(n) \/ NotifyPost(n)

CvNext == \/ \E w \in Waiters : Wait(w)
          \/ \E n \in Notifiers : (\E which \in use.calls : CallNotify(n, which)) \/ Notify(n)

CvSpec == CvInit /\ [][CvNext]_cvVars

\* A call that has started goes on.  A semaphore that is posted is taken by one
\* of those who wait for it; a lock that is free again and again is got.
\* Nobody has to call wait or notify, and no deadline has to come.
CvFairness ==
  /\ \A w \in Waiters : SF_cvVars(GoOn(w))
  /\ WF_cvVars(\E w \in Waiters : Wake(w))
  /\ \A n \in Notifiers : SF_cvVars(Notify(n))

--------------------------------------------------------------------------------
(***************************************************************************)
(* Properties.                                                             *)
(***************************************************************************)
\* Threads that wait and are not yet accounted for as woken or gone.
Waiting == {w \in Waiters : /\ cvPc[w] \in {"release", "asleep", "awake", "late"}
                            /\ unblockLock # w}

\* The counters account for every thread that waits: "gone" are those among the
\* blocked that gave up, or, while threads are being called, signals left behind.
WaitersCounted ==
  Cardinality(Waiting) = IF unblock = 0 THEN blocked - gone ELSE blocked + unblock

\* Without timeouts, condition_base implements WaitSet: every wakeup goes to a
\* thread that waited before the notification, and none is spurious.
Abstract == INSTANCE WaitSet WITH waiting <- Waiting, owed <- unblock

ImplementsWaitSet == Abstract!Init /\ [][use.timed = {} => Abstract!Next]_(Abstract!vars)

\* "Wake up all waiting threads": a thread asleep when notify_all is called
\* wakes up.
AllAreWoken ==
  \A w \in Waiters, n \in Notifiers : cvPc[w] = "asleep" /\ cvPc[n] = "all" ~> cvPc[w] # "asleep"
================================================================================
