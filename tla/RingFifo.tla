------------------------------- MODULE RingFifo -------------------------------
(***************************************************************************)
(* cpen333's fifo, between processes (process/fifo.h), between threads       *)
(* (thread/fifo.h) and under the message queue: a ring of slots, a semaphore *)
(* that counts the free ones and one that counts the items, an index and a   *)
(* mutex for each side.  No lock is common to a producer and a consumer.     *)
(* The adders are the producers, the removers the consumers.                 *)
(***************************************************************************)
EXTENDS Naturals, Sequences, FiniteSets, QueueThreads

CONSTANT RingSize

ASSUME RingAssumption == RingSize \in Nat \ {0}

VARIABLES
  ring,            \* data_
  pidx, cidx,      \* the slots to fill and to empty next
  psem, csem,      \* the semaphores: room, and items
  pmutex, cmutex,  \* their holders, or NoThread
  step,            \* where each thread is in its call
  loc,             \* the slot it works on
  pushed,          \* what each producer was called with
  popped,          \* what each consumer's last pop gave
  peeked           \* history: tokens of csem that peeks took

sides == <<pidx, cidx, pmutex, cmutex>>
fifoVars == <<ring, sides, psem, csem, step, loc, pushed, popped, peeked>>

Slots == 0..(RingSize - 1)
NextSlot(i) == IF i + 1 = RingSize THEN 0 ELSE i + 1
Doing(S, s) == {t \in S : step[t] = s}
GoTo(t, s) == step' = [step EXCEPT ![t] = s]

FifoInit ==
  /\ ring = [i \in Slots |-> NoOrder]
  /\ pidx = 0 /\ cidx = 0 /\ psem = RingSize /\ csem = 0
  /\ pmutex = NoThread /\ cmutex = NoThread
  /\ step = [t \in Threads |-> "idle"] /\ loc = [t \in Threads |-> 0]
  /\ pushed = [a \in Adders |-> NoOrder] /\ popped = [r \in Removers |-> NoOrder]
  /\ peeked = 0

\* Mistake: the producers of a full fifo are not held back.
PushWait_NoRoom(a, v) ==
  /\ step[a] = "idle" /\ psem' = IF psem > 0 THEN psem - 1 ELSE 0
  /\ pushed' = [pushed EXCEPT ![a] = v] /\ GoTo(a, "index")
  /\ UNCHANGED <<ring, sides, csem, loc, popped, peeked>>

\* push, try_push and try_push_until differ in what they do while there is no
\* room: wait, give up, or give up after a time.  Giving up changes nothing.
PushWait(a, v) ==
  /\ step[a] = "idle" /\ psem > 0 /\ psem' = psem - 1
  /\ pushed' = [pushed EXCEPT ![a] = v] /\ GoTo(a, "index")
  /\ UNCHANGED <<ring, sides, csem, loc, popped, peeked>>

PushIndex(a) ==
  /\ step[a] = "index" /\ pmutex = NoThread /\ pmutex' = a
  /\ loc' = [loc EXCEPT ![a] = pidx] /\ pidx' = NextSlot(pidx)
  /\ GoTo(a, "write")
  /\ UNCHANGED <<ring, cidx, cmutex, psem, csem, pushed, popped, peeked>>

PushWrite(a) ==
  /\ step[a] = "write"
  /\ ring' = [ring EXCEPT ![loc[a]] = pushed[a]]
  /\ pmutex' = NoThread /\ GoTo(a, "notify")
  /\ UNCHANGED <<pidx, cidx, cmutex, psem, csem, loc, pushed, popped, peeked>>

PushNotify(a) ==
  /\ step[a] = "notify" /\ csem' = csem + 1 /\ GoTo(a, "idle")
  /\ UNCHANGED <<ring, sides, psem, loc, pushed, popped, peeked>>

-------------------------------------------------------------------------------
\* pop, try_pop and try_pop_until, likewise.
PopWait(r) ==
  /\ step[r] = "idle" /\ csem > 0 /\ csem' = csem - 1
  /\ GoTo(r, "index")
  /\ UNCHANGED <<ring, sides, psem, loc, pushed, popped, peeked>>

PopIndex(r) ==
  /\ step[r] = "index" /\ cmutex = NoThread /\ cmutex' = r
  /\ loc' = [loc EXCEPT ![r] = cidx] /\ cidx' = NextSlot(cidx)
  /\ GoTo(r, "read")
  /\ UNCHANGED <<ring, pidx, pmutex, psem, csem, pushed, popped, peeked>>

PopRead(r) ==
  /\ step[r] = "read"
  /\ popped' = [popped EXCEPT ![r] = ring[loc[r]]]
  /\ cmutex' = NoThread /\ GoTo(r, "notify")
  /\ UNCHANGED <<ring, pidx, cidx, pmutex, psem, csem, loc, pushed, peeked>>

PopNotify(r) ==
  /\ step[r] = "notify" /\ psem' = psem + 1 /\ GoTo(r, "idle")
  /\ UNCHANGED <<ring, sides, csem, loc, pushed, popped, peeked>>

\* peek takes a token, looks at the first item under the mutex, and gives no
\* token back: the item stays, but one pop fewer will find one.
Peek(r) ==
  /\ step[r] = "idle" /\ csem > 0 /\ cmutex = NoThread
  /\ csem' = csem - 1 /\ peeked' = peeked + 1
  /\ UNCHANGED <<ring, sides, psem, step, loc, pushed, popped>>

Push(a) == (\E v \in Orders : PushWait(a, v)) \/ PushIndex(a) \/ PushWrite(a) \/ PushNotify(a)
Pop(r) == PopWait(r) \/ PopIndex(r) \/ PopRead(r) \/ PopNotify(r)

FifoNext == (\E a \in Adders : Push(a)) \/ (\E r \in Removers : Pop(r) \/ Peek(r))

FifoSpec == FifoInit /\ [][FifoNext]_fifoVars

-------------------------------------------------------------------------------
\* The items: those of the tokens, of the producers about to notify, and of the
\* consumers that have not read theirs; from the slot that is read next.
ItemCount ==
  csem + peeked + Cardinality(Doing(Adders, "notify"))
    + Cardinality(Doing(Removers, "index")) + Cardinality(Doing(Removers, "read"))

FirstSlot == IF cmutex = NoThread THEN cidx ELSE loc[cmutex]

FifoItems == [i \in 1..ItemCount |-> ring[(FirstSlot + i - 1) % RingSize]]

FifoQueue == INSTANCE OrderQueue WITH
  items <- FifoItems, adding <- Doing(Adders, "notify"), taken <- popped, Lifo <- FALSE

\* Although the two sides share no lock, items come out once each in the order
\* in which they went in, none is overwritten, and none is read before it is
\* there: the fifo implements OrderQueue.
FifoInOrder ==
  /\ FifoQueue!Init
  /\ [][\/ \E a \in Adders : (\E v \in Orders : FifoQueue!Put(a, v)) \/ FifoQueue!Return(a)
        \/ \E r \in Removers : FifoQueue!Take(r)]_(FifoQueue!vars)
===============================================================================
