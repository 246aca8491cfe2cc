--------------------------- MODULE SharedMutexFair ---------------------------
(***************************************************************************)
(* shared_mutex_fair, for readers and writers that alternate.  Each call     *)
(* works on the counters under mutex_, as one step here, and may wait on     *)
(* econd_: asleep until a notify_all, then awake until it has the mutex and  *)
(* tests its predicate again.                                              *)
(* Not all of it may be used: after a timed lock that gives up, readers of   *)
(* the next batch wait for a writer that may never come, and try_lock_shared *)
(* lets a reader in without counting it.  Both are left out here.            *)
(***************************************************************************)
EXTENDS Naturals, FiniteSets

CONSTANTS Readers, Writers

ASSUME SharersAssumption == IsFiniteSet(Readers) /\ IsFiniteSet(Writers)

VARIABLES
  shared,      \* readers inside or queued, for each of the two batches
  thisBatch,   \* the batch that has access
  exclusive,   \* a writer is inside
  etotal,      \* writers waiting or inside
  rpc, wpc,    \* where readers and writers are: "out", "asleep", "awake", "in"
  batch        \* the batch a reader was queued for

smVars == <<shared, thisBatch, exclusive, etotal, rpc, wpc, batch>>

SmInit ==
  /\ shared = [b \in {0, 1} |-> 0] /\ thisBatch = 0 /\ exclusive = FALSE /\ etotal = 0
  /\ rpc = [r \in Readers |-> "out"] /\ wpc = [w \in Writers |-> "out"]
  /\ batch = [r \in Readers |-> 0]

Woken(pc) == [t \in DOMAIN pc |-> IF pc[t] = "asleep" THEN "awake" ELSE pc[t]]

\* The predicates of the two waits.
MayRead(r) == thisBatch = batch[r]
MayWrite == ~ exclusive /\ shared[thisBatch] = 0

\* Mistake: readers join the present batch as long as there is one.
LockShared_Join(r) ==
  /\ rpc[r] = "out"
  /\ LET b == IF ~ exclusive THEN thisBatch ELSE 1 - thisBatch IN
     /\ batch' = [batch EXCEPT ![r] = b]
     /\ shared' = [shared EXCEPT ![b] = @ + 1]
     /\ rpc' = [rpc EXCEPT ![r] = IF b = thisBatch THEN "in" ELSE "asleep"]
  /\ UNCHANGED <<thisBatch, exclusive, etotal, wpc>>

LockShared(r) ==
  /\ rpc[r] = "out"
  /\ LET b == IF etotal = 0 THEN thisBatch ELSE 1 - thisBatch IN
     /\ batch' = [batch EXCEPT ![r] = b]
     /\ shared' = [shared EXCEPT ![b] = @ + 1]
     /\ rpc' = [rpc EXCEPT ![r] = IF b = thisBatch THEN "in" ELSE "asleep"]
  /\ UNCHANGED <<thisBatch, exclusive, etotal, wpc>>

\* Notified, or awake for no reason.
ReaderWakes(r) ==
  /\ rpc[r] \in {"asleep", "awake"}
  /\ rpc' = [rpc EXCEPT ![r] = IF MayRead(r) THEN "in" ELSE "asleep"]
  /\ UNCHANGED <<shared, thisBatch, exclusive, etotal, wpc, batch>>

\* The last of a batch wakes everybody.
UnlockShared(r) ==
  /\ rpc[r] = "in"
  /\ shared' = [shared EXCEPT ![thisBatch] = @ - 1]
  /\ LET left == [rpc EXCEPT ![r] = "out"] IN
     IF shared'[thisBatch] = 0 THEN rpc' = Woken(left) /\ wpc' = Woken(wpc)
                               ELSE rpc' = left /\ UNCHANGED wpc
  /\ UNCHANGED <<thisBatch, exclusive, etotal, batch>>

LockExclusive(w) ==
  /\ wpc[w] = "out"
  /\ etotal' = etotal + 1
  /\ wpc' = [wpc EXCEPT ![w] = IF MayWrite THEN "in" ELSE "asleep"]
  /\ exclusive' = (exclusive \/ MayWrite)
  /\ UNCHANGED <<shared, thisBatch, rpc, batch>>

\* try_lock where lock would not wait; elsewhere it changes nothing.
TryLockExclusive(w) == MayWrite /\ LockExclusive(w)

WriterWakes(w) ==
  /\ wpc[w] \in {"asleep", "awake"}
  /\ wpc' = [wpc EXCEPT ![w] = IF MayWrite THEN "in" ELSE "asleep"]
  /\ exclusive' = (exclusive \/ MayWrite)
  /\ UNCHANGED <<shared, thisBatch, etotal, rpc, batch>>

\* Mistake: only readers are told.
UnlockExclusive_Readers(w) ==
  /\ wpc[w] = "in"
  /\ exclusive' = FALSE /\ etotal' = etotal - 1
  /\ thisBatch' = 1 - thisBatch
  /\ rpc' = Woken(rpc) /\ wpc' = [wpc EXCEPT ![w] = "out"]
  /\ UNCHANGED <<shared, batch>>

UnlockExclusive(w) ==
  /\ wpc[w] = "in"
  /\ exclusive' = FALSE /\ etotal' = etotal - 1
  /\ thisBatch' = 1 - thisBatch
  /\ rpc' = Woken(rpc) /\ wpc' = [Woken(wpc) EXCEPT ![w] = "out"]
  /\ UNCHANGED <<shared, batch>>

SmNext ==
  \/ \E r \in Readers : LockShared(r) \/ ReaderWakes(r) \/ UnlockShared(r)
  \/ \E w \in Writers : LockExclusive(w) \/ TryLockExclusive(w) \/ WriterWakes(w) \/ UnlockExclusive(w)

SmSpec == SmInit /\ [][SmNext]_smVars

-------------------------------------------------------------------------------
\* No wakeup is lost: who sleeps has something to wait for.  A queued reader
\* waits for a writer; a writer for the readers or the writer inside.
SleepersHaveReason ==
  /\ \A r \in Readers : rpc[r] = "asleep" => ~ MayRead(r) /\ etotal > 0
  /\ \A w \in Writers : wpc[w] = "asleep" => ~ MayWrite

\* The batch that has access, whether its readers have noticed or not.
Registered(b) == {r \in Readers : rpc[r] # "out" /\ batch[r] = b}

Alternation == INSTANCE Batches WITH
  reading <- Registered(thisBatch), queued <- Registered(1 - thisBatch),
  asking <- {w \in Writers : wpc[w] \in {"asleep", "awake"}},
  writing <- {w \in Writers : wpc[w] = "in"}

\* Readers and writers exclude each other, and a reader that has to wait is
\* overtaken by one writer at most: the counters implement Batches.
ImplementsBatches == Alternation!Spec
===============================================================================
