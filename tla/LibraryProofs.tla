----------------------------- MODULE LibraryProofs -----------------------------
(***************************************************************************)
(* The synchronization primitives of the cpen333 library, for any numbers of *)
(* threads.  shared_mutex_fair lets readers and writers in by turns: its     *)
(* counters agree with the threads, and so it refines Batches.               *)
(* condition_base accounts for every thread that waits, and refines WaitSet   *)
(* when nobody waits with a timeout.  The fifo's two sides, which share no    *)
(* lock, refine OrderQueue.                                                  *)
(***************************************************************************)
EXTENDS SharedMutexFair, ConditionBase, RingFifo, FiniteSums, FiniteSetTheorems, TLAPS

(***************************************************************************)
(* shared_mutex_fair.                                                      *)
(***************************************************************************)
Places == {"out", "asleep", "awake", "in"}

SmTypeOK ==
  /\ shared \in [{0, 1} -> Nat] /\ thisBatch \in {0, 1} /\ batch \in [Readers -> {0, 1}]
  /\ exclusive \in BOOLEAN /\ etotal \in Nat
  /\ rpc \in [Readers -> Places] /\ wpc \in [Writers -> Places]

WritersAt(P) == {w \in Writers : wpc[w] \in P}

\* The counters count: the readers of each batch, and the writers.
Counted == /\ \A b \in {0, 1} : shared[b] = Cardinality(Registered(b))
           /\ etotal = Cardinality(WritersAt({"asleep", "awake", "in"}))

\* A writer is inside alone, and no reader has access then.
Excluded ==
  /\ exclusive <=> WritersAt({"in"}) # {}
  /\ \A v, w \in WritersAt({"in"}) : v = w
  /\ exclusive => Registered(thisBatch) = {}

\* Only a writer makes readers queue, and those inside are of this batch.
Queueing ==
  /\ Registered(1 - thisBatch) # {} => WritersAt({"asleep", "awake", "in"}) # {}
  /\ \A r \in Readers : /\ rpc[r] = "in" => MayRead(r)
                        /\ rpc[r] = "asleep" => ~ MayRead(r)

SmInv == /\ SmTypeOK /\ Counted /\ Excluded /\ Queueing
         /\ \A w \in Writers : wpc[w] = "asleep" => ~ MayWrite

-------------------------------------------------------------------------------
LEMMA Finite ==
  /\ \A b : IsFiniteSet(Registered(b)) /\ Cardinality(Registered(b)) \in Nat
  /\ \A P : IsFiniteSet(WritersAt(P)) /\ Cardinality(WritersAt(P)) \in Nat
<1>1. ASSUME NEW b PROVE IsFiniteSet(Registered(b))
  BY SharersAssumption, FS_Subset, Registered(b) \subseteq Readers DEF Registered
<1>2. ASSUME NEW P PROVE IsFiniteSet(WritersAt(P))
  BY SharersAssumption, FS_Subset, WritersAt(P) \subseteq Writers DEF WritersAt
<1> QED BY <1>1, <1>2, FS_CardinalityType

\* What the counters tell.
LEMMA CountersTell ==
  ASSUME SmTypeOK, Counted
  PROVE  /\ \A b \in {0, 1} : shared[b] = 0 <=> Registered(b) = {}
         /\ etotal = 0 <=> WritersAt({"asleep", "awake", "in"}) = {}
  BY Finite, FS_EmptySet DEF Counted

\* notify_all leaves nobody asleep and moves nobody else.
LEMMA WokenFacts ==
  ASSUME NEW S, NEW pc \in [S -> Places]
  PROVE  /\ Woken(pc) \in [S -> Places]
         /\ \A t \in S : Woken(pc)[t] = IF pc[t] = "asleep" THEN "awake" ELSE pc[t]
  BY DEF Woken, Places

LEMMA SmInitInv == SmInit => SmInv
<1> SUFFICES ASSUME SmInit PROVE SmInv
  OBVIOUS
<1>1. SmTypeOK
  BY DEF SmInit, SmTypeOK, Places
<1>2. (\A b : Registered(b) = {}) /\ (\A P : P \subseteq {"asleep", "awake", "in"} => WritersAt(P) = {})
  BY DEF SmInit, Registered, WritersAt
<1>3. Counted
  BY <1>2, FS_EmptySet DEF SmInit, Counted
<1>4. Excluded /\ Queueing
  BY <1>2 DEF SmInit, Excluded, Queueing, MayRead
<1> QED BY <1>1, <1>3, <1>4 DEF SmInit, SmInv

LEMMA LockSharedInv == ASSUME SmInv, NEW r \in Readers, LockShared(r) PROVE SmInv'
<1> USE DEF SmInv
<1>1. PICK b \in {0, 1} :
      /\ rpc[r] = "out" /\ (b = thisBatch <=> etotal = 0)
      /\ batch' = [batch EXCEPT ![r] = b] /\ shared' = [shared EXCEPT ![b] = @ + 1]
      /\ rpc' = [rpc EXCEPT ![r] = IF b = thisBatch THEN "in" ELSE "asleep"]
      /\ UNCHANGED <<thisBatch, exclusive, etotal, wpc>>
  <2> DEFINE c == IF etotal = 0 THEN thisBatch ELSE 1 - thisBatch
  <2>1. c \in {0, 1} /\ (c = thisBatch <=> etotal = 0)
    BY DEF SmTypeOK
  <2> QED BY <2>1 DEF LockShared
<1>2. SmTypeOK'
  BY <1>1 DEF SmTypeOK, Places
<1>3. /\ Registered(b)' = Registered(b) \cup {r} /\ r \notin Registered(b)
      /\ \A c \in {0, 1} : c # b => Registered(c)' = Registered(c)
      /\ \A P : WritersAt(P)' = WritersAt(P)
  <2>1. Registered(b)' = Registered(b) \cup {r} /\ r \notin Registered(b)
    <3>1. r \notin Registered(b) /\ rpc'[r] # "out" /\ batch'[r] = b
      BY <1>1 DEF SmTypeOK, Registered
    <3>2. \A s \in Readers : s # r => rpc'[s] = rpc[s] /\ batch'[s] = batch[s]
      BY <1>1 DEF SmTypeOK
    <3> QED BY <3>1, <3>2 DEF Registered
  <2>2. ASSUME NEW c \in {0, 1}, c # b PROVE Registered(c)' = Registered(c)
    <3>1. r \notin Registered(c) /\ batch'[r] # c
      BY <1>1, <2>2 DEF SmTypeOK, Registered
    <3>2. \A s \in Readers : s # r => rpc'[s] = rpc[s] /\ batch'[s] = batch[s]
      BY <1>1 DEF SmTypeOK
    <3> QED BY <3>1, <3>2 DEF Registered
  <2> QED BY <1>1, <2>1, <2>2 DEF WritersAt
<1>4. Counted'
  <2>1. Cardinality(Registered(b)') = Cardinality(Registered(b)) + 1
    BY <1>3, Finite, FS_AddElement
  <2>2. \A c \in {0, 1} : shared'[c] = Cardinality(Registered(c)')
    <3>1. \A c \in {0, 1} : c # b => shared'[c] = shared[c]
      BY <1>1 DEF SmTypeOK
    <3>2. shared'[b] = shared[b] + 1
      BY <1>1 DEF SmTypeOK
    <3> QED BY <1>1, <1>3, <2>1, <3>1, <3>2 DEF Counted
  <2>3. etotal' = Cardinality(WritersAt({"asleep", "awake", "in"})')
    BY <1>1, <1>3 DEF Counted
  <2> QED BY <2>2, <2>3 DEF Counted
<1>5. Excluded' /\ Queueing'
  <2>1. exclusive => b # thisBatch
    BY <1>1, CountersTell DEF Excluded, WritersAt
  <2>2. b # thisBatch => WritersAt({"asleep", "awake", "in"}) # {}
    BY <1>1, CountersTell
  <2>3. Excluded'
    BY <1>1, <1>3, <2>1 DEF Excluded, SmTypeOK
  <2>4. 1 - thisBatch \in {0, 1} /\ 1 - thisBatch # thisBatch
    BY DEF SmTypeOK
  <2>5. (Registered(1 - thisBatch) # {} => WritersAt({"asleep", "awake", "in"}) # {})'
    BY <1>1, <1>3, <2>2, <2>4 DEF Queueing
  <2>6. \A s \in Readers : /\ rpc'[s] = "in" => MayRead(s)'
                           /\ rpc'[s] = "asleep" => ~ MayRead(s)'
    BY <1>1 DEF Queueing, MayRead, SmTypeOK
  <2> QED BY <2>3, <2>5, <2>6 DEF Queueing
<1>6. \A w \in Writers : wpc'[w] = "asleep" => ~ MayWrite'
  BY <1>1 DEF MayWrite, SmTypeOK
<1> QED BY <1>2, <1>4, <1>5, <1>6

LEMMA ReaderWakesInv == ASSUME SmInv, NEW r \in Readers, ReaderWakes(r) PROVE SmInv'
<1> USE DEF SmInv
<1>1. SmTypeOK'
  BY DEF ReaderWakes, SmTypeOK, Places
<1>2. (\A b : Registered(b)' = Registered(b)) /\ (\A P : WritersAt(P)' = WritersAt(P))
  BY DEF ReaderWakes, SmTypeOK, Registered, WritersAt
<1>3. Counted' /\ Excluded'
  BY <1>2 DEF ReaderWakes, Counted, Excluded
<1>4. \A s \in Readers : /\ rpc'[s] = "in" => MayRead(s)'
                         /\ rpc'[s] = "asleep" => ~ MayRead(s)'
  BY DEF ReaderWakes, Queueing, MayRead, SmTypeOK
<1>5. Queueing'
  BY <1>2, <1>4 DEF ReaderWakes, Queueing
<1> QED BY <1>1, <1>3, <1>5 DEF ReaderWakes, MayWrite

LEMMA UnlockSharedInv == ASSUME SmInv, NEW r \in Readers, UnlockShared(r) PROVE SmInv'
<1> USE DEF SmInv
<1>1. /\ rpc[r] = "in" /\ batch[r] = thisBatch
      /\ r \in Registered(thisBatch)
  BY DEF UnlockShared, Queueing, MayRead, Registered
<1>2. shared[thisBatch] \in Nat \ {0}
  BY <1>1, CountersTell DEF SmTypeOK
<1>3. SmTypeOK'
  BY <1>2 DEF UnlockShared, SmTypeOK, Places, Woken
<1>4. /\ Registered(thisBatch)' = Registered(thisBatch) \ {r}
      /\ \A c \in {0, 1} : c # thisBatch => Registered(c)' = Registered(c)
      /\ WritersAt({"asleep", "awake", "in"})' = WritersAt({"asleep", "awake", "in"})
      /\ WritersAt({"in"})' = WritersAt({"in"})
  BY <1>1 DEF UnlockShared, SmTypeOK, Registered, WritersAt, Woken, Places
<1>5. Counted'
  <2>1. Cardinality(Registered(thisBatch)') = Cardinality(Registered(thisBatch)) - 1
    BY <1>1, <1>4, Finite, FS_RemoveElement
  <2> QED BY <1>4, <2>1 DEF UnlockShared, Counted, SmTypeOK
<1>6. Excluded'
  BY <1>1, <1>4 DEF UnlockShared, Excluded, SmTypeOK
<1>7. Queueing'
  <2>1. \A s \in Readers : /\ rpc'[s] = "in" => MayRead(s)'
                           /\ rpc'[s] = "asleep" => ~ MayRead(s)'
    BY DEF UnlockShared, Queueing, MayRead, SmTypeOK, Woken
  <2>2. 1 - thisBatch \in {0, 1} /\ 1 - thisBatch # thisBatch
    BY DEF SmTypeOK
  <2> QED BY <1>4, <2>1, <2>2 DEF UnlockShared, Queueing
<1>8. \A w \in Writers : wpc'[w] = "asleep" => ~ MayWrite'
  BY <1>3 DEF UnlockShared, MayWrite, SmTypeOK, Woken
<1> QED BY <1>3, <1>5, <1>6, <1>7, <1>8

\* A writer that gets in finds nobody there.
LEMMA WriterInside ==
  ASSUME SmInv, NEW w \in Writers, MayWrite, wpc' = [wpc EXCEPT ![w] = "in"], exclusive' = TRUE,
         UNCHANGED <<thisBatch, rpc, batch>>
  PROVE  Excluded'
<1>1. WritersAt({"in"}) = {} /\ Registered(thisBatch) = {}
  BY CountersTell DEF SmInv, MayWrite, Excluded, SmTypeOK
<1>2. WritersAt({"in"})' = {w} /\ Registered(thisBatch)' = {}
  BY <1>1 DEF SmInv, SmTypeOK, WritersAt, Registered
<1> QED BY <1>2 DEF Excluded

LEMMA LockExclusiveInv == ASSUME SmInv, NEW w \in Writers, LockExclusive(w) PROVE SmInv'
<1> USE DEF SmInv
<1>1. SmTypeOK'
  BY DEF LockExclusive, SmTypeOK, Places, MayWrite
<1>2. /\ WritersAt({"asleep", "awake", "in"})' = WritersAt({"asleep", "awake", "in"}) \cup {w}
      /\ w \notin WritersAt({"asleep", "awake", "in"})
      /\ \A b : Registered(b)' = Registered(b)
  BY DEF LockExclusive, SmTypeOK, WritersAt, Registered
<1>3. Counted'
  <2>1. Cardinality(WritersAt({"asleep", "awake", "in"})')
          = Cardinality(WritersAt({"asleep", "awake", "in"})) + 1
    BY <1>2, Finite, FS_AddElement
  <2> QED BY <1>2, <2>1 DEF LockExclusive, Counted
<1>4. Excluded'
  <2>1. CASE MayWrite
    BY <2>1, WriterInside DEF LockExclusive
  <2>2. CASE ~ MayWrite
    <3>1. WritersAt({"in"})' = WritersAt({"in"}) /\ UNCHANGED <<exclusive, thisBatch>>
      BY <2>2 DEF LockExclusive, SmTypeOK, WritersAt
    <3> QED BY <3>1, <1>2 DEF Excluded
  <2> QED BY <2>1, <2>2
<1>5. Queueing'
  BY <1>2 DEF LockExclusive, Queueing, MayRead
<1>6. \A v \in Writers : wpc'[v] = "asleep" => ~ MayWrite'
  BY DEF LockExclusive, MayWrite, SmTypeOK
<1> QED BY <1>1, <1>3, <1>4, <1>5, <1>6

LEMMA WriterWakesInv == ASSUME SmInv, NEW w \in Writers, WriterWakes(w) PROVE SmInv'
<1> USE DEF SmInv
<1>1. SmTypeOK'
  BY DEF WriterWakes, SmTypeOK, Places, MayWrite
<1>2. /\ WritersAt({"asleep", "awake", "in"})' = WritersAt({"asleep", "awake", "in"})
      /\ \A b : Registered(b)' = Registered(b)
  BY DEF WriterWakes, SmTypeOK, WritersAt, Registered
<1>3. Counted'
  BY <1>2 DEF WriterWakes, Counted
<1>4. Excluded'
  <2>1. CASE MayWrite
    BY <2>1, WriterInside DEF WriterWakes
  <2>2. CASE ~ MayWrite
    <3>1. WritersAt({"in"})' = WritersAt({"in"}) /\ UNCHANGED <<exclusive, thisBatch>>
      BY <2>2 DEF WriterWakes, SmTypeOK, WritersAt
    <3> QED BY <3>1, <1>2 DEF Excluded
  <2> QED BY <2>1, <2>2
<1>5. Queueing'
  BY <1>2 DEF WriterWakes, Queueing, MayRead
<1>6. \A v \in Writers : wpc'[v] = "asleep" => ~ MayWrite'
  BY DEF WriterWakes, MayWrite, SmTypeOK
<1> QED BY <1>1, <1>3, <1>4, <1>5, <1>6

LEMMA UnlockExclusiveInv == ASSUME SmInv, NEW w \in Writers, UnlockExclusive(w) PROVE SmInv'
<1> USE DEF SmInv
<1>1. w \in WritersAt({"in"}) /\ exclusive /\ Registered(thisBatch) = {}
  BY DEF UnlockExclusive, WritersAt, Excluded
<1>2. etotal \in Nat \ {0}
  BY <1>1, CountersTell DEF WritersAt, SmTypeOK
<1>3. SmTypeOK'
  <2>1. rpc' \in [Readers -> Places] /\ wpc' \in [Writers -> Places]
    BY WokenFacts DEF UnlockExclusive, SmTypeOK, Places
  <2>2. etotal' \in Nat /\ thisBatch' \in {0, 1}
    BY <1>2 DEF UnlockExclusive, SmTypeOK
  <2>3. exclusive' = FALSE /\ shared' = shared /\ batch' = batch
    BY DEF UnlockExclusive
  <2> QED BY <2>1, <2>2, <2>3 DEF SmTypeOK
<1>4. /\ WritersAt({"asleep", "awake", "in"})' = WritersAt({"asleep", "awake", "in"}) \ {w}
      /\ WritersAt({"in"})' = {}
      /\ \A b : Registered(b)' = Registered(b)
  BY <1>1 DEF UnlockExclusive, SmTypeOK, WritersAt, Registered, Woken, Places, Excluded
<1>5. Counted'
  <2>1. Cardinality(WritersAt({"asleep", "awake", "in"})')
          = Cardinality(WritersAt({"asleep", "awake", "in"})) - 1
    <3>1. w \in WritersAt({"asleep", "awake", "in"})
      BY <1>1 DEF WritersAt
    <3> QED BY <3>1, <1>4, Finite, FS_RemoveElement
  <2>2. etotal' = etotal - 1 /\ shared' = shared
    BY DEF UnlockExclusive
  <2> QED BY <1>4, <2>1, <2>2 DEF Counted
<1>6. Excluded'
  BY <1>4 DEF UnlockExclusive, Excluded
<1>7. Queueing'
  <2>1. Registered(1 - thisBatch)' = {}
    BY <1>1, <1>4 DEF UnlockExclusive, SmTypeOK
  <2>2. \A r \in Readers : rpc'[r] # "asleep" /\ rpc'[r] # "in"
    <3> TAKE r \in Readers
    <3>1. rpc[r] # "in"
      BY <1>1 DEF Queueing, MayRead, Registered
    <3> QED BY <3>1 DEF UnlockExclusive, Woken, SmTypeOK
  <2> QED BY <2>1, <2>2 DEF Queueing
<1>8. \A v \in Writers : wpc'[v] # "asleep"
  BY DEF UnlockExclusive, Woken, SmTypeOK
<1> QED BY <1>3, <1>5, <1>6, <1>7, <1>8

LEMMA SmNextInv == SmInv /\ [SmNext]_smVars => SmInv'
<1>1. CASE UNCHANGED smVars
  BY <1>1 DEF smVars, SmInv, SmTypeOK, Counted, Excluded, Queueing, Registered, WritersAt,
              MayRead, MayWrite
<1> QED BY <1>1, LockSharedInv, ReaderWakesInv, UnlockSharedInv, LockExclusiveInv, WriterWakesInv,
           UnlockExclusiveInv DEF SmNext, TryLockExclusive

THEOREM SmInvariant == SmSpec => []SmInv
  BY SmInitInv, SmNextInv, PTL DEF SmSpec

-------------------------------------------------------------------------------
\* No reader or writer sleeps on econd_ with nothing left to wake it.
THEOREM NobodyForgotten == SmSpec => []SleepersHaveReason
<1>1. SmInv => SleepersHaveReason
  <2> SUFFICES ASSUME SmInv, NEW r \in Readers, rpc[r] = "asleep" PROVE ~ MayRead(r) /\ etotal > 0
    BY DEF SleepersHaveReason, SmInv
  <2>1. r \in Registered(1 - thisBatch)
    BY DEF SmInv, SmTypeOK, Queueing, MayRead, Registered
  <2>2. etotal # 0
    BY <2>1, CountersTell DEF SmInv, Queueing
  <2> QED BY <2>2 DEF SmInv, SmTypeOK, Queueing
<1> QED BY <1>1, SmInvariant, PTL

\* Each step is one of Batches or changes nothing there.
LEMMA StepsAlternate == SmInv /\ [SmNext]_smVars => [Alternation!Next]_(Alternation!vars)
<1> SUFFICES ASSUME SmInv, [SmNext]_smVars PROVE [Alternation!Next]_(Alternation!vars)
  OBVIOUS
<1> USE DEF SmInv
<1> DEFINE reading == Registered(thisBatch)
           queued == Registered(1 - thisBatch)
           asking == WritersAt({"asleep", "awake"})
           writing == WritersAt({"in"})
<1>a. 1 - thisBatch \in {0, 1} /\ 1 - thisBatch # thisBatch
  BY DEF SmTypeOK
<1>1. ASSUME NEW r \in Readers, LockShared(r) PROVE Alternation!AskRead(r)
  <2>1. etotal = 0 <=> asking = {} /\ writing = {}
    BY CountersTell DEF WritersAt
  <2>2. r \notin reading /\ r \notin queued
    BY <1>1 DEF LockShared, Registered
  <2>3. asking' = asking /\ writing' = writing /\ thisBatch' = thisBatch
    BY <1>1 DEF LockShared, WritersAt
  <2>4. CASE etotal = 0
    <3>1. reading' = reading \cup {r} /\ queued' = queued
      BY <1>1, <1>a, <2>4 DEF LockShared, Registered, SmTypeOK
    <3> QED BY <2>1, <2>2, <2>3, <2>4, <3>1 DEF Alternation!AskRead, Alternation!Quiet, WritersAt
  <2>5. CASE etotal # 0
    <3>1. reading' = reading /\ queued' = queued \cup {r}
      BY <1>1, <1>a, <2>5 DEF LockShared, Registered, SmTypeOK
    <3> QED BY <2>1, <2>2, <2>3, <2>5, <3>1 DEF Alternation!AskRead, Alternation!Quiet, WritersAt
  <2> QED BY <2>4, <2>5
<1>2. ASSUME NEW r \in Readers, ReaderWakes(r) PROVE UNCHANGED Alternation!vars
  BY <1>2 DEF ReaderWakes, Alternation!vars, Registered, SmTypeOK
<1>3. ASSUME NEW r \in Readers, UnlockShared(r) PROVE Alternation!EndRead(r)
  <2>1. r \in reading
    BY <1>3 DEF UnlockShared, Queueing, MayRead, Registered
  <2>2. reading' = reading \ {r} /\ queued' = queued /\ asking' = asking /\ writing' = writing
    BY <1>3, <1>a DEF UnlockShared, SmTypeOK, Registered, WritersAt, Woken, Places, Queueing, MayRead
  <2> QED BY <2>1, <2>2 DEF Alternation!EndRead, WritersAt
<1>4. ASSUME NEW w \in Writers, MayWrite, wpc[w] # "in", wpc' = [wpc EXCEPT ![w] = "in"],
             UNCHANGED <<thisBatch, rpc, batch>>
      PROVE  Alternation!Write(w)
  <2>1. reading = {} /\ writing = {}
    BY <1>4, CountersTell DEF MayWrite, Excluded, SmTypeOK
  <2>2. writing' = {w} /\ asking' = asking \ {w} /\ reading' = reading /\ queued' = queued
    BY <1>4, <2>1 DEF SmTypeOK, WritersAt, Registered
  <2> QED BY <2>1, <2>2 DEF Alternation!Write, WritersAt
<1>5. ASSUME NEW w \in Writers, LockExclusive(w)
      PROVE  Alternation!Write(w) \/ Alternation!AskWrite(w)
  <2>1. CASE MayWrite
    BY <1>4, <1>5, <2>1 DEF LockExclusive
  <2>2. CASE ~ MayWrite
    <3>1. /\ w \notin asking \cup writing /\ asking' = asking \cup {w}
          /\ writing' = writing /\ reading' = reading /\ queued' = queued
      BY <1>5, <2>2 DEF LockExclusive, SmTypeOK, WritersAt, Registered
    <3> QED BY <3>1 DEF Alternation!AskWrite, WritersAt
  <2> QED BY <2>1, <2>2
<1>6. ASSUME NEW w \in Writers, WriterWakes(w)
      PROVE  Alternation!Write(w) \/ UNCHANGED Alternation!vars
  <2>1. CASE MayWrite
    BY <1>4, <1>6, <2>1 DEF WriterWakes
  <2>2. CASE ~ MayWrite
    BY <1>6, <2>2 DEF WriterWakes, SmTypeOK, Registered, Alternation!vars
  <2> QED BY <2>1, <2>2
<1>7. ASSUME NEW w \in Writers, UnlockExclusive(w) PROVE Alternation!EndWrite(w)
  <2>1. w \in writing /\ reading = {}
    BY <1>7 DEF UnlockExclusive, WritersAt, Excluded
  <2>2. writing' = {} /\ asking' = asking
    BY <1>7, <2>1 DEF UnlockExclusive, SmTypeOK, WritersAt, Woken, Places, Excluded
  <2>3. \A b : Registered(b)' = Registered(b)
    BY <1>7 DEF UnlockExclusive, SmTypeOK, Registered, Woken, Places
  <2>4. reading' = queued /\ queued' = reading
    <3>1. thisBatch' = 1 - thisBatch /\ 1 - thisBatch' = thisBatch
      BY <1>7 DEF UnlockExclusive, SmTypeOK
    <3> QED BY <2>3, <3>1 DEF Registered
  <2> QED BY <2>1, <2>2, <2>4 DEF Alternation!EndWrite, WritersAt
<1>8. CASE UNCHANGED smVars
  BY <1>8 DEF smVars, Alternation!vars, Registered
<1> QED BY <1>1, <1>2, <1>3, <1>5, <1>6, <1>7, <1>8 DEF SmNext, TryLockExclusive, Alternation!Next

\* Readers and writers exclude each other, and a reader is overtaken by one
\* writer at most: shared_mutex_fair implements Batches.
THEOREM RefinesBatches == SmSpec => ImplementsBatches
<1>1. SmInit => Alternation!Init
  BY DEF SmInit, Alternation!Init, Registered
<1> QED BY <1>1, StepsAlternate, SmInvariant, PTL DEF SmSpec, ImplementsBatches, Alternation!Spec

(***************************************************************************)
(* condition_base.                                                         *)
(***************************************************************************)
WaiterPlaces == {"out", "enter", "release", "asleep", "awake", "late", "drain", "relock", "leave"}
NotifierPlaces == {"out", "one", "all", "post"}

\* Timeouts and notify_one are not used together.
Unmixed == use.timed = {} \/ "one" \notin use.calls

CvTypeOK ==
  /\ use \in Uses
  /\ blocked \in Nat /\ unblock \in Nat /\ gone \in Nat
  /\ gate \in {0, 1} /\ queue \in Nat
  /\ unblockLock \in CvThreads \cup {Nobody} /\ external \in CvThreads \cup {Nobody}
  /\ cvPc \in [CvThreads -> WaiterPlaces \cup NotifierPlaces] /\ todo \in [CvThreads -> Nat]
  /\ \A w \in Waiters : cvPc[w] \in WaiterPlaces
  /\ \A n \in Notifiers : cvPc[n] \in NotifierPlaces

\* The gate is closed while threads are called, and until the last of them has
\* taken the signals left behind.
GateInv ==
  /\ unblock # 0 => gate = 0 /\ At(Waiters, "drain") = {}
  /\ gate = 1 => At(Waiters, "drain") = {}
  /\ \A v, w \in At(Waiters, "drain") : v = w

\* Who waits for the gate with unblock_lock_, and what it has found.
HolderInv ==
  /\ unblockLock # Nobody => unblock = 0
  /\ unblockLock \in Waiters => cvPc[unblockLock] \in {"awake", "late"}
  /\ unblockLock \in Notifiers => Calling(unblockLock) /\ blocked > gone

UseInv ==
  /\ \A w \in Waiters : cvPc[w] = "late" => w \in use.timed
  /\ \A n \in Notifiers : Calling(n) => cvPc[n] \in use.calls
  /\ \A n \in Notifiers : cvPc[n] = "post" <=> todo[n] # 0

\* While threads are called: nobody has left a signal behind, or nobody is
\* blocked who was not called.
CalledInv ==
  unblock # 0 => IF use.timed = {} THEN gone = 0 ELSE blocked = 0

\* Without timeouts every signal is on its way to a thread that is called.
SignalInv ==
  use.timed = {} =>
    /\ \A w \in Waiters : todo[w] = 0
    /\ Cardinality(At(Waiters, "awake")) + queue + Total([n \in Notifiers |-> todo[n]]) = unblock

CvInv == /\ CvTypeOK /\ GateInv /\ HolderInv /\ UseInv
         /\ WaitersCounted /\ CalledInv /\ SignalInv

Awake == At(Waiters, "awake")
Posting == Total([n \in Notifiers |-> todo[n]])
ToWake == Cardinality(Awake) + queue + Posting

\* Those who wait and those who are awake are finitely many.
LEMMA WaitingFinite ==
  /\ IsFiniteSet(Waiting) /\ Cardinality(Waiting) \in Nat
  /\ IsFiniteSet(Awake) /\ Cardinality(Awake) \in Nat
<1>1. Waiting \subseteq Waiters /\ Awake \subseteq Waiters
  BY DEF Waiting, Awake, At
<1> QED BY <1>1, ConditionAssumption, FS_Subset, FS_CardinalityType

\* The signals still to be posted are a number, and none is owed back.
LEMMA PostingInt ==
  ASSUME CvTypeOK
  PROVE  Posting \in Int
<1>1. [n \in Notifiers |-> todo[n]] \in [Notifiers -> Int]
  BY DEF CvTypeOK, CvThreads
<1> QED BY <1>1, ConditionAssumption, SumInt DEF Posting

LEMMA PostingNat ==
  ASSUME CvTypeOK
  PROVE  Posting >= 0
<1> DEFINE f == [n \in Notifiers |-> todo[n]]
           z == [n \in Notifiers |-> 0]
<1>1. f \in [Notifiers -> Int] /\ z \in [Notifiers -> Int] /\ \A n \in Notifiers : z[n] <= f[n] /\ z[n] = 0
  BY DEF CvTypeOK, CvThreads
<1> HIDE DEF f, z
<1>2. Total(z) <= Total(f) /\ Total(z) = 0
  BY <1>1, ConditionAssumption, SumUp, SumZero
<1> QED BY <1>2 DEF f, Posting

\* The sum over the notifiers: unchanged, or one of them has more or less to post.
LEMMA PostingKept ==
  ASSUME CvTypeOK, todo' \in [CvThreads -> Nat], NEW t \in CvThreads,
         \A n \in CvThreads : n # t => todo'[n] = todo[n]
  PROVE  Posting' = IF t \in Notifiers THEN Posting - todo[t] + todo'[t] ELSE Posting
<1> DEFINE f == [n \in Notifiers |-> todo[n]]
           h == [n \in Notifiers |-> todo'[n]]
<1>1. f \in [Notifiers -> Int] /\ h \in [Notifiers -> Int] /\ \A n \in Notifiers \ {t} : h[n] = f[n]
  BY DEF CvTypeOK, CvThreads
<1>2. Posting = Total(f) /\ Posting' = Total(h)
  BY DEF Posting
<1>3. CASE t \in Notifiers
  <2>1. f[t] = todo[t] /\ h[t] = todo'[t]
    BY <1>3
  <2> HIDE DEF f, h
  <2>2. Total(h) = Total(f) - f[t] + h[t]
    BY <1>1, <1>3, ConditionAssumption, SumAt
  <2> QED BY <1>2, <1>3, <2>1, <2>2
<1>4. CASE t \notin Notifiers
  <2>1. f = h
    BY <1>4 DEF CvThreads
  <2> QED BY <1>2, <1>4, <2>1
<1> QED BY <1>3, <1>4

\* In the beginning nobody waits and nothing is counted.
LEMMA CvInvInit == CvInit => CvInv
<1> SUFFICES ASSUME CvInit PROVE CvInv
  OBVIOUS
<1>0. Waiters \cap Notifiers = {} /\ Nobody \notin CvThreads
  BY ConditionAssumption DEF CvThreads
<1>1. CvTypeOK
  BY <1>0 DEF CvInit, CvTypeOK, CvThreads, WaiterPlaces, NotifierPlaces
<1>2. GateInv /\ HolderInv /\ UseInv /\ CalledInv
  BY <1>0 DEF CvInit, GateInv, HolderInv, UseInv, CalledInv, At, Calling, CvThreads
<1>3. Waiting = {} /\ Awake = {}
  BY DEF CvInit, Waiting, Awake, At, CvThreads
<1>4. Cardinality(Waiting) = 0 /\ Cardinality(Awake) = 0
  BY <1>3, FS_EmptySet
<1>5. Posting = 0
  <2> DEFINE f == [n \in Notifiers |-> todo[n]]
  <2>1. f \in [Notifiers -> Int] /\ \A n \in Notifiers : f[n] = 0
    BY DEF CvInit, CvThreads
  <2> HIDE DEF f
  <2>2. Total(f) = 0
    BY <2>1, ConditionAssumption, SumZero
  <2> QED BY <2>2 DEF f, Posting
<1>6. WaitersCounted
  BY <1>4 DEF CvInit, WaitersCounted
<1>7. SignalInv
  BY <1>4, <1>5 DEF CvInit, SignalInv, Awake, Posting, CvThreads
<1> QED BY <1>1, <1>2, <1>6, <1>7 DEF CvInv

\* Steps that change no counter, no gate and nobody's part in the count.
LEMMA QuietStep ==
  ASSUME CvInv, NEW w \in Waiters,
         CallWait(w) \/ ReleaseExternal(w) \/ Timeout(w) \/ Relock(w) \/ Leave(w)
  PROVE  CvInv'
<1> USE DEF CvInv
<1>0. Waiters \cap Notifiers = {} /\ Nobody \notin CvThreads /\ w \in CvThreads
  BY ConditionAssumption DEF CvThreads
<1>1. /\ UNCHANGED <<use, counters, gate, queue, unblockLock, todo>>
      /\ external' \in CvThreads \cup {Nobody}
  BY <1>0 DEF CallWait, ReleaseExternal, Timeout, Relock, Leave, CvTypeOK
<1>p. \E p \in {<<"out", "enter">>, <<"release", "asleep">>, <<"asleep", "late">>,
                <<"relock", "leave">>, <<"leave", "out">>} :
        cvPc[w] = p[1] /\ Go(w, p[2]) /\ (p[2] = "late" => w \in use.timed)
  BY DEF CallWait, ReleaseExternal, Timeout, Relock, Leave
<1>q. PICK p \in {<<"out", "enter">>, <<"release", "asleep">>, <<"asleep", "late">>,
                <<"relock", "leave">>, <<"leave", "out">>} :
        cvPc[w] = p[1] /\ Go(w, p[2]) /\ (p[2] = "late" => w \in use.timed)
  BY <1>p
<1>2. /\ cvPc' \in [CvThreads -> WaiterPlaces \cup NotifierPlaces]
      /\ \A t \in CvThreads : t # w => cvPc'[t] = cvPc[t]
      /\ cvPc'[w] = p[2]
  BY <1>0, <1>q DEF CvTypeOK, Go, WaiterPlaces
<1>r. /\ cvPc[w] \in {"out", "release", "asleep", "relock", "leave"}
      /\ cvPc'[w] \in {"enter", "asleep", "late", "leave", "out"}
      /\ cvPc'[w] \in {"asleep", "late"} <=> cvPc[w] \in {"release", "asleep"}
      /\ cvPc'[w] = "late" => w \in use.timed
  BY <1>q, <1>2
<1>3. CvTypeOK'
  BY <1>0, <1>1, <1>2, <1>r DEF CvTypeOK, counters, CvThreads, WaiterPlaces
<1>4. Waiting' = Waiting /\ Awake' = Awake /\ At(Waiters, "drain")' = At(Waiters, "drain")
  BY <1>1, <1>2, <1>r DEF Waiting, Awake, At, CvThreads
<1>5. GateInv'
  BY <1>1, <1>4 DEF GateInv, counters
<1>6. HolderInv' /\ UseInv' /\ CalledInv'
  BY <1>0, <1>1, <1>2, <1>r DEF HolderInv, UseInv, CalledInv, Calling, counters, CvThreads
<1>7. WaitersCounted'
  BY <1>1, <1>4 DEF WaitersCounted, counters
<1>8. SignalInv'
  BY <1>1, <1>4 DEF SignalInv, Awake, counters
<1> QED BY <1>3, <1>5, <1>6, <1>7, <1>8

\* Cardinalities when one thread joins or leaves.
LEMMA OneMore ==
  ASSUME NEW S, IsFiniteSet(S), NEW x, x \notin S
  PROVE  Cardinality(S \cup {x}) = Cardinality(S) + 1
  BY FS_AddElement

LEMMA OneLess ==
  ASSUME NEW S, IsFiniteSet(S), NEW x \in S
  PROVE  Cardinality(S \ {x}) = Cardinality(S) - 1
  BY FS_RemoveElement

\* Waiters, notifiers and Nobody are told apart.
LEMMA Apart == Waiters \cap Notifiers = {} /\ Nobody \notin CvThreads
  BY ConditionAssumption DEF CvThreads

\* A thread that moves leaves the others where they are.
LEMMA WaiterGoes ==
  ASSUME CvTypeOK, NEW w \in Waiters, NEW place \in WaiterPlaces, Go(w, place)
  PROVE  /\ cvPc' \in [CvThreads -> WaiterPlaces \cup NotifierPlaces]
         /\ \A v \in Waiters : cvPc'[v] \in WaiterPlaces
         /\ \A n \in Notifiers : cvPc'[n] = cvPc[n] /\ cvPc'[n] \in NotifierPlaces
         /\ \A t \in CvThreads : t # w => cvPc'[t] = cvPc[t]
         /\ cvPc'[w] = place
  BY Apart DEF Go, CvTypeOK, CvThreads

LEMMA NotifierGoes ==
  ASSUME CvTypeOK, NEW n \in Notifiers, NEW place \in NotifierPlaces, Go(n, place)
  PROVE  /\ cvPc' \in [CvThreads -> WaiterPlaces \cup NotifierPlaces]
         /\ \A v \in Waiters : cvPc'[v] = cvPc[v] /\ cvPc'[v] \in WaiterPlaces
         /\ \A m \in Notifiers : cvPc'[m] \in NotifierPlaces
         /\ \A t \in CvThreads : t # n => cvPc'[t] = cvPc[t]
         /\ cvPc'[n] = place
  BY Apart DEF Go, CvTypeOK, CvThreads

\* Through the gate one thread more is blocked, and nobody is called.
LEMMA BlockStep ==
  ASSUME CvInv, NEW w \in Waiters, Block(w)
  PROVE  CvInv'
<1> USE DEF CvInv
<1>1. /\ cvPc[w] = "enter" /\ gate > 0 /\ blocked' = blocked + 1 /\ Go(w, "release")
      /\ UNCHANGED <<use, unblock, gone, gate, queue, unblockLock, external, todo>>
  BY DEF Block
<1>2. /\ cvPc' \in [CvThreads -> WaiterPlaces \cup NotifierPlaces]
      /\ \A v \in Waiters : cvPc'[v] \in WaiterPlaces
      /\ \A n \in Notifiers : cvPc'[n] = cvPc[n] /\ cvPc'[n] \in NotifierPlaces
      /\ \A t \in CvThreads : t # w => cvPc'[t] = cvPc[t]
      /\ cvPc'[w] = "release"
  BY <1>1, WaiterGoes DEF WaiterPlaces
<1>3. CvTypeOK'
  BY <1>1, <1>2 DEF CvTypeOK
<1>4. unblock = 0
  BY <1>1 DEF GateInv, CvTypeOK
<1>5. unblockLock # w
  BY <1>1 DEF HolderInv
<1>6. Waiting' = Waiting \cup {w} /\ w \notin Waiting
  BY <1>1, <1>2, <1>5 DEF Waiting, CvThreads
<1>7. Awake' = Awake /\ At(Waiters, "drain")' = At(Waiters, "drain")
  BY <1>1, <1>2 DEF Awake, At, CvThreads
<1>8. Cardinality(Waiting') = Cardinality(Waiting) + 1
  BY <1>6, WaitingFinite, OneMore
<1>9. WaitersCounted'
  BY <1>1, <1>4, <1>8 DEF WaitersCounted, CvTypeOK
<1>10. GateInv' /\ CalledInv'
  BY <1>1, <1>4, <1>7 DEF GateInv, CalledInv
<1>11. HolderInv' /\ UseInv'
  BY <1>1, <1>2, <1>5, Apart DEF HolderInv, UseInv, Calling, CvThreads, CvTypeOK
<1>12. SignalInv'
  BY <1>1, <1>7 DEF SignalInv, Awake
<1> QED BY <1>3, <1>9, <1>10, <1>11, <1>12

\* A unit of the queue becomes a thread that is awake.
LEMMA WakeStep ==
  ASSUME CvInv, NEW w \in Waiters, Wake(w)
  PROVE  CvInv'
<1> USE DEF CvInv
<1>1. /\ cvPc[w] = "asleep" /\ queue > 0 /\ queue' = queue - 1 /\ Go(w, "awake")
      /\ UNCHANGED <<use, blocked, unblock, gone, gate, unblockLock, external, todo>>
  BY DEF Wake, counters
<1>2. /\ cvPc' \in [CvThreads -> WaiterPlaces \cup NotifierPlaces]
      /\ \A v \in Waiters : cvPc'[v] \in WaiterPlaces
      /\ \A n \in Notifiers : cvPc'[n] = cvPc[n] /\ cvPc'[n] \in NotifierPlaces
      /\ \A t \in CvThreads : t # w => cvPc'[t] = cvPc[t]
      /\ cvPc'[w] = "awake"
  BY <1>1, WaiterGoes DEF WaiterPlaces
<1>3. CvTypeOK'
  BY <1>1, <1>2 DEF CvTypeOK
<1>4. Waiting' = Waiting /\ At(Waiters, "drain")' = At(Waiters, "drain")
  BY <1>1, <1>2 DEF Waiting, At, CvThreads
<1>5. Awake' = Awake \cup {w} /\ w \notin Awake
  BY <1>1, <1>2 DEF Awake, At, CvThreads
<1>6. Cardinality(Awake') = Cardinality(Awake) + 1
  BY <1>5, WaitingFinite, OneMore
<1>7. WaitersCounted' /\ GateInv' /\ CalledInv'
  BY <1>1, <1>4 DEF WaitersCounted, GateInv, CalledInv
<1>8. HolderInv' /\ UseInv'
  BY <1>1, <1>2, Apart DEF HolderInv, UseInv, Calling, CvThreads, CvTypeOK
<1>9. SignalInv'
  <2> SUFFICES ASSUME use.timed = {}
               PROVE  /\ \A v \in Waiters : todo'[v] = 0
                      /\ Cardinality(Awake') + queue' + Posting' = unblock'
    BY <1>1 DEF SignalInv, Awake, Posting
  <2>1. Posting' = Posting /\ Posting \in Int
    BY <1>1, PostingInt DEF Posting
  <2>2. (\A v \in Waiters : todo[v] = 0) /\ Cardinality(Awake) + queue + Posting = unblock
    BY DEF SignalInv, Awake, Posting
  <2> QED BY <1>1, <1>6, <2>1, <2>2, WaitingFinite DEF CvTypeOK
<1> QED BY <1>3, <1>7, <1>8, <1>9

\* One more is gone; without timeouts nobody ever is.
LEMMA GiveUpStep ==
  ASSUME CvInv, NEW w \in Waiters, GiveUp(w)
  PROVE  CvInv'
<1> USE DEF CvInv
<1>1. /\ cvPc[w] \in {"awake", "late"} /\ unblockLock = Nobody /\ unblock = 0 /\ gone' = gone + 1
      /\ UNCHANGED <<use, blocked, unblock, gate, queue, external, todo>>
      /\ \/ unblockLock' = w /\ UNCHANGED cvPc
         \/ Go(w, "relock") /\ UNCHANGED unblockLock
  BY DEF GiveUp
<1>2. /\ cvPc' \in [CvThreads -> WaiterPlaces \cup NotifierPlaces]
      /\ \A v \in Waiters : cvPc'[v] \in WaiterPlaces
      /\ \A n \in Notifiers : cvPc'[n] = cvPc[n] /\ cvPc'[n] \in NotifierPlaces
      /\ \A t \in CvThreads : t # w => cvPc'[t] = cvPc[t]
      /\ \/ unblockLock' = w /\ cvPc'[w] = cvPc[w]
         \/ unblockLock' = Nobody /\ cvPc'[w] = "relock"
  BY <1>1, WaiterGoes DEF WaiterPlaces, CvTypeOK
<1>3. w \in CvThreads /\ w # Nobody
  BY Apart DEF CvThreads
<1>4. CvTypeOK'
  BY <1>1, <1>2, <1>3 DEF CvTypeOK
<1>5. Waiting' = Waiting \ {w} /\ w \in Waiting
  BY <1>1, <1>2, <1>3, Apart DEF Waiting, CvThreads
<1>6. Cardinality(Waiting') = Cardinality(Waiting) - 1
  BY <1>5, WaitingFinite, OneLess
<1>7. WaitersCounted'
  BY <1>1, <1>6 DEF WaitersCounted, CvTypeOK
<1>8. GateInv' /\ CalledInv'
  <2>1. At(Waiters, "drain")' \subseteq At(Waiters, "drain")
    BY <1>1, <1>2, <1>3 DEF At, CvThreads
  <2> QED BY <1>1, <2>1 DEF GateInv, CalledInv
<1>9. HolderInv' /\ UseInv'
  BY <1>1, <1>2, <1>3, Apart DEF HolderInv, UseInv, Calling, CvThreads, CvTypeOK
\* Nobody gives up without timeouts: a thread that is awake was called.
<1>10. SignalInv'
  <2>1. CASE use.timed = {}
    <3>1. w \in Awake
      BY <1>1, <2>1 DEF Awake, At, UseInv
    <3>2. Cardinality(Awake) >= 1
      BY <3>1, WaitingFinite, FS_EmptySet
    <3>3. Cardinality(Awake) + queue + Posting = 0
      BY <1>1, <2>1 DEF SignalInv, Awake, Posting
    <3>4. Posting >= 0
      BY PostingNat
    <3> QED BY <3>2, <3>3, <3>4, WaitingFinite, PostingInt DEF CvTypeOK
  <2>2. CASE use.timed # {}
    BY <1>1, <2>2 DEF SignalInv
  <2> QED BY <2>1, <2>2
<1> QED BY <1>4, <1>7, <1>8, <1>9, <1>10

\* A thread that was called leaves the count, and the last one opens the gate or
\* goes on to the signals left behind.
LEMMA SettleStep ==
  ASSUME CvInv, NEW w \in Waiters, Settle(w)
  PROVE  CvInv'
<1> USE DEF CvInv
<1> DEFINE late == cvPc[w] = "late"
           left == IF late /\ blocked = 0 THEN gone + 1 ELSE gone
           clear == unblock = 1 /\ blocked' = 0
<1>1. /\ cvPc[w] \in {"awake", "late"} /\ unblockLock = Nobody /\ unblock # 0
      /\ unblock' = unblock - 1
      /\ blocked' = IF late /\ blocked # 0 THEN blocked - 1 ELSE blocked
      /\ gone' = IF clear THEN 0 ELSE left
      /\ todo' = [todo EXCEPT ![w] = IF clear THEN left ELSE 0]
      /\ gate' = IF unblock = 1 /\ ~clear THEN gate + 1 ELSE gate
      /\ Go(w, IF clear THEN "drain" ELSE "relock")
      /\ UNCHANGED <<use, queue, unblockLock, external>>
  BY DEF Settle
<1>2. /\ cvPc' \in [CvThreads -> WaiterPlaces \cup NotifierPlaces]
      /\ \A v \in Waiters : cvPc'[v] \in WaiterPlaces
      /\ \A n \in Notifiers : cvPc'[n] = cvPc[n] /\ cvPc'[n] \in NotifierPlaces
      /\ \A t \in CvThreads : t # w => cvPc'[t] = cvPc[t]
      /\ cvPc'[w] = IF clear THEN "drain" ELSE "relock"
  BY <1>1, WaiterGoes DEF WaiterPlaces
<1>t. /\ blocked \in Nat /\ unblock \in Nat /\ gone \in Nat /\ gate = 0 /\ unblock > 0
      /\ left \in Nat /\ todo \in [CvThreads -> Nat]
      /\ At(Waiters, "drain") = {} /\ w \in CvThreads
  BY <1>1 DEF CvTypeOK, GateInv, CvThreads
<1>c. /\ blocked' \in Nat /\ unblock' \in Nat /\ gone' \in Nat /\ gate' \in {0, 1}
      /\ todo' \in [CvThreads -> Nat]
      /\ \A t \in CvThreads : t # w => todo'[t] = todo[t]
  BY <1>1, <1>t
\* Without timeouts nobody is late and no signal is left; with them, nobody is
\* blocked who was not called.
<1>3. blocked' = blocked /\ (unblock = 1 => gone' = 0)
      /\ IF use.timed = {} THEN ~ late /\ gone = 0 /\ gone' = 0 /\ left = 0 ELSE blocked = 0
  BY <1>1, <1>t DEF CalledInv, UseInv
<1>4. CvTypeOK'
  BY <1>1, <1>2, <1>c DEF CvTypeOK
<1>5. Waiting' = Waiting \ {w} /\ w \in Waiting
  BY <1>1, <1>2, <1>t, Apart DEF Waiting, CvThreads
<1>6. Cardinality(Waiting') = Cardinality(Waiting) - 1
  BY <1>5, WaitingFinite, OneLess
<1>7. Cardinality(Waiting) = blocked + unblock
  BY <1>1 DEF WaitersCounted
<1> HIDE DEF left, late
<1>8. WaitersCounted'
  <2>1. unblock' = unblock - 1 /\ Cardinality(Waiting') = blocked + unblock - 1
    BY <1>1, <1>6, <1>7, <1>t
  <2>2. blocked' = blocked
    BY <1>3
  <2>3. ASSUME unblock' = 0
        PROVE  gone' = 0
    <3>1. unblock = 1
      BY <1>t, <2>1, <2>3
    <3> QED BY <1>3, <3>1
  <2>4. Cardinality(Waiting') = IF unblock' = 0 THEN blocked' - gone' ELSE blocked' + unblock'
    BY <1>t, <2>1, <2>2, <2>3
  <2> QED BY <2>4 DEF WaitersCounted
<1>9. At(Waiters, "drain")' \subseteq {w} /\ (At(Waiters, "drain")' = {} \/ clear)
  BY <1>2, <1>t DEF At, CvThreads
<1>10. GateInv'
  BY <1>1, <1>t, <1>9 DEF GateInv
<1>11. CalledInv'
  BY <1>1, <1>3, <1>t DEF CalledInv
<1>12. HolderInv' /\ UseInv'
  BY <1>1, <1>2, <1>c, Apart DEF HolderInv, UseInv, Calling, CvThreads, CvTypeOK
<1>13. SignalInv'
  <2>1. CASE use.timed = {}
    <3>1. cvPc[w] = "awake" /\ Awake' = Awake \ {w} /\ w \in Awake
      BY <1>1, <1>2, <1>3, <2>1 DEF Awake, At, CvThreads, late
    <3>2. Cardinality(Awake') = Cardinality(Awake) - 1
      BY <3>1, WaitingFinite, OneLess
    <3>3. todo'[w] = 0
      BY <1>1, <1>3, <1>t, <2>1
    <3>4. Posting' = Posting
      BY <1>c, <1>t, PostingKept, Apart DEF CvThreads
    <3>5. (\A v \in Waiters : todo[v] = 0) /\ Cardinality(Awake) + queue + Posting = unblock
      BY <2>1 DEF SignalInv, Awake, Posting
    <3>6. \A v \in Waiters : todo'[v] = 0
      BY <1>c, <3>3, <3>5 DEF CvThreads
    <3>7. Cardinality(Awake') + queue' + Posting' = unblock'
      BY <1>1, <1>t, <3>2, <3>4, <3>5, WaitingFinite, PostingInt DEF CvTypeOK
    <3> QED BY <3>6, <3>7 DEF SignalInv, Awake, Posting
  <2>2. CASE use.timed # {}
    BY <1>1, <2>2 DEF SignalInv
  <2> QED BY <2>1, <2>2
<1> QED BY <1>4, <1>8, <1>10, <1>11, <1>12, <1>13

\* Blocked and gone shrink by the same number.
LEMMA TrimStep ==
  ASSUME CvInv, NEW w \in Waiters, Trim(w)
  PROVE  CvInv'
<1> USE DEF CvInv
<1>1. /\ unblockLock = w /\ gate > 0 /\ blocked' = blocked - gone /\ gone' = 0 /\ unblockLock' = Nobody
      /\ Go(w, "relock") /\ UNCHANGED <<use, unblock, gate, queue, external, todo>>
  BY DEF Trim
<1>2. /\ cvPc' \in [CvThreads -> WaiterPlaces \cup NotifierPlaces]
      /\ \A v \in Waiters : cvPc'[v] \in WaiterPlaces
      /\ \A n \in Notifiers : cvPc'[n] = cvPc[n] /\ cvPc'[n] \in NotifierPlaces
      /\ \A t \in CvThreads : t # w => cvPc'[t] = cvPc[t]
      /\ cvPc'[w] = "relock"
  BY <1>1, WaiterGoes DEF WaiterPlaces
<1>3. unblock = 0 /\ w # Nobody /\ cvPc[w] \in {"awake", "late"}
  BY <1>1, Apart DEF HolderInv, CvThreads
<1>4. Cardinality(Waiting) = blocked - gone
  BY <1>3 DEF WaitersCounted
<1>5. blocked' \in Nat
  BY <1>1, <1>4, WaitingFinite
<1>6. CvTypeOK'
  BY <1>1, <1>2, <1>5 DEF CvTypeOK
<1>7. Waiting' = Waiting
  BY <1>1, <1>2, <1>3, Apart DEF Waiting, CvThreads
<1>8. WaitersCounted'
  BY <1>1, <1>3, <1>4, <1>5, <1>7 DEF WaitersCounted
<1>9. GateInv' /\ CalledInv'
  <2>1. At(Waiters, "drain")' = At(Waiters, "drain")
    BY <1>2, <1>3 DEF At, CvThreads
  <2> QED BY <1>1, <1>3, <2>1 DEF GateInv, CalledInv
<1>10. HolderInv' /\ UseInv'
  BY <1>1, <1>2, <1>3, Apart DEF HolderInv, UseInv, Calling, CvThreads, CvTypeOK
<1>11. SignalInv'
  <2>1. CASE use.timed = {}
    <3>1. w \in Awake
      BY <1>3, <2>1 DEF Awake, At, UseInv
    <3>2. Cardinality(Awake) >= 1
      BY <3>1, WaitingFinite, FS_EmptySet
    <3>3. Cardinality(Awake) + queue + Posting = 0
      BY <1>3, <2>1 DEF SignalInv, Awake, Posting
    <3> QED BY <3>2, <3>3, PostingNat, WaitingFinite, PostingInt DEF CvTypeOK
  <2>2. CASE use.timed # {}
    BY <1>1, <2>2 DEF SignalInv
  <2> QED BY <2>1, <2>2
<1> QED BY <1>6, <1>8, <1>9, <1>10, <1>11

\* With the gate closed only one thread takes signals left behind.
LEMMA DrainStep ==
  ASSUME CvInv, NEW w \in Waiters, Drain(w) \/ OpenGate(w)
  PROVE  CvInv'
<1> USE DEF CvInv
<1>0. w \in CvThreads /\ w \in At(Waiters, "drain") /\ unblock = 0 /\ gate = 0
  <2>1. w \in At(Waiters, "drain")
    BY DEF Drain, OpenGate, At
  <2> QED BY <2>1 DEF GateInv, CvThreads, CvTypeOK
<1>1. CASE Drain(w)
  <2>1. /\ cvPc[w] = "drain" /\ todo[w] > 0 /\ queue > 0 /\ queue' = queue - 1
        /\ todo' = [todo EXCEPT ![w] = @ - 1]
        /\ UNCHANGED <<use, blocked, unblock, gone, gate, unblockLock, external, cvPc>>
    BY <1>1 DEF Drain, counters
  <2>2. CvTypeOK'
    BY <1>0, <2>1 DEF CvTypeOK
  <2>3. Waiting' = Waiting /\ At(Waiters, "drain")' = At(Waiters, "drain")
    BY <2>1 DEF Waiting, At
  <2>4. WaitersCounted' /\ GateInv' /\ CalledInv'
    BY <2>1, <2>3 DEF WaitersCounted, GateInv, CalledInv
  <2>5. HolderInv' /\ UseInv'
    BY <1>0, <2>1, Apart DEF HolderInv, UseInv, Calling, CvThreads, CvTypeOK
  <2>6. use.timed # {}
    BY <2>1 DEF SignalInv
  <2> QED BY <2>1, <2>2, <2>4, <2>5, <2>6 DEF SignalInv
<1>2. CASE OpenGate(w)
  <2>1. /\ cvPc[w] = "drain" /\ gate' = gate + 1 /\ Go(w, "relock")
        /\ UNCHANGED <<use, blocked, unblock, gone, queue, unblockLock, external, todo>>
    BY <1>2 DEF OpenGate, counters
  <2>2. /\ cvPc' \in [CvThreads -> WaiterPlaces \cup NotifierPlaces]
        /\ \A v \in Waiters : cvPc'[v] \in WaiterPlaces
        /\ \A n \in Notifiers : cvPc'[n] = cvPc[n] /\ cvPc'[n] \in NotifierPlaces
        /\ \A t \in CvThreads : t # w => cvPc'[t] = cvPc[t]
        /\ cvPc'[w] = "relock"
    BY <2>1, WaiterGoes DEF WaiterPlaces
  <2>3. CvTypeOK'
    BY <1>0, <2>1, <2>2 DEF CvTypeOK
  <2>4. Waiting' = Waiting /\ Awake' = Awake
    BY <2>1, <2>2 DEF Waiting, Awake, At, CvThreads
  <2>5. At(Waiters, "drain")' = {}
    BY <1>0, <2>2 DEF GateInv, At, CvThreads
  <2>6. WaitersCounted' /\ GateInv' /\ CalledInv'
    BY <1>0, <2>1, <2>4, <2>5 DEF WaitersCounted, GateInv, CalledInv
  <2>7. HolderInv' /\ UseInv'
    BY <1>0, <2>1, <2>2, Apart DEF HolderInv, UseInv, Calling, CvThreads, CvTypeOK
  <2>8. SignalInv'
    BY <2>1, <2>4 DEF SignalInv, Awake
  <2> QED BY <2>3, <2>6, <2>7, <2>8
<1> QED BY <1>1, <1>2

\* notify before it has changed a counter.
LEMMA NotifyQuietStep ==
  ASSUME CvInv, NEW n \in Notifiers,
         (\E which \in use.calls : CallNotify(n, which)) \/ NotifyNone(n) \/ NotifyBegin(n)
  PROVE  CvInv'
<1> USE DEF CvInv
<1>0. n \in CvThreads /\ n # Nobody /\ n \notin Waiters
  BY Apart DEF CvThreads
<1>1. ASSUME NEW place \in NotifierPlaces, Go(n, place), cvPc[n] # "post", place # "post",
             UNCHANGED <<use, counters, gate, queue, unblockLock, external, todo>>, unblockLock # n,
             place \in {"one", "all"} => place \in use.calls
      PROVE  CvInv'
  <2>2. /\ cvPc' \in [CvThreads -> WaiterPlaces \cup NotifierPlaces]
        /\ \A v \in Waiters : cvPc'[v] = cvPc[v] /\ cvPc'[v] \in WaiterPlaces
        /\ \A m \in Notifiers : cvPc'[m] \in NotifierPlaces
        /\ \A t \in CvThreads : t # n => cvPc'[t] = cvPc[t]
        /\ cvPc'[n] = place
    BY <1>1, NotifierGoes
  <2>3. CvTypeOK'
    BY <1>1, <2>2 DEF CvTypeOK, counters
  <2>4. Waiting' = Waiting /\ Awake' = Awake /\ At(Waiters, "drain")' = At(Waiters, "drain")
    BY <1>1, <2>2 DEF Waiting, Awake, At
  <2>5. WaitersCounted' /\ GateInv' /\ CalledInv' /\ SignalInv'
    BY <1>1, <2>4 DEF WaitersCounted, GateInv, CalledInv, SignalInv, Awake, counters
  <2>6. HolderInv' /\ UseInv'
    BY <1>0, <1>1, <2>2, Apart DEF HolderInv, UseInv, Calling, CvThreads, CvTypeOK, counters
  <2> QED BY <2>3, <2>5, <2>6
<1>2. CASE \E which \in use.calls : CallNotify(n, which)
  <2>1. PICK which \in use.calls : CallNotify(n, which)
    BY <1>2
  <2>2. which \in {"one", "all"}
    BY <2>1, ConditionAssumption DEF CvTypeOK
  <2>3. unblockLock # n
    BY <2>1, <1>0 DEF CallNotify, HolderInv, Calling
  <2> QED BY <1>1, <2>1, <2>2, <2>3 DEF CallNotify, NotifierPlaces
<1>3. CASE NotifyNone(n)
  <2>1. unblockLock # n /\ cvPc[n] # "post"
    BY <1>3, <1>0 DEF NotifyNone, Calling
  <2> QED BY <1>1, <1>3, <2>1 DEF NotifyNone, NotifierPlaces
<1>4. CASE NotifyBegin(n)
  <2>1. /\ Calling(n) /\ unblockLock = Nobody /\ unblock = 0 /\ blocked > gone /\ unblockLock' = n
        /\ UNCHANGED <<use, blocked, unblock, gone, gate, queue, external, cvPc, todo>>
    BY <1>4 DEF NotifyBegin, counters
  <2>2. CvTypeOK'
    BY <1>0, <2>1 DEF CvTypeOK
  <2>3. Waiting' = Waiting
    BY <1>0, <2>1, Apart DEF Waiting, CvThreads
  <2>4. WaitersCounted' /\ GateInv' /\ CalledInv' /\ SignalInv'
    BY <2>1, <2>3 DEF WaitersCounted, GateInv, CalledInv, SignalInv, At
  <2>5. HolderInv' /\ UseInv'
    BY <1>0, <2>1 DEF HolderInv, UseInv, Calling
  <2> QED BY <2>2, <2>4, <2>5
<1> QED BY <1>2, <1>3, <1>4

\* A notification moves a number of threads from the blocked to those called.
LEMMA SignalStep ==
  ASSUME CvInv, Unmixed, NEW n \in Notifiers, NotifyMore(n) \/ NotifyClose(n)
  PROVE  CvInv'
<1> USE DEF CvInv
<1>0. n \in CvThreads /\ n # Nobody /\ n \notin Waiters
  BY Apart DEF CvThreads
<1>t. blocked \in Nat /\ unblock \in Nat /\ gone \in Nat /\ todo \in [CvThreads -> Nat] /\ gate \in {0, 1}
  BY DEF CvTypeOK
<1> DEFINE free == blocked - (IF unblock = 0 THEN gone ELSE 0)
           k == Signals(n, free)
<1>1. /\ Calling(n) /\ free > 0 /\ gate' = 0
      /\ unblock' = unblock + k /\ blocked' = free - k
      /\ todo' = [todo EXCEPT ![n] = k] /\ Go(n, "post")
      /\ unblockLock' = Nobody /\ UNCHANGED <<use, queue, external>>
      /\ gone' = IF unblock = 0 THEN 0 ELSE gone
  <2>1. CASE NotifyMore(n)
    <3>1. gate = 0
      BY <2>1 DEF NotifyMore, GateInv
    <3> QED BY <1>t, <2>1, <3>1 DEF NotifyMore
  <2>2. CASE NotifyClose(n)
    <3>1. unblock = 0 /\ Calling(n) /\ blocked > gone /\ gate = 1
      BY <1>0, <1>t, <2>2 DEF NotifyClose, HolderInv
    <3>2. free = blocked - gone /\ k = Signals(n, blocked - gone) /\ free > 0
      BY <1>t, <3>1
    <3>3. /\ gate' = gate - 1 /\ gone' = 0
          /\ unblock' = Signals(n, blocked - gone)
          /\ blocked' = blocked - gone - Signals(n, blocked - gone)
          /\ todo' = [todo EXCEPT ![n] = Signals(n, blocked - gone)]
          /\ unblockLock' = Nobody /\ Go(n, "post") /\ UNCHANGED <<use, queue, external>>
      BY <2>2 DEF NotifyClose
    <3> HIDE DEF free, k
    <3>4. unblock' = k /\ blocked' = free - k /\ todo' = [todo EXCEPT ![n] = k]
      BY <3>2, <3>3
    <3>5. k \in Nat
      BY <1>t, <3>1, <3>2 DEF Signals
    <3> QED BY <1>t, <3>1, <3>2, <3>3, <3>4, <3>5
  <2> QED BY <2>1, <2>2
<1>2. free \in Nat /\ k \in Nat /\ 0 < k /\ k <= free
  BY <1>1, <1>t DEF Signals
<1>3. use.timed # {} => k = free
  <2>1. cvPc[n] \in use.calls
    BY <1>1 DEF UseInv
  <2> QED BY <1>1, <2>1 DEF Unmixed, Signals, Calling
<1> HIDE DEF k, free
<1>c. /\ blocked' \in Nat /\ unblock' \in Nat /\ gone' \in Nat /\ unblock' > 0
      /\ todo' \in [CvThreads -> Nat]
  <2>1. /\ unblock' = unblock + k /\ blocked' = free - k /\ todo' = [todo EXCEPT ![n] = k]
        /\ gone' = gone \/ gone' = 0
    BY <1>1
  <2>2. blocked' \in Nat /\ unblock' \in Nat /\ unblock' > 0
    BY <1>2, <1>t, <2>1
  <2>3. todo' \in [CvThreads -> Nat]
    BY <1>2, <1>t, <2>1
  <2>4. gone' \in Nat
    BY <1>t, <2>1
  <2> QED BY <2>2, <2>3, <2>4
<1>4. /\ cvPc' \in [CvThreads -> WaiterPlaces \cup NotifierPlaces]
      /\ \A v \in Waiters : cvPc'[v] = cvPc[v] /\ cvPc'[v] \in WaiterPlaces
      /\ \A m \in Notifiers : cvPc'[m] \in NotifierPlaces
      /\ \A t \in CvThreads : t # n => cvPc'[t] = cvPc[t]
      /\ cvPc'[n] = "post"
  BY <1>1, NotifierGoes DEF NotifierPlaces
<1>5. CvTypeOK'
  BY <1>1, <1>c, <1>4 DEF CvTypeOK
<1>6. Waiting' = Waiting /\ Awake' = Awake /\ At(Waiters, "drain")' = At(Waiters, "drain")
  <2>1. unblockLock \in {n, Nobody}
    BY DEF NotifyMore, NotifyClose
  <2> QED BY <1>0, <1>1, <1>4, <2>1, Apart DEF Waiting, Awake, At, CvThreads
<1>7. At(Waiters, "drain") = {}
  <2>1. gate = 1 \/ unblock # 0
    BY <1>t DEF NotifyMore, NotifyClose
  <2> QED BY <2>1 DEF GateInv
<1>8. WaitersCounted'
  BY <1>1, <1>2, <1>c, <1>t, <1>6 DEF WaitersCounted, free
<1>9. GateInv'
  BY <1>1, <1>6, <1>7 DEF GateInv
<1>10. CalledInv'
  <2>1. CASE use.timed = {}
    BY <1>1, <1>t, <2>1 DEF CalledInv
  <2>2. CASE use.timed # {}
    BY <1>1, <1>2, <1>3, <2>2 DEF CalledInv
  <2> QED BY <2>1, <2>2
<1>11. HolderInv' /\ UseInv'
  BY <1>0, <1>1, <1>2, <1>4, <1>c, <1>t, Apart DEF HolderInv, UseInv, Calling, CvThreads
<1>12. SignalInv'
  <2>1. todo[n] = 0
    BY <1>1 DEF UseInv, Calling
  <2>2. todo'[n] = k /\ \A t \in CvThreads : t # n => todo'[t] = todo[t]
    BY <1>0, <1>1, <1>t
  <2>3. Posting' = Posting + k
    <3>1. todo' \in [CvThreads -> Nat]
      BY <1>5 DEF CvTypeOK
    <3>2. Posting' = Posting - todo[n] + todo'[n]
      BY <1>0, <2>2, <3>1, PostingKept
    <3> QED BY <1>2, <2>1, <2>2, <3>2, PostingInt
  <2>4. ASSUME use.timed = {}
        PROVE  (\A w \in Waiters : todo'[w] = 0) /\ Cardinality(Awake') + queue' + Posting' = unblock'
    <3>1. (\A w \in Waiters : todo[w] = 0) /\ Cardinality(Awake) + queue + Posting = unblock
      BY <2>4 DEF SignalInv, Awake, Posting
    <3>2. \A w \in Waiters : todo'[w] = 0
      BY <1>0, <2>2, <3>1 DEF CvThreads
    <3> QED BY <1>1, <1>2, <1>6, <2>3, <3>1, <3>2, WaitingFinite, PostingInt DEF CvTypeOK
  <2> QED BY <1>1, <2>4 DEF SignalInv, Awake, Posting
<1> QED BY <1>5, <1>8, <1>9, <1>10, <1>11, <1>12

\* A signal posted is a unit of the queue instead.
LEMMA PostStep ==
  ASSUME CvInv, NEW n \in Notifiers, NotifyPost(n)
  PROVE  CvInv'
<1> USE DEF CvInv
<1>0. n \in CvThreads /\ n # Nobody /\ n \notin Waiters
  BY Apart DEF CvThreads
<1>t. todo \in [CvThreads -> Nat] /\ queue \in Nat
  BY DEF CvTypeOK
<1>1. /\ cvPc[n] = "post" /\ queue' = queue + 1 /\ todo' = [todo EXCEPT ![n] = @ - 1]
      /\ Go(n, IF todo[n] = 1 THEN "out" ELSE "post")
      /\ UNCHANGED <<use, blocked, unblock, gone, gate, unblockLock, external>>
  BY DEF NotifyPost, counters
<1>2. todo[n] > 0 /\ todo'[n] = todo[n] - 1 /\ \A t \in CvThreads : t # n => todo'[t] = todo[t]
  BY <1>0, <1>1, <1>t DEF UseInv
<1>3. /\ cvPc' \in [CvThreads -> WaiterPlaces \cup NotifierPlaces]
      /\ \A v \in Waiters : cvPc'[v] = cvPc[v] /\ cvPc'[v] \in WaiterPlaces
      /\ \A m \in Notifiers : cvPc'[m] \in NotifierPlaces
      /\ \A t \in CvThreads : t # n => cvPc'[t] = cvPc[t]
      /\ cvPc'[n] = IF todo[n] = 1 THEN "out" ELSE "post"
  BY <1>1, NotifierGoes DEF NotifierPlaces
<1>4. todo' \in [CvThreads -> Nat]
  BY <1>0, <1>1, <1>2, <1>t
<1>5. CvTypeOK'
  BY <1>1, <1>3, <1>4, <1>t DEF CvTypeOK
<1>6. Waiting' = Waiting /\ Awake' = Awake /\ At(Waiters, "drain")' = At(Waiters, "drain")
  BY <1>1, <1>3 DEF Waiting, Awake, At
<1>7. WaitersCounted' /\ GateInv' /\ CalledInv'
  BY <1>1, <1>6 DEF WaitersCounted, GateInv, CalledInv
<1>8. HolderInv'
  BY <1>0, <1>1, <1>3, Apart DEF HolderInv, Calling, CvThreads
<1>9. UseInv'
  BY <1>0, <1>1, <1>2, <1>3, <1>t, Apart DEF UseInv, Calling, CvThreads
<1>10. SignalInv'
  <2>1. Posting' = Posting - 1
    <3>1. Posting' = Posting - todo[n] + todo'[n]
      BY <1>0, <1>2, <1>4, PostingKept
    <3> QED BY <1>0, <1>2, <1>t, <3>1, PostingInt
  <2>2. ASSUME use.timed = {}
        PROVE  (\A w \in Waiters : todo'[w] = 0) /\ Cardinality(Awake') + queue' + Posting' = unblock'
    <3>1. (\A w \in Waiters : todo[w] = 0) /\ Cardinality(Awake) + queue + Posting = unblock
      BY <2>2 DEF SignalInv, Awake, Posting
    <3>2. \A w \in Waiters : todo'[w] = 0
      BY <1>0, <1>2, <3>1 DEF CvThreads
    <3> QED BY <1>1, <1>t, <1>6, <2>1, <3>1, <3>2, WaitingFinite, PostingInt
  <2> QED BY <1>1, <2>2 DEF SignalInv, Awake, Posting
<1> QED BY <1>5, <1>7, <1>8, <1>9, <1>10

\* Every step keeps the invariant, when timeouts and notify_one are not mixed.
LEMMA CvInvNext ==
  ASSUME CvInv, Unmixed, [CvNext]_cvVars
  PROVE  CvInv'
<1>1. ASSUME NEW w \in Waiters, Wait(w)
      PROVE  CvInv'
  BY <1>1, QuietStep, BlockStep, WakeStep, GiveUpStep, SettleStep, TrimStep, DrainStep DEF Wait, GoOn
<1>2. ASSUME NEW n \in Notifiers, (\E which \in use.calls : CallNotify(n, which)) \/ Notify(n)
      PROVE  CvInv'
  <2>1. CASE (\E which \in use.calls : CallNotify(n, which)) \/ NotifyNone(n) \/ NotifyBegin(n)
    BY <2>1, NotifyQuietStep
  <2>2. CASE NotifyMore(n) \/ NotifyClose(n)
    BY <2>2, SignalStep
  <2>3. CASE NotifyPost(n)
    BY <2>3, PostStep
  <2> QED BY <1>2, <2>1, <2>2, <2>3 DEF Notify
<1>3. CASE UNCHANGED cvVars
  <2>1. Waiting' = Waiting /\ Awake' = Awake /\ At(Waiters, "drain")' = At(Waiters, "drain")
    BY <1>3 DEF cvVars, Waiting, Awake, At
  <2>2. CvTypeOK' /\ HolderInv' /\ UseInv'
    BY <1>3 DEF CvInv, cvVars, CvTypeOK, HolderInv, UseInv, Calling
  <2>3. GateInv' /\ WaitersCounted' /\ CalledInv' /\ SignalInv'
    BY <1>3, <2>1 DEF CvInv, cvVars, GateInv, WaitersCounted, CalledInv, SignalInv, Awake
  <2> QED BY <2>2, <2>3 DEF CvInv
<1> QED BY <1>1, <1>2, <1>3 DEF CvNext

\* The use of the object never changes.
LEMMA UseKept == [CvNext]_cvVars => use' = use
  BY DEF CvNext, cvVars, Wait, GoOn, Notify, CallWait, Block, ReleaseExternal, Wake, Timeout,
         Settle, GiveUp, Trim, Drain, OpenGate, Relock, Leave, CallNotify, NotifyNone, NotifyMore,
         NotifyBegin, NotifyClose, NotifyPost

\* The invariant holds in every behaviour whose use is not mixed.
LEMMA CvInvariance == CvSpec => [](use \in Uses /\ (Unmixed => CvInv))
<1>1. CvInit => use \in Uses /\ (Unmixed => CvInv)
  BY CvInvInit DEF CvInit
<1>2. (use \in Uses /\ (Unmixed => CvInv)) /\ [CvNext]_cvVars => (use \in Uses /\ (Unmixed => CvInv))'
  BY CvInvNext, UseKept DEF Unmixed
<1> QED BY <1>1, <1>2, PTL DEF CvSpec

\* blocked_waiters_, unblock_waiters_ and gone_waiters_ account for every thread
\* inside wait, for any numbers of threads: unless some time out while others are
\* called with notify_one, the use in which the code itself loses count.
THEOREM WaitersAreCounted ==
  ASSUME \A u \in Uses : u.timed = {} \/ "one" \notin u.calls
  PROVE  CvSpec => []WaitersCounted
<1>1. use \in Uses /\ (Unmixed => CvInv) => WaitersCounted
  BY DEF Unmixed, CvInv
<1> QED BY <1>1, CvInvariance, PTL

\* Without timeouts a thread that settles was called: nobody gives up.
LEMMA AwakeWasCalled ==
  ASSUME CvInv, use.timed = {}, NEW w \in Waiters, cvPc[w] \in {"awake", "late"}
  PROVE  unblock # 0
<1> USE DEF CvInv
<1>1. w \in Awake
  BY DEF UseInv, Awake, At
<1>2. Cardinality(Awake) >= 1
  BY <1>1, WaitingFinite, FS_EmptySet
<1>3. Cardinality(Awake) + queue + Posting = unblock
  BY DEF SignalInv, Awake, Posting
<1> QED BY <1>2, <1>3, PostingNat, WaitingFinite, PostingInt DEF CvTypeOK

\* What a waiting thread does is a step of WaitSet, or none.
LEMMA WaiterImplements ==
  ASSUME CvInv, use.timed = {}, NEW w \in Waiters, Wait(w)
  PROVE  Abstract!Next \/ UNCHANGED <<Waiting, unblock>>
<1> USE DEF CvInv
<1>0. w \in CvThreads /\ w # Nobody /\ w \notin Notifiers
  BY Apart DEF CvThreads
<1>1. CASE CallWait(w) \/ ReleaseExternal(w) \/ Timeout(w) \/ Relock(w) \/ Leave(w) \/ Wake(w)
  BY <1>0, <1>1
     DEF CallWait, ReleaseExternal, Timeout, Relock, Leave, Wake, Go, counters, Waiting, CvThreads, CvTypeOK
<1>2. CASE Block(w)
  <2>1. unblock = 0 /\ unblock' = unblock /\ unblockLock # w
    BY <1>2 DEF Block, GateInv, CvTypeOK, HolderInv
  <2>2. Waiting' = Waiting \cup {w} /\ w \notin Waiting
    BY <1>0, <1>2, <2>1 DEF Block, Go, Waiting, CvThreads, CvTypeOK
  <2> QED BY <2>1, <2>2 DEF Abstract!Next, Abstract!Join
<1>3. CASE Settle(w)
  <2>1. unblock \in Nat /\ unblock > 0 /\ unblock' = unblock - 1 /\ unblockLock = Nobody
    BY <1>3 DEF Settle, CvTypeOK
  <2>2. Waiting' = Waiting \ {w} /\ w \in Waiting
    BY <1>0, <1>3 DEF Settle, Go, Waiting, CvThreads, CvTypeOK
  <2> QED BY <2>1, <2>2 DEF Abstract!Next, Abstract!Wake
<1>4. CASE GiveUp(w) \/ Trim(w)
  <2>1. cvPc[w] \in {"awake", "late"} /\ unblock = 0
    BY <1>0, <1>4 DEF GiveUp, Trim, HolderInv
  <2> QED BY <2>1, AwakeWasCalled
<1>5. CASE Drain(w) \/ OpenGate(w)
  BY <1>0, <1>5 DEF Drain, OpenGate, Go, counters, Waiting, CvThreads, CvTypeOK
<1> QED BY <1>1, <1>2, <1>3, <1>4, <1>5 DEF Wait, GoOn

\* What a notifying thread does is a step of WaitSet, or none.
LEMMA NotifierImplements ==
  ASSUME CvInv, NEW n \in Notifiers, (\E which \in use.calls : CallNotify(n, which)) \/ Notify(n)
  PROVE  Abstract!Next \/ UNCHANGED <<Waiting, unblock>>
<1> USE DEF CvInv
<1>0. n \in CvThreads /\ n # Nobody /\ n \notin Waiters
  BY Apart DEF CvThreads
<1>t. blocked \in Nat /\ unblock \in Nat /\ gone \in Nat
  BY DEF CvTypeOK
<1>1. CASE (\E which \in use.calls : CallNotify(n, which)) \/ NotifyNone(n) \/ NotifyBegin(n) \/ NotifyPost(n)
  <2>1. /\ UNCHANGED <<blocked, unblock, gone>>
        /\ unblockLock' = unblockLock \/ (unblockLock = Nobody /\ unblockLock' = n)
        /\ cvPc' = cvPc \/ \E place : Go(n, place)
    BY <1>1 DEF CallNotify, NotifyNone, NotifyBegin, NotifyPost, counters
  <2>2. \A w \in Waiters : cvPc'[w] = cvPc[w] /\ (unblockLock' = w <=> unblockLock = w)
    BY <1>0, <2>1, Apart DEF Go, CvThreads, CvTypeOK
  <2>3. Waiting' = Waiting
    BY <2>2 DEF Waiting
  <2> QED BY <2>1, <2>3
<1>2. ASSUME NotifyMore(n) \/ NotifyClose(n)
      PROVE  /\ Waiting' = Waiting
             /\ unblock < Cardinality(Waiting)
             /\ unblock' = unblock + 1 \/ unblock' = Cardinality(Waiting)
  <2>1. unblockLock \in {n, Nobody} /\ unblockLock' \in {n, Nobody} /\ Go(n, "post")
    BY <1>2 DEF NotifyMore, NotifyClose
  <2>2. Waiting' = Waiting
    BY <1>0, <2>1, Apart DEF Go, Waiting, CvThreads, CvTypeOK
  <2>3. CASE NotifyMore(n)
    BY <1>t, <2>2, <2>3 DEF NotifyMore, Signals, WaitersCounted
  <2>4. CASE NotifyClose(n)
    <3>1. unblock = 0 /\ blocked > gone
      BY <1>0, <2>4 DEF NotifyClose, HolderInv
    <3> QED BY <1>t, <2>2, <2>4, <3>1 DEF NotifyClose, Signals, WaitersCounted
  <2> QED BY <1>2, <2>3, <2>4
<1>3. CASE NotifyMore(n) \/ NotifyClose(n)
  BY <1>2, <1>3 DEF Abstract!Next, Abstract!NotifyOne, Abstract!NotifyAll, Abstract!Cardinality, Cardinality
<1> QED BY <1>1, <1>3 DEF Notify

\* Without timeouts no wakeup is spurious, none is lost and none is stolen by a
\* thread that came after the notification: condition_base implements WaitSet.
THEOREM WaitSetIsImplemented == CvSpec => ImplementsWaitSet
<1>1. CvInit => Abstract!Init
  BY DEF CvInit, Abstract!Init, Waiting, CvThreads
<1>2. (use \in Uses /\ (Unmixed => CvInv)) /\ [CvNext]_cvVars
        => [use.timed = {} => Abstract!Next]_(Abstract!vars)
  <2> SUFFICES ASSUME use.timed = {}, CvInv, [CvNext]_cvVars
               PROVE  Abstract!Next \/ UNCHANGED <<Waiting, unblock>>
    BY DEF Unmixed, Abstract!vars
  <2>1. CASE UNCHANGED cvVars
    BY <2>1 DEF cvVars, Waiting
  <2> QED BY <2>1, WaiterImplements, NotifierImplements DEF CvNext
<1> QED BY <1>1, <1>2, CvInvariance, PTL DEF CvSpec, ImplementsWaitSet

(***************************************************************************)
(* The fifos.                                                              *)
(***************************************************************************)
FifoTypeOK ==
  /\ ring \in [Slots -> Orders \cup {NoOrder}]
  /\ pidx \in Slots /\ cidx \in Slots
  /\ psem \in Nat /\ csem \in Nat /\ peeked \in Nat
  /\ pmutex \in Adders \cup {NoThread} /\ cmutex \in Removers \cup {NoThread}
  /\ step \in [Threads -> {"idle", "index", "write", "read", "notify"}]
  /\ loc \in [Threads -> Slots]
  /\ pushed \in [Adders -> Orders \cup {NoOrder}]
  /\ popped \in [Removers -> Orders \cup {NoOrder}]

\* A mutex is held by the thread that works on a slot, and what a producer
\* brings is an order.
SidesInv ==
  /\ \A a \in Adders : /\ step[a] # "read"
                       /\ step[a] = "write" <=> pmutex = a
                       /\ step[a] # "idle" => pushed[a] \in Orders
  /\ \A r \in Removers : /\ step[r] # "write"
                         /\ step[r] = "read" <=> cmutex = r

\* Every slot is accounted for: free, held by a call, or with an item.
SlotsCounted ==
  psem + Cardinality(Doing(Adders, "index")) + Cardinality(Doing(Adders, "write"))
    + ItemCount + Cardinality(Doing(Removers, "notify")) = RingSize

\* The slot k places after the first item.
SlotAfter(k) == (FirstSlot + k) % RingSize

\* The indices are where the items begin and end, although neither side reads
\* the other's.
IndexInv ==
  /\ cmutex # NoThread => cidx = NextSlot(loc[cmutex])
  /\ IF pmutex = NoThread
     THEN pidx = SlotAfter(ItemCount)
     ELSE pidx = NextSlot(loc[pmutex]) /\ loc[pmutex] = SlotAfter(ItemCount)

FifoInv == FifoTypeOK /\ SidesInv /\ SlotsCounted /\ IndexInv

\* Where a thread may be in its call, and how many are there.
Steps == {"idle", "index", "write", "read", "notify"}
Number(S, s) == Cardinality(Doing(S, s))

\* Producers, consumers and NoThread are told apart.
LEMMA FifoApart == Adders \cap Removers = {} /\ NoThread \notin Threads
  BY ThreadsAssumption DEF Threads

\* Threads at a step are finitely many.
LEMMA DoingFinite ==
  ASSUME NEW S \in {Adders, Removers}, NEW s
  PROVE  IsFiniteSet(Doing(S, s)) /\ Number(S, s) \in Nat
<1>1. IsFiniteSet(S) /\ Doing(S, s) \subseteq S
  BY ThreadsAssumption DEF Doing
<1> QED BY <1>1, FS_Subset, FS_CardinalityType DEF Number

LEMMA NumberNat == \A s : Number(Adders, s) \in Nat /\ Number(Removers, s) \in Nat
  BY DoingFinite

\* A thread that moves leaves the others at their steps, and the numbers of threads
\* change by one at the two ends.
LEMMA ThreadMoves ==
  ASSUME FifoTypeOK, NEW t \in Threads, NEW from \in Steps, NEW to \in Steps, from # to,
         step[t] = from, GoTo(t, to)
  PROVE  /\ step' \in [Threads -> Steps]
         /\ step'[t] = to
         /\ \A u \in Threads : u # t => step'[u] = step[u]
  BY DEF FifoTypeOK, GoTo, Steps

LEMMA NumbersMove ==
  ASSUME FifoTypeOK, NEW S \in {Adders, Removers}, NEW t \in S, NEW from \in Steps, NEW to \in Steps,
         from # to, step[t] = from, GoTo(t, to)
  PROVE  /\ Number(S, to)' = Number(S, to) + 1
         /\ Number(S, from)' = Number(S, from) - 1
         /\ \A s : s # from /\ s # to => Number(S, s)' = Number(S, s)
         /\ \A T \in {Adders, Removers} : \A s : T # S => Number(T, s)' = Number(T, s)
<1>0. S \subseteq Threads /\ t \in Threads
  BY DEF Threads
<1>1. step'[t] = to /\ \A u \in Threads : u # t => step'[u] = step[u]
  BY <1>0, ThreadMoves
<1>2. Doing(S, to)' = Doing(S, to) \cup {t} /\ t \notin Doing(S, to)
  BY <1>0, <1>1 DEF Doing
<1>3. Doing(S, from)' = Doing(S, from) \ {t} /\ t \in Doing(S, from)
  BY <1>0, <1>1 DEF Doing
<1>4. \A s : s # from /\ s # to => Doing(S, s)' = Doing(S, s)
  BY <1>0, <1>1 DEF Doing
<1>5. ASSUME NEW T \in {Adders, Removers}, NEW s, T # S
      PROVE  Doing(T, s)' = Doing(T, s)
  BY <1>1, <1>5, FifoApart DEF Doing, Threads
<1>6. Number(S, to)' = Number(S, to) + 1
  BY <1>2, DoingFinite, FS_AddElement DEF Number
<1>7. Number(S, from)' = Number(S, from) - 1
  BY <1>3, DoingFinite, FS_RemoveElement DEF Number
<1> QED BY <1>4, <1>5, <1>6, <1>7 DEF Number

\* The two counts, in numbers of threads.
LEMMA ItemCountIs ==
  ItemCount = csem + peeked + Number(Adders, "notify")
                + Number(Removers, "index") + Number(Removers, "read")
  BY DEF ItemCount, Number

LEMMA SlotsCountedIs ==
  SlotsCounted <=>
    psem + Number(Adders, "index") + Number(Adders, "write")
      + ItemCount + Number(Removers, "notify") = RingSize
  BY DEF SlotsCounted, Number

\* Slots are counted modulo the size of the ring.
LEMMA RingArithmetic ==
  ASSUME NEW f \in Slots, NEW k \in 0..RingSize
  PROVE  /\ (f + k) % RingSize = IF f + k < RingSize THEN f + k ELSE f + k - RingSize
         /\ (f + k) % RingSize \in Slots
  BY RingAssumption, SMT DEF Slots

LEMMA NextAfter ==
  ASSUME NEW f \in Slots, NEW k \in 0..(RingSize - 1)
  PROVE  /\ NextSlot((f + k) % RingSize) = (f + (k + 1)) % RingSize
         /\ (NextSlot(f) + k) % RingSize = (f + (k + 1)) % RingSize
         /\ NextSlot(f) \in Slots
<1>1. k \in 0..RingSize /\ k + 1 \in 0..RingSize /\ RingSize \in Nat \ {0}
  BY RingAssumption
<1>2. (f + k) % RingSize = IF f + k < RingSize THEN f + k ELSE f + k - RingSize
  BY <1>1, RingArithmetic
<1>3. (f + (k + 1)) % RingSize = IF f + (k + 1) < RingSize THEN f + (k + 1) ELSE f + (k + 1) - RingSize
  BY <1>1, RingArithmetic
<1>4. NextSlot(f) \in Slots /\ NextSlot(f) = IF f + 1 = RingSize THEN 0 ELSE f + 1
  BY <1>1 DEF NextSlot, Slots
<1>5. (NextSlot(f) + k) % RingSize
        = IF NextSlot(f) + k < RingSize THEN NextSlot(f) + k ELSE NextSlot(f) + k - RingSize
  BY <1>1, <1>4, RingArithmetic
<1>6. f \in 0..(RingSize - 1)
  BY DEF Slots
<1>7. NextSlot((f + k) % RingSize) = (f + (k + 1)) % RingSize
  BY <1>1, <1>2, <1>3, <1>6 DEF NextSlot
<1>8. (NextSlot(f) + k) % RingSize = (f + (k + 1)) % RingSize
  BY <1>1, <1>3, <1>4, <1>5, <1>6
<1> QED BY <1>4, <1>7, <1>8

\* The first item is in a slot.
LEMMA FirstSlotType == FifoTypeOK => FirstSlot \in Slots
  BY DEF FifoTypeOK, FirstSlot, Threads

\* In the beginning all slots are free.
LEMMA FifoInvInit == FifoInit => FifoInv
<1> SUFFICES ASSUME FifoInit PROVE FifoInv
  OBVIOUS
<1>1. FifoTypeOK
  BY RingAssumption DEF FifoInit, FifoTypeOK, Slots
<1>2. SidesInv
  BY FifoApart DEF FifoInit, SidesInv, Threads
<1>3. \A S \in {Adders, Removers} : \A s \in Steps \ {"idle"} : Number(S, s) = 0
  <2>1. ASSUME NEW S \in {Adders, Removers}, NEW s \in Steps \ {"idle"}
        PROVE  Doing(S, s) = {}
    BY DEF FifoInit, Doing, Threads
  <2> QED BY <2>1, FS_EmptySet DEF Number
<1>4. ItemCount = 0
  BY <1>3, ItemCountIs DEF FifoInit, Steps
<1>5. SlotsCounted
  BY <1>3, <1>4, SlotsCountedIs, RingAssumption DEF FifoInit, Steps
<1>6. IndexInv
  <2>1. SlotAfter(0) = 0
    BY RingAssumption, RingArithmetic, FirstSlotType, <1>1 DEF FifoInit, SlotAfter, FirstSlot, Slots
  <2> QED BY <1>4, <2>1 DEF FifoInit, IndexInv
<1> QED BY <1>1, <1>2, <1>5, <1>6 DEF FifoInv

\* A side's own steps keep its mutex with the thread at work.
LEMMA PushSides ==
  ASSUME FifoInv, NEW a \in Adders, NEW from \in Steps, NEW to \in Steps \ {"read"}, from # to,
         step[a] = from, GoTo(a, to), UNCHANGED cmutex,
         pushed' \in [Adders -> Orders \cup {NoOrder}],
         \A b \in Adders : b # a => pushed'[b] = pushed[b], pushed'[a] \in Orders,
         \/ from # "write" /\ to # "write" /\ UNCHANGED pmutex
         \/ to = "write" /\ pmutex = NoThread /\ pmutex' = a
         \/ from = "write" /\ pmutex' = NoThread
  PROVE  SidesInv'
<1>0. /\ Adders \subseteq Threads /\ Removers \subseteq Threads
      /\ a \in Threads /\ a \notin Removers /\ a # NoThread
  BY FifoApart DEF Threads
<1>1. step'[a] = to /\ \A u \in Threads : u # a => step'[u] = step[u]
  BY <1>0, ThreadMoves DEF FifoInv
<1>2. \A b \in Adders : step'[b] # "read" /\ (step'[b] # "idle" => pushed'[b] \in Orders)
  BY <1>0, <1>1 DEF FifoInv, SidesInv
<1>3. \A b \in Adders : step'[b] = "write" <=> pmutex' = b
  BY <1>0, <1>1, FifoApart DEF FifoInv, SidesInv
<1>4. \A r \in Removers : step'[r] # "write" /\ (step'[r] = "read" <=> cmutex' = r)
  BY <1>0, <1>1 DEF FifoInv, SidesInv
<1> QED BY <1>2, <1>3, <1>4 DEF SidesInv

LEMMA PopSides ==
  ASSUME FifoInv, NEW r \in Removers, NEW from \in Steps, NEW to \in Steps \ {"write"}, from # to,
         step[r] = from, GoTo(r, to), UNCHANGED <<pmutex, pushed>>,
         \/ from # "read" /\ to # "read" /\ UNCHANGED cmutex
         \/ to = "read" /\ cmutex = NoThread /\ cmutex' = r
         \/ from = "read" /\ cmutex' = NoThread
  PROVE  SidesInv'
<1>0. /\ Adders \subseteq Threads /\ Removers \subseteq Threads
      /\ r \in Threads /\ r \notin Adders /\ r # NoThread
  BY FifoApart DEF Threads
<1>1. step'[r] = to /\ \A u \in Threads : u # r => step'[u] = step[u]
  BY <1>0, ThreadMoves DEF FifoInv
<1>2. \A b \in Removers : step'[b] # "write"
  BY <1>0, <1>1 DEF FifoInv, SidesInv
<1>3. \A b \in Removers : step'[b] = "read" <=> cmutex' = b
  BY <1>0, <1>1, FifoApart DEF FifoInv, SidesInv
<1>4. \A a \in Adders : /\ step'[a] # "read" /\ (step'[a] = "write" <=> pmutex' = a)
                        /\ step'[a] # "idle" => pushed'[a] \in Orders
  BY <1>0, <1>1 DEF FifoInv, SidesInv
<1> QED BY <1>2, <1>3, <1>4 DEF SidesInv

\* How many items there are, and of what the count is made.
LEMMA CountBounds ==
  ASSUME FifoInv
  PROVE  /\ ItemCount \in 0..RingSize
         /\ pmutex # NoThread => ItemCount < RingSize
         /\ cmutex # NoThread => ItemCount > 0
<1>1. psem \in Nat /\ csem \in Nat /\ peeked \in Nat /\ RingSize \in Nat
  BY RingAssumption DEF FifoInv, FifoTypeOK
<1>2. ItemCount \in Nat /\ ItemCount >= Number(Removers, "read")
  BY <1>1, ItemCountIs, NumberNat
<1>3. ItemCount + Number(Adders, "write") <= RingSize
  <2>1. psem + Number(Adders, "index") + Number(Adders, "write")
          + ItemCount + Number(Removers, "notify") = RingSize
    BY SlotsCountedIs DEF FifoInv
  <2> QED BY <1>1, <1>2, <2>1, NumberNat
<1>4. ASSUME pmutex # NoThread PROVE Number(Adders, "write") > 0
  <2>1. pmutex \in Doing(Adders, "write")
    BY <1>4, FifoApart DEF FifoInv, FifoTypeOK, SidesInv, Doing, Threads
  <2>2. Cardinality(Doing(Adders, "write")) # 0
    BY <2>1, DoingFinite, FS_EmptySet
  <2> QED BY <2>2, NumberNat DEF Number
<1>5. ASSUME cmutex # NoThread PROVE Number(Removers, "read") > 0
  <2>1. cmutex \in Doing(Removers, "read")
    BY <1>5, FifoApart DEF FifoInv, FifoTypeOK, SidesInv, Doing, Threads
  <2>2. Cardinality(Doing(Removers, "read")) # 0
    BY <2>1, DoingFinite, FS_EmptySet
  <2> QED BY <2>2, NumberNat DEF Number
<1> QED BY <1>1, <1>2, <1>3, <1>4, <1>5, NumberNat

\* A step that moves neither index nor the number of items.
LEMMA IndexKept ==
  ASSUME FifoInv, UNCHANGED <<pidx, cidx, pmutex, cmutex, loc>>, ItemCount' = ItemCount
  PROVE  FirstSlot' = FirstSlot /\ IndexInv'
<1>1. FirstSlot' = FirstSlot
  BY DEF FirstSlot
<1> QED BY <1>1 DEF FifoInv, IndexInv, SlotAfter

\* The steps of a producer: only the one that writes adds an item, at the end.
LEMMA PushStep ==
  ASSUME FifoInv, NEW a \in Adders, Push(a)
  PROVE  /\ FifoInv'
         /\ FirstSlot' = FirstSlot
         /\ ItemCount' = IF step[a] = "write" THEN ItemCount + 1 ELSE ItemCount
<1> USE DEF FifoInv
<1>0. a \in Threads /\ a # NoThread /\ RingSize \in Nat \ {0}
  BY FifoApart, RingAssumption DEF Threads
<1>n. psem \in Nat /\ csem \in Nat /\ peeked \in Nat /\ ItemCount \in Nat
  BY CountBounds DEF FifoTypeOK
<1>s. /\ ItemCount = csem + peeked + Number(Adders, "notify")
                       + Number(Removers, "index") + Number(Removers, "read")
      /\ psem + Number(Adders, "index") + Number(Adders, "write")
           + ItemCount + Number(Removers, "notify") = RingSize
  BY ItemCountIs, SlotsCountedIs
<1>i. ItemCount' = csem' + peeked' + Number(Adders, "notify")'
                     + Number(Removers, "index")' + Number(Removers, "read")'
  BY DEF ItemCount, Number
<1>t. SlotsCounted' <=>
        psem' + Number(Adders, "index")' + Number(Adders, "write")'
          + ItemCount' + Number(Removers, "notify")' = RingSize
  BY DEF SlotsCounted, Number
<1>r. ASSUME NEW from \in Steps, NEW to \in Steps, from # to, step[a] = from, GoTo(a, to)
      PROVE  /\ step' \in [Threads -> Steps]
             /\ Number(Adders, to)' = Number(Adders, to) + 1
             /\ Number(Adders, from)' = Number(Adders, from) - 1
             /\ \A s : s # from /\ s # to => Number(Adders, s)' = Number(Adders, s)
             /\ \A s : Number(Removers, s)' = Number(Removers, s)
  <2>1. Adders # Removers
    BY FifoApart
  <2> QED BY <1>0, <1>r, <2>1, ThreadMoves, NumbersMove
<1>1. ASSUME NEW v \in Orders, PushWait(a, v)
      PROVE  FifoInv' /\ FirstSlot' = FirstSlot /\ ItemCount' = ItemCount /\ step[a] # "write"
  <2>1. /\ step[a] = "idle" /\ psem > 0 /\ psem' = psem - 1
        /\ pushed' = [pushed EXCEPT ![a] = v] /\ GoTo(a, "index")
        /\ UNCHANGED <<ring, pidx, cidx, pmutex, cmutex, csem, loc, popped, peeked>>
    BY <1>1 DEF PushWait, sides
  <2>2. /\ step' \in [Threads -> Steps]
        /\ Number(Adders, "index")' = Number(Adders, "index") + 1
        /\ \A s \in {"write", "notify"} : Number(Adders, s)' = Number(Adders, s)
        /\ \A s : Number(Removers, s)' = Number(Removers, s)
    BY <1>r, <2>1 DEF Steps
  <2>3. ItemCount' = ItemCount
    BY <1>i, <1>s, <2>1, <2>2
  <2>4. SlotsCounted'
    BY <1>n, <1>s, <1>t, <2>1, <2>2, <2>3, NumberNat
  <2>5. FifoTypeOK'
    BY <2>1, <2>2 DEF FifoTypeOK, Steps
  <2>6. pushed' \in [Adders -> Orders \cup {NoOrder}] /\ pushed'[a] \in Orders
        /\ \A b \in Adders : b # a => pushed'[b] = pushed[b]
    BY <2>1 DEF FifoTypeOK
  <2>7. SidesInv'
    BY <2>1, <2>6, PushSides DEF Steps
  <2> QED BY <2>1, <2>3, <2>4, <2>5, <2>7, IndexKept
<1>2. CASE PushIndex(a)
  <2>1. /\ step[a] = "index" /\ pmutex = NoThread /\ pmutex' = a
        /\ loc' = [loc EXCEPT ![a] = pidx] /\ pidx' = NextSlot(pidx) /\ GoTo(a, "write")
        /\ UNCHANGED <<ring, cidx, cmutex, psem, csem, pushed, popped, peeked>>
    BY <1>2 DEF PushIndex
  <2>2. /\ step' \in [Threads -> Steps]
        /\ Number(Adders, "index")' = Number(Adders, "index") - 1
        /\ Number(Adders, "write")' = Number(Adders, "write") + 1
        /\ Number(Adders, "notify")' = Number(Adders, "notify")
        /\ \A s : Number(Removers, s)' = Number(Removers, s)
    BY <1>r, <2>1 DEF Steps
  <2>3. ItemCount' = ItemCount
    BY <1>i, <1>s, <2>1, <2>2
  <2>4. SlotsCounted'
    BY <1>n, <1>s, <1>t, <2>1, <2>2, <2>3, NumberNat
  <2>5. NextSlot(pidx) \in Slots
    BY RingAssumption DEF FifoTypeOK, NextSlot, Slots
  <2>6. FifoTypeOK'
    BY <2>1, <2>2, <2>5 DEF FifoTypeOK, Steps
  <2>7. SidesInv'
    BY <2>1, PushSides DEF Steps, SidesInv, FifoTypeOK
  <2>8. (cmutex \in Threads /\ cmutex # a) \/ cmutex = NoThread
    BY FifoApart DEF FifoTypeOK, Threads
  <2>9. FirstSlot' = FirstSlot /\ (cmutex # NoThread => loc'[cmutex] = loc[cmutex])
    BY <2>1, <2>8 DEF FirstSlot, FifoTypeOK
  <2>10. IndexInv'
    <3>1. loc'[a] = pidx /\ pidx = SlotAfter(ItemCount)
      BY <1>0, <2>1 DEF IndexInv, FifoTypeOK
    <3>2. SlotAfter(ItemCount)' = SlotAfter(ItemCount)
      BY <2>3, <2>9 DEF SlotAfter
    <3> QED BY <1>0, <2>1, <2>9, <3>1, <3>2 DEF IndexInv
  <2> QED BY <2>1, <2>3, <2>4, <2>6, <2>7, <2>9, <2>10
<1>3. CASE PushWrite(a)
  <2>1. /\ step[a] = "write" /\ ring' = [ring EXCEPT ![loc[a]] = pushed[a]]
        /\ pmutex' = NoThread /\ GoTo(a, "notify") /\ pmutex = a
        /\ UNCHANGED <<pidx, cidx, cmutex, psem, csem, loc, pushed, popped, peeked>>
    BY <1>3 DEF PushWrite, SidesInv
  <2>2. /\ step' \in [Threads -> Steps]
        /\ Number(Adders, "write")' = Number(Adders, "write") - 1
        /\ Number(Adders, "notify")' = Number(Adders, "notify") + 1
        /\ Number(Adders, "index")' = Number(Adders, "index")
        /\ \A s : Number(Removers, s)' = Number(Removers, s)
    BY <1>r, <2>1 DEF Steps
  <2>3. ItemCount' = ItemCount + 1
    BY <1>i, <1>n, <1>s, <2>1, <2>2, NumberNat
  <2>4. SlotsCounted'
    BY <1>n, <1>s, <1>t, <2>1, <2>2, <2>3, NumberNat
  <2>5. pushed[a] \in Orders
    BY <2>1 DEF SidesInv
  <2>6. FifoTypeOK'
    BY <2>1, <2>2, <2>5 DEF FifoTypeOK, Steps
  <2>7. SidesInv'
    BY <2>1, <2>5, PushSides DEF Steps, FifoTypeOK
  <2>8. FirstSlot' = FirstSlot
    BY <2>1 DEF FirstSlot
  <2>9. IndexInv'
    <3>1. loc[a] = SlotAfter(ItemCount) /\ pidx = NextSlot(loc[a])
      BY <1>0, <2>1 DEF IndexInv
    <3>2. ItemCount \in 0..(RingSize - 1) /\ FirstSlot \in Slots
      BY <1>0, <2>1, CountBounds, FirstSlotType
    <3>3. pidx = (FirstSlot + (ItemCount + 1)) % RingSize
      BY <3>1, <3>2, NextAfter DEF SlotAfter
    <3>4. pidx' = SlotAfter(ItemCount)'
      BY <2>1, <2>3, <2>8, <3>3 DEF SlotAfter
    <3> QED BY <2>1, <3>4 DEF IndexInv
  <2> QED BY <2>1, <2>3, <2>4, <2>6, <2>7, <2>8, <2>9
<1>4. CASE PushNotify(a)
  <2>1. /\ step[a] = "notify" /\ csem' = csem + 1 /\ GoTo(a, "idle")
        /\ UNCHANGED <<ring, pidx, cidx, pmutex, cmutex, psem, loc, pushed, popped, peeked>>
    BY <1>4 DEF PushNotify, sides
  <2>2. /\ step' \in [Threads -> Steps]
        /\ Number(Adders, "notify")' = Number(Adders, "notify") - 1
        /\ \A s \in {"index", "write"} : Number(Adders, s)' = Number(Adders, s)
        /\ \A s : Number(Removers, s)' = Number(Removers, s)
    BY <1>r, <2>1 DEF Steps
  <2>3. ItemCount' = ItemCount
    BY <1>i, <1>n, <1>s, <2>1, <2>2, NumberNat
  <2>4. SlotsCounted'
    BY <1>s, <1>t, <2>1, <2>2, <2>3
  <2>5. FifoTypeOK'
    BY <2>1, <2>2 DEF FifoTypeOK, Steps
  <2>6. SidesInv'
    BY <2>1, PushSides DEF Steps, FifoTypeOK, SidesInv
  <2> QED BY <2>1, <2>3, <2>4, <2>5, <2>6, IndexKept
<1> QED BY <1>1, <1>2, <1>3, <1>4 DEF Push

\* The steps of a consumer: only the one that reads takes an item, the first.
LEMMA PopStep ==
  ASSUME FifoInv, NEW r \in Removers, Pop(r) \/ Peek(r)
  PROVE  /\ FifoInv'
         /\ IF step[r] = "read" /\ step'[r] = "notify"
            THEN FirstSlot' = NextSlot(FirstSlot) /\ ItemCount' = ItemCount - 1
            ELSE FirstSlot' = FirstSlot /\ ItemCount' = ItemCount
<1> USE DEF FifoInv
<1>0. r \in Threads /\ r # NoThread /\ RingSize \in Nat \ {0}
  BY FifoApart, RingAssumption DEF Threads
<1>n. psem \in Nat /\ csem \in Nat /\ peeked \in Nat /\ ItemCount \in Nat
  BY CountBounds DEF FifoTypeOK
<1>s. /\ ItemCount = csem + peeked + Number(Adders, "notify")
                       + Number(Removers, "index") + Number(Removers, "read")
      /\ psem + Number(Adders, "index") + Number(Adders, "write")
           + ItemCount + Number(Removers, "notify") = RingSize
  BY ItemCountIs, SlotsCountedIs
<1>i. ItemCount' = csem' + peeked' + Number(Adders, "notify")'
                     + Number(Removers, "index")' + Number(Removers, "read")'
  BY DEF ItemCount, Number
<1>t. SlotsCounted' <=>
        psem' + Number(Adders, "index")' + Number(Adders, "write")'
          + ItemCount' + Number(Removers, "notify")' = RingSize
  BY DEF SlotsCounted, Number
<1>r. ASSUME NEW from \in Steps, NEW to \in Steps, from # to, step[r] = from, GoTo(r, to)
      PROVE  /\ step' \in [Threads -> Steps]
             /\ step'[r] = to
             /\ Number(Removers, to)' = Number(Removers, to) + 1
             /\ Number(Removers, from)' = Number(Removers, from) - 1
             /\ \A s : s # from /\ s # to => Number(Removers, s)' = Number(Removers, s)
             /\ \A s : Number(Adders, s)' = Number(Adders, s)
  <2>1. Adders # Removers
    BY FifoApart
  <2> QED BY <1>0, <1>r, <2>1, ThreadMoves, NumbersMove
<1>1. CASE PopWait(r)
  <2>1. /\ step[r] = "idle" /\ csem > 0 /\ csem' = csem - 1 /\ GoTo(r, "index")
        /\ UNCHANGED <<ring, pidx, cidx, pmutex, cmutex, psem, loc, pushed, popped, peeked>>
    BY <1>1 DEF PopWait, sides
  <2>2. /\ step' \in [Threads -> Steps]
        /\ Number(Removers, "index")' = Number(Removers, "index") + 1
        /\ \A s \in {"read", "notify"} : Number(Removers, s)' = Number(Removers, s)
        /\ \A s : Number(Adders, s)' = Number(Adders, s)
    BY <1>r, <2>1 DEF Steps
  <2>3. ItemCount' = ItemCount
    BY <1>i, <1>n, <1>s, <2>1, <2>2, NumberNat
  <2>4. SlotsCounted'
    BY <1>s, <1>t, <2>1, <2>2, <2>3
  <2>5. FifoTypeOK'
    BY <2>1, <2>2 DEF FifoTypeOK, Steps
  <2>6. SidesInv'
    BY <2>1, PopSides DEF Steps
  <2> QED BY <2>1, <2>3, <2>4, <2>5, <2>6, IndexKept
<1>2. CASE PopIndex(r)
  <2>1. /\ step[r] = "index" /\ cmutex = NoThread /\ cmutex' = r
        /\ loc' = [loc EXCEPT ![r] = cidx] /\ cidx' = NextSlot(cidx) /\ GoTo(r, "read")
        /\ UNCHANGED <<ring, pidx, pmutex, psem, csem, pushed, popped, peeked>>
    BY <1>2 DEF PopIndex
  <2>2. /\ step' \in [Threads -> Steps]
        /\ Number(Removers, "index")' = Number(Removers, "index") - 1
        /\ Number(Removers, "read")' = Number(Removers, "read") + 1
        /\ Number(Removers, "notify")' = Number(Removers, "notify")
        /\ \A s : Number(Adders, s)' = Number(Adders, s)
    BY <1>r, <2>1 DEF Steps
  <2>3. ItemCount' = ItemCount
    BY <1>i, <1>n, <1>s, <2>1, <2>2, NumberNat
  <2>4. SlotsCounted'
    BY <1>s, <1>t, <2>1, <2>2, <2>3
  <2>5. NextSlot(cidx) \in Slots
    BY RingAssumption DEF FifoTypeOK, NextSlot, Slots
  <2>6. FifoTypeOK'
    BY <2>1, <2>2, <2>5 DEF FifoTypeOK, Steps
  <2>7. SidesInv'
    BY <2>1, PopSides DEF Steps
  <2>8. loc'[r] = cidx /\ (pmutex # NoThread => loc'[pmutex] = loc[pmutex])
    BY <1>0, <2>1, FifoApart DEF FifoTypeOK, Threads
  <2>9. FirstSlot' = FirstSlot
    BY <1>0, <2>1, <2>8 DEF FirstSlot
  <2>10. IndexInv'
    <3>1. SlotAfter(ItemCount)' = SlotAfter(ItemCount)
      BY <2>3, <2>9 DEF SlotAfter
    <3> QED BY <1>0, <2>1, <2>8, <3>1 DEF IndexInv
  <2> QED BY <2>1, <2>3, <2>4, <2>6, <2>7, <2>9, <2>10
<1>3. CASE PopRead(r)
  <2>1. /\ step[r] = "read" /\ popped' = [popped EXCEPT ![r] = ring[loc[r]]]
        /\ cmutex' = NoThread /\ GoTo(r, "notify") /\ cmutex = r
        /\ UNCHANGED <<ring, pidx, cidx, pmutex, psem, csem, loc, pushed, peeked>>
    BY <1>3 DEF PopRead, SidesInv
  <2>2. /\ step' \in [Threads -> Steps] /\ step'[r] = "notify"
        /\ Number(Removers, "read")' = Number(Removers, "read") - 1
        /\ Number(Removers, "notify")' = Number(Removers, "notify") + 1
        /\ Number(Removers, "index")' = Number(Removers, "index")
        /\ \A s : Number(Adders, s)' = Number(Adders, s)
    BY <1>r, <2>1 DEF Steps
  <2>3. ItemCount' = ItemCount - 1
    BY <1>i, <1>n, <1>s, <2>1, <2>2, NumberNat
  <2>4. SlotsCounted'
    BY <1>n, <1>s, <1>t, <2>1, <2>2, <2>3, NumberNat
  <2>5. ring[loc[r]] \in Orders \cup {NoOrder}
    BY <1>0 DEF FifoTypeOK
  <2>6. FifoTypeOK'
    BY <2>1, <2>2, <2>5 DEF FifoTypeOK, Steps
  <2>7. SidesInv'
    BY <2>1, PopSides DEF Steps
  <2>8. FirstSlot = loc[r] /\ cidx = NextSlot(loc[r]) /\ FirstSlot' = cidx
    BY <1>0, <2>1 DEF FirstSlot, IndexInv
  <2>9. IndexInv'
    <3>1. ItemCount \in 1..RingSize /\ FirstSlot \in Slots
      BY <1>0, <2>1, CountBounds, FirstSlotType
    <3> DEFINE k == ItemCount - 1
    <3>2. k \in 0..(RingSize - 1) /\ k + 1 = ItemCount
      BY <1>0, <3>1
    <3>3. (NextSlot(FirstSlot) + k) % RingSize = (FirstSlot + (k + 1)) % RingSize
      BY <3>1, <3>2, NextAfter
    <3>4. SlotAfter(ItemCount)' = SlotAfter(ItemCount)
      BY <2>3, <2>8, <3>2, <3>3 DEF SlotAfter
    <3> QED BY <2>1, <3>4 DEF IndexInv
  <2> QED BY <2>1, <2>2, <2>3, <2>4, <2>6, <2>7, <2>8, <2>9
<1>4. CASE PopNotify(r)
  <2>1. /\ step[r] = "notify" /\ psem' = psem + 1 /\ GoTo(r, "idle")
        /\ UNCHANGED <<ring, pidx, cidx, pmutex, cmutex, csem, loc, pushed, popped, peeked>>
    BY <1>4 DEF PopNotify, sides
  <2>2. /\ step' \in [Threads -> Steps]
        /\ Number(Removers, "notify")' = Number(Removers, "notify") - 1
        /\ \A s \in {"index", "read"} : Number(Removers, s)' = Number(Removers, s)
        /\ \A s : Number(Adders, s)' = Number(Adders, s)
    BY <1>r, <2>1 DEF Steps
  <2>3. ItemCount' = ItemCount
    BY <1>i, <1>s, <2>1, <2>2
  <2>4. SlotsCounted'
    BY <1>n, <1>s, <1>t, <2>1, <2>2, <2>3, NumberNat
  <2>5. FifoTypeOK'
    BY <2>1, <2>2 DEF FifoTypeOK, Steps
  <2>6. SidesInv'
    BY <2>1, PopSides DEF Steps
  <2> QED BY <2>1, <2>3, <2>4, <2>5, <2>6, IndexKept
<1>5. CASE Peek(r)
  <2>1. /\ csem > 0 /\ csem' = csem - 1 /\ peeked' = peeked + 1 /\ step[r] = "idle"
        /\ UNCHANGED <<ring, pidx, cidx, pmutex, cmutex, psem, step, loc, pushed, popped>>
    BY <1>5 DEF Peek, sides
  <2>2. \A S, s : Number(S, s)' = Number(S, s)
    BY <2>1 DEF Number, Doing
  <2>3. ItemCount' = ItemCount
    BY <1>i, <1>n, <1>s, <2>1, <2>2, NumberNat
  <2>4. SlotsCounted' /\ FifoTypeOK' /\ SidesInv'
    BY <1>n, <1>s, <1>t, <2>1, <2>2, <2>3, NumberNat DEF FifoTypeOK, SidesInv
  <2> QED BY <2>1, <2>3, <2>4, IndexKept
<1> QED BY <1>1, <1>2, <1>3, <1>4, <1>5 DEF Pop

\* Every step keeps the invariant.
LEMMA FifoInvNext == FifoInv /\ [FifoNext]_fifoVars => FifoInv'
<1> SUFFICES ASSUME FifoInv, [FifoNext]_fifoVars PROVE FifoInv'
  OBVIOUS
<1>1. CASE FifoNext
  BY <1>1, PushStep, PopStep DEF FifoNext
<1>2. CASE UNCHANGED fifoVars
  BY <1>2 DEF fifoVars, sides, FifoInv, FifoTypeOK, SidesInv, SlotsCounted, ItemCount, Doing, IndexInv,
              SlotAfter, FirstSlot
<1> QED BY <1>1, <1>2

\* Slots and items are counted by the semaphores, and each side's index is where
\* the other side's would let the items begin or end.
THEOREM FifoInvariance == FifoSpec => []FifoInv
  BY FifoInvInit, FifoInvNext, PTL DEF FifoSpec

\* The items are a sequence.
LEMMA ItemsFacts ==
  ASSUME FifoInv
  PROVE  /\ FifoItems \in Seq(Orders \cup {NoOrder}) /\ Len(FifoItems) = ItemCount
         /\ \A i \in 1..ItemCount : FifoItems[i] = ring[SlotAfter(i - 1)] /\ SlotAfter(i - 1) \in Slots
<1>1. ItemCount \in 0..RingSize /\ FirstSlot \in Slots /\ RingSize \in Nat
  BY CountBounds, FirstSlotType, RingAssumption DEF FifoInv
<1>2. ASSUME NEW i \in 1..ItemCount
      PROVE  /\ SlotAfter(i - 1) \in Slots
             /\ (FirstSlot + i - 1) % RingSize = SlotAfter(i - 1)
  <2>1. i - 1 \in 0..RingSize /\ FirstSlot + i - 1 = FirstSlot + (i - 1)
    BY <1>1, <1>2 DEF Slots
  <2> QED BY <1>1, <2>1, RingArithmetic DEF SlotAfter
<1>3. \A s \in Slots : ring[s] \in Orders \cup {NoOrder}
  BY DEF FifoInv, FifoTypeOK
<1> QED BY <1>1, <1>2, <1>3 DEF FifoItems

\* The same before and after a step.
LEMMA ItemsFactsImply ==
  FifoInv => /\ FifoItems \in Seq(Orders \cup {NoOrder}) /\ Len(FifoItems) = ItemCount
             /\ \A i \in 1..ItemCount : FifoItems[i] = ring[SlotAfter(i - 1)] /\ SlotAfter(i - 1) \in Slots
  BY ItemsFacts

LEMMA ItemsFactsNext ==
  (FifoInv => /\ FifoItems \in Seq(Orders \cup {NoOrder}) /\ Len(FifoItems) = ItemCount
              /\ \A i \in 1..ItemCount : FifoItems[i] = ring[SlotAfter(i - 1)] /\ SlotAfter(i - 1) \in Slots)'
  BY ItemsFactsImply, PTL

\* Two of the slots from the first item are the same only if their places are.
LEMMA SlotsDiffer ==
  ASSUME FifoInv, NEW i \in 0..(RingSize - 1), NEW k \in 0..(RingSize - 1), i # k
  PROVE  SlotAfter(i) # SlotAfter(k)
<1>1. FirstSlot \in Slots /\ RingSize \in Nat \ {0} /\ i \in 0..RingSize /\ k \in 0..RingSize
  BY FirstSlotType, RingAssumption DEF FifoInv
<1>2. /\ SlotAfter(i) = IF FirstSlot + i < RingSize THEN FirstSlot + i ELSE FirstSlot + i - RingSize
      /\ SlotAfter(k) = IF FirstSlot + k < RingSize THEN FirstSlot + k ELSE FirstSlot + k - RingSize
  BY <1>1, RingArithmetic DEF SlotAfter
<1> QED BY <1>1, <1>2 DEF Slots

\* The first item and the number of items decide what the items are.
LEMMA ItemsKept ==
  ASSUME FifoInv, FifoInv', UNCHANGED ring, FirstSlot' = FirstSlot, ItemCount' = ItemCount
  PROVE  FifoItems' = FifoItems
  BY DEF FifoItems

\* A producer's write is the Put of OrderQueue, its notification the Return.
LEMMA PushPuts ==
  ASSUME FifoInv, NEW a \in Adders, Push(a)
  PROVE  \/ UNCHANGED FifoQueue!vars
         \/ \E v \in Orders : FifoQueue!Put(a, v)
         \/ FifoQueue!Return(a)
<1>0. a \in Threads
  BY DEF Threads
<1>1. /\ FifoInv' /\ FirstSlot' = FirstSlot
      /\ ItemCount' = IF step[a] = "write" THEN ItemCount + 1 ELSE ItemCount
  BY PushStep
<1>2. CASE (\E v \in Orders : PushWait(a, v)) \/ PushIndex(a)
  <2>1. /\ step[a] \in {"idle", "index"} /\ (GoTo(a, "index") \/ GoTo(a, "write"))
        /\ UNCHANGED <<ring, popped>>
    BY <1>2 DEF PushWait, PushIndex
  <2>2. FifoItems' = FifoItems
    BY <1>1, <2>1, ItemsKept
  <2>3. Doing(Adders, "notify")' = Doing(Adders, "notify")
    BY <1>0, <2>1 DEF Doing, GoTo, FifoInv, FifoTypeOK, Threads
  <2> QED BY <2>1, <2>2, <2>3 DEF FifoQueue!vars
<1>3. CASE PushNotify(a)
  <2>1. step[a] = "notify" /\ GoTo(a, "idle") /\ UNCHANGED <<ring, popped>>
    BY <1>3 DEF PushNotify
  <2>2. FifoItems' = FifoItems
    BY <1>1, <2>1, ItemsKept
  <2>3. Doing(Adders, "notify")' = Doing(Adders, "notify") \ {a} /\ a \in Doing(Adders, "notify")
    BY <1>0, <2>1 DEF Doing, GoTo, FifoInv, FifoTypeOK, Threads
  <2> QED BY <2>1, <2>2, <2>3 DEF FifoQueue!Return
<1>4. CASE PushWrite(a)
  <2>1. /\ step[a] = "write" /\ ring' = [ring EXCEPT ![loc[a]] = pushed[a]] /\ GoTo(a, "notify")
        /\ popped' = popped /\ pmutex = a /\ pushed[a] \in Orders
    BY <1>4 DEF PushWrite, FifoInv, SidesInv
  <2>2. Doing(Adders, "notify")' = Doing(Adders, "notify") \cup {a} /\ a \notin Doing(Adders, "notify")
    BY <1>0, <2>1 DEF Doing, GoTo, FifoInv, FifoTypeOK, Threads
  <2>3. loc[a] = SlotAfter(ItemCount) /\ ItemCount \in 0..(RingSize - 1) /\ ItemCount' = ItemCount + 1
    BY <1>0, <1>1, <2>1, CountBounds, FifoApart, RingAssumption DEF FifoInv, IndexInv
  <2>4. \A k : SlotAfter(k)' = SlotAfter(k)
    BY <1>1 DEF SlotAfter
  <2>5. /\ FifoItems \in Seq(Orders \cup {NoOrder}) /\ Len(FifoItems) = ItemCount
        /\ \A i \in 1..ItemCount : FifoItems[i] = ring[SlotAfter(i - 1)] /\ SlotAfter(i - 1) \in Slots
    BY ItemsFacts
  <2>6. /\ FifoItems' \in Seq(Orders \cup {NoOrder}) /\ Len(FifoItems') = ItemCount + 1
        /\ \A i \in 1..(ItemCount + 1) : FifoItems'[i] = ring'[SlotAfter(i - 1)] /\ SlotAfter(i - 1) \in Slots
    <3>1. (/\ FifoItems \in Seq(Orders \cup {NoOrder}) /\ Len(FifoItems) = ItemCount
           /\ \A i \in 1..ItemCount : FifoItems[i] = ring[SlotAfter(i - 1)] /\ SlotAfter(i - 1) \in Slots)'
      BY <1>1, ItemsFactsNext
    <3> QED BY <2>3, <2>4, <3>1
  <2>7. FifoItems'[ItemCount + 1] = pushed[a]
    <3>1. ItemCount + 1 - 1 = ItemCount
      BY <2>3
    <3>2. FifoItems'[ItemCount + 1] = ring'[loc[a]] /\ loc[a] \in Slots
      BY <2>3, <2>6, <3>1
    <3> QED BY <2>1, <3>2 DEF FifoInv, FifoTypeOK
  <2>8. ASSUME NEW i \in 1..ItemCount PROVE FifoItems'[i] = FifoItems[i]
    <3>1. i - 1 \in 0..(RingSize - 1) /\ i - 1 # ItemCount
      BY <2>3, <2>8, RingAssumption
    <3>2. SlotAfter(i - 1) # loc[a] /\ SlotAfter(i - 1) \in Slots
      BY <2>3, <2>5, <3>1, SlotsDiffer
    <3>3. ring'[SlotAfter(i - 1)] = ring[SlotAfter(i - 1)]
      BY <2>1, <3>2 DEF FifoInv, FifoTypeOK
    <3> QED BY <2>3, <2>5, <2>6, <3>3
  <2>9. FifoItems' = Append(FifoItems, pushed[a])
    <3> DEFINE s == FifoItems
               t == FifoItems'
               V == Orders \cup {NoOrder}
    <3>1. /\ s \in Seq(V) /\ t \in Seq(V) /\ pushed[a] \in V /\ Len(t) = Len(s) + 1
          /\ t[Len(s) + 1] = pushed[a] /\ \A i \in 1..Len(s) : t[i] = s[i]
      BY <2>1, <2>5, <2>6, <2>7, <2>8
    <3> HIDE DEF s, t, V
    <3>2. t = Append(s, pushed[a])
      BY <3>1
    <3> QED BY <3>2 DEF s, t
  <2>10. FifoQueue!Put(a, pushed[a])
    BY <2>1, <2>2, <2>9 DEF FifoQueue!Put, FifoQueue!Insert
  <2> QED BY <2>1, <2>10
<1> QED BY <1>2, <1>3, <1>4 DEF Push

\* A consumer's read is the Take of OrderQueue.
LEMMA PopTakes ==
  ASSUME FifoInv, NEW r \in Removers, Pop(r) \/ Peek(r)
  PROVE  UNCHANGED FifoQueue!vars \/ FifoQueue!Take(r)
<1>0. r \in Threads /\ r \notin Adders
  BY FifoApart DEF Threads
<1>1. /\ FifoInv'
      /\ IF step[r] = "read" /\ step'[r] = "notify"
         THEN FirstSlot' = NextSlot(FirstSlot) /\ ItemCount' = ItemCount - 1
         ELSE FirstSlot' = FirstSlot /\ ItemCount' = ItemCount
  BY PopStep
<1>2. step' = step \/ \E s : GoTo(r, s)
  BY DEF Pop, PopWait, PopIndex, PopRead, PopNotify, Peek
<1>3. \A a \in Adders : step'[a] = step[a]
  BY <1>0, <1>2 DEF GoTo, FifoInv, FifoTypeOK, Threads
<1>4. Doing(Adders, "notify")' = Doing(Adders, "notify")
  BY <1>3 DEF Doing
<1>5. CASE PopWait(r) \/ PopIndex(r) \/ PopNotify(r) \/ Peek(r)
  <2>1. step[r] # "read" /\ UNCHANGED <<ring, popped>>
    BY <1>5 DEF PopWait, PopIndex, PopNotify, Peek
  <2>2. FifoItems' = FifoItems
    BY <1>1, <2>1, ItemsKept
  <2> QED BY <1>4, <2>1, <2>2 DEF FifoQueue!vars
<1>6. CASE PopRead(r)
  <2>1. /\ step[r] = "read" /\ step'[r] = "notify" /\ cmutex = r /\ ring' = ring
        /\ popped' = [popped EXCEPT ![r] = ring[loc[r]]]
    BY <1>0, <1>6 DEF PopRead, GoTo, FifoInv, FifoTypeOK, SidesInv
  <2>2. /\ FirstSlot' = NextSlot(FirstSlot) /\ ItemCount' = ItemCount - 1
        /\ FirstSlot = loc[r] /\ FirstSlot \in Slots /\ ItemCount \in 1..RingSize /\ RingSize \in Nat
    BY <1>0, <1>1, <2>1, CountBounds, FirstSlotType, RingAssumption, FifoApart DEF FifoInv, FirstSlot, Threads
  <2>3. /\ FifoItems \in Seq(Orders \cup {NoOrder}) /\ Len(FifoItems) = ItemCount
        /\ \A i \in 1..ItemCount : FifoItems[i] = ring[SlotAfter(i - 1)] /\ SlotAfter(i - 1) \in Slots
    BY ItemsFacts
  <2>4. /\ FifoItems' \in Seq(Orders \cup {NoOrder}) /\ Len(FifoItems') = ItemCount - 1
        /\ \A i \in 1..(ItemCount - 1) : FifoItems'[i] = ring[SlotAfter(i - 1)']
    <3>1. (/\ FifoItems \in Seq(Orders \cup {NoOrder}) /\ Len(FifoItems) = ItemCount
           /\ \A i \in 1..ItemCount : FifoItems[i] = ring[SlotAfter(i - 1)] /\ SlotAfter(i - 1) \in Slots)'
      BY <1>1, ItemsFactsNext
    <3> QED BY <2>1, <2>2, <3>1
  <2>5. ASSUME NEW i \in 1..(ItemCount - 1) PROVE FifoItems'[i] = FifoItems[i + 1]
    <3>1. i - 1 \in 0..(RingSize - 1) /\ i + 1 \in 1..ItemCount /\ i + 1 - 1 = i - 1 + 1
      BY <2>2, <2>5
    <3>2. (NextSlot(FirstSlot) + (i - 1)) % RingSize = (FirstSlot + (i - 1 + 1)) % RingSize
      BY <2>2, <3>1, NextAfter
    <3>3. SlotAfter(i - 1)' = SlotAfter(i + 1 - 1)
      BY <2>2, <3>1, <3>2 DEF SlotAfter
    <3> QED BY <2>3, <2>4, <3>1, <3>3
  <2>6. FifoItems # <<>> /\ FifoItems' = Tail(FifoItems)
    <3> DEFINE s == FifoItems
               t == FifoItems'
               V == Orders \cup {NoOrder}
    <3>1. /\ s \in Seq(V) /\ t \in Seq(V) /\ Len(s) \in 1..RingSize /\ Len(t) = Len(s) - 1
          /\ \A i \in 1..Len(t) : t[i] = s[i + 1]
      BY <2>2, <2>3, <2>4, <2>5
    <3> HIDE DEF s, t, V
    <3>2. s # <<>> /\ t = Tail(s)
      BY <2>2, <3>1
    <3> QED BY <3>2 DEF s, t
  <2>7. Head(FifoItems) = ring[loc[r]]
    <3>1. SlotAfter(0) = FirstSlot
      BY <2>2, RingArithmetic DEF SlotAfter, Slots
    <3>2. FifoItems[1] = ring[FirstSlot]
      BY <2>2, <2>3, <3>1
    <3> QED BY <2>2, <2>3, <2>6, <3>2
  <2>8. FifoQueue!Take(r)
    BY <1>4, <2>1, <2>6, <2>7 DEF FifoQueue!Take
  <2> QED BY <2>8
<1> QED BY <1>5, <1>6 DEF Pop

\* Any number of producers and consumers, on a ring of any size: although the two
\* sides share no lock, the items come out once each in the order in which they
\* went in, and none is overwritten or read before it is there.
THEOREM FifoIsInOrder == FifoSpec => FifoInOrder
<1>1. FifoInit => FifoQueue!Init
  <2> SUFFICES ASSUME FifoInit PROVE FifoQueue!Init
    OBVIOUS
  <2>1. Doing(Adders, "notify") = {} /\ Doing(Removers, "index") = {} /\ Doing(Removers, "read") = {}
    BY DEF FifoInit, Doing, Threads
  <2>2. ItemCount = 0
    BY <2>1, FS_EmptySet DEF FifoInit, ItemCount
  <2>3. FifoItems = <<>>
    BY <2>2 DEF FifoItems
  <2> QED BY <2>1, <2>3 DEF FifoInit, FifoQueue!Init
<1>2. FifoInv /\ [FifoNext]_fifoVars
        => [\/ \E a \in Adders : (\E v \in Orders : FifoQueue!Put(a, v)) \/ FifoQueue!Return(a)
            \/ \E r \in Removers : FifoQueue!Take(r)]_(FifoQueue!vars)
  <2> SUFFICES ASSUME FifoInv, [FifoNext]_fifoVars
               PROVE  \/ \E a \in Adders : (\E v \in Orders : FifoQueue!Put(a, v)) \/ FifoQueue!Return(a)
                      \/ \E r \in Removers : FifoQueue!Take(r)
                      \/ UNCHANGED FifoQueue!vars
    OBVIOUS
  <2>1. CASE FifoNext
    BY <2>1, PushPuts, PopTakes DEF FifoNext
  <2>2. CASE UNCHANGED fifoVars
    BY <2>2 DEF fifoVars, sides, FifoQueue!vars, FifoItems, ItemCount, FirstSlot, Doing
  <2> QED BY <2>1, <2>2
<1> QED BY <1>1, <1>2, FifoInvariance, PTL DEF FifoSpec, FifoInOrder
================================================================================
