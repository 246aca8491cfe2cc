------------------------------ MODULE NamedMutex ------------------------------
(***************************************************************************)
(* cpen333::process::mutex, the named inter-process mutex, in its two       *)
(* builds.  On Windows it wraps a kernel mutex: recursive, owned by a       *)
(* thread, and marked abandoned when its owner terminates.  On POSIX it is  *)
(* a named semaphore with one unit: no owner, not recursive, and nothing    *)
(* happens to it when the thread that took the unit terminates.             *)
(*                                                                         *)
(* A mutex is a record: owner (on POSIX a history variable: the last thread *)
(* to take the unit), count (times locked and not unlocked) and abandoned.  *)
(***************************************************************************)
EXTENDS Naturals

CONSTANTS Windows,    \* which build
          NoThread    \* the owner of a free mutex

ASSUME PlatformAssumption == Windows \in BOOLEAN

MutexType(T) == [owner : T \cup {NoThread}, count : Nat, abandoned : BOOLEAN]

Free == [owner |-> NoThread, count |-> 0, abandoned |-> FALSE]

\* lock() returns now: WaitForSingleObject succeeds for the owner and on a
\* free mutex; the POSIX semaphore needs its unit to be there.
CanLock(m, t) == IF Windows THEN m.owner \in {NoThread, t} ELSE m.count = 0

\* The Windows lock() repeats the wait until it returns WAIT_OBJECT_0.  On an
\* abandoned mutex the first wait returns WAIT_ABANDONED and already grants
\* the ownership, so the second one locks it a second time.
Locked(m, t) ==
  [owner |-> t,
   count |-> IF Windows /\ m.abandoned THEN 2 ELSE m.count + 1,
   abandoned |-> FALSE]

\* unlock(): ReleaseMutex fails, and only reports it, for a thread that is not
\* the owner; the POSIX semaphore takes its unit back from anybody.
Unlocked(m, t) ==
  IF Windows /\ m.owner # t THEN m
  ELSE [m EXCEPT !.count = m.count - 1,
                 !.owner = IF m.count = 1 THEN NoThread ELSE m.owner]

\* Thread t ends.  "shared" says whether another handle to the mutex is open:
\* Windows destroys the object with its last handle, and abandons one whose
\* owner has gone.
OwnerExits(m, t, shared) ==
  IF Windows /\ m.owner = t
  THEN IF shared THEN [owner |-> NoThread, count |-> 0, abandoned |-> TRUE] ELSE Free
  ELSE m
===============================================================================
