--------------------------- MODULE RobotRosterProofs ---------------------------
(***************************************************************************)
(* The numbers the console gives to robots, for any number of robots and of  *)
(* places: each robot that ends costs one number at most, however its        *)
(* increment meets the console's.  And the viewer never sees half a move.    *)
(***************************************************************************)
EXTENDS RobotRoster, FiniteSetTheorems, TLAPS

RobotStates == {"new", "enter", "column", "row", "end", "count", "ended"}
ConsoleStates == {"menu", "read", "write", "start", "join", "left"}
ViewerStates == {"idle", "test", "row", "column", "put"}

RosterTypeOK ==
  /\ nrobots \in Nat /\ added \in 0..MaxAdded /\ locked \in BOOLEAN /\ overtaken \in BOOLEAN
  /\ console \in [at : ConsoleStates, reg : Nat]
  /\ robot \in [Robots -> [at : RobotStates, reg : Nat, id : Nat]]
  /\ rloc \in [Places -> SUBSET {"row", "column"}]
  /\ viewer \in [at : ViewerStates, i : Nat, seen : SUBSET {"row", "column"}]

\* Who is inside WAREHOUSE_MUTEX.
ConsoleIn == console.at \in {"read", "write", "start"}
RobotIn(k) == robot[k].at \in {"column", "row"}
ViewerIn == viewer.at # "idle"

\* One at a time, and the mutex is locked then; the console has room for the
\* robot it adds.
OneInside ==
  /\ ConsoleIn => added < MaxAdded
  /\ ConsoleIn => locked /\ ~ ViewerIn /\ \A k \in Robots : ~ RobotIn(k)
  /\ ViewerIn => locked /\ \A k \in Robots : ~ RobotIn(k)
  /\ \A k \in Robots : RobotIn(k) => locked /\ \A l \in Robots : RobotIn(l) => k = l

\* The increments made so far: the console's, and one for each robot that ended.
Ended == {k \in Added : robot[k].at = "ended"}
Increments == added + (IF console.at = "start" THEN 1 ELSE 0) + Cardinality(Ended)

\* No value that is read, or was, is more than the increments.
Bounded ==
  /\ nrobots <= Increments
  /\ console.at = "write" => console.reg <= Increments
  /\ \A k \in Robots : robot[k].at = "count" => robot[k].reg <= Increments
  /\ console.at = "start" => nrobots > 0

\* A robot has been started, and its number is one it may have.
Numbered == \A k \in Robots : /\ k \in Added <=> robot[k].at # "new"
                              /\ k \in Added => robot[k].id \in 1..(2 * k - 1)

\* As long as no increment was lost, numbers given are below the next one.
Ascending ==
  ~ overtaken =>
    /\ \A k \in Added : robot[k].id <= nrobots
    /\ console.at = "start" => \A k \in Added : robot[k].id < nrobots
    /\ \A k, l \in Added : robot[k].id = robot[l].id => k = l

\* Only a robot between its two writes has left half a place.
HalfWritten ==
  /\ \A p \in Places : rloc[p] \notin {{}, {"row", "column"}} =>
                        \E k \in Robots : robot[k].at = "row" /\ robot[k].id = p
  /\ \A k \in Robots : robot[k].at = "row" => "column" \in rloc[robot[k].id]

\* What the viewer has read of a place is what is there.
ViewerReads ==
  /\ viewer.at \in {"row", "column", "put"} => viewer.i < 2 * added
  /\ viewer.at = "column" => viewer.seen = rloc[viewer.i + 1] \cap {"row"}
  /\ viewer.at = "put" => viewer.seen = rloc[viewer.i + 1]

RosterInv == /\ RosterTypeOK /\ OneInside /\ Bounded /\ Numbered /\ Ascending
             /\ HalfWritten /\ ViewerReads

-------------------------------------------------------------------------------
LEMMA AddedFinite ==
  ASSUME added \in Nat
  PROVE  IsFiniteSet(Ended) /\ Cardinality(Ended) \in 0..added
<1>1. IsFiniteSet(Added) /\ Cardinality(Added) = added
  BY FS_Interval DEF Added
<1>2. Ended \subseteq Added
  BY DEF Ended
<1> QED BY <1>1, <1>2, FS_Subset, FS_CardinalityType

LEMMA AddedRobots ==
  ASSUME RosterTypeOK
  PROVE  Added \subseteq Robots
  BY RosterAssumption DEF RosterTypeOK, Added, Robots

LEMMA IncrementsBound ==
  ASSUME RosterTypeOK
  PROVE  /\ Increments \in Nat
         /\ Increments <= 2 * added + (IF console.at = "start" THEN 1 ELSE 0)
  BY AddedFinite DEF Increments, RosterTypeOK

LEMMA RosterInitInv == RosterInit => RosterInv
<1> SUFFICES ASSUME RosterInit PROVE RosterInv
  OBVIOUS
<1>1. RosterTypeOK
  <2>1. nrobots \in Nat /\ added \in 0..MaxAdded
    BY RosterAssumption DEF RosterInit
  <2>6. locked \in BOOLEAN /\ overtaken \in BOOLEAN
    BY DEF RosterInit
  <2>2. console \in [at : ConsoleStates, reg : Nat]
    BY DEF RosterInit, ConsoleStates
  <2>3. robot \in [Robots -> [at : RobotStates, reg : Nat, id : Nat]]
    BY DEF RosterInit, RobotStates
  <2>4. viewer \in [at : ViewerStates, i : Nat, seen : SUBSET {"row", "column"}]
    BY DEF RosterInit, ViewerStates
  <2>5. rloc \in [Places -> SUBSET {"row", "column"}]
    BY DEF RosterInit
  <2> QED BY <2>1, <2>2, <2>3, <2>4, <2>5, <2>6 DEF RosterTypeOK
<1>2. Increments \in Nat
  BY <1>1, IncrementsBound
<1>3. Added = {}
  BY DEF RosterInit, Added
<1> QED BY <1>1, <1>2, <1>3
        DEF RosterInit, RosterInv, OneInside, ConsoleIn, RobotIn, ViewerIn, Bounded, Numbered,
            Ascending, HalfWritten, ViewerReads

-------------------------------------------------------------------------------
LEMMA AddLockInv == ASSUME RosterInv, AddLock PROVE RosterInv'
<1> USE DEF RosterInv
<1>1. RosterTypeOK' /\ OneInside'
  BY DEF AddLock, RosterTypeOK, ConsoleStates, RobotStates, ViewerStates, OneInside, ConsoleIn, RobotIn, ViewerIn
<1>2. Ended' = Ended
  BY DEF AddLock, Ended, Added
<1>3. Bounded'
  BY <1>2, IncrementsBound DEF AddLock, Bounded, Increments, RosterTypeOK, ConsoleStates, RobotStates, ViewerStates
<1>4. Numbered' /\ Ascending'
  BY DEF AddLock, Numbered, Ascending, Added, RosterTypeOK, ConsoleStates, RobotStates, ViewerStates
<1>5. HalfWritten' /\ ViewerReads'
  BY DEF AddLock, HalfWritten, ViewerReads
<1> QED BY <1>1, <1>2, <1>3, <1>4, <1>5

LEMMA ReadNumberInv == ASSUME RosterInv, ReadNumber PROVE RosterInv'
<1> USE DEF RosterInv
<1>1. RosterTypeOK' /\ OneInside'
  BY DEF ReadNumber, RosterTypeOK, ConsoleStates, RobotStates, ViewerStates, OneInside, ConsoleIn, RobotIn, ViewerIn
<1>2. Ended' = Ended
  BY DEF ReadNumber, Ended, Added
<1>3. Bounded'
  BY <1>2, IncrementsBound DEF ReadNumber, Bounded, Increments, RosterTypeOK, ConsoleStates, RobotStates, ViewerStates
<1>4. Numbered' /\ Ascending'
  BY DEF ReadNumber, Numbered, Ascending, Added, RosterTypeOK, ConsoleStates, RobotStates, ViewerStates
<1>5. HalfWritten' /\ ViewerReads'
  BY DEF ReadNumber, HalfWritten, ViewerReads
<1> QED BY <1>1, <1>2, <1>3, <1>4, <1>5

LEMMA WriteNumberInv == ASSUME RosterInv, WriteNumber PROVE RosterInv'
<1> USE DEF RosterInv
<1>1. RosterTypeOK' /\ OneInside'
  BY DEF WriteNumber, Increment, RosterTypeOK, ConsoleStates, RobotStates, ViewerStates, OneInside, ConsoleIn, RobotIn, ViewerIn
<1>2. Ended' = Ended
  BY DEF WriteNumber, Increment, Ended, Added
<1>3. Bounded'
  <2>1. Increments' = Increments + 1
    BY <1>2, AddedFinite DEF WriteNumber, Increments, RosterTypeOK
  <2>2. nrobots' = console.reg + 1 /\ console.reg <= Increments /\ console'.at = "start"
        /\ robot' = robot /\ console.reg \in Nat
    BY DEF WriteNumber, Increment, Bounded, RosterTypeOK
  <2> QED BY <2>1, <2>2, IncrementsBound DEF Bounded, RosterTypeOK
<1>4. Numbered' /\ Ascending'
  <2>1. /\ nrobots' = console.reg + 1 /\ (~ overtaken' => ~ overtaken /\ console.reg = nrobots)
        /\ robot' = robot /\ added' = added /\ Added' = Added
    BY DEF WriteNumber, Increment, Added
  <2>2. Numbered'
    BY <2>1 DEF Numbered
  <2>3. \A k \in Added : k \in Robots /\ robot[k].id \in Nat
    BY AddedRobots DEF RosterTypeOK
  <2>4. Ascending'
    BY <2>1, <2>3 DEF Ascending, RosterTypeOK
  <2> QED BY <2>2, <2>4
<1>5. HalfWritten' /\ ViewerReads'
  BY DEF WriteNumber, Increment, HalfWritten, ViewerReads
<1> QED BY <1>1, <1>2, <1>3, <1>4, <1>5

LEMMA QuitInv == ASSUME RosterInv, Quit PROVE RosterInv'
<1> USE DEF RosterInv
<1>1. RosterTypeOK' /\ OneInside'
  BY DEF Quit, RosterTypeOK, ConsoleStates, RobotStates, ViewerStates, OneInside, ConsoleIn, RobotIn, ViewerIn
<1>2. Ended' = Ended
  BY DEF Quit, Ended, Added
<1>3. Bounded'
  BY <1>2, IncrementsBound DEF Quit, Bounded, Increments, RosterTypeOK, ConsoleStates, RobotStates, ViewerStates
<1>4. Numbered' /\ Ascending'
  BY DEF Quit, Numbered, Ascending, Added, RosterTypeOK, ConsoleStates, RobotStates, ViewerStates
<1>5. HalfWritten' /\ ViewerReads'
  BY DEF Quit, HalfWritten, ViewerReads
<1> QED BY <1>1, <1>2, <1>3, <1>4, <1>5

LEMMA JoinedInv == ASSUME RosterInv, Joined PROVE RosterInv'
<1> USE DEF RosterInv
<1>1. RosterTypeOK' /\ OneInside'
  BY DEF Joined, RosterTypeOK, ConsoleStates, RobotStates, ViewerStates, OneInside, ConsoleIn, RobotIn, ViewerIn
<1>2. Ended' = Ended
  BY DEF Joined, Ended, Added
<1>3. Bounded'
  BY <1>2, IncrementsBound DEF Joined, Bounded, Increments, RosterTypeOK, ConsoleStates, RobotStates, ViewerStates
<1>4. Numbered' /\ Ascending'
  BY DEF Joined, Numbered, Ascending, Added, RosterTypeOK, ConsoleStates, RobotStates, ViewerStates
<1>5. HalfWritten' /\ ViewerReads'
  BY DEF Joined, HalfWritten, ViewerReads
<1> QED BY <1>1, <1>2, <1>3, <1>4, <1>5

LEMMA DrawLockInv == ASSUME RosterInv, DrawLock PROVE RosterInv'
<1> USE DEF RosterInv
<1>1. RosterTypeOK' /\ OneInside'
  BY DEF DrawLock, Draw, RosterTypeOK, ConsoleStates, RobotStates, ViewerStates, OneInside, ConsoleIn, RobotIn, ViewerIn
<1>2. Ended' = Ended
  BY DEF DrawLock, Draw, Ended, Added
<1>3. Bounded' /\ Numbered' /\ Ascending' /\ HalfWritten'
  BY <1>2 DEF DrawLock, Draw, Bounded, Increments, Numbered, Ascending, Added, HalfWritten
<1>4. ViewerReads'
  BY IncrementsBound DEF DrawLock, Draw, ViewerReads, Bounded, OneInside, ConsoleIn, ViewerIn, RosterTypeOK, ConsoleStates, RobotStates, ViewerStates
<1> QED BY <1>1, <1>2, <1>3, <1>4

LEMMA DrawNextInv == ASSUME RosterInv, DrawNext PROVE RosterInv'
<1> USE DEF RosterInv
<1>1. RosterTypeOK' /\ OneInside'
  BY DEF DrawNext, Draw, RosterTypeOK, ConsoleStates, RobotStates, ViewerStates, OneInside, ConsoleIn, RobotIn, ViewerIn
<1>2. Ended' = Ended
  BY DEF DrawNext, Draw, Ended, Added
<1>3. Bounded' /\ Numbered' /\ Ascending' /\ HalfWritten'
  BY <1>2 DEF DrawNext, Draw, Bounded, Increments, Numbered, Ascending, Added, HalfWritten
<1>4. ViewerReads'
  BY IncrementsBound DEF DrawNext, Draw, ViewerReads, Bounded, OneInside, ConsoleIn, ViewerIn, RosterTypeOK, ConsoleStates, RobotStates, ViewerStates
<1> QED BY <1>1, <1>2, <1>3, <1>4

LEMMA ReadRowInv == ASSUME RosterInv, ReadRow PROVE RosterInv'
<1> USE DEF RosterInv
<1>1. RosterTypeOK' /\ OneInside'
  BY DEF ReadRow, Draw, RosterTypeOK, ConsoleStates, RobotStates, ViewerStates, OneInside, ConsoleIn, RobotIn, ViewerIn
<1>2. Ended' = Ended
  BY DEF ReadRow, Draw, Ended, Added
<1>3. Bounded' /\ Numbered' /\ Ascending' /\ HalfWritten'
  BY <1>2 DEF ReadRow, Draw, Bounded, Increments, Numbered, Ascending, Added, HalfWritten
<1>4. ViewerReads'
  BY IncrementsBound DEF ReadRow, Draw, ViewerReads, Bounded, OneInside, ConsoleIn, ViewerIn, RosterTypeOK, ConsoleStates, RobotStates, ViewerStates
<1> QED BY <1>1, <1>2, <1>3, <1>4

LEMMA ReadColumnInv == ASSUME RosterInv, ReadColumn PROVE RosterInv'
<1> USE DEF RosterInv
<1>1. RosterTypeOK' /\ OneInside'
  BY DEF ReadColumn, Draw, RosterTypeOK, ConsoleStates, RobotStates, ViewerStates, OneInside, ConsoleIn, RobotIn, ViewerIn
<1>2. Ended' = Ended
  BY DEF ReadColumn, Draw, Ended, Added
<1>3. Bounded' /\ Numbered' /\ Ascending' /\ HalfWritten'
  BY <1>2 DEF ReadColumn, Draw, Bounded, Increments, Numbered, Ascending, Added, HalfWritten
<1>4. ViewerReads'
  <2>1. viewer.i < 2 * added /\ viewer.seen = rloc[viewer.i + 1] \cap {"row"}
    BY DEF ReadColumn, ViewerReads
  <2>2. rloc[viewer.i + 1] \in SUBSET {"row", "column"}
    BY <2>1, RosterAssumption DEF RosterTypeOK, Places
  <2>3. /\ viewer'.at = "put" /\ viewer'.i = viewer.i /\ rloc' = rloc /\ added' = added
        /\ viewer'.seen = viewer.seen \cup (rloc[viewer.i + 1] \cap {"column"})
    BY DEF ReadColumn, Draw, RosterTypeOK
  <2>4. viewer'.seen = rloc[viewer.i + 1]
    BY <2>1, <2>2, <2>3
  <2> QED BY <2>1, <2>3, <2>4 DEF ViewerReads
<1> QED BY <1>1, <1>2, <1>3, <1>4

LEMMA PutRobotInv == ASSUME RosterInv, PutRobot PROVE RosterInv'
<1> USE DEF RosterInv
<1>1. RosterTypeOK' /\ OneInside'
  <2>1. viewer' \in [at : ViewerStates, i : Nat, seen : SUBSET {"row", "column"}]
    <3>1. viewer.i + 1 \in Nat /\ viewer.seen \in SUBSET {"row", "column"}
      BY DEF RosterTypeOK
    <3>2. viewer' = [at |-> "test", i |-> viewer.i + 1, seen |-> viewer.seen]
      BY DEF PutRobot, Draw, RosterTypeOK
    <3> QED BY <3>1, <3>2 DEF ViewerStates
  <2>2. RosterTypeOK'
    BY <2>1 DEF PutRobot, Draw, RosterTypeOK
  <2>3. OneInside'
    BY DEF PutRobot, Draw, OneInside, ConsoleIn, RobotIn, ViewerIn, RosterTypeOK
  <2> QED BY <2>2, <2>3
<1>2. Ended' = Ended
  BY DEF PutRobot, Draw, Ended, Added
<1>3. Bounded' /\ Numbered' /\ Ascending' /\ HalfWritten'
  BY <1>2 DEF PutRobot, Draw, Bounded, Increments, Numbered, Ascending, Added, HalfWritten
<1>4. ViewerReads'
  BY IncrementsBound DEF PutRobot, Draw, ViewerReads, Bounded, OneInside, ConsoleIn, ViewerIn, RosterTypeOK, ConsoleStates, RobotStates, ViewerStates
<1> QED BY <1>1, <1>2, <1>3, <1>4

LEMMA DrawEndInv == ASSUME RosterInv, DrawEnd PROVE RosterInv'
<1> USE DEF RosterInv
<1>1. RosterTypeOK' /\ OneInside'
  BY DEF DrawEnd, Draw, RosterTypeOK, ConsoleStates, RobotStates, ViewerStates, OneInside, ConsoleIn, RobotIn, ViewerIn
<1>2. Ended' = Ended
  BY DEF DrawEnd, Draw, Ended, Added
<1>3. Bounded' /\ Numbered' /\ Ascending' /\ HalfWritten'
  BY <1>2 DEF DrawEnd, Draw, Bounded, Increments, Numbered, Ascending, Added, HalfWritten
<1>4. ViewerReads'
  BY IncrementsBound DEF DrawEnd, Draw, ViewerReads, Bounded, OneInside, ConsoleIn, ViewerIn, RosterTypeOK, ConsoleStates, RobotStates, ViewerStates
<1> QED BY <1>1, <1>2, <1>3, <1>4

LEMMA EnterLockInv == ASSUME RosterInv, NEW k \in Robots, EnterLock(k) PROVE RosterInv'
<1> USE DEF RosterInv
<1>1. RosterTypeOK' /\ OneInside'
  BY DEF EnterLock, Move, RosterTypeOK, ConsoleStates, RobotStates, ViewerStates, OneInside, ConsoleIn, RobotIn, ViewerIn
<1>2. Ended' = Ended
  BY DEF EnterLock, Move, Ended, Added, RosterTypeOK
<1>3. Bounded'
  BY <1>2, IncrementsBound DEF EnterLock, Move, Bounded, Increments, RosterTypeOK, ConsoleStates, RobotStates, ViewerStates
<1>4. Numbered' /\ Ascending'
  BY DEF EnterLock, Move, Numbered, Ascending, Added, RosterTypeOK, ConsoleStates, RobotStates, ViewerStates
<1>5. HalfWritten' /\ ViewerReads'
  BY DEF EnterLock, Move, HalfWritten, ViewerReads, OneInside, ConsoleIn, RobotIn, ViewerIn, RosterTypeOK, ConsoleStates, RobotStates, ViewerStates
<1> QED BY <1>1, <1>2, <1>3, <1>4, <1>5

LEMMA WriteColumnInv == ASSUME RosterInv, NEW k \in Robots, WriteColumn(k) PROVE RosterInv'
<1> USE DEF RosterInv
<1>1. RosterTypeOK' /\ OneInside'
  <2>1. rloc' \in [Places -> SUBSET {"row", "column"}]
    BY DEF WriteColumn, WriteCoordinate, RosterTypeOK
  <2>2. robot' \in [Robots -> [at : RobotStates, reg : Nat, id : Nat]]
    BY DEF WriteColumn, Move, RosterTypeOK, RobotStates
  <2>3. RosterTypeOK'
    BY <2>1, <2>2 DEF WriteColumn, Move, RosterTypeOK
  <2>4. OneInside'
    BY DEF WriteColumn, Move, OneInside, ConsoleIn, RobotIn, ViewerIn, RosterTypeOK
  <2> QED BY <2>3, <2>4
<1>2. Ended' = Ended
  BY DEF WriteColumn, Move, WriteCoordinate, Ended, Added, RosterTypeOK
<1>3. Bounded'
  BY <1>2, IncrementsBound DEF WriteColumn, Move, WriteCoordinate, Bounded, Increments, RosterTypeOK, ConsoleStates, RobotStates, ViewerStates
<1>4. Numbered' /\ Ascending'
  BY DEF WriteColumn, Move, WriteCoordinate, Numbered, Ascending, Added, RosterTypeOK, ConsoleStates, RobotStates, ViewerStates
<1>5. HalfWritten' /\ ViewerReads'
  <2>1. /\ robot[k].at = "column" /\ ~ ViewerIn /\ viewer' = viewer /\ added' = added
        /\ robot'[k].at = "row" /\ \A l \in Robots : robot'[l].id = robot[l].id
        /\ \A l \in Robots : l # k => robot[l].at # "row" /\ robot'[l] = robot[l]
    BY DEF WriteColumn, Move, OneInside, RobotIn, ViewerIn, RosterTypeOK
  <2>2. ViewerReads'
    BY <2>1 DEF ViewerReads, ViewerIn
  <2>3. \A p \in Places : p # robot[k].id => rloc'[p] = rloc[p]
    BY DEF WriteColumn, WriteCoordinate, RosterTypeOK
  <2>4. k \in Added
    BY <2>1 DEF Numbered
  <2>5. robot[k].id \in Places
    <3>1. robot[k].id \in 1..(2 * k - 1) /\ k \in 1..MaxAdded
      BY <2>4, AddedRobots DEF Numbered, Robots
    <3> QED BY <3>1, RosterAssumption DEF Places
  <2>6. "column" \in rloc'[robot[k].id]
    BY <2>5 DEF WriteColumn, WriteCoordinate, RosterTypeOK
  <2> QED BY <2>1, <2>2, <2>3, <2>6 DEF HalfWritten
<1> QED BY <1>1, <1>2, <1>3, <1>4, <1>5

LEMMA WriteRowInv == ASSUME RosterInv, NEW k \in Robots, WriteRow(k) PROVE RosterInv'
<1> USE DEF RosterInv
<1>1. RosterTypeOK' /\ OneInside'
  <2>1. rloc' \in [Places -> SUBSET {"row", "column"}]
    BY DEF WriteRow, WriteCoordinate, RosterTypeOK
  <2>2. RosterTypeOK'
    BY <2>1 DEF WriteRow, Move, RosterTypeOK, RobotStates
  <2>3. /\ UNCHANGED <<console, added, viewer>> /\ RobotIn(k) /\ ~ RobotIn(k)'
        /\ \A l \in Robots : RobotIn(l)' => RobotIn(l) /\ l # k
    BY DEF WriteRow, Move, RobotIn, RosterTypeOK
  <2>4. OneInside'
    BY <2>3 DEF OneInside, ConsoleIn, ViewerIn
  <2> QED BY <2>2, <2>4
<1>2. Ended' = Ended
  BY DEF WriteRow, Move, WriteCoordinate, Ended, Added, RosterTypeOK
<1>3. Bounded'
  BY <1>2, IncrementsBound DEF WriteRow, Move, WriteCoordinate, Bounded, Increments, RosterTypeOK, ConsoleStates, RobotStates, ViewerStates
<1>4. Numbered' /\ Ascending'
  BY DEF WriteRow, Move, WriteCoordinate, Numbered, Ascending, Added, RosterTypeOK, ConsoleStates, RobotStates, ViewerStates
<1>5. HalfWritten' /\ ViewerReads'
  <2>1. /\ robot[k].at = "row" /\ ~ ViewerIn /\ viewer' = viewer
        /\ \A l \in Robots : l # k => robot[l].at # "row" /\ robot'[l] = robot[l]
    BY DEF WriteRow, Move, OneInside, RobotIn, ViewerIn, RosterTypeOK
  <2>2. ViewerReads'
    BY <2>1 DEF ViewerReads, ViewerIn
  <2>3. ASSUME NEW p \in Places, rloc'[p] \notin {{}, {"row", "column"}} PROVE FALSE
    <3>1. CASE p = robot[k].id
      <4>1. "column" \in rloc[p] /\ rloc[p] \subseteq {"row", "column"}
        BY <2>1, <3>1 DEF RosterTypeOK, HalfWritten
      <4>2. rloc'[p] = rloc[p] \cup {"row"}
        BY <3>1 DEF WriteRow, WriteCoordinate, RosterTypeOK
      <4> QED BY <2>3, <4>1, <4>2
    <3>2. CASE p # robot[k].id
      <4>1. rloc'[p] = rloc[p]
        BY <3>2 DEF WriteRow, WriteCoordinate, RosterTypeOK
      <4> QED BY <2>1, <2>3, <3>2, <4>1 DEF HalfWritten
    <3> QED BY <3>1, <3>2
  <2>4. ASSUME NEW l \in Robots PROVE robot'[l].at # "row"
    BY <2>1 DEF WriteRow, Move, RosterTypeOK
  <2> QED BY <2>2, <2>3, <2>4 DEF HalfWritten
<1> QED BY <1>1, <1>2, <1>3, <1>4, <1>5

LEMMA ReadCountInv == ASSUME RosterInv, NEW k \in Robots, ReadCount(k) PROVE RosterInv'
<1> USE DEF RosterInv
<1>1. RosterTypeOK' /\ OneInside'
  <2>1. RosterTypeOK'
    BY DEF ReadCount, RosterTypeOK, RobotStates
  <2>2. /\ UNCHANGED <<locked, console, added, viewer>>
        /\ \A l \in Robots : RobotIn(l)' => RobotIn(l)
    BY DEF ReadCount, RobotIn, RosterTypeOK
  <2>3. OneInside'
    BY <2>2 DEF OneInside, ConsoleIn, ViewerIn
  <2> QED BY <2>1, <2>3
<1>2. Ended' = Ended
  <2>1. \A l \in Robots : robot'[l].at = "ended" <=> robot[l].at = "ended"
    BY DEF ReadCount, RosterTypeOK
  <2>2. Added' = Added /\ Added \subseteq Robots
    BY AddedRobots DEF ReadCount, Added
  <2> QED BY <2>1, <2>2 DEF Ended
<1>3. Bounded'
  BY <1>2, IncrementsBound DEF ReadCount, Bounded, Increments, RosterTypeOK, ConsoleStates, RobotStates, ViewerStates
<1>4. Numbered' /\ Ascending'
  <2>1. \A l \in Robots : robot'[l].id = robot[l].id /\ (robot'[l].at = "new" <=> robot[l].at = "new")
    BY DEF ReadCount, RosterTypeOK
  <2>2. Added' = Added /\ Added \subseteq Robots /\ UNCHANGED <<nrobots, console, overtaken>>
    BY AddedRobots DEF ReadCount, Added
  <2> QED BY <2>1, <2>2 DEF Numbered, Ascending
<1>5. HalfWritten' /\ ViewerReads'
  BY DEF ReadCount, HalfWritten, ViewerReads, OneInside, ConsoleIn, RobotIn, ViewerIn, RosterTypeOK, ConsoleStates, RobotStates, ViewerStates
<1> QED BY <1>1, <1>2, <1>3, <1>4, <1>5

\* The console starts a robot with the number it reads.
LEMMA StartRobotInv == ASSUME RosterInv, StartRobot PROVE RosterInv'
<1> USE DEF RosterInv
<1> DEFINE new == added + 1
<1>1. /\ new \in Robots /\ new \notin Added /\ robot[new].at = "new"
      /\ added \in Nat /\ added < MaxAdded
  <2>1. added \in Nat /\ added < MaxAdded /\ MaxAdded \in Nat
    BY RosterAssumption DEF RosterTypeOK, StartRobot, OneInside, ConsoleIn
  <2>2. new \in Robots /\ new \notin Added
    BY <2>1 DEF Robots, Added
  <2> QED BY <2>1, <2>2 DEF Numbered
<1>2. /\ robot' = [robot EXCEPT ![new] = [at |-> "enter", reg |-> 0, id |-> nrobots]]
      /\ console.at = "start" /\ console'.at = "menu" /\ locked' = FALSE
      /\ added' = new /\ UNCHANGED <<nrobots, rloc, viewer, overtaken>>
  BY DEF StartRobot, RosterTypeOK
<1>3. /\ robot'[new] = [at |-> "enter", reg |-> 0, id |-> nrobots]
      /\ \A k \in Robots : k # new => robot'[k] = robot[k]
  BY <1>1, <1>2 DEF RosterTypeOK
<1>4. Added' = Added \cup {new}
  BY <1>1, <1>2 DEF Added
<1> HIDE DEF new
<1>5. RosterTypeOK'
  <2>1. robot' \in [Robots -> [at : RobotStates, reg : Nat, id : Nat]]
    BY <1>2 DEF RosterTypeOK, RobotStates
  <2>2. console' \in [at : ConsoleStates, reg : Nat]
    BY DEF StartRobot, RosterTypeOK, ConsoleStates
  <2>3. added' \in 0..MaxAdded
    BY <1>1, <1>2, RosterAssumption DEF new
  <2> QED BY <1>2, <2>1, <2>2, <2>3 DEF RosterTypeOK
<1>6. OneInside'
  <2>1. ~ ViewerIn' /\ ~ ConsoleIn'
    BY <1>2 DEF OneInside, ConsoleIn, ViewerIn
  <2>2. \A k \in Robots : ~ RobotIn(k)'
    BY <1>2, <1>3 DEF OneInside, ConsoleIn, RobotIn
  <2> QED BY <2>1, <2>2 DEF OneInside
<1>7. Bounded'
  <2>1. Ended' = Ended
    BY <1>1, <1>3, <1>4, AddedRobots DEF Ended
  <2>2. Increments' = Increments
    BY <1>1, <1>2, <2>1, AddedFinite DEF Increments, new
  <2>3. \A k \in Robots : robot'[k].at = "count" => robot[k].at = "count" /\ robot'[k].reg = robot[k].reg
    BY <1>3
  <2> QED BY <1>2, <2>2, <2>3 DEF Bounded
<1>8. nrobots \in 1..(2 * new - 1)
  BY <1>1, <1>2, IncrementsBound DEF Bounded, RosterTypeOK, new
<1>9. Numbered'
  BY <1>1, <1>3, <1>4, <1>8 DEF Numbered
<1>10. Ascending'
  <2>1. SUFFICES ASSUME ~ overtaken
                 PROVE  /\ \A k \in Added' : robot'[k].id <= nrobots
                        /\ \A k, l \in Added' : robot'[k].id = robot'[l].id => k = l
    BY <1>2 DEF Ascending
  <2>2. \A k \in Added : robot'[k].id = robot[k].id /\ robot[k].id < nrobots /\ robot[k].id \in Nat
    BY <1>1, <1>2, <1>3, <2>1, AddedRobots DEF Ascending, RosterTypeOK
  <2>3. robot'[new].id = nrobots /\ nrobots \in Nat
    BY <1>3 DEF RosterTypeOK
  <2>4. \A k, l \in Added : robot[k].id = robot[l].id => k = l
    BY <2>1 DEF Ascending
  <2> QED BY <1>4, <2>2, <2>3, <2>4
<1>11. HalfWritten'
  <2>1. ASSUME NEW k \in Robots, robot[k].at = "row" PROVE k # new
    BY <1>1, <2>1
  <2> QED BY <1>2, <1>3, <2>1 DEF HalfWritten
<1>12. ViewerReads'
  BY <1>2 DEF ViewerReads, OneInside, ConsoleIn, ViewerIn
<1> QED BY <1>5, <1>6, <1>7, <1>9, <1>10, <1>11, <1>12

\* A robot that ends costs one number at most.
LEMMA WriteCountInv == ASSUME RosterInv, NEW k \in Robots, WriteCount(k) PROVE RosterInv'
<1> USE DEF RosterInv
<1>1. /\ robot[k].at = "count" /\ robot[k].reg \in Nat /\ robot[k].reg <= Increments
      /\ robot' = [robot EXCEPT ![k].at = "ended"]
      /\ nrobots' = robot[k].reg + 1 /\ overtaken' = (overtaken \/ robot[k].reg # nrobots)
      /\ UNCHANGED <<console, added, viewer, rloc, locked>>
  BY DEF WriteCount, Move, Increment, Bounded, RosterTypeOK
<1>2. /\ robot'[k] = [robot[k] EXCEPT !.at = "ended"]
      /\ \A l \in Robots : l # k => robot'[l] = robot[l]
  BY <1>1 DEF RosterTypeOK
<1>3. k \in Added /\ Added' = Added /\ Added \subseteq Robots
  BY <1>1, AddedRobots DEF Numbered, Added
<1>4. \A l \in Robots : /\ robot'[l].id = robot[l].id /\ robot[l].id \in Nat
                        /\ robot'[l].at = IF l = k THEN "ended" ELSE robot[l].at
                        /\ robot'[l].reg = robot[l].reg
  BY <1>2 DEF RosterTypeOK
<1>5. RosterTypeOK'
  <2>1. robot' \in [Robots -> [at : RobotStates, reg : Nat, id : Nat]]
    BY <1>1 DEF RosterTypeOK, RobotStates
  <2>2. overtaken' \in BOOLEAN
    BY <1>1
  <2> QED BY <1>1, <2>1, <2>2 DEF RosterTypeOK
<1>6. OneInside'
  BY <1>1, <1>4 DEF OneInside, ConsoleIn, RobotIn, ViewerIn
<1>7. Bounded'
  <2>1. Ended' = Ended \cup {k} /\ k \notin Ended
    BY <1>1, <1>3, <1>4 DEF Ended
  <2>2. IsFiniteSet(Ended) /\ Cardinality(Ended) \in Nat
    BY AddedFinite DEF RosterTypeOK
  <2>3. Cardinality(Ended') = Cardinality(Ended) + 1
    BY <2>1, <2>2, FS_AddElement
  <2>4. Increments' = Increments + 1
    BY <1>1, <2>2, <2>3 DEF Increments, RosterTypeOK
  <2> QED BY <1>1, <1>4, <2>4, IncrementsBound DEF Bounded, RosterTypeOK
<1>8. Numbered'
  BY <1>1, <1>3, <1>4 DEF Numbered
<1>9. Ascending'
  <2>1. SUFFICES ASSUME ~ overtaken, nrobots' = nrobots + 1
                 PROVE  /\ \A l \in Added : robot'[l].id <= nrobots'
                        /\ console.at = "start" => \A l \in Added : robot'[l].id < nrobots'
                        /\ \A l, m \in Added : robot'[l].id = robot'[m].id => l = m
    BY <1>1, <1>3 DEF Ascending
  <2> QED BY <1>3, <1>4, <2>1 DEF Ascending, RosterTypeOK
<1>10. HalfWritten' /\ ViewerReads'
  BY <1>1, <1>4 DEF HalfWritten, ViewerReads
<1> QED BY <1>5, <1>6, <1>7, <1>8, <1>9, <1>10

LEMMA RosterNextInv == RosterInv /\ [RosterNext]_rosterVars => RosterInv'
<1>1. ASSUME RosterInv, UNCHANGED rosterVars PROVE RosterInv'
  BY <1>1 DEF rosterVars, RosterInv, RosterTypeOK, OneInside, ConsoleIn, RobotIn, ViewerIn, Bounded,
     Increments, Ended, Added, Numbered, Ascending, HalfWritten, ViewerReads
<1>2. ASSUME RosterInv, Console PROVE RosterInv'
  BY <1>2, AddLockInv, ReadNumberInv, WriteNumberInv, StartRobotInv, QuitInv, JoinedInv DEF Console
<1>3. ASSUME RosterInv, NEW k \in Robots, RobotRuns(k) PROVE RosterInv'
  BY <1>3, EnterLockInv, WriteColumnInv, WriteRowInv, ReadCountInv, WriteCountInv DEF RobotRuns
<1>4. ASSUME RosterInv, Viewer PROVE RosterInv'
  BY <1>4, DrawLockInv, DrawNextInv, ReadRowInv, ReadColumnInv, PutRobotInv, DrawEndInv DEF Viewer
<1> QED BY <1>1, <1>2, <1>3, <1>4 DEF RosterNext

THEOREM RosterInvariant == RosterSpec => []RosterInv
  BY RosterInitInv, RosterNextInv, PTL DEF RosterSpec

-------------------------------------------------------------------------------
\* The k-th robot's number is at most 2k - 1, whatever the robots that ended
\* did to the count, and numbers differ unless an increment was lost.
THEOREM NumbersInRange == RosterSpec => []NumbersUsable
<1>1. RosterInv => NumbersUsable
  <2> SUFFICES ASSUME RosterInv PROVE NumbersUsable
    OBVIOUS
  <2> USE DEF RosterInv
  <2>1. \A k \in Added : robot[k].id \in 1..(2 * k - 1)
    BY AddedRobots DEF Numbered
  <2>2. 2 * added <= MaxRobots /\ viewer.at \in {"row", "column"} => viewer.i < MaxRobots
    BY RosterAssumption DEF ViewerReads, RosterTypeOK
  <2>3. ~ overtaken => \A k, l \in Added : robot[k].id = robot[l].id => k = l
    BY DEF Ascending
  <2> QED BY <2>1, <2>2, <2>3 DEF NumbersUsable
<1> QED BY <1>1, RosterInvariant, PTL

\* The viewer draws a robot where both its coordinates have been written, or
\* none.
THEOREM NothingHalfDrawn == RosterSpec => []DrawnWhole
<1>1. RosterInv => DrawnWhole
  <2> SUFFICES ASSUME RosterInv, viewer.at = "put" PROVE viewer.seen \in {{}, {"row", "column"}}
    BY DEF DrawnWhole
  <2> USE DEF RosterInv
  <2>1. viewer.seen = rloc[viewer.i + 1] /\ viewer.i < 2 * added
    BY DEF ViewerReads
  <2>2. viewer.i + 1 \in Places
    BY <2>1, RosterAssumption DEF RosterTypeOK, Places
  <2>3. \A k \in Robots : robot[k].at # "row"
    BY DEF OneInside, ViewerIn, RobotIn
  <2> QED BY <2>1, <2>2, <2>3 DEF HalfWritten
<1> QED BY <1>1, RosterInvariant, PTL
===============================================================================
