----------------------------- MODULE RobotRoster -----------------------------
(***************************************************************************)
(* The numbers and the places of the robots in the shared memory.  The       *)
(* console adds robots (do_add_robot), each a thread that enters its place   *)
(* and, because quit is false, ends at once (Robot::main); the viewer,       *)
(* another process, draws them (WarehouseRobotsUI).  They share              *)
(* WAREHOUSE_MUTEX, but for the increment with which a robot ends.           *)
(***************************************************************************)
EXTENDS Naturals, FiniteSets

CONSTANTS MaxAdded,     \* robots the console adds (bound)
          MaxRobots,    \* places in rloc: MAX_ROBOTS
          MaxDraws      \* rounds of the viewer (bound)

ASSUME RosterAssumption ==
  MaxAdded \in Nat \ {0} /\ MaxRobots \in Nat \ {0} /\ MaxDraws \in Nat

VARIABLES
  nrobots,   \* rinfo.nrobots
  rloc,      \* for every place, which of its coordinates has been written
  locked,    \* is the mutex?
  console,   \* [at, reg]: where the thread is, and the nrobots it read
  added,     \* robots in the vector
  robot,     \* for every robot, [at, reg, id]
  viewer,    \* [at, i, seen]: the place it draws, the coordinates it read
  draws,     \* its rounds
  overtaken  \* history: an increment was made on a stale value

rosterVars == <<nrobots, rloc, locked, console, added, robot, viewer, draws, overtaken>>

Robots == 1..MaxAdded
Places == 1..(2 * MaxAdded)    \* those beyond MaxRobots are not in the array
Added == 1..added

RosterInit ==
  /\ nrobots = 0 /\ locked = FALSE /\ added = 0 /\ draws = 0 /\ overtaken = FALSE
  /\ rloc = [p \in Places |-> {}]
  /\ console = [at |-> "menu", reg |-> 0]
  /\ robot = [k \in Robots |-> [at |-> "new", reg |-> 0, id |-> 0]]
  /\ viewer = [at |-> "idle", i |-> 0, seen |-> {}]

\* nrobots = nrobots + 1, the half that writes.
Increment(read) ==
  /\ nrobots' = read + 1
  /\ overtaken' = (overtaken \/ read # nrobots)

-------------------------------------------------------------------------------
(* The console: the menu's "add robot", under the mutex, and "quit".         *)
AddLock ==
  /\ console.at = "menu" /\ added < MaxAdded /\ ~ locked
  /\ locked' = TRUE /\ console' = [console EXCEPT !.at = "read"]
  /\ UNCHANGED <<nrobots, rloc, added, robot, viewer, draws, overtaken>>

ReadNumber ==
  /\ console.at = "read"
  /\ console' = [at |-> "write", reg |-> nrobots]
  /\ UNCHANGED <<nrobots, rloc, locked, added, robot, viewer, draws, overtaken>>

WriteNumber ==
  /\ console.at = "write"
  /\ Increment(console.reg)
  /\ console' = [console EXCEPT !.at = "start"]
  /\ UNCHANGED <<rloc, locked, added, robot, viewer, draws>>

\* The number is read again, for the robot that is started.
StartRobot ==
  /\ console.at = "start"
  /\ added' = added + 1
  /\ robot' = [robot EXCEPT ![added + 1] = [at |-> "enter", reg |-> 0, id |-> nrobots]]
  /\ locked' = FALSE /\ console' = [console EXCEPT !.at = "menu"]
  /\ UNCHANGED <<nrobots, rloc, viewer, draws, overtaken>>

\* quit joins the robots one after the other.
Quit ==
  /\ console.at = "menu"
  /\ console' = [console EXCEPT !.at = "join"]
  /\ UNCHANGED <<nrobots, rloc, locked, added, robot, viewer, draws, overtaken>>

Joined ==
  /\ console.at = "join" /\ \A k \in Added : robot[k].at = "ended"
  /\ console' = [console EXCEPT !.at = "left"]
  /\ UNCHANGED <<nrobots, rloc, locked, added, robot, viewer, draws, overtaken>>

-------------------------------------------------------------------------------
(* A robot: updateCoordinates under the mutex, then main's end without it.   *)
Move(k, from, to) ==
  /\ robot[k].at = from
  /\ robot' = [robot EXCEPT ![k].at = to]
  /\ UNCHANGED <<console, added, viewer, draws>>

\* Mistake: without the mutex.
EnterLock_NoLock(k) == Move(k, "enter", "column") /\ UNCHANGED <<locked, nrobots, rloc, overtaken>>

EnterLock(k) == Move(k, "enter", "column") /\ ~ locked /\ locked' = TRUE
                /\ UNCHANGED <<nrobots, rloc, overtaken>>

WriteCoordinate(k, c) == rloc' = [rloc EXCEPT ![robot[k].id] = rloc[robot[k].id] \cup {c}]

WriteColumn(k) == Move(k, "column", "row") /\ WriteCoordinate(k, "column")
                  /\ UNCHANGED <<locked, nrobots, overtaken>>

WriteRow(k) == Move(k, "row", "end") /\ WriteCoordinate(k, "row") /\ locked' = FALSE
               /\ UNCHANGED <<nrobots, overtaken>>

ReadCount(k) ==
  /\ robot[k].at = "end"
  /\ robot' = [robot EXCEPT ![k].at = "count", ![k].reg = nrobots]
  /\ UNCHANGED <<nrobots, rloc, locked, console, added, viewer, draws, overtaken>>

\* Mistake: a robot that ends counts itself out.
WriteCount_Out(k) ==
  /\ Move(k, "count", "ended")
  /\ nrobots' = robot[k].reg - 1 /\ overtaken' = (overtaken \/ robot[k].reg # nrobots)
  /\ UNCHANGED <<rloc, locked>>

WriteCount(k) == Move(k, "count", "ended") /\ Increment(robot[k].reg) /\ UNCHANGED <<rloc, locked>>

-------------------------------------------------------------------------------
(* The viewer: draw_robots, under the mutex.                                 *)
Draw(v) == viewer' = v /\ UNCHANGED <<nrobots, rloc, console, added, robot, overtaken>>

DrawLock ==
  /\ viewer.at = "idle" /\ draws < MaxDraws /\ ~ locked /\ locked' = TRUE
  /\ draws' = draws + 1
  /\ Draw([at |-> "test", i |-> 0, seen |-> {}])

DrawNext ==
  /\ viewer.at = "test" /\ viewer.i < nrobots
  /\ Draw([viewer EXCEPT !.at = "row", !.seen = {}])
  /\ UNCHANGED <<locked, draws>>

ReadRow ==
  /\ viewer.at = "row"
  /\ Draw([viewer EXCEPT !.at = "column", !.seen = rloc[viewer.i + 1] \cap {"row"}])
  /\ UNCHANGED <<locked, draws>>

ReadColumn ==
  /\ viewer.at = "column"
  /\ Draw([viewer EXCEPT !.at = "put", !.seen = @ \cup (rloc[viewer.i + 1] \cap {"column"})])
  /\ UNCHANGED <<locked, draws>>

PutRobot ==
  /\ viewer.at = "put"
  /\ Draw([viewer EXCEPT !.at = "test", !.i = @ + 1])
  /\ UNCHANGED <<locked, draws>>

DrawEnd ==
  /\ viewer.at = "test" /\ viewer.i >= nrobots
  /\ Draw([viewer EXCEPT !.at = "idle"]) /\ locked' = FALSE
  /\ UNCHANGED draws

Console == AddLock \/ ReadNumber \/ WriteNumber \/ StartRobot \/ Quit \/ Joined
RobotRuns(k) ==
  EnterLock(k) \/ WriteColumn(k) \/ WriteRow(k) \/ ReadCount(k) \/ WriteCount(k)
Viewer == DrawLock \/ DrawNext \/ ReadRow \/ ReadColumn \/ PutRobot \/ DrawEnd

RosterNext == Console \/ (\E k \in Robots : RobotRuns(k)) \/ Viewer

RosterSpec == RosterInit /\ [][RosterNext]_rosterVars

-------------------------------------------------------------------------------
\* The increments of the robots that end cost numbers: the k-th robot gets at
\* most 2k - 1, so with half as many robots as the array has places all stay
\* inside it, the viewer too.  No number is given twice, as long as no
\* increment was made on a stale value.
NumbersUsable ==
  /\ \A k \in Added : robot[k].id \in 1..(2 * k - 1)
  /\ 2 * added <= MaxRobots /\ viewer.at \in {"row", "column"} => viewer.i < MaxRobots
  /\ ~ overtaken => \A k, l \in Added : robot[k].id = robot[l].id => k = l

\* The viewer draws a robot where it stands or where none ever stood, never at
\* one coordinate of a robot that is about to write the other.
DrawnWhole == viewer.at = "put" => viewer.seen \in {{}, {"row", "column"}}
===============================================================================
